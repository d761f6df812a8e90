SPECIFICATION Spec
CONSTANTS
    Lists = {l1, l2}
    Nodes = {x1, x2, x3}
    Values = {v1, v2}
    MaxIndex = 4
    NULL = NULL
    Freed = Freed
    IdMax = 4
    IdlMax = 3
    SMALL = 2
    Grain = 4
    MaxIdl = 6
    RProcs = {p1, p2}
    Pids = {1, 2}
    me_maxreaders = 2
    MaxStarts = 4
    Names = {"a", "b"}
    me_maxdbs = 2
    MaxNest = 3
    MaxSeq = 4
    Plain <- MCPlain
    Dupsort <- MCDupsort
    ka = ka
    kb = kb
    Src <- MCSrc
    SrcRoots = {0, 1, 9}
    WBuf = 2
    CKeys = {ka, kb}
    MaxCommits = 3
    ZThreads = {t1, t2}
    Blocks = {b1, b2, b3}
    Sizes = {1, 3}
    MaxLost = 4
    KProcs = {k1, k2}
    Paths <- MCPaths
    Before <- MCBefore
    Files = {"a", "b"}
INVARIANTS
    ListsSound
    MidlRight
    SlotsKept
    StaleCleared
    HandlesRight
    DropExact
    AsIsFaithful
    CopyFaithful
    UsedExact
    DirectoryMade
PROPERTIES
    ListsAreSequences
    CopyReturns
