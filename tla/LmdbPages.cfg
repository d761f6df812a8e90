SPECIFICATION Spec
CONSTANTS
    k1 = k1
    k2 = k2
    r1 = r1
    Keys = {k1, k2}
    PagesOf <- MCPagesOf
    Readers = {}
    MDB_IDL_UM_MAX = 9
    me_maxpg = 24
    NodeIds = 2
    me_maxfree_1pg = 3
    MaxTxn = 4
    MaxOps = 6
    MaxDepth = 2
    MaxFaults = 0
    MaxReads = 0
    MaxTurns = 8
INVARIANTS
    FreeListKept
    WriterRight
CHECK_DEADLOCK FALSE
