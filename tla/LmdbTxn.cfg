SPECIFICATION Spec
CONSTANTS
    k1 = k1
    k2 = k2
    r1 = r1
    Keys = {k2}
    PagesOf <- MCPagesOf
    Readers = {r1}
    MDB_IDL_UM_MAX = 9
    me_maxpg = 14
    NodeIds = 2
    me_maxfree_1pg = 3
    MaxTxn = 4
    MaxOps = 5
    MaxDepth = 1
    MaxFaults = 2
    MaxReads = 1
    MaxTurns = 8
INVARIANTS
    SnapshotsKept
    ReadersRespected
CHECK_DEADLOCK FALSE
