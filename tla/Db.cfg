SPECIFICATION FairSpec
CONSTANTS
    Procs = {p1, p2}
    Uuids <- MCUuids
    KeyLen <- MCKeyLen
    Head <- MCHead
    Junk = {j1, j2}
    NoJunk = NoJunk
    MaxReaders = 2
    Ops = {"insert", "get", "list"}
    MaxCalls = 3
    MaxOpens = 4
    NoProc = NoProc
    Dead = Dead
    Stale = Stale
INVARIANTS
    LockRegionSound
    ReadersReturn
    NoRecordLost
PROPERTIES
    OnlyLeaksBlock
