SPECIFICATION Spec
CONSTANTS
    Procs = {p1, p2}
    Uuids <- MCUuids
    KeyLen <- MCKeyLen
    Head <- MCHead
    Junk = {j1, j2}
    NoJunk = NoJunk
    MaxReaders = 2
    Ops = {"insert", "list"}
    MaxCalls = 2
    MaxOpens = 2
    NoProc = NoProc
    Dead = Dead
    Stale = Stale
INVARIANTS
    OneTransactionPerThread
