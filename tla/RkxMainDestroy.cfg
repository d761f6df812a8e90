SPECIFICATION Spec
CONSTANTS
    MaxDrops = 2
    MaxMsgs = 2
INVARIANTS
    LoopUntilDisconnect
