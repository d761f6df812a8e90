SPECIFICATION FairSpec
CONSTANTS
    MaxDrops = 2
    MaxMsgs = 2
INVARIANTS
    Handshake
    Resubscribed
PROPERTIES
    RejectionEndsLoop
    ShellOrLoopEnded
