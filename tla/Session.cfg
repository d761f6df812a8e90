SPECIFICATION FairSpec
CONSTANTS
    Users = {"u1", "u2"}
    Names = {"a", "b"}
    Dirs = {"home", "sub"}
    Home = "home"
    Content <- MCContent
    Spelling <- MCSpelling
    NodeUuid <- MCUnknow
    KEYLEN = 2
    STRSIZE = 4
    Lines <- MCLines
    MaxLines = 4
    MaxStarts = 2
    Null = Null
    Absent = Absent
INVARIANTS
    CommandState
    CrashExplained
    LocalImpliesRemote
    EncryptedIsRecorded
PROPERTIES
    CommandsReturn
CHECK_DEADLOCK FALSE
