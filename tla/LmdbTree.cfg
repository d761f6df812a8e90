CONSTANTS
    Keys = {1, 2, 3, 4, 5, 6, 7, 8}
    Vals = {"big", "small"}
    Cursors = {1, 2}
    Ksz <- MCKsz
    Dsz <- MCDsz
    Cap = 8
    Levels = 5
    Loads <- MCLoads
    MaxOps = 3
SPECIFICATION Spec
CHECK_DEADLOCK FALSE
INVARIANTS TreeSound
PROPERTY IsOrderedMap
