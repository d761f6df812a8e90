SPECIFICATION Spec
CONSTANTS
    Keys = {k1, k2}
    MAXFILESIZE = 48
    Files <- SmallFiles
    MaxRuns = 3
INVARIANTS
    BlocksFollowRuns
    RunsKeepMixture
    LimitKept
