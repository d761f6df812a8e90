SPECIFICATION FairSpec
CONSTANTS
    Chars = {"a", " ", "n", "/"}
    Slash = "/"
    Space = " "
    Newline = "n"
    NUL = "0"
    Junk = "?"
    LINENOISE_MAX_LINE = 4
    history_max_len = 3
    PLen = 1
    Cols = 3
    MaxKeys = 5
    Histories <- MCHistories
    Commands <- MCCommands
    ArgcMod = 4
INVARIANTS
    EditorSound
    ScreenRight
    SplitRight
    HistoryPersists
PROPERTIES
    SplitEnds
    KeysEdit
CHECK_DEADLOCK FALSE
