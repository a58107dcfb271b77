SPECIFICATION Spec
CONSTANTS
    a = a
    b = b
    Files <- MCFiles
    Inside <- MCInside
    CancelIn = {}
    MayFail = FALSE
    MaxClock = 3
    MaxVersion = 2
    MaxList = 3
INVARIANTS
    TagsOfOwnFile
