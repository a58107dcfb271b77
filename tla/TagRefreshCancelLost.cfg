SPECIFICATION Spec
CONSTANTS
    a = a
    b = b
    Files <- MCFiles
    Inside = {}
    CancelIn = {"parse"}
    MayFail = FALSE
    MaxClock = 3
    MaxVersion = 2
    MaxList = 3
INVARIANTS
    TagsUpToDate
