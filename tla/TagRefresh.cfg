SPECIFICATION Spec
CONSTANTS
    a = a
    b = b
    Files <- MCFiles
    Inside = {}
    CancelIn = {"read", "parse"}
    MayFail = TRUE
    MaxClock = 3
    MaxVersion = 2
    MaxList = 3
INVARIANTS
    RefreshTypeOK
    TagsRecover
    SavesTheTags
    TagsNotStale
