SPECIFICATION TagSpec
CONSTANTS
    h1 = h1
    Names <- MCNames
    Times <- MCTimes
    Data <- MCData
    Handles <- MCHandles
    TagCount <- MCCount
    MaxOffset = 7
    MaxEntries = 2
    MaxUserData = 2
    MaxTime = 2
    PackAmount = 2
    Changing = {1}
    MaxUnread = 1
    AutoRefresh = TRUE
    Crashes = TRUE
    OldFormat = FALSE
INVARIANTS
    TagTypeOK
    TagsMatchTime
    FilesDisjoint
PROPERTIES
    SaveIsDurable
    NeverLies
