SPECIFICATION TagSpec
CONSTANTS
    h1 = h1
    Names <- MCNames
    Times <- MCTimes
    Data <- MCData
    Handles <- MCHandles
    TagCount <- MCCount
    MaxOffset = 7
    MaxEntries = 2
    MaxUserData = 2
    MaxTime = 1
    PackAmount = 2
    Changing = {1, 2}
    MaxUnread = 1
    AutoRefresh = FALSE
    Crashes = FALSE
    OldFormat = TRUE
INVARIANTS
    NeedPackCoversHoles
    PackNotLate
PROPERTIES
    JobEnds
