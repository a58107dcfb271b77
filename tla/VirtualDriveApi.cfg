SPECIFICATION Spec
CONSTANTS
    h1 = h1
    x = x
    Names <- MCNames
    Times <- MCTimes
    Data <- MCData
    Handles <- MCHandles1
    MaxOffset = 1
    MaxEntries = 2
    MaxUserData = 0
INVARIANTS
    TypeOK
    MapSound
    PackKeepsContents
    PackLeavesNoHole
