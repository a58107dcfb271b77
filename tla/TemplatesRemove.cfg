SPECIFICATION MCSpec
CONSTANTS
    Files = {1, 2, 3}
    Local = {}
    Text <- MCText
    MaxTime = 3
    MaxCommands = 1
PROPERTIES
    RemoveTakesSelected
