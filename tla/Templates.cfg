SPECIFICATION MCSpec
CONSTANTS
    Files = {1, 2}
    Local = {1}
    Text <- MCText
    MaxTime = 3
    MaxCommands = 6
INVARIANTS
    TemplatesTypeOK
    ChoiceKept
    BlocksKept
    BranchesChosen
PROPERTIES
    TemplatesCurrent
