SPECIFICATION MCSpec
CONSTANTS
    Tree <- MCTree
    Written <- MCWritten
    Sources <- MCSources
    Projects <- MCProjects
    Solutions = {5}
    Workspace = 5
    Extra = 2
    Lists <- MCLists
    Deletable = {3}
    Used = {4}
INVARIANTS
    WorkspaceTypeOK
    RefsExact
    OneFilePerName
    ListsCurrent
    GlobFindsAll
PROPERTIES
    RefreshedLists
    RefreshEnds
