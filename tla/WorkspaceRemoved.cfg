SPECIFICATION MCSpec
CONSTANTS
    Tree <- MCTree
    Written <- MCWritten
    Sources <- MCSources
    Projects <- MCProjects
    Solutions = {5}
    Workspace = 5
    Extra = 2
    Lists <- MCLists
    Deletable = {}
    Used = {}
PROPERTY
    RemovedProjectsGone
