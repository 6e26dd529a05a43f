SPECIFICATION FairSpec
CONSTANTS
    none = none
    None = none
    Paths <- MCPaths
    Overrides <- MCOverrides
    Commits <- MCCommits
    Worlds <- MCWorlds
    MaxClusterEvents = 2
INVARIANTS
    TypeOK
    DriftNoticed
PROPERTIES
    RestIsKept
    StatusConverges
    RefreshReturns
    AutoSyncSettles
CHECK_DEADLOCK FALSE
