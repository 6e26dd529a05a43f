SPECIFICATION Spec
CONSTANTS
    Nil = Nil
    MaxOps = 1
    MaxDeletes = 2
    MaxHistory = 1
    MaxProgress = 0
    MaxLag = 2
    MaxStale = 2
    MaxCrashes = 0
    MaxLostReplies = 1
INVARIANTS
    PendingNotCompleted
PROPERTIES
    NoOrphanedResources
CHECK_DEADLOCK FALSE
