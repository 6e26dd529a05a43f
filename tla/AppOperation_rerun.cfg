SPECIFICATION Spec
CONSTANTS
    Nil = Nil
    MaxOps = 2
    MaxDeletes = 1
    MaxHistory = 1
    MaxProgress = 0
    MaxLag = 2
    MaxStale = 2
    MaxCrashes = 0
    MaxLostReplies = 0
INVARIANTS
    StartedOnce
CHECK_DEADLOCK FALSE
