SPECIFICATION Spec
CONSTANTS
    Nil = Nil
    MaxOps = 1
    MaxDeletes = 0
    MaxHistory = 1
    MaxProgress = 0
    MaxLag = 1
    MaxStale = 0
    MaxCrashes = 0
    MaxLostReplies = 0
PROPERTIES
    TerminatingNotClobbered
CHECK_DEADLOCK FALSE
