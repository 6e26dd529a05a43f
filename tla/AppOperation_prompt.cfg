SPECIFICATION Spec
CONSTANTS
    Nil = Nil
    MaxOps = 2
    MaxDeletes = 1
    MaxHistory = 2
    MaxProgress = 0
    MaxLag = 2
    MaxStale = 1
    MaxCrashes = 1
    MaxLostReplies = 0
INVARIANTS
    TypeOK
    StartedOnce
    InProgressIsRequested
    ResultOfOperation
    SucceededIsRecorded
PROPERTIES
    OperationKept
    HistoryKept
    ImplementsLifecycle
CHECK_DEADLOCK FALSE
