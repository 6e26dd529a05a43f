SPECIFICATION FairSpec
CONSTANTS
    Nil = Nil
    MaxOps = 1
    MaxDeletes = 1
    MaxHistory = 1
    MaxProgress = 0
    MaxLag = 1
    MaxStale = 1
    MaxCrashes = 1
    MaxLostReplies = 0
PROPERTIES
    OperationCompletes
    DeletionCompletes
CHECK_DEADLOCK FALSE
