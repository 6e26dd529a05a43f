SPECIFICATION FairSpec
CONSTANTS
    NumHooks = 2
    HookLists <- MCHookLists
    TargetSets <- MCTargetSets
    SyncOperations <- MCSyncOperations
    MaxCrashes = 1
INVARIANTS
    TypeOK
    SucceededMeansDone
    DryRunIsDry
    AppliedOnce
    HookRunOnce
    TerminateStopsHooks
PROPERTIES
    PreSyncFirst
    PostSyncLast
    OperationEnds
CHECK_DEADLOCK FALSE
