SPECIFICATION Spec
CONSTANTS
    NumHooks = 2
    HookLists <- MCHookLists
    TargetSets <- MCTargetSets
    SyncOperations <- MCSyncOperations
    MaxCrashes = 1
INVARIANT
    HooksAreRun
CHECK_DEADLOCK FALSE
