---------------------------- MODULE MCSyncContext ----------------------------
(***************************************************************************)
(* Hooks for the model checker: each stage, hooks of two stages, a named   *)
(* and a generated one, each deletion policy, one that does not run, one   *)
(* that is also skipped.                                                   *)
(***************************************************************************)
EXTENDS SyncContext

Attr(types, runnable, policy, generated) ==
    [types |-> types, runnable |-> runnable, policy |-> policy,
     generated |-> generated]

migrate == Attr({"PreSync"}, TRUE, {"HookSucceeded"}, TRUE)
twice == Attr({"PreSync", "PostSync"}, TRUE, {"HookSucceeded"}, FALSE)
deploy == Attr({"Sync"}, TRUE, {"HookFailed"}, TRUE)
test == Attr({"PostSync"}, TRUE, {}, TRUE)
config == Attr({"Sync", "PostSync"}, FALSE, {"HookSucceeded"}, TRUE)
again == Attr({"PreSync", "Sync"}, TRUE, {"HookSucceeded"}, FALSE)
skipped == Attr({"PreSync", "Sync", "Skip"}, FALSE, {}, FALSE)

MCHookLists ==
    {<<migrate, test>>, <<deploy, migrate>>, <<twice, config>>, <<test, deploy>>,
     <<again, config>>, <<config, skipped>>}

MCTargetSets == {{}, {"skip"}, {"apply", "skip"}}

MCSyncOperations ==
    {[strategy |-> "Apply", dryRun |-> FALSE, prune |-> FALSE],
     [strategy |-> "Apply", dryRun |-> FALSE, prune |-> TRUE],
     [strategy |-> "Hook", dryRun |-> FALSE, prune |-> TRUE],
     [strategy |-> "Hook", dryRun |-> TRUE, prune |-> TRUE]}
=============================================================================
