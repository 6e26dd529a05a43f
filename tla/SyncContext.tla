----------------------------- MODULE SyncContext -----------------------------
(***************************************************************************)
(* A sync operation as the repeated passes of SyncAppState perform it: the *)
(* dry run, the apply of the manifests and the PreSync, Sync and PostSync  *)
(* hooks.  A pass works on its own copy of the operation state and stores  *)
(* it when it ends; between its steps the hooks' objects end, the          *)
(* operation is terminated, or the controller stops and the next pass      *)
(* starts from what was stored before.                                     *)
(*                                                                         *)
(* A runHook, a doApplySync and a terminate are steps: a crash within one  *)
(* leaves the cluster as some outcome of the step, and the copy is lost.   *)
(***************************************************************************)
EXTENDS Integers, FiniteSets

CONSTANTS
    NumHooks,       \* how many hooks the manifests have
    HookLists,      \* the hooks that manifests can have
    TargetSets,     \* the objects of the manifests, hooks left out
    SyncOperations, \* the operations that can be requested
    MaxCrashes      \* bound: controller restarts

Stages == {"PreSync", "Sync", "PostSync"}
HookAttr ==
    [types : SUBSET (Stages \union {"Skip"}), runnable : BOOLEAN,
     policy : SUBSET {"HookSucceeded", "HookFailed"}, generated : BOOLEAN]
Hooks == 1..NumHooks            \* in the order of the manifests
HookKeys == Hooks \X Stages

\* The names of hook objects: a generated name depends on the hook type.
Objects == Hooks \X (Stages \union {"any"})

\* An object of the manifests, and one that is annotated with Skip; a task is
\* such an object, or a live one to prune, which has no manifest.
Targets == {"apply", "skip"}
Tasks == Targets \union {"prune"}
Operations == [strategy : {"Apply", "Hook"}, dryRun : BOOLEAN, prune : BOOLEAN]
Statuses == {"Running", "Succeeded", "Failed", "Error"}

\* OperationState; a hook without a status is "none".
OperationState ==
    [phase : Statuses \union {"Terminating"},
     hooks : [HookKeys -> Statuses \union {"none"}],
     resources : SUBSET (Tasks \union {"skipped"}),
     terminated : BOOLEAN]

ASSUME ConstantsAssumption ==
    /\ NumHooks \in Nat /\ MaxCrashes \in Nat
    /\ HookLists \subseteq [Hooks -> HookAttr]
    /\ TargetSets \subseteq SUBSET Targets
    /\ SyncOperations \subseteq Operations

VARIABLES
    hook,       \* the hooks of the manifests
    targets,    \* the other objects of the manifests
    op,         \* the operation
    saved,      \* the operation state of the application
    cur,        \* the pass's copy of it
    pc,         \* where the pass is
    tasks,      \* its sync tasks, until they have been applied
    stage,      \* the hook type runHooks is called with
    next,       \* the next hook of runHooks
    cont,       \* shouldContinue of runHooks
    fresh,      \* this pass has applied the manifests
    seen,       \* the application was healthy when the pass compared it
    obj,        \* the hooks' objects in the cluster
    applied,    \* the tasks done in the cluster
    crashes,
    created, succ, made, orphans, applies   \* history variables, see below

\* created: how often each object was made; succ: the objects whose latest
\* run succeeded; made: the objects this pass made; orphans: the objects a
\* pass made that did not end; applies: how often the manifests were applied.
history == <<created, succ, made, orphans, applies>>
manifests == <<hook, targets, op>>
pass == <<cur, pc, tasks, stage, next, cont, fresh, seen>>
cluster == <<obj, applied>>
vars == <<manifests, saved, pass, cluster, crashes, history>>
-----------------------------------------------------------------------------
Completed(phase) == phase \in {"Succeeded", "Failed", "Error"}

isHookType(h, t) == t \in hook[h].types

Obj(h, t) == IF hook[h].generated THEN <<h, t>> ELSE <<h, "any">>

startedPreSyncPhase(s) ==
    s.resources # {} \/ \E k \in HookKeys : s.hooks[k] # "none"

\* Fault: the resource list is not looked at.
startedSyncPhase_OnlyHooks(s) ==
    \E k \in HookKeys : k[2] \in {"Sync", "PostSync"} /\ s.hooks[k] # "none"

startedSyncPhase(s) ==
    \/ s.resources # {}
    \/ \E k \in HookKeys : k[2] \in {"Sync", "PostSync"} /\ s.hooks[k] # "none"

startedPostSyncPhase(s) ==
    \E k \in HookKeys : k[2] = "PostSync" /\ s.hooks[k] # "none"

\* The pass ends with the copy s, to be stored.
EndPass(s) ==
    /\ cur' = s
    /\ pc' = "store" /\ tasks' = {}
    /\ UNCHANGED <<stage, next, cont, fresh>>

\* The pass goes on with the copy s.
Goto(label, s) ==
    /\ cur' = s
    /\ pc' = label
    /\ UNCHANGED <<tasks, stage, next, cont, fresh>>

SetPhase(s, phase) == [s EXCEPT !.phase = phase]
-----------------------------------------------------------------------------
(* SyncAppState and sync.                                                  *)

\* Where sync goes after the dry run.
Strategy == IF op.strategy = "Apply" THEN "apply" ELSE "verify"

\* The tasks of a pass are made from its own comparison: the manifests are
\* those of the revision the first pass has recorded, the live objects are
\* those of now.  One that has no manifest may have been pruned, by this
\* operation or by others, may still be going away, or be new.
generateSyncTasks == {targets, targets \union {"prune"}}

\* The comparison, which also shows the health, and what is decided before
\* anything is done.  It fails when the manifests, the live objects, the
\* cluster or the project cannot be read, also for a terminating operation.
SyncAppState ==
    /\ pc = "idle" /\ ~Completed(saved.phase)
    /\ seen' \in BOOLEAN
    /\ \/ EndPass(SetPhase(saved, "Error"))
       \/ /\ saved.phase = "Terminating"
          /\ Goto("terminate", saved)
       \/ /\ saved.phase = "Running"
          /\ {} \in generateSyncTasks
          /\ EndPass(SetPhase(saved, "Succeeded"))
       \/ /\ saved.phase = "Running"
          /\ tasks' \in generateSyncTasks \ {{}}
          /\ pc' = IF startedPreSyncPhase(saved) THEN Strategy ELSE "dryrun"
          /\ cur' = saved
          /\ UNCHANGED <<stage, next, cont, fresh>>
    /\ UNCHANGED <<manifests, saved, cluster, crashes, history>>

\* Fault: a dry-run operation goes on with the sync.
DryRun_NoReturn ==
    /\ pc = "dryrun"
    /\ \E failed \in SUBSET (tasks \ {"prune"}) :
          LET s == [cur EXCEPT !.resources =
                      @ \union (IF op.dryRun THEN tasks ELSE failed)]
          IN  IF failed # {} THEN EndPass(SetPhase(s, "Failed"))
                             ELSE Goto(Strategy, s)
    /\ UNCHANGED <<manifests, saved, seen, cluster, crashes, history>>

\* doApplySync with dryRun: nothing changes.  Failures are always recorded,
\* successes only for a dry-run operation.
DryRun ==
    /\ pc = "dryrun"
    /\ \E failed \in SUBSET (tasks \ {"prune"}) :
          LET s == [cur EXCEPT !.resources =
                      @ \union (IF op.dryRun THEN tasks ELSE failed)]
          IN  \/ /\ failed # {}
                 /\ EndPass(SetPhase(s, "Failed"))
              \/ /\ failed = {} /\ op.dryRun
                 /\ EndPass(SetPhase(s, "Succeeded"))
              \/ /\ failed = {} /\ ~op.dryRun
                 /\ Goto(Strategy, s)
    /\ UNCHANGED <<manifests, saved, seen, cluster, crashes, history>>

\* doApplySync of the tasks ts: those of failed fail, an object to prune
\* stays unless the operation prunes.
doApplySync(ts, failed) ==
    /\ failed \subseteq (IF op.prune THEN ts ELSE ts \ {"prune"})
    /\ applied' = applied \union
                    {t \in ts \ failed : t = "prune" => op.prune}
    /\ applies' = IF ts = {} THEN applies ELSE applies + 1
    /\ UNCHANGED <<obj, created, succ, made, orphans>>

\* The apply strategy: the pass after the apply ends the operation.
ApplyStrategy ==
    /\ pc = "apply"
    /\ \/ /\ ~startedSyncPhase(cur)
          /\ \E failed \in SUBSET tasks :
                LET s == [cur EXCEPT !.resources = @ \union tasks] IN
                /\ doApplySync(tasks, failed)
                /\ EndPass(IF failed = {} THEN s ELSE SetPhase(s, "Failed"))
       \/ /\ startedSyncPhase(cur)
          /\ EndPass(SetPhase(cur, "Succeeded"))
          /\ UNCHANGED <<cluster, history>>
    /\ UNCHANGED <<manifests, saved, seen, crashes>>
-----------------------------------------------------------------------------
(* doHookSync.                                                             *)

\* runHooks is called for the stage t.
RunHooks(t) ==
    /\ pc' = "hooks" /\ stage' = t /\ next' = 1 /\ cont' = TRUE
    /\ tasks' = IF t = "PreSync" THEN tasks ELSE {}

\* Discovery can fail (Error), the project can refuse a hook (Failed).
verifyPermittedHooks ==
    /\ pc = "verify"
    /\ \/ RunHooks("PreSync") /\ fresh' = FALSE /\ UNCHANGED cur
       \/ /\ ~startedPreSyncPhase(cur)
          /\ \E p \in {"Error", "Failed"} : EndPass(SetPhase(cur, p))
    /\ UNCHANGED <<manifests, saved, seen, cluster, crashes, history>>

\* Fault: a phase of the object that is not known leaves the status empty.
newHookStatus_Unmapped(h, live) ==
    IF hook[h].runnable THEN IF live = "Error" THEN "" ELSE live ELSE "Succeeded"

newHookStatus(h, live) == IF hook[h].runnable THEN live ELSE "Succeeded"

enforceHookDeletePolicy(h, status) ==
    \/ status = "Succeeded" /\ "HookSucceeded" \in hook[h].policy
    \/ status = "Failed" /\ "HookFailed" \in hook[h].policy

\* updateHookStatus always reports a change: it compares a pointer to a
\* status with a status.
updateHookStatus(h, status) ==
    /\ cur' = [cur EXCEPT !.hooks[<<h, stage>>] = status]
    /\ cont' = FALSE

\* The objects once the object of hook h exists; only a job, a workflow or
\* a pod runs.
ApplyResource(h) ==
    LET o == Obj(h, stage) IN
    IF obj[o] # "absent" THEN obj
    ELSE [obj EXCEPT ![o] = IF hook[h].runnable THEN "Running" ELSE "Succeeded"]

\* The history of hook h's object, which is made unless it exists.
Made(h) ==
    LET o == Obj(h, stage) IN
    IF obj[o] # "absent" THEN UNCHANGED <<created, succ, made>>
    ELSE /\ created' = [created EXCEPT ![o] = @ + 1]
         /\ made' = made \union {o}
         /\ succ' = IF hook[h].runnable THEN succ \ {o} ELSE succ \union {o}

\* Fault: only a hook that succeeded is done.
HookDone_OnlySucceeded(h) == cur.hooks[<<h, stage>>] = "Succeeded"

\* Fault: runHook does not look at the status it has recorded.
HookDone_Never(h) == FALSE

\* The hook was completed by an earlier pass.
HookDone(h) == Completed(cur.hooks[<<h, stage>>])

\* A failure to find or to make the object, also after it was made, is an
\* error; a hook whose object cannot be deleted is Failed.
runHook(h) ==
    LET o == Obj(h, stage)
        live == ApplyResource(h)
        status == newHookStatus(h, live[o])
        HookError == cur' = SetPhase(cur, "Error") /\ pc' = "store" /\ UNCHANGED cont
    IN
    \/ /\ HookDone(h)
       /\ UNCHANGED <<cur, pc, cont, obj, created, succ, made>>
    \/ /\ ~HookDone(h)
       /\ HookError
       /\ \/ UNCHANGED <<obj, created, succ, made>>
          \/ obj[o] = "absent" /\ Made(h) /\ obj' = live
    \/ /\ ~HookDone(h)
       /\ Made(h)
       /\ \/ /\ ~enforceHookDeletePolicy(h, status)
             /\ obj' = live
             /\ updateHookStatus(h, status)
          \/ /\ enforceHookDeletePolicy(h, status)
             /\ \/ obj' = [live EXCEPT ![o] = "absent"] /\ updateHookStatus(h, status)
                \/ obj' = live /\ updateHookStatus(h, "Failed")
       /\ UNCHANGED pc

\* One hook of runHooks' loop.
RunHook ==
    /\ pc = "hooks" /\ next \in Hooks
    /\ next' = next + 1
    /\ \/ /\ stage = "Sync" /\ isHookType(next, "Skip")
          /\ cur' = [cur EXCEPT !.resources = @ \union {"skipped"}]
          /\ UNCHANGED <<pc, cont, obj, created, succ, made>>
       \/ /\ ~(stage = "Sync" /\ isHookType(next, "Skip"))
          /\ ~isHookType(next, stage)
          /\ UNCHANGED <<cur, pc, cont, obj, created, succ, made>>
       \/ /\ ~(stage = "Sync" /\ isHookType(next, "Skip"))
          /\ isHookType(next, stage)
          /\ runHook(next)
    /\ UNCHANGED <<manifests, saved, tasks, stage, fresh, seen, applied,
                   crashes, orphans, applies>>

areHooksCompleted(t) == \A h \in Hooks : cur.hooks[<<h, t>>] # "Running"

\* Fault: an error is not a failure.
areHooksSuccessful_NotFailed(t) ==
    \A h \in Hooks : cur.hooks[<<h, t>>] # "Failed"

areHooksSuccessful(t) ==
    \A h \in Hooks : cur.hooks[<<h, t>>] \in {"none", "Succeeded"}

\* The end of runHooks, and where doHookSync goes on.  Hooks that are not
\* completed, or whose status changed, end the pass, and so does an apply.
RunHooksDone ==
    /\ pc = "hooks" /\ next \notin Hooks
    /\ \/ /\ ~(cont /\ areHooksCompleted(stage))
          /\ EndPass(cur)
       \/ /\ cont /\ areHooksCompleted(stage) /\ ~areHooksSuccessful(stage)
          /\ EndPass(SetPhase(cur, "Failed"))
       \/ /\ cont /\ areHooksCompleted(stage) /\ areHooksSuccessful(stage)
          /\ \/ stage = "PreSync" /\ Goto("nonhook", cur)
             \/ stage = "Sync" /\ fresh /\ EndPass(cur)
             \/ stage = "Sync" /\ ~fresh /\ Goto("health", cur)
             \/ stage = "PostSync" /\ EndPass(SetPhase(cur, "Succeeded"))
    /\ UNCHANGED <<manifests, saved, seen, cluster, crashes, history>>

\* The manifests that no hook annotation takes out are applied, once.
syncNonHookTasks ==
    /\ pc = "nonhook"
    /\ LET ts == tasks \ {"skip"} IN
       \/ /\ startedSyncPhase(cur)
          /\ RunHooks("Sync")
          /\ UNCHANGED <<cur, fresh, cluster, history>>
       \/ /\ ~startedSyncPhase(cur)
          /\ \E failed \in SUBSET ts :
                LET s == [cur EXCEPT !.resources = @ \union ts] IN
                /\ doApplySync(ts, failed)
                /\ IF failed = {}
                   THEN cur' = s /\ fresh' = TRUE /\ RunHooks("Sync")
                   ELSE EndPass(SetPhase(s, "Failed"))
    /\ UNCHANGED <<manifests, saved, seen, crashes>>

\* Fault: the health is not awaited.
AwaitsHealth_Never == FALSE

\* The health decides whether the PostSync hooks run.
AwaitsHealth ==
    /\ \E h \in Hooks : isHookType(h, "PostSync")
    /\ ~startedPostSyncPhase(cur)

\* PostSync hooks start when the comparison of this pass was healthy; the
\* assessment of the health can fail.
CheckHealth ==
    /\ pc = "health"
    /\ \/ AwaitsHealth /\ EndPass(SetPhase(cur, "Error"))
       \/ AwaitsHealth /\ ~seen /\ EndPass(cur)
       \/ /\ AwaitsHealth => seen
          /\ RunHooks("PostSync")
          /\ UNCHANGED <<cur, fresh>>
    /\ UNCHANGED <<manifests, saved, seen, cluster, crashes, history>>

\* Fault: only the Sync hooks are terminated.
RunningHooks_Sync ==
    {k \in HookKeys : /\ cur.hooks[k] = "Running" /\ hook[k[1]].runnable
                      /\ k[2] = "Sync"}

RunningHooks ==
    {k \in HookKeys : cur.hooks[k] = "Running" /\ hook[k[1]].runnable}

\* terminate deletes the objects of the recorded hooks that still run; the
\* deletion of those of kept fails, as it does for an object that is gone.
terminate ==
    /\ pc = "terminate"
    /\ LET objs == {Obj(k[1], k[2]) : k \in RunningHooks} IN
       \E kept \in SUBSET objs :
         /\ {o \in objs : obj[o] = "absent"} \subseteq kept
         /\ obj' = [o \in Objects |->
                      IF o \in objs \ kept THEN "absent" ELSE obj[o]]
         /\ EndPass([phase |-> IF kept = {} THEN "Failed" ELSE "Error",
                     hooks |-> [k \in HookKeys |->
                                  IF k \in RunningHooks THEN "Failed" ELSE cur.hooks[k]],
                     resources |-> cur.resources,
                     terminated |-> kept = {}])
    /\ UNCHANGED <<manifests, saved, seen, applied, crashes, history>>
-----------------------------------------------------------------------------
(* The end of a pass, and what happens beside it.                          *)

NoPass ==
    /\ cur' = saved' /\ pc' = "idle" /\ tasks' = {}
    /\ stage' = "PreSync" /\ next' = 1 /\ cont' = TRUE /\ fresh' = FALSE
    /\ seen' = FALSE /\ made' = {}

\* The deployment history is recorded before a success, and can fail.  A
\* termination requested during the pass is kept, unless it is overwritten
\* (AppOperation has the steps of that).
Store ==
    /\ pc = "store"
    /\ \/ saved' = cur /\ ~(cur.phase = "Running" /\ saved.phase = "Terminating")
       \/ /\ cur.phase = "Succeeded" /\ ~op.dryRun
          /\ saved' = SetPhase(cur, "Error")
       \/ /\ cur.phase = "Running" /\ saved.phase = "Terminating"
          /\ \E p \in {"Terminating", "Running"} : saved' = SetPhase(cur, p)
    /\ NoPass
    /\ UNCHANGED <<manifests, cluster, crashes, created, succ, orphans, applies>>

Restart ==
    /\ pc # "idle" /\ crashes < MaxCrashes
    /\ crashes' = crashes + 1
    /\ orphans' = orphans \union made
    /\ UNCHANGED saved
    /\ NoPass
    /\ UNCHANGED <<manifests, cluster, created, succ, applies>>

TerminateOperation ==
    /\ saved.phase = "Running"
    /\ saved' = SetPhase(saved, "Terminating")
    /\ UNCHANGED <<manifests, pass, cluster, crashes, history>>

\* A job, a workflow or a pod ends.
FinishHook(o) ==
    /\ obj[o] = "Running"
    /\ \E status \in {"Succeeded", "Failed", "Error"} :
          /\ obj' = [obj EXCEPT ![o] = status]
          /\ succ' = IF status = "Succeeded" THEN succ \union {o} ELSE succ
    /\ UNCHANGED <<manifests, saved, pass, applied, crashes, created,
                   made, orphans, applies>>
-----------------------------------------------------------------------------
\* What earlier operations leave: objects of hooks that have a name.
Leftovers ==
    {o \in Objects : o[2] = "any" /\ ~hook[o[1]].generated}

\* The operation was just accepted (InitializeOperation of AppOperation).
Init ==
    /\ hook \in HookLists /\ targets \in TargetSets /\ op \in SyncOperations
    /\ saved = [phase |-> "Running", hooks |-> [k \in HookKeys |-> "none"],
                resources |-> {}, terminated |-> FALSE]
    /\ cur = saved /\ pc = "idle" /\ tasks = {}
    /\ stage = "PreSync" /\ next = 1 /\ cont = TRUE /\ fresh = FALSE
    /\ seen = FALSE
    /\ \E left \in SUBSET Leftovers :
          /\ obj = [o \in Objects |->
                      IF o \notin left THEN "absent"
                      ELSE IF hook[o[1]].runnable THEN "Running" ELSE "Succeeded"]
          /\ succ = {o \in left : ~hook[o[1]].runnable}
          /\ orphans = left
    /\ applied = {} /\ crashes = 0
    /\ created = [o \in Objects |-> 0] /\ made = {} /\ applies = 0

Pass ==
    \/ SyncAppState \/ DryRun \/ ApplyStrategy \/ verifyPermittedHooks
    \/ RunHook \/ RunHooksDone \/ syncNonHookTasks \/ CheckHealth
    \/ terminate \/ Store

Next ==
    \/ Pass
    \/ Restart \/ TerminateOperation
    \/ \E o \in Objects : FinishHook(o)

Spec == Init /\ [][Next]_vars

\* The worker goes on with the operation (OperationCompletes of AppOperation
\* has the queue), and jobs, workflows and pods end.
Fairness ==
    /\ WF_vars(Pass)
    /\ \A o \in Objects : WF_vars(FinishHook(o))

FairSpec == Spec /\ Fairness
-----------------------------------------------------------------------------
(* Properties.                                                             *)

\* The operation state, its copy, the cluster and the bounds keep their types.
TypeOK ==
    /\ hook \in HookLists /\ targets \in TargetSets /\ op \in SyncOperations
    /\ saved \in OperationState /\ cur \in OperationState
    /\ pc \in {"idle", "dryrun", "apply", "verify", "hooks", "nonhook",
               "health", "terminate", "store"}
    /\ tasks \subseteq Tasks
    /\ stage \in Stages /\ next \in 1..(NumHooks + 1)
    /\ {cont, fresh, seen} \subseteq BOOLEAN
    /\ obj \in [Objects -> Statuses \union {"absent"}] /\ applied \subseteq Tasks
    /\ crashes \in 0..MaxCrashes
    /\ created \in [Objects -> Nat] /\ applies \in Nat
    /\ succ \subseteq Objects /\ made \subseteq Objects /\ orphans \subseteq Objects

\* What an operation has to do by its manifests and by the resources that its
\* state s lists: a hook strategy leaves out those annotated with Skip, and
\* nothing is pruned unless asked for.
Effective(s) ==
    {t \in targets \union (s.resources \ {"skipped"}) :
        /\ t = "skip" => op.strategy = "Apply"
        /\ t = "prune" => op.prune}

\* The hooks of stage t that run.
Running(t) ==
    {h \in Hooks : isHookType(h, t) /\ ~(t = "Sync" /\ isHookType(h, "Skip"))}

\* The hooks whose object has one name, also for the later stage t: their latest
\* run can be that of t.
RunsAgain(t) == {h \in Running(t) : ~hook[h].generated}

\* doHookSync: nothing is applied and no Sync hook is made before the latest
\* run of every PreSync hook has succeeded in the cluster, whatever was
\* lost with a pass that did not end.
PreSyncFirst ==
    [][op.strategy = "Hook"
         /\ (applied' # applied \/ (created' # created /\ stage = "Sync"))
       => \A h \in Running("PreSync") \ RunsAgain("Sync") : Obj(h, "PreSync") \in succ]_vars

\* doHookSync: a PostSync hook is made only after a successful apply and
\* successful Sync hooks, by a pass that saw the application healthy and that
\* did not itself apply the manifests.  (A hook that its policy deleted is made
\* again, healthy or not, when the pass that saw it succeed was lost.)
PostSyncLast ==
    [][created' # created /\ stage = "PostSync"
       => /\ seen \/ startedPostSyncPhase(saved)
          /\ ~fresh
          /\ Effective(saved) \subseteq applied
          /\ \A h \in Running("Sync") \ RunsAgain("PostSync") : Obj(h, "Sync") \in succ]_vars

\* sync: an operation that succeeds has applied every object of its manifests
\* and pruned what its result lists, and the latest run of each of its hooks
\* succeeded.  The hooks are excepted when the manifests have nothing else: a
\* pass that finds no task, and one after a prune finds none, succeeds at once,
\* whatever its hooks do.
SucceededMeansDone ==
    saved.phase = "Succeeded" /\ ~op.dryRun =>
        /\ Effective(saved) \subseteq applied
        /\ op.strategy = "Hook" /\ targets # {} =>
              \A t \in Stages : \A h \in Running(t) : Obj(h, t) \in succ

\* sync: a dry-run operation changes nothing in the cluster, over all its
\* passes.
DryRunIsDry ==
    op.dryRun => applied = {} /\ \A o \in Objects : created[o] = 0

\* "We only want to do this once per operation": the manifests are applied
\* again only after a pass was lost to a restart.
AppliedOnce == applies <= 1 + crashes

\* runHook, "idempotent": each restart costs at most one more run of a hook,
\* deleted by its policy or not.
HookRunOnce ==
    \A h \in Hooks :
        /\ \A t \in Stages : created[<<h, t>>] <= 1 + crashes
        /\ created[<<h, "any">>] <= Cardinality(hook[h].types \ {"Skip"}) + crashes

\* terminate: a terminated operation leaves no hook running but those of
\* passes that were lost to a restart, or of earlier operations.
TerminateStopsHooks ==
    saved.terminated => \A o \in Objects : obj[o] = "Running" => o \in orphans

\* Only objects annotated with Skip, and no Sync hook: without a prune nothing
\* is ever recorded that shows the Sync stage started, and every pass ends there.
OnlySkipped ==
    /\ op.strategy = "Hook" /\ ~op.dryRun /\ targets = {"skip"}
    /\ \A h \in Hooks : ~isHookType(h, "Sync") /\ ~isHookType(h, "Skip")

\* SyncAppState: an operation ends once every comparison is healthy and its
\* hooks end, through restarts; OnlySkipped is the exception the code has.
OperationEnds ==
    <>[](pc # "idle" => seen) /\ ~OnlySkipped => <>Completed(saved.phase)

\* docs/resource_hooks.md: during a sync operation the hook is created at its
\* stage.  It is not when there is no task, or when its object exists.
HooksAreRun ==
    saved.phase = "Succeeded" /\ ~op.dryRun /\ op.strategy = "Hook" =>
        \A t \in Stages : \A h \in Running(t) : created[Obj(h, t)] > 0
=============================================================================
