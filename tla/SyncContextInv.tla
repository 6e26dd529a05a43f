--------------------------- MODULE SyncContextInv ---------------------------
(***************************************************************************)
(* What the steps of SyncContext do to the operation state, its copy and   *)
(* the cluster, and that they keep the types.  An action is shown to have  *)
(* a shape: the facts about the next state that the proofs use, without    *)
(* its expressions.                                                        *)
(*                                                                         *)
(* Then the parts of the inductive invariant about where a pass is, what   *)
(* it and the passes before it have done, and which runs of the hooks have *)
(* succeeded; each with the proof that every step keeps it.                *)
(***************************************************************************)
EXTENDS SyncContext, TLAPS

-----------------------------------------------------------------------------
(* Operation states.                                                       *)

Phases == Statuses \union {"Terminating"}

\* An operation state has a phase, a status for each hook and stage, and the
\* resources.
LEMMA StateType ==
    ASSUME NEW s \in OperationState
    PROVE  /\ s.phase \in Phases
           /\ s.hooks \in [HookKeys -> Statuses \union {"none"}]
           /\ s.resources \in SUBSET (Tasks \union {"skipped"})
           /\ s.terminated \in BOOLEAN
BY Zenon DEF OperationState, Phases

\* Statuses are those of a hook at a stage.
LEMMA KeyParts ==
    ASSUME NEW k \in HookKeys
    PROVE  \E h \in Hooks, t \in Stages : k = <<h, t>>
BY SMT DEF HookKeys

\* setOperationPhase changes the phase only.
LEMMA WithPhase ==
    ASSUME NEW s \in OperationState, NEW p \in Phases
    PROVE  /\ SetPhase(s, p) \in OperationState
           /\ SetPhase(s, p).phase = p
           /\ SetPhase(s, p).hooks = s.hooks
           /\ SetPhase(s, p).resources = s.resources
           /\ SetPhase(s, p).terminated = s.terminated
BY SMT DEF OperationState, Phases, SetPhase

\* Resource details are added.
LEMMA WithResources ==
    ASSUME NEW s \in OperationState, NEW R \in SUBSET (Tasks \union {"skipped"})
    PROVE  LET r == [s EXCEPT !.resources = @ \union R] IN
           /\ r \in OperationState
           /\ r.phase = s.phase
           /\ r.hooks = s.hooks
           /\ r.resources = s.resources \union R
           /\ r.terminated = s.terminated
BY SMT DEF OperationState

\* Other statuses are recorded.
LEMMA WithHooks ==
    ASSUME NEW s \in OperationState, NEW f \in [HookKeys -> Statuses \union {"none"}]
    PROVE  LET r == [s EXCEPT !.hooks = f] IN
           /\ r \in OperationState
           /\ r.phase = s.phase
           /\ r.hooks = f
           /\ r.resources = s.resources
           /\ r.terminated = s.terminated
BY SMT DEF OperationState

\* The status of a hook is recorded.
LEMMA WithHook ==
    ASSUME NEW s \in OperationState, NEW h \in Hooks, NEW t \in Stages,
           NEW st \in Statuses \union {"none"}
    PROVE  LET r == [s EXCEPT !.hooks[<<h, t>>] = st] IN
           /\ r \in OperationState
           /\ r.phase = s.phase
           /\ r.hooks[<<h, t>>] = st
           /\ \A g \in Hooks : \A u \in Stages :
                 <<g, u>> # <<h, t>> => r.hooks[<<g, u>>] = s.hooks[<<g, u>>]
           /\ r.resources = s.resources
           /\ r.terminated = s.terminated
<1> DEFINE r == [s EXCEPT !.hooks[<<h, t>>] = st]
           f == [s.hooks EXCEPT ![<<h, t>>] = st]
<1>1. <<h, t>> \in HookKeys /\ s.hooks \in [HookKeys -> Statuses \union {"none"}]
  BY StateType, Zenon DEF HookKeys
<1>2. f \in [HookKeys -> Statuses \union {"none"}]
  BY <1>1, Zenon
<1>3. r = [s EXCEPT !.hooks = f]
  BY SMT DEF OperationState
<1>4. f[<<h, t>>] = st
  BY <1>1, Zenon
<1>5. ASSUME NEW g \in Hooks, NEW u \in Stages, <<g, u>> # <<h, t>>
      PROVE  f[<<g, u>>] = s.hooks[<<g, u>>]
  <2>1. <<g, u>> \in HookKeys
    BY Zenon DEF HookKeys
  <2> QED BY <1>1, <1>5, <2>1, Zenon
<1> HIDE DEF f
<1>6. /\ r \in OperationState /\ r.phase = s.phase /\ r.hooks = f
      /\ r.resources = s.resources /\ r.terminated = s.terminated
  <2> HIDE DEF r
  <2> QED BY <1>2, <1>3, WithHooks, Zenon
<1> QED BY <1>4, <1>5, <1>6, Zenon

\* What terminate records.
LEMMA WithTerminated ==
    ASSUME NEW s \in OperationState, NEW f \in [HookKeys -> Statuses \union {"none"}],
           NEW p \in Phases, NEW b \in BOOLEAN
    PROVE  LET r == [phase |-> p, hooks |-> f, resources |-> s.resources, terminated |-> b] IN
           /\ r \in OperationState /\ r.phase = p /\ r.hooks = f
           /\ r.resources = s.resources /\ r.terminated = b
BY StateType, SMT DEF OperationState, Phases
-----------------------------------------------------------------------------
(* What the steps do to the operation state, its copy and the cluster.     *)

ManifestsKept == hook' = hook /\ targets' = targets /\ op' = op
HooksKept ==
    /\ obj' = obj /\ created' = created /\ succ' = succ /\ made' = made /\ orphans' = orphans
ClusterKept == HooksKept /\ applied' = applied /\ applies' = applies
LoopKept == stage' = stage /\ next' = next /\ cont' = cont /\ fresh' = fresh
LoopStarts(t) == stage' = t /\ next' = 1 /\ cont' = TRUE

\* The copy, with other phase and resources.
CopyKept == cur' \in OperationState /\ cur'.hooks = cur.hooks /\ cur'.terminated = cur.terminated

\* A step of a pass, but those of runHook and terminate.
Advances ==
    /\ ManifestsKept /\ HooksKept /\ saved' = saved /\ crashes' = crashes /\ seen' = seen
    /\ CopyKept /\ cur.resources \subseteq cur'.resources

Begins ==
    /\ pc = "idle" /\ ~Completed(saved.phase)
    /\ ManifestsKept /\ ClusterKept /\ LoopKept /\ saved' = saved /\ crashes' = crashes
    /\ seen' \in BOOLEAN
    /\ cur' \in OperationState /\ cur'.hooks = saved.hooks
    /\ cur'.resources = saved.resources /\ cur'.terminated = saved.terminated
    /\ \/ pc' = "store" /\ cur'.phase = "Error"
       \/ pc' = "store" /\ cur'.phase = "Succeeded" /\ targets = {}
       \/ pc' = "terminate" /\ cur'.phase = "Terminating" /\ saved.phase = "Terminating"
       \/ pc' = "dryrun" /\ cur'.phase = "Running" /\ ~startedPreSyncPhase(saved)
       \/ pc' = Strategy /\ cur'.phase = "Running" /\ startedPreSyncPhase(saved)

\* SyncAppState begins a pass, or ends it before anything is done.
LEMMA BeginsPass == ASSUME TypeOK, SyncAppState PROVE Begins
<1>1. /\ pc = "idle" /\ ~Completed(saved.phase) /\ seen' \in BOOLEAN
      /\ ManifestsKept /\ ClusterKept /\ saved' = saved /\ crashes' = crashes
  BY Zenon DEF SyncAppState, manifests, cluster, history, ManifestsKept, ClusterKept, HooksKept
<1>2. LoopKept
  BY Zenon DEF SyncAppState, EndPass, Goto, LoopKept
<1>3. saved \in OperationState /\ "Error" \in Phases /\ "Succeeded" \in Phases
  BY Zenon DEF TypeOK, Phases, Statuses
<1>4. CASE EndPass(SetPhase(saved, "Error"))
  BY <1>1, <1>2, <1>3, <1>4, WithPhase, Zenon DEF EndPass, Begins
<1>5. CASE saved.phase = "Terminating" /\ Goto("terminate", saved)
  BY <1>1, <1>2, <1>3, <1>5, Zenon DEF Goto, Begins
<1>6. CASE {} \in generateSyncTasks /\ EndPass(SetPhase(saved, "Succeeded"))
  <2>1. targets = {}
    BY <1>6, Zenon DEF generateSyncTasks
  <2> QED BY <1>1, <1>2, <1>3, <1>6, <2>1, WithPhase, Zenon DEF EndPass, Begins
<1>7. CASE /\ saved.phase = "Running" /\ cur' = saved
           /\ pc' = IF startedPreSyncPhase(saved) THEN Strategy ELSE "dryrun"
  BY <1>1, <1>2, <1>3, <1>7, Zenon DEF Begins
<1> QED BY <1>4, <1>5, <1>6, <1>7, Zenon DEF SyncAppState

DryRuns ==
    /\ pc = "dryrun" /\ Advances /\ ClusterKept /\ LoopKept
    /\ \/ pc' = "store" /\ cur'.phase = "Failed"
       \/ pc' = "store" /\ cur'.phase = "Succeeded" /\ op.dryRun
       \/ /\ pc' = Strategy /\ ~op.dryRun
          /\ cur'.phase = cur.phase /\ cur'.resources = cur.resources

\* The dry run changes nothing in the cluster.
LEMMA DryRunDoes == ASSUME TypeOK, DryRun PROVE DryRuns
<1>1. /\ pc = "dryrun" /\ seen' = seen
      /\ ManifestsKept /\ ClusterKept /\ saved' = saved /\ crashes' = crashes
  BY Zenon DEF DryRun, manifests, cluster, history, ManifestsKept, ClusterKept, HooksKept
<1>2. LoopKept
  BY Zenon DEF DryRun, EndPass, Goto, LoopKept
<1>3. PICK failed \in SUBSET (tasks \ {"prune"}) :
          LET s == [cur EXCEPT !.resources =
                      @ \union (IF op.dryRun THEN tasks ELSE failed)]
          IN  \/ /\ failed # {}
                 /\ EndPass(SetPhase(s, "Failed"))
              \/ /\ failed = {} /\ op.dryRun
                 /\ EndPass(SetPhase(s, "Succeeded"))
              \/ /\ failed = {} /\ ~op.dryRun
                 /\ Goto(Strategy, s)
  BY Zenon DEF DryRun
<1> DEFINE R == IF op.dryRun THEN tasks ELSE failed
           s == [cur EXCEPT !.resources = @ \union R]
<1>4. /\ cur \in OperationState /\ "Failed" \in Phases /\ "Succeeded" \in Phases
      /\ R \in SUBSET (Tasks \union {"skipped"})
  BY ConstantsAssumption, Zenon DEF TypeOK, Phases, Statuses
<1>5. s \in OperationState /\ s.phase = cur.phase /\ s.hooks = cur.hooks
      /\ s.resources = cur.resources \union R /\ s.terminated = cur.terminated
  <2> HIDE DEF R
  <2> QED BY <1>4, WithResources, Zenon
<1>6. \/ failed # {} /\ EndPass(SetPhase(s, "Failed"))
      \/ failed = {} /\ op.dryRun /\ EndPass(SetPhase(s, "Succeeded"))
      \/ failed = {} /\ ~op.dryRun /\ Goto(Strategy, s) /\ R = {}
  BY <1>3, Zenon
<1>7. ASSUME NEW r \in OperationState, cur' = r, r.hooks = s.hooks, r.resources = s.resources,
             r.terminated = s.terminated
      PROVE  Advances
  <2> HIDE DEF s, R
  <2> QED BY <1>1, <1>5, <1>7, Zenon DEF Advances, CopyKept, ClusterKept
<1> HIDE DEF s, R
<1>8. CASE EndPass(SetPhase(s, "Failed"))
  <2> DEFINE r == SetPhase(s, "Failed")
  <2>1. /\ r \in OperationState /\ r.phase = "Failed" /\ r.hooks = s.hooks
        /\ r.resources = s.resources /\ r.terminated = s.terminated
    BY <1>4, <1>5, WithPhase, Zenon
  <2>2. cur' = r /\ pc' = "store"
    BY <1>8, Zenon DEF EndPass
  <2> HIDE DEF r
  <2>3. Advances
    BY <1>7, <2>1, <2>2, Zenon
  <2> QED BY <1>1, <1>2, <1>8, <2>1, <2>2, <2>3, Zenon DEF DryRuns
<1>9. CASE op.dryRun /\ EndPass(SetPhase(s, "Succeeded"))
  <2> DEFINE r == SetPhase(s, "Succeeded")
  <2>1. /\ r \in OperationState /\ r.phase = "Succeeded" /\ r.hooks = s.hooks
        /\ r.resources = s.resources /\ r.terminated = s.terminated
    BY <1>4, <1>5, WithPhase, Zenon
  <2>2. cur' = r /\ pc' = "store"
    BY <1>9, Zenon DEF EndPass
  <2> HIDE DEF r
  <2>3. Advances
    BY <1>7, <2>1, <2>2, Zenon
  <2> QED BY <1>1, <1>2, <1>9, <2>1, <2>2, <2>3, Zenon DEF DryRuns
<1>10. CASE ~op.dryRun /\ Goto(Strategy, s) /\ R = {}
  <2>1. cur'.resources = cur.resources
    BY <1>5, <1>10, Zenon DEF Goto
  <2> QED BY <1>1, <1>2, <1>5, <1>7, <1>10, <2>1, Zenon DEF Goto, DryRuns
<1> QED BY <1>6, <1>8, <1>9, <1>10, Zenon

\* The tasks ts are applied; without a failure those that the operation can do
\* are done.
Applies(ts) ==
    /\ applied \subseteq applied' /\ applied' \subseteq applied \union ts
    /\ applies' = IF ts = {} THEN applies ELSE applies + 1
    /\ cur'.resources = cur.resources \union ts
    /\ \/ cur'.phase = "Failed"
       \/ cur'.phase = cur.phase /\ {t \in ts : t = "prune" => op.prune} \subseteq applied'

\* doApplySync does the tasks that do not fail, and counts as an apply.
LEMMA ApplySyncDoes ==
    ASSUME TypeOK, NEW ts \in SUBSET tasks, NEW failed \in SUBSET ts, doApplySync(ts, failed),
           cur' = IF failed = {} THEN [cur EXCEPT !.resources = @ \union ts]
                  ELSE SetPhase([cur EXCEPT !.resources = @ \union ts], "Failed")
    PROVE  HooksKept /\ CopyKept /\ Applies(ts)
<1> DEFINE s == [cur EXCEPT !.resources = @ \union ts]
<1>1. cur \in OperationState /\ "Failed" \in Phases /\ ts \in SUBSET (Tasks \union {"skipped"})
  BY ConstantsAssumption, Zenon DEF TypeOK, Phases, Statuses
<1>2. /\ s \in OperationState /\ s.phase = cur.phase /\ s.hooks = cur.hooks
      /\ s.resources = cur.resources \union ts /\ s.terminated = cur.terminated
  BY <1>1, WithResources, Zenon
<1>3. cur' = IF failed = {} THEN s ELSE SetPhase(s, "Failed")
  OBVIOUS
<1> HIDE DEF s
<1> DEFINE f == SetPhase(s, "Failed")
<1>4. /\ f \in OperationState /\ f.phase = "Failed" /\ f.hooks = cur.hooks
      /\ f.resources = cur.resources \union ts /\ f.terminated = cur.terminated
  BY <1>1, <1>2, WithPhase, Zenon
<1> HIDE DEF f
<1>5. (failed = {} /\ cur' = s) \/ cur' = f
  BY <1>3, Zenon DEF f
<1>6. CopyKept /\ cur'.resources = cur.resources \union ts
  BY <1>2, <1>4, <1>5, Zenon DEF CopyKept
<1>7. \/ cur'.phase = "Failed"
      \/ cur'.phase = cur.phase /\ failed = {}
  BY <1>2, <1>4, <1>5, Zenon
<1>8. /\ HooksKept /\ applied' = applied \union {t \in ts \ failed : t = "prune" => op.prune}
      /\ applies' = IF ts = {} THEN applies ELSE applies + 1
  BY Zenon DEF doApplySync, HooksKept
<1>9. applied \subseteq applied' /\ applied' \subseteq applied \union ts
  BY <1>8, Zenon
<1>10. failed = {} => {t \in ts : t = "prune" => op.prune} \subseteq applied'
  BY <1>8, Zenon
<1> QED BY <1>6, <1>7, <1>8, <1>9, <1>10, Zenon DEF Applies

AppliesOrEnds ==
    /\ pc = "apply" /\ Advances /\ LoopKept /\ pc' = "store"
    /\ \/ ~startedSyncPhase(cur) /\ Applies(tasks)
       \/ /\ startedSyncPhase(cur) /\ ClusterKept
          /\ cur'.phase = "Succeeded" /\ cur'.resources = cur.resources

\* The apply strategy applies once, and then succeeds.
LEMMA ApplyStrategyDoes == ASSUME TypeOK, ApplyStrategy PROVE AppliesOrEnds
<1>1. /\ pc = "apply" /\ seen' = seen /\ ManifestsKept /\ saved' = saved /\ crashes' = crashes
  BY Zenon DEF ApplyStrategy, manifests, ManifestsKept
<1>2. LoopKept /\ pc' = "store"
  BY Zenon DEF ApplyStrategy, EndPass, LoopKept
<1>3. CASE /\ ~startedSyncPhase(cur)
           /\ \E failed \in SUBSET tasks :
                LET s == [cur EXCEPT !.resources = @ \union tasks] IN
                /\ doApplySync(tasks, failed)
                /\ EndPass(IF failed = {} THEN s ELSE SetPhase(s, "Failed"))
  <2>1. PICK failed \in SUBSET tasks :
                /\ doApplySync(tasks, failed)
                /\ cur' = IF failed = {} THEN [cur EXCEPT !.resources = @ \union tasks]
                          ELSE SetPhase([cur EXCEPT !.resources = @ \union tasks], "Failed")
    BY <1>3, Zenon DEF EndPass
  <2>2. tasks \in SUBSET tasks
    OBVIOUS
  <2>3. HooksKept /\ CopyKept /\ Applies(tasks)
    BY <2>1, <2>2, ApplySyncDoes, Zenon
  <2>4. Advances
    BY <1>1, <2>3, Zenon DEF Advances, Applies
  <2> QED BY <1>1, <1>2, <1>3, <2>3, <2>4, Zenon DEF AppliesOrEnds
<1>4. CASE /\ startedSyncPhase(cur)
           /\ EndPass(SetPhase(cur, "Succeeded"))
           /\ UNCHANGED <<cluster, history>>
  <2>1. ClusterKept
    BY <1>4, Zenon DEF ClusterKept, HooksKept, cluster, history
  <2>2. cur \in OperationState /\ "Succeeded" \in Phases /\ cur' = SetPhase(cur, "Succeeded")
    BY <1>4, Zenon DEF TypeOK, Phases, Statuses, EndPass
  <2>3. CopyKept /\ cur'.phase = "Succeeded" /\ cur'.resources = cur.resources
    BY <2>2, WithPhase, Zenon DEF CopyKept
  <2>4. Advances
    BY <1>1, <2>1, <2>3, Zenon DEF Advances, ClusterKept
  <2> QED BY <1>1, <1>2, <1>4, <2>1, <2>3, <2>4, Zenon DEF AppliesOrEnds
<1> QED BY <1>3, <1>4, Zenon DEF ApplyStrategy

Verifies ==
    /\ pc = "verify" /\ Advances /\ ClusterKept /\ cur'.resources = cur.resources
    /\ \/ pc' = "hooks" /\ LoopStarts("PreSync") /\ fresh' = FALSE /\ cur'.phase = cur.phase
       \/ pc' = "store" /\ LoopKept /\ cur'.phase \in {"Error", "Failed"}

\* verifyPermittedHooks starts the PreSync hooks, or ends the pass.
LEMMA VerifyDoes == ASSUME TypeOK, verifyPermittedHooks PROVE Verifies
<1>1. /\ pc = "verify" /\ seen' = seen
      /\ ManifestsKept /\ ClusterKept /\ saved' = saved /\ crashes' = crashes
  BY Zenon DEF verifyPermittedHooks, manifests, cluster, history, ManifestsKept, ClusterKept, HooksKept
<1>2. cur \in OperationState
  BY Zenon DEF TypeOK
<1>3. CASE RunHooks("PreSync") /\ fresh' = FALSE /\ UNCHANGED cur
  <2>1. Advances
    BY <1>1, <1>2, <1>3, Zenon DEF Advances, CopyKept, ClusterKept
  <2> QED BY <1>1, <1>3, <2>1, Zenon DEF Verifies, RunHooks, LoopStarts
<1>4. CASE \E q \in {"Error", "Failed"} : EndPass(SetPhase(cur, q))
  <2>1. PICK q \in {"Error", "Failed"} : EndPass(SetPhase(cur, q))
    BY <1>4, Zenon
  <2>2. q \in Phases
    BY Zenon DEF Phases, Statuses
  <2>3. /\ CopyKept /\ cur'.phase = q /\ cur'.resources = cur.resources
        /\ pc' = "store" /\ LoopKept
    BY <1>2, <2>1, <2>2, WithPhase, Zenon DEF CopyKept, EndPass, LoopKept
  <2>4. Advances
    BY <1>1, <2>3, Zenon DEF Advances, ClusterKept
  <2> QED BY <1>1, <2>3, <2>4, Zenon DEF Verifies
<1> QED BY <1>3, <1>4, Zenon DEF verifyPermittedHooks

EndsLoop ==
    /\ pc = "hooks" /\ next \notin Hooks /\ Advances /\ ClusterKept /\ LoopKept
    /\ cur'.resources = cur.resources
    /\ \/ pc' = "store" /\ cur'.phase = cur.phase
       \/ pc' = "store" /\ cur'.phase = "Failed"
       \/ /\ cont /\ areHooksCompleted(stage) /\ areHooksSuccessful(stage)
          /\ \/ stage = "PreSync" /\ pc' = "nonhook" /\ cur'.phase = cur.phase
             \/ stage = "Sync" /\ ~fresh /\ pc' = "health" /\ cur'.phase = cur.phase
             \/ stage = "PostSync" /\ pc' = "store" /\ cur'.phase = "Succeeded"

\* runHooks goes on to the next stage only with completed, successful hooks.
LEMMA RunHooksDoneDoes == ASSUME TypeOK, RunHooksDone PROVE EndsLoop
<1>1. /\ pc = "hooks" /\ next \notin Hooks /\ seen' = seen
      /\ ManifestsKept /\ ClusterKept /\ saved' = saved /\ crashes' = crashes
  BY Zenon DEF RunHooksDone, manifests, cluster, history, ManifestsKept, ClusterKept, HooksKept
<1>2. cur \in OperationState /\ "Failed" \in Phases /\ "Succeeded" \in Phases
  BY Zenon DEF TypeOK, Phases, Statuses
<1>3. ASSUME NEW q, EndPass(cur) \/ Goto(q, cur)
      PROVE  CopyKept /\ LoopKept /\ cur'.phase = cur.phase /\ cur'.resources = cur.resources
  BY <1>2, <1>3, Zenon DEF CopyKept, LoopKept, EndPass, Goto
<1>4. ASSUME NEW q \in Phases, EndPass(SetPhase(cur, q))
      PROVE  CopyKept /\ LoopKept /\ cur'.phase = q /\ cur'.resources = cur.resources
  BY <1>2, <1>4, WithPhase, Zenon DEF CopyKept, LoopKept, EndPass
<1>5. ASSUME CopyKept, cur'.resources = cur.resources PROVE Advances
  BY <1>1, <1>5, Zenon DEF Advances, ClusterKept
<1>6. CASE EndPass(cur)
  BY <1>1, <1>3, <1>5, <1>6, Zenon DEF EndsLoop, EndPass
<1>7. CASE EndPass(SetPhase(cur, "Failed"))
  BY <1>1, <1>2, <1>4, <1>5, <1>7, Zenon DEF EndsLoop, EndPass
<1>8. ASSUME cont, areHooksCompleted(stage), areHooksSuccessful(stage),
             \/ stage = "PreSync" /\ Goto("nonhook", cur)
             \/ stage = "Sync" /\ ~fresh /\ Goto("health", cur)
      PROVE  EndsLoop
  BY <1>1, <1>3, <1>5, <1>8, Zenon DEF EndsLoop, Goto
<1>9. ASSUME cont, areHooksCompleted(stage), areHooksSuccessful(stage),
             stage = "PostSync", EndPass(SetPhase(cur, "Succeeded"))
      PROVE  EndsLoop
  BY <1>1, <1>2, <1>4, <1>5, <1>9, Zenon DEF EndsLoop, EndPass
<1> QED BY <1>6, <1>7, <1>8, <1>9, Zenon DEF RunHooksDone

SyncsNonHooks ==
    /\ pc = "nonhook" /\ Advances
    /\ \/ /\ startedSyncPhase(cur) /\ ClusterKept /\ fresh' = fresh
          /\ pc' = "hooks" /\ LoopStarts("Sync")
          /\ cur'.phase = cur.phase /\ cur'.resources = cur.resources
       \/ /\ ~startedSyncPhase(cur) /\ Applies(tasks \ {"skip"})
          /\ \/ pc' = "hooks" /\ LoopStarts("Sync") /\ fresh' = TRUE /\ cur'.phase = cur.phase
             \/ pc' = "store" /\ LoopKept /\ cur'.phase = "Failed"

\* syncNonHookTasks applies unless the Sync stage was started before.
LEMMA SyncNonHookTasksDoes == ASSUME TypeOK, syncNonHookTasks PROVE SyncsNonHooks
<1>1. /\ pc = "nonhook" /\ seen' = seen /\ ManifestsKept /\ saved' = saved /\ crashes' = crashes
  BY Zenon DEF syncNonHookTasks, manifests, ManifestsKept
<1> DEFINE ts == tasks \ {"skip"}
<1>2. CASE /\ startedSyncPhase(cur)
           /\ RunHooks("Sync")
           /\ UNCHANGED <<cur, fresh, cluster, history>>
  <2>1. ClusterKept
    BY <1>2, Zenon DEF ClusterKept, HooksKept, cluster, history
  <2>2. CopyKept /\ cur' = cur
    BY <1>2, Zenon DEF TypeOK, CopyKept
  <2>3. Advances
    BY <1>1, <2>1, <2>2, Zenon DEF Advances, ClusterKept
  <2> QED BY <1>1, <1>2, <2>1, <2>2, <2>3, Zenon DEF SyncsNonHooks, RunHooks, LoopStarts
<1>3. CASE /\ ~startedSyncPhase(cur)
           /\ \E failed \in SUBSET ts :
                LET s == [cur EXCEPT !.resources = @ \union ts] IN
                /\ doApplySync(ts, failed)
                /\ IF failed = {}
                   THEN cur' = s /\ fresh' = TRUE /\ RunHooks("Sync")
                   ELSE EndPass(SetPhase(s, "Failed"))
  <2> HIDE DEF ts
  <2>1. PICK failed \in SUBSET ts :
                /\ doApplySync(ts, failed)
                /\ IF failed = {}
                   THEN cur' = [cur EXCEPT !.resources = @ \union ts] /\ fresh' = TRUE /\ RunHooks("Sync")
                   ELSE EndPass(SetPhase([cur EXCEPT !.resources = @ \union ts], "Failed"))
    BY <1>3, Zenon
  <2>2. ts \in SUBSET tasks
    BY Zenon DEF ts
  <2>3. cur' = IF failed = {} THEN [cur EXCEPT !.resources = @ \union ts]
               ELSE SetPhase([cur EXCEPT !.resources = @ \union ts], "Failed")
    BY <2>1, Zenon DEF EndPass
  <2>4. HooksKept /\ CopyKept /\ Applies(ts)
    BY <2>1, <2>2, <2>3, ApplySyncDoes, Zenon
  <2>5. Advances
    BY <1>1, <2>4, Zenon DEF Advances, Applies
  <2>6. \/ pc' = "hooks" /\ LoopStarts("Sync") /\ fresh' = TRUE /\ cur'.phase = cur.phase
        \/ pc' = "store" /\ LoopKept /\ cur'.phase = "Failed"
    <3>1. /\ cur \in OperationState /\ "Failed" \in Phases /\ ts \in SUBSET (Tasks \union {"skipped"})
      BY <2>2, ConstantsAssumption, Zenon DEF TypeOK, Phases, Statuses
    <3> DEFINE s == [cur EXCEPT !.resources = @ \union ts]
    <3>2. s \in OperationState /\ s.phase = cur.phase
      BY <3>1, WithResources, Zenon
    <3>3. \/ cur' = s /\ fresh' = TRUE /\ RunHooks("Sync")
          \/ EndPass(SetPhase(s, "Failed"))
      BY <2>1, Zenon
    <3> HIDE DEF s
    <3>4. SetPhase(s, "Failed").phase = "Failed"
      BY <3>1, <3>2, WithPhase, Zenon
    <3>5. CASE cur' = s /\ fresh' = TRUE /\ RunHooks("Sync")
      BY <3>2, <3>5, Zenon DEF RunHooks, LoopStarts
    <3>6. CASE EndPass(SetPhase(s, "Failed"))
      BY <3>4, <3>6, Zenon DEF EndPass, LoopKept
    <3> QED BY <3>3, <3>5, <3>6, Zenon
  <2> QED BY <1>1, <1>3, <2>4, <2>5, <2>6, Zenon DEF SyncsNonHooks, ts
<1> QED BY <1>2, <1>3, Zenon DEF syncNonHookTasks

ChecksHealth ==
    /\ pc = "health" /\ Advances /\ ClusterKept /\ fresh' = fresh /\ cur'.resources = cur.resources
    /\ \/ pc' = "store" /\ LoopKept /\ cur'.phase = "Error"
       \/ pc' = "store" /\ LoopKept /\ cur'.phase = cur.phase
       \/ /\ pc' = "hooks" /\ LoopStarts("PostSync") /\ cur'.phase = cur.phase
          /\ AwaitsHealth => seen

\* The PostSync hooks start when the health allows it.
LEMMA CheckHealthDoes == ASSUME TypeOK, CheckHealth PROVE ChecksHealth
<1>1. /\ pc = "health" /\ seen' = seen
      /\ ManifestsKept /\ ClusterKept /\ saved' = saved /\ crashes' = crashes
  BY Zenon DEF CheckHealth, manifests, cluster, history, ManifestsKept, ClusterKept, HooksKept
<1>2. cur \in OperationState /\ "Error" \in Phases
  BY Zenon DEF TypeOK, Phases, Statuses
<1>3. CASE EndPass(SetPhase(cur, "Error"))
  <2>1. /\ CopyKept /\ LoopKept /\ cur'.phase = "Error" /\ cur'.resources = cur.resources
        /\ pc' = "store"
    BY <1>2, <1>3, WithPhase, Zenon DEF CopyKept, LoopKept, EndPass
  <2>2. Advances
    BY <1>1, <2>1, Zenon DEF Advances, ClusterKept
  <2> QED BY <1>1, <2>1, <2>2, Zenon DEF ChecksHealth, LoopKept
<1>4. CASE EndPass(cur)
  <2>1. CopyKept /\ LoopKept /\ cur' = cur /\ pc' = "store"
    BY <1>2, <1>4, Zenon DEF CopyKept, LoopKept, EndPass
  <2>2. Advances
    BY <1>1, <2>1, Zenon DEF Advances, ClusterKept
  <2> QED BY <1>1, <2>1, <2>2, Zenon DEF ChecksHealth, LoopKept
<1>5. CASE (AwaitsHealth => seen) /\ RunHooks("PostSync") /\ UNCHANGED <<cur, fresh>>
  <2>1. Advances /\ cur' = cur /\ fresh' = fresh
    BY <1>1, <1>2, <1>5, Zenon DEF Advances, CopyKept, ClusterKept
  <2> QED BY <1>1, <1>5, <2>1, Zenon DEF ChecksHealth, RunHooks, LoopStarts
<1> QED BY <1>3, <1>4, <1>5, Zenon DEF CheckHealth

\* terminate deletes the objects of the set gone, and records that.
Terminates ==
    /\ pc = "terminate" /\ pc' = "store" /\ LoopKept /\ seen' = seen
    /\ ManifestsKept /\ saved' = saved /\ crashes' = crashes
    /\ applied' = applied /\ applies' = applies /\ created' = created /\ succ' = succ
    /\ made' = made /\ orphans' = orphans
    /\ cur' \in OperationState /\ cur'.resources = cur.resources
    /\ cur'.phase \in {"Failed", "Error"}
    /\ \A k \in HookKeys : cur'.hooks[k] = IF k \in RunningHooks THEN "Failed" ELSE cur.hooks[k]
    /\ obj' \in [Objects -> Statuses \union {"absent"}]
    /\ \A o \in Objects : obj'[o] # obj[o] => obj'[o] = "absent" /\ \E k \in RunningHooks : o = Obj(k[1], k[2])
    /\ cur'.terminated => /\ cur'.phase = "Failed"
                          /\ \A k \in RunningHooks : obj'[Obj(k[1], k[2])] = "absent"

\* The object of a hook at a stage.
LEMMA ObjType ==
    ASSUME NEW h \in Hooks, NEW t \in Stages
    PROVE  Obj(h, t) \in Objects /\ Obj(h, t)[1] = h /\ (Obj(h, t)[2] = "any" \/ Obj(h, t)[2] = t)
BY SMT DEF Obj, Objects

\* terminate fails the running hooks, and deletes their objects.
LEMMA TerminateDoes == ASSUME TypeOK, terminate PROVE Terminates
<1> DEFINE objs == {Obj(k[1], k[2]) : k \in RunningHooks}
           f == [k \in HookKeys |-> IF k \in RunningHooks THEN "Failed" ELSE cur.hooks[k]]
           r(kept) == [phase |-> IF kept = {} THEN "Failed" ELSE "Error", hooks |-> f,
                       resources |-> cur.resources, terminated |-> kept = {}]
<1>1. PICK kept \in SUBSET objs :
             /\ {o \in objs : obj[o] = "absent"} \subseteq kept
             /\ obj' = [o \in Objects |-> IF o \in objs \ kept THEN "absent" ELSE obj[o]]
             /\ EndPass(r(kept))
  BY Zenon DEF terminate
<1>2. /\ pc = "terminate" /\ seen' = seen /\ ManifestsKept /\ saved' = saved /\ crashes' = crashes
      /\ applied' = applied /\ applies' = applies /\ created' = created /\ succ' = succ
      /\ made' = made /\ orphans' = orphans
  BY Zenon DEF terminate, manifests, history, ManifestsKept
<1>3. pc' = "store" /\ LoopKept /\ cur' = r(kept)
  BY <1>1, Zenon DEF EndPass, LoopKept
<1>4. /\ cur \in OperationState /\ RunningHooks \in SUBSET HookKeys
      /\ (IF kept = {} THEN "Failed" ELSE "Error") \in Phases /\ (kept = {}) \in BOOLEAN
      /\ obj \in [Objects -> Statuses \union {"absent"}]
  BY Zenon DEF TypeOK, Phases, Statuses, RunningHooks
<1>5. /\ cur' \in OperationState
      /\ cur'.phase = IF kept = {} THEN "Failed" ELSE "Error"
      /\ \A k \in HookKeys : cur'.hooks[k] = IF k \in RunningHooks THEN "Failed" ELSE cur.hooks[k]
      /\ cur'.resources = cur.resources
      /\ cur'.terminated = (kept = {})
  <2> DEFINE ph == IF kept = {} THEN "Failed" ELSE "Error"
             fl == kept = {}
  <2>1. cur' = [phase |-> ph, hooks |-> f, resources |-> cur.resources, terminated |-> fl]
    BY <1>3, Zenon
  <2>2. ph \in Phases /\ fl \in BOOLEAN
    BY <1>4, Zenon
  <2>3. f \in [HookKeys -> Statuses \union {"none"}]
    BY <1>4, StateType, Zenon DEF Statuses
  <2>4. \A k \in HookKeys : f[k] = IF k \in RunningHooks THEN "Failed" ELSE cur.hooks[k]
    BY Zenon
  <2>5. /\ cur' \in OperationState /\ cur'.phase = ph /\ cur'.hooks = f
        /\ cur'.resources = cur.resources /\ cur'.terminated = fl
    <3> HIDE DEF ph, fl, f
    <3> QED BY <1>4, <2>1, <2>2, <2>3, WithTerminated, Zenon
  <2> HIDE DEF f
  <2> QED BY <2>4, <2>5, Zenon
<1>6. \A o \in Objects : obj'[o] = IF o \in objs \ kept THEN "absent" ELSE obj[o]
  BY <1>1, Zenon
<1>7. obj' \in [Objects -> Statuses \union {"absent"}]
  BY <1>1, <1>4, Zenon
<1>8. \A o \in Objects : obj'[o] # obj[o] => obj'[o] = "absent" /\ \E k \in RunningHooks : o = Obj(k[1], k[2])
  BY <1>6, Zenon
<1>9. ASSUME kept = {}, NEW k \in RunningHooks PROVE obj'[Obj(k[1], k[2])] = "absent"
  <2>1. Obj(k[1], k[2]) \in objs
    BY Zenon
  <2>2. k[1] \in Hooks /\ k[2] \in Stages
    BY Zenon DEF RunningHooks, HookKeys
  <2>3. Obj(k[1], k[2]) \in Objects
    BY <2>2, ObjType, Zenon
  <2> QED BY <1>6, <1>9, <2>1, <2>3, Zenon
<1> HIDE DEF objs, r, f
<1> QED BY <1>2, <1>3, <1>5, <1>7, <1>8, <1>9, Zenon DEF Terminates

-----------------------------------------------------------------------------
(* What runHook does to the object o of the hook next.                     *)

OthersKept(o) == \A p \in Objects : p # o => obj'[p] = obj[p] /\ created'[p] = created[p]

\* The object once it exists.
Live(o) ==
    IF obj[o] # "absent" THEN obj[o]
    ELSE IF hook[o[1]].runnable THEN "Running" ELSE "Succeeded"

\* The object is made unless it exists.
Makes(o) ==
    /\ OthersKept(o)
    /\ \/ obj[o] # "absent" /\ created' = created /\ succ' = succ /\ made' = made
       \/ /\ obj[o] = "absent" /\ created'[o] = created[o] + 1 /\ made' = made \union {o}
          /\ succ' = IF hook[o[1]].runnable THEN succ \ {o} ELSE succ \union {o}

\* The pass goes on without the hook.
Passes ==
    /\ HooksKept /\ pc' = pc /\ cont' = cont
    /\ next \in Running(stage) => HookDone(next)
    /\ cur'.hooks = cur.hooks /\ cur'.phase = cur.phase
    /\ \/ cur'.resources = cur.resources
       \/ stage = "Sync" /\ cur'.resources = cur.resources \union {"skipped"}

\* The pass ends with an error, the object made or not.
Breaks(o) ==
    /\ pc' = "store" /\ cur'.phase = "Error" /\ next \in Running(stage) /\ ~HookDone(next)
    /\ cur'.hooks = cur.hooks /\ cur'.resources = cur.resources
    /\ \/ HooksKept
       \/ Makes(o) /\ obj'[o] = Live(o)

\* The status st of the hook is recorded, and the hook's policy followed.
Records(o, st) ==
    /\ pc' = pc /\ cont' = FALSE /\ next \in Running(stage) /\ ~HookDone(next)
    /\ cur'.phase = cur.phase /\ cur'.resources = cur.resources
    /\ cur'.hooks[<<next, stage>>] = st
    /\ \A g \in Hooks : \A u \in Stages :
          <<g, u>> # <<next, stage>> => cur'.hooks[<<g, u>>] = cur.hooks[<<g, u>>]
    /\ Makes(o)
    /\ IF hook[next].runnable
       THEN \/ st = Live(o) /\ obj'[o] = Live(o)
            \/ st = Live(o) /\ obj'[o] = "absent" /\ st \in {"Succeeded", "Failed"}
            \/ st = "Failed" /\ obj'[o] = Live(o) /\ Live(o) = "Succeeded"
       ELSE st \in {"Succeeded", "Failed"} /\ obj'[o] \in {Live(o), "absent"}

ObjectsTyped ==
    /\ obj' \in [Objects -> Statuses \union {"absent"}] /\ created' \in [Objects -> Nat]
    /\ succ' \in SUBSET Objects /\ made' \in SUBSET Objects

RunsHook ==
    /\ pc = "hooks" /\ next \in Hooks /\ next' = next + 1 /\ stage' = stage /\ fresh' = fresh
    /\ ManifestsKept /\ saved' = saved /\ crashes' = crashes /\ seen' = seen
    /\ applied' = applied /\ applies' = applies /\ orphans' = orphans
    /\ cur' \in OperationState /\ cur'.terminated = cur.terminated /\ cont' \in BOOLEAN
    /\ ObjectsTyped
    /\ \/ Passes
       \/ Breaks(Obj(next, stage))
       \/ \E st \in Statuses : Records(Obj(next, stage), st)

\* The object of a hook is made unless it exists, and has its phase.
LEMMA MakesObject ==
    ASSUME TypeOK, NEW h \in Hooks, Made(h),
           NEW f, f = ApplyResource(h)
    PROVE  LET o == Obj(h, stage) IN
           /\ f \in [Objects -> Statuses \union {"absent"}] /\ created' \in [Objects -> Nat]
           /\ succ' \in SUBSET Objects /\ made' \in SUBSET Objects
           /\ f[o] = Live(o) /\ Live(o) \in Statuses
           /\ \A p \in Objects : p # o => f[p] = obj[p] /\ created'[p] = created[p]
           /\ \/ obj[o] # "absent" /\ created' = created /\ succ' = succ /\ made' = made
              \/ /\ obj[o] = "absent" /\ created'[o] = created[o] + 1 /\ made' = made \union {o}
                 /\ succ' = IF hook[o[1]].runnable THEN succ \ {o} ELSE succ \union {o}
<1> DEFINE o == Obj(h, stage)
<1>1. /\ o \in Objects /\ o[1] = h
      /\ obj \in [Objects -> Statuses \union {"absent"}] /\ created \in [Objects -> Nat]
      /\ succ \in SUBSET Objects /\ made \in SUBSET Objects
  BY ObjType, Zenon DEF TypeOK
<1>2. CASE obj[o] # "absent"
  <2>1. f = obj /\ created' = created /\ succ' = succ /\ made' = made
    BY <1>2, Zenon DEF ApplyResource, Made
  <2>2. Live(o) = obj[o] /\ obj[o] \in Statuses
    BY <1>1, <1>2, Zenon DEF Live
  <2> HIDE DEF o
  <2> QED BY <1>1, <1>2, <2>1, <2>2, Zenon DEF o
<1>3. CASE obj[o] = "absent"
  <2> DEFINE l == IF hook[h].runnable THEN "Running" ELSE "Succeeded"
  <2>1. f = [obj EXCEPT ![o] = l] /\ Live(o) = l
    BY <1>1, <1>3, Zenon DEF ApplyResource, Live
  <2>2. /\ created' = [created EXCEPT ![o] = @ + 1] /\ made' = made \union {o}
        /\ succ' = IF hook[h].runnable THEN succ \ {o} ELSE succ \union {o}
    BY <1>3, Zenon DEF Made
  <2>3. l \in Statuses
    BY Zenon DEF Statuses
  <2> HIDE DEF o, l
  <2>4. /\ f \in [Objects -> Statuses \union {"absent"}] /\ f[o] = l
        /\ \A p \in Objects : p # o => f[p] = obj[p]
    BY <1>1, <2>1, <2>3, Zenon
  <2>5. created[o] + 1 \in Nat /\ created[o] \in Nat
    BY <1>1, SMT
  <2>6. /\ created' \in [Objects -> Nat] /\ created'[o] = created[o] + 1
        /\ \A p \in Objects : p # o => created'[p] = created[p]
    BY <1>1, <2>2, <2>5, Zenon
  <2>7. succ' \in SUBSET Objects /\ made' \in SUBSET Objects
    BY <1>1, <2>2, Zenon
  <2> QED BY <1>1, <1>3, <2>1, <2>2, <2>3, <2>4, <2>6, <2>7, Zenon DEF o
<1> QED BY <1>2, <1>3, Zenon

\* The status that is recorded, and the phases of the object.
LEMMA StatusType ==
    ASSUME NEW h \in Hooks, NEW l \in Statuses
    PROVE  /\ newHookStatus(h, l) \in Statuses
           /\ hook[h].runnable => newHookStatus(h, l) = l
           /\ ~hook[h].runnable => newHookStatus(h, l) = "Succeeded"
           /\ enforceHookDeletePolicy(h, newHookStatus(h, l)) =>
                 newHookStatus(h, l) \in {"Succeeded", "Failed"}
BY Zenon DEF newHookStatus, enforceHookDeletePolicy, Statuses

\* One round of runHooks passes a hook, breaks the pass or records a status.
LEMMA RunHookDoes == ASSUME TypeOK, RunHook PROVE RunsHook
<1> DEFINE o == Obj(next, stage)
           live == ApplyResource(next)
           status == newHookStatus(next, live[o])
<1>1. /\ pc = "hooks" /\ next \in Hooks /\ next' = next + 1 /\ stage' = stage /\ fresh' = fresh
      /\ ManifestsKept /\ saved' = saved /\ crashes' = crashes /\ seen' = seen
      /\ applied' = applied /\ applies' = applies /\ orphans' = orphans
  BY Zenon DEF RunHook, manifests, ManifestsKept
<1>2. /\ cur \in OperationState /\ stage \in Stages /\ cont \in BOOLEAN
      /\ obj \in [Objects -> Statuses \union {"absent"}] /\ created \in [Objects -> Nat]
      /\ succ \in SUBSET Objects /\ made \in SUBSET Objects
      /\ "Error" \in Phases
  BY Zenon DEF TypeOK, Phases, Statuses
<1>3. o \in Objects /\ o[1] = next
  BY <1>1, <1>2, ObjType, Zenon
<1>4. ASSUME obj' = obj, created' = created, succ' = succ, made' = made
      PROVE  HooksKept /\ ObjectsTyped
  BY <1>1, <1>2, <1>4, Zenon DEF HooksKept, ObjectsTyped
<1>5. CASE /\ stage = "Sync" /\ isHookType(next, "Skip")
           /\ cur' = [cur EXCEPT !.resources = @ \union {"skipped"}]
           /\ UNCHANGED <<pc, cont, obj, created, succ, made>>
  <2>1. {"skipped"} \in SUBSET (Tasks \union {"skipped"})
    OBVIOUS
  <2>2. /\ cur' \in OperationState /\ cur'.phase = cur.phase /\ cur'.hooks = cur.hooks
        /\ cur'.resources = cur.resources \union {"skipped"} /\ cur'.terminated = cur.terminated
    BY <1>2, <1>5, <2>1, WithResources, Zenon
  <2>3. next \notin Running(stage)
    BY <1>5, Zenon DEF Running
  <2>4. Passes
    BY <1>4, <1>5, <2>2, <2>3, Zenon DEF Passes
  <2> QED BY <1>1, <1>2, <1>4, <1>5, <2>2, <2>4, Zenon DEF RunsHook
<1>6. CASE ~isHookType(next, stage) /\ UNCHANGED <<cur, pc, cont, obj, created, succ, made>>
  <2>1. next \notin Running(stage)
    BY <1>6, Zenon DEF Running
  <2>2. Passes
    BY <1>4, <1>6, <2>1, Zenon DEF Passes
  <2> QED BY <1>1, <1>2, <1>4, <1>6, <2>2, Zenon DEF RunsHook
<1>7. CASE /\ ~(stage = "Sync" /\ isHookType(next, "Skip"))
           /\ isHookType(next, stage)
           /\ runHook(next)
  <2>1. next \in Running(stage)
    BY <1>1, <1>7, Zenon DEF Running
  <2>2. ASSUME Made(next)
        PROVE  /\ live \in [Objects -> Statuses \union {"absent"}]
               /\ created' \in [Objects -> Nat]
               /\ succ' \in SUBSET Objects /\ made' \in SUBSET Objects
               /\ live[o] = Live(o) /\ Live(o) \in Statuses
               /\ \A p \in Objects : p # o => live[p] = obj[p] /\ created'[p] = created[p]
               /\ \/ obj[o] # "absent" /\ created' = created /\ succ' = succ /\ made' = made
                  \/ /\ obj[o] = "absent" /\ created'[o] = created[o] + 1 /\ made' = made \union {o}
                     /\ succ' = IF hook[o[1]].runnable THEN succ \ {o} ELSE succ \union {o}
    <3> DEFINE f == live
    <3>1. f = ApplyResource(next)
      BY Zenon
    <3> HIDE DEF f
    <3> QED BY <1>1, <2>2, <3>1, MakesObject, Zenon DEF f
  <2>3. ASSUME Made(next), obj' = live
        PROVE  Makes(o) /\ ObjectsTyped /\ obj'[o] = Live(o) /\ live[o] = Live(o) /\ Live(o) \in Statuses
    <3> HIDE DEF o, live
    <3> QED BY <2>2, <2>3, Zenon DEF Makes, OthersKept, ObjectsTyped
  <2>4. ASSUME Made(next), obj' = [live EXCEPT ![o] = "absent"]
        PROVE  Makes(o) /\ ObjectsTyped /\ obj'[o] = "absent" /\ live[o] = Live(o) /\ Live(o) \in Statuses
    <3> HIDE DEF o, live
    <3>1. /\ obj'[o] = "absent" /\ obj' \in [Objects -> Statuses \union {"absent"}]
          /\ \A p \in Objects : p # o => obj'[p] = live[p]
      BY <1>3, <2>2, <2>4, Zenon
    <3> QED BY <2>2, <2>4, <3>1, Zenon DEF Makes, OthersKept, ObjectsTyped
  <2>5. CASE HookDone(next) /\ UNCHANGED <<cur, pc, cont, obj, created, succ, made>>
    <3>1. Passes
      BY <1>4, <2>5, Zenon DEF Passes
    <3> QED BY <1>1, <1>2, <1>4, <2>5, <3>1, Zenon DEF RunsHook
  <2>6. CASE /\ ~HookDone(next)
             /\ cur' = SetPhase(cur, "Error") /\ pc' = "store" /\ UNCHANGED cont
             /\ \/ UNCHANGED <<obj, created, succ, made>>
                \/ obj[o] = "absent" /\ Made(next) /\ obj' = live
    <3>1. /\ cur' \in OperationState /\ cur'.phase = "Error" /\ cur'.hooks = cur.hooks
          /\ cur'.resources = cur.resources /\ cur'.terminated = cur.terminated
      BY <1>2, <2>6, WithPhase, Zenon
    <3>2. ObjectsTyped /\ (HooksKept \/ (Makes(o) /\ obj'[o] = Live(o)))
      BY <1>4, <2>3, <2>6, Zenon
    <3> HIDE DEF o
    <3>3. Breaks(o)
      BY <2>1, <2>6, <3>1, <3>2, Zenon DEF Breaks
    <3> QED BY <1>1, <1>2, <2>6, <3>1, <3>2, <3>3, Zenon DEF RunsHook, o
  <2>7. CASE /\ ~HookDone(next)
             /\ Made(next)
             /\ \/ /\ ~enforceHookDeletePolicy(next, status)
                   /\ obj' = live
                   /\ updateHookStatus(next, status)
                \/ /\ enforceHookDeletePolicy(next, status)
                   /\ \/ obj' = [live EXCEPT ![o] = "absent"] /\ updateHookStatus(next, status)
                      \/ obj' = live /\ updateHookStatus(next, "Failed")
             /\ UNCHANGED pc
    <3>1. ASSUME NEW st \in Statuses, updateHookStatus(next, st)
          PROVE  /\ cur' \in OperationState /\ cur'.phase = cur.phase
                 /\ cur'.hooks[<<next, stage>>] = st
                 /\ \A g \in Hooks : \A u \in Stages :
                       <<g, u>> # <<next, stage>> => cur'.hooks[<<g, u>>] = cur.hooks[<<g, u>>]
                 /\ cur'.resources = cur.resources /\ cur'.terminated = cur.terminated
                 /\ cont' = FALSE
      <4>1. st \in Statuses \union {"none"}
        BY Zenon
      <4>2. cur' = [cur EXCEPT !.hooks[<<next, stage>>] = st] /\ cont' = FALSE
        BY <3>1, Zenon DEF updateHookStatus
      <4> QED BY <1>1, <1>2, <4>1, <4>2, WithHook
    <3>2. live[o] = Live(o) /\ Live(o) \in Statuses /\ status = newHookStatus(next, Live(o))
      BY <2>2, <2>7, Zenon
    <3>3. /\ status \in Statuses /\ "Failed" \in Statuses
          /\ hook[next].runnable => status = Live(o)
          /\ ~hook[next].runnable => status = "Succeeded"
          /\ enforceHookDeletePolicy(next, status) => status \in {"Succeeded", "Failed"}
      <4> HIDE DEF o, live
      <4> QED BY <1>1, <3>2, StatusType, Zenon DEF Statuses
    <3> HIDE DEF o, live, status
    <3>4. ASSUME NEW st \in Statuses, updateHookStatus(next, st), Makes(o), ObjectsTyped,
                 IF hook[next].runnable
                 THEN \/ st = Live(o) /\ obj'[o] = Live(o)
                      \/ st = Live(o) /\ obj'[o] = "absent" /\ st \in {"Succeeded", "Failed"}
                      \/ st = "Failed" /\ obj'[o] = Live(o) /\ Live(o) = "Succeeded"
                 ELSE st \in {"Succeeded", "Failed"} /\ obj'[o] \in {Live(o), "absent"}
          PROVE  RunsHook
      <4>1. Records(o, st)
        BY <2>1, <2>7, <3>1, <3>4, Zenon DEF Records
      <4> QED BY <1>1, <3>1, <3>4, <4>1, Zenon DEF RunsHook, o
    <3>5. CASE obj' = live /\ updateHookStatus(next, status)
      BY <2>3, <2>7, <3>3, <3>4, <3>5, Zenon
    <3>6. CASE /\ enforceHookDeletePolicy(next, status)
               /\ obj' = [live EXCEPT ![o] = "absent"] /\ updateHookStatus(next, status)
      BY <2>4, <2>7, <3>3, <3>4, <3>6, Zenon
    <3>7. CASE enforceHookDeletePolicy(next, status) /\ obj' = live /\ updateHookStatus(next, "Failed")
      BY <2>3, <2>7, <3>3, <3>4, <3>7, Zenon
    <3> QED BY <2>7, <3>5, <3>6, <3>7, Zenon
  <2> QED BY <1>7, <2>5, <2>6, <2>7, Zenon DEF runHook
<1> QED BY <1>5, <1>6, <1>7, Zenon DEF RunHook

-----------------------------------------------------------------------------
(* What the other steps do.                                                *)

Resets ==
    /\ cur' = saved' /\ pc' = "idle" /\ LoopStarts("PreSync") /\ fresh' = FALSE
    /\ seen' = FALSE /\ made' = {}
    /\ ManifestsKept /\ obj' = obj /\ applied' = applied
    /\ created' = created /\ succ' = succ /\ applies' = applies

Stores ==
    /\ pc = "store" /\ Resets /\ crashes' = crashes /\ orphans' = orphans
    /\ saved' \in OperationState /\ saved'.hooks = cur.hooks
    /\ saved'.resources = cur.resources /\ saved'.terminated = cur.terminated
    /\ \/ saved'.phase = cur.phase
       \/ saved'.phase = "Error" /\ cur.phase = "Succeeded"
       \/ saved'.phase = "Terminating" /\ cur.phase = "Running" /\ saved.phase = "Terminating"

\* The end of a pass stores its copy, with the phase it may have.
LEMMA StoreDoes == ASSUME TypeOK, Store PROVE Stores
<1>1. pc = "store" /\ Resets /\ crashes' = crashes /\ orphans' = orphans
  BY Zenon DEF Store, NoPass, Resets, LoopStarts, ManifestsKept, manifests, cluster
<1>2. /\ cur \in OperationState
      /\ "Error" \in Phases /\ "Terminating" \in Phases /\ "Running" \in Phases
  BY Zenon DEF TypeOK, Phases, Statuses
<1>3. CASE saved' = cur
  BY <1>1, <1>2, <1>3, Zenon DEF Stores
<1>4. CASE cur.phase = "Succeeded" /\ saved' = SetPhase(cur, "Error")
  BY <1>1, <1>2, <1>4, WithPhase, Zenon DEF Stores
<1>5. CASE /\ cur.phase = "Running" /\ saved.phase = "Terminating"
           /\ \E p \in {"Terminating", "Running"} : saved' = SetPhase(cur, p)
  <2>1. PICK p \in {"Terminating", "Running"} : saved' = SetPhase(cur, p)
    BY <1>5, Zenon
  <2>2. p \in Phases
    BY <1>2, Zenon
  <2>3. /\ saved' \in OperationState /\ saved'.phase = p /\ saved'.hooks = cur.hooks
        /\ saved'.resources = cur.resources /\ saved'.terminated = cur.terminated
    BY <1>2, <2>1, <2>2, WithPhase, Zenon
  <2> QED BY <1>1, <1>5, <2>3, Zenon DEF Stores
<1> QED BY <1>3, <1>4, <1>5, Zenon DEF Store

Restarts ==
    /\ pc # "idle" /\ Resets /\ crashes < MaxCrashes /\ crashes' = crashes + 1
    /\ orphans' = orphans \union made /\ saved' = saved

\* A restart loses the copy.
LEMMA RestartDoes == ASSUME TypeOK, Restart PROVE Restarts
BY Zenon DEF Restart, NoPass, Restarts, Resets, LoopStarts, ManifestsKept, manifests, cluster

\* The pass is where it was.
PassKept == cur' = cur /\ pc' = pc /\ LoopKept /\ seen' = seen

IsTerminated ==
    /\ saved.phase = "Running" /\ PassKept /\ ManifestsKept /\ ClusterKept /\ crashes' = crashes
    /\ saved' \in OperationState /\ saved'.phase = "Terminating" /\ saved'.hooks = saved.hooks
    /\ saved'.resources = saved.resources /\ saved'.terminated = saved.terminated

\* TerminateOperation changes the phase that is stored.
LEMMA TerminateOperationDoes == ASSUME TypeOK, TerminateOperation PROVE IsTerminated
<1>1. /\ saved.phase = "Running" /\ PassKept /\ ManifestsKept /\ ClusterKept /\ crashes' = crashes
      /\ saved' = SetPhase(saved, "Terminating")
  BY Zenon DEF TerminateOperation, PassKept, LoopKept, pass, ManifestsKept, manifests, ClusterKept,
               HooksKept, cluster, history
<1>2. saved \in OperationState /\ "Terminating" \in Phases
  BY Zenon DEF TypeOK, Phases
<1> QED BY <1>1, <1>2, WithPhase, Zenon DEF IsTerminated

Finishes(o) ==
    /\ obj[o] = "Running" /\ PassKept /\ ManifestsKept /\ saved' = saved /\ crashes' = crashes
    /\ applied' = applied /\ created' = created /\ made' = made /\ orphans' = orphans
    /\ applies' = applies
    /\ obj' \in [Objects -> Statuses \union {"absent"}]
    /\ obj'[o] \in {"Succeeded", "Failed", "Error"}
    /\ \A p \in Objects : p # o => obj'[p] = obj[p]
    /\ succ' = IF obj'[o] = "Succeeded" THEN succ \union {o} ELSE succ

\* The end of a job changes its object.
LEMMA FinishHookDoes == ASSUME TypeOK, NEW o \in Objects, FinishHook(o) PROVE Finishes(o)
<1>1. /\ obj[o] = "Running" /\ PassKept /\ ManifestsKept /\ saved' = saved /\ crashes' = crashes
      /\ applied' = applied /\ created' = created /\ made' = made /\ orphans' = orphans
      /\ applies' = applies
  BY Zenon DEF FinishHook, PassKept, LoopKept, pass, ManifestsKept, manifests
<1>2. PICK st \in {"Succeeded", "Failed", "Error"} :
          /\ obj' = [obj EXCEPT ![o] = st]
          /\ succ' = IF st = "Succeeded" THEN succ \union {o} ELSE succ
  BY Zenon DEF FinishHook
<1>3. obj \in [Objects -> Statuses \union {"absent"}] /\ st \in Statuses \union {"absent"}
  BY Zenon DEF TypeOK, Statuses
<1>4. /\ obj' \in [Objects -> Statuses \union {"absent"}] /\ obj'[o] = st
      /\ \A p \in Objects : p # o => obj'[p] = obj[p]
  BY <1>2, <1>3, Zenon
<1> QED BY <1>1, <1>2, <1>4, Zenon DEF Finishes

Stutters ==
    /\ PassKept /\ ManifestsKept /\ ClusterKept /\ saved' = saved /\ crashes' = crashes

\* A step that changes no variable.
LEMMA StutterDoes == ASSUME UNCHANGED vars PROVE Stutters
BY Zenon DEF vars, Stutters, PassKept, LoopKept, pass, ManifestsKept, manifests, ClusterKept,
             HooksKept, cluster, history

\* The steps, by what they do.
Steps ==
    \/ Begins \/ DryRuns \/ AppliesOrEnds \/ Verifies \/ RunsHook \/ EndsLoop
    \/ SyncsNonHooks \/ ChecksHealth \/ Terminates \/ Stores \/ Restarts \/ IsTerminated
    \/ (\E o \in Objects : Finishes(o)) \/ Stutters

\* Every step is one of these.
LEMMA NextDoes == ASSUME TypeOK, [Next]_vars PROVE Steps
<1>1. CASE Pass
  BY <1>1, BeginsPass, DryRunDoes, ApplyStrategyDoes, VerifyDoes, RunHookDoes, RunHooksDoneDoes,
     SyncNonHookTasksDoes, CheckHealthDoes, TerminateDoes, StoreDoes, Zenon DEF Pass, Steps
<1>2. CASE Restart
  BY <1>2, RestartDoes, Zenon DEF Steps
<1>3. CASE TerminateOperation
  BY <1>3, TerminateOperationDoes, Zenon DEF Steps
<1>4. CASE \E o \in Objects : FinishHook(o)
  BY <1>4, FinishHookDoes, Zenon DEF Steps
<1>5. CASE UNCHANGED vars
  BY <1>5, StutterDoes, Zenon DEF Steps
<1> QED BY <1>1, <1>2, <1>3, <1>4, <1>5, Zenon DEF Next

-----------------------------------------------------------------------------
(* Types.                                                                  *)

Labels ==
    {"idle", "dryrun", "apply", "verify", "hooks", "nonhook", "health", "terminate", "store"}
ManifestsTyped == hook \in HookLists /\ targets \in TargetSets /\ op \in SyncOperations
TasksTyped == tasks \in SUBSET Tasks
StatesTyped == saved \in OperationState /\ cur \in OperationState
LoopTyped ==
    /\ pc \in Labels /\ stage \in Stages /\ next \in 1 .. (NumHooks + 1)
    /\ cont \in BOOLEAN /\ fresh \in BOOLEAN /\ seen \in BOOLEAN
HooksTyped ==
    /\ obj \in [Objects -> Statuses \union {"absent"}] /\ created \in [Objects -> Nat]
    /\ succ \in SUBSET Objects /\ made \in SUBSET Objects /\ orphans \in SUBSET Objects
CountsTyped == applied \in SUBSET Tasks /\ crashes \in 0 .. MaxCrashes /\ applies \in Nat

\* The type invariant by its parts.
LEMMA TypeParts ==
    TypeOK <=> ManifestsTyped /\ TasksTyped /\ StatesTyped /\ LoopTyped /\ HooksTyped /\ CountsTyped
BY Zenon DEF TypeOK, ManifestsTyped, TasksTyped, StatesTyped, LoopTyped, HooksTyped, CountsTyped, Labels

\* The same, in the next state.
LEMMA TypePartsNext ==
    TypeOK' <=> /\ ManifestsTyped' /\ TasksTyped' /\ StatesTyped' /\ LoopTyped'
                /\ HooksTyped' /\ CountsTyped'
BY Zenon DEF TypeOK, ManifestsTyped, TasksTyped, StatesTyped, LoopTyped, HooksTyped, CountsTyped, Labels

\* No step changes the hooks, the other objects of the manifests or the operation.
LEMMA ManifestsStay == ASSUME Steps PROVE ManifestsKept
BY Zenon DEF Steps, Begins, DryRuns, AppliesOrEnds, Verifies, RunsHook, EndsLoop, SyncsNonHooks,
   ChecksHealth, Terminates, Stores, Restarts, IsTerminated, Finishes, Stutters, Advances, Resets

\* The operation state and its copy keep their type.
LEMMA StatesType == ASSUME StatesTyped, Steps PROVE StatesTyped'
BY Zenon DEF StatesTyped, Steps, Begins, DryRuns, AppliesOrEnds, Verifies, RunsHook, EndsLoop,
   SyncsNonHooks, ChecksHealth, Terminates, Stores, Restarts, IsTerminated, Finishes, Stutters,
   Advances, CopyKept, Resets, PassKept

\* The objects of the hooks and their history keep their types.
LEMMA HooksType == ASSUME HooksTyped, Steps PROVE HooksTyped'
<1>1. ASSUME HooksKept PROVE HooksTyped'
  BY <1>1, Zenon DEF HooksTyped, HooksKept
<1>2. CASE HooksKept
  BY <1>1, <1>2, Zenon
<1>3. CASE RunsHook
  BY <1>3, Zenon DEF HooksTyped, RunsHook, ObjectsTyped
<1>4. CASE Terminates
  BY <1>4, Zenon DEF HooksTyped, Terminates
<1>5. CASE Stores \/ Restarts
  BY <1>5, Zenon DEF HooksTyped, Stores, Restarts, Resets
<1>6. CASE \E o \in Objects : Finishes(o)
  BY <1>6, Zenon DEF HooksTyped, Finishes
<1> QED BY <1>2, <1>3, <1>4, <1>5, <1>6, Zenon DEF Steps, Begins, DryRuns, AppliesOrEnds, Verifies, EndsLoop,
   SyncsNonHooks, ChecksHealth, IsTerminated, Stutters, Advances, ClusterKept

\* What is applied, and the counters, keep their types.
LEMMA CountsType == ASSUME TasksTyped, CountsTyped, Steps PROVE CountsTyped'
<1>1. tasks \in SUBSET Tasks
  BY Zenon DEF TasksTyped
<1>2. CASE applied' = applied /\ applies' = applies /\ crashes' = crashes
  BY <1>2, Zenon DEF CountsTyped
<1>3. ASSUME NEW ts \in SUBSET tasks, Applies(ts), crashes' = crashes PROVE CountsTyped'
  <2>1. applied' \in SUBSET Tasks
    BY <1>1, <1>3, Zenon DEF Applies, CountsTyped
  <2>2. applies' \in Nat
    BY <1>3, SMT DEF Applies, CountsTyped
  <2> QED BY <1>3, <2>1, <2>2, Zenon DEF CountsTyped
<1>4. CASE Restarts
  <2>1. crashes' \in 0 .. MaxCrashes
    BY <1>4, ConstantsAssumption, SMT DEF Restarts, CountsTyped
  <2> QED BY <1>4, <2>1, Zenon DEF CountsTyped, Restarts, Resets
<1>5. CASE AppliesOrEnds \/ SyncsNonHooks
  <2>1. tasks \in SUBSET tasks /\ tasks \ {"skip"} \in SUBSET tasks
    BY Zenon
  <2> QED BY <1>2, <1>3, <1>5, <2>1, Zenon DEF AppliesOrEnds, SyncsNonHooks, Advances, ClusterKept
<1> QED BY <1>2, <1>4, <1>5, Zenon DEF Steps, Begins, DryRuns, Verifies, RunsHook, EndsLoop,
   ChecksHealth, Terminates, Stores, IsTerminated, Finishes, Stutters, Advances, ClusterKept, Resets

\* Where the pass is keeps its type.
LEMMA LoopType == ASSUME LoopTyped, Steps PROVE LoopTyped'
<1>1. 1 \in 1 .. (NumHooks + 1) /\ \A n \in Hooks : n + 1 \in 1 .. (NumHooks + 1)
  BY ConstantsAssumption, SMT DEF Hooks
<1>2. Strategy \in Labels /\ {"idle", "store", "terminate", "dryrun", "hooks", "nonhook", "health"} \subseteq Labels
  BY Zenon DEF Strategy, Labels
<1>3. "PreSync" \in Stages /\ "Sync" \in Stages /\ "PostSync" \in Stages
  BY Zenon DEF Stages
<1>4. CASE PassKept
  BY <1>4, Zenon DEF LoopTyped, PassKept, LoopKept
<1>5. CASE Begins
  BY <1>2, <1>5, Zenon DEF LoopTyped, Begins, LoopKept
<1>6. ASSUME LoopKept, seen' = seen, pc' \in Labels PROVE LoopTyped'
  BY <1>6, Zenon DEF LoopTyped, LoopKept
<1>7. ASSUME NEW t \in Stages, LoopStarts(t), fresh' \in BOOLEAN, seen' \in BOOLEAN, pc' \in Labels PROVE LoopTyped'
  BY <1>1, <1>7, Zenon DEF LoopTyped, LoopStarts
<1>8. CASE DryRuns \/ AppliesOrEnds \/ EndsLoop \/ Terminates
  <2>1. LoopKept /\ seen' = seen
    BY <1>8, Zenon DEF DryRuns, AppliesOrEnds, EndsLoop, Terminates, Advances
  <2>2. pc' \in {Strategy, "store", "nonhook", "health"}
    BY <1>8, Zenon DEF DryRuns, AppliesOrEnds, EndsLoop, Terminates
  <2> QED BY <1>2, <1>6, <2>1, <2>2, Zenon
<1>9. CASE Verifies \/ SyncsNonHooks \/ ChecksHealth
  BY <1>2, <1>3, <1>6, <1>7, <1>9, Zenon DEF Verifies, SyncsNonHooks, ChecksHealth, Advances, LoopTyped
<1>10. CASE Stores \/ Restarts
  BY <1>2, <1>3, <1>7, <1>10, Zenon DEF Stores, Restarts, Resets
<1>11. CASE RunsHook
  <2>1. pc' \in Labels /\ cont' \in BOOLEAN
    BY <1>2, <1>11, Zenon DEF RunsHook, Passes, Breaks, Records, LoopTyped
  <2> QED BY <1>1, <1>11, <2>1, Zenon DEF RunsHook, LoopTyped
<1> QED BY <1>4, <1>5, <1>8, <1>9, <1>10, <1>11, Zenon DEF Steps, IsTerminated, Finishes, Stutters

\* The labels at which the tasks are still to be applied.
Pending ==
    pc \in {"dryrun", "apply", "verify", "nonhook"} \/ (pc = "hooks" /\ stage = "PreSync")

\* A pass makes its tasks when it begins, from all objects of the manifests, and
\* keeps them until they have been applied.
LEMMA TasksDo ==
    ASSUME [Next]_vars
    PROVE  \/ targets \subseteq tasks' /\ tasks' \subseteq targets \union {"prune"}
           \/ tasks' \subseteq tasks /\ (Pending' => Pending /\ tasks' = tasks)
<1> DEFINE Kept == tasks' \subseteq tasks /\ (Pending' => Pending /\ tasks' = tasks)
<1>1. CASE SyncAppState
  <2>1. ASSUME NEW x, EndPass(x) PROVE Kept
    BY <2>1, Zenon DEF EndPass, Pending
  <2>2. ASSUME Goto("terminate", saved) PROVE Kept
    BY <2>2, Zenon DEF Goto, Pending
  <2>3. ASSUME tasks' \in generateSyncTasks
        PROVE  targets \subseteq tasks' /\ tasks' \subseteq targets \union {"prune"}
    BY <2>3, Zenon DEF generateSyncTasks
  <2> QED BY <1>1, <2>1, <2>2, <2>3, Zenon DEF SyncAppState
<1>2. CASE DryRun
  BY <1>2, Zenon DEF DryRun, EndPass, Goto, Pending
<1>3. CASE ApplyStrategy
  BY <1>3, Zenon DEF ApplyStrategy, EndPass, Pending
<1>4. CASE verifyPermittedHooks
  BY <1>4, Zenon DEF verifyPermittedHooks, EndPass, RunHooks, Pending
<1>5. CASE RunHook
  <2>1. tasks' = tasks /\ stage' = stage /\ pc = "hooks" /\ pc' \in {"hooks", "store"}
    BY <1>5, Zenon DEF RunHook, runHook
  <2> QED BY <2>1, Zenon DEF Pending
<1>6. CASE RunHooksDone
  BY <1>6, Zenon DEF RunHooksDone, EndPass, Goto, Pending
<1>7. CASE syncNonHookTasks
  BY <1>7, Zenon DEF syncNonHookTasks, EndPass, RunHooks, Pending
<1>8. CASE CheckHealth
  BY <1>8, Zenon DEF CheckHealth, EndPass, RunHooks, Pending
<1>9. CASE terminate
  BY <1>9, Zenon DEF terminate, EndPass, Pending
<1>10. CASE Store \/ Restart
  BY <1>10, Zenon DEF Store, Restart, NoPass, Pending
<1>11. CASE TerminateOperation \/ (\E o \in Objects : FinishHook(o)) \/ UNCHANGED vars
  BY <1>11, Zenon DEF TerminateOperation, FinishHook, pass, vars, Pending
<1> QED BY <1>1, <1>2, <1>3, <1>4, <1>5, <1>6, <1>7, <1>8, <1>9, <1>10, <1>11, Zenon DEF Next, Pass

\* Until they have been applied the tasks have every object of the manifests.
HasTargets == Pending => targets \subseteq tasks

\* Every step keeps that.
LEMMA TargetsStep == ASSUME HasTargets, Steps, [Next]_vars PROVE HasTargets'
BY TasksDo, ManifestsStay, Zenon DEF HasTargets, ManifestsKept

\* Every step keeps the type invariant.
LEMMA TypeStep == ASSUME TypeOK, Steps, [Next]_vars PROVE TypeOK'
<1>1. ManifestsTyped /\ TasksTyped /\ StatesTyped /\ LoopTyped /\ HooksTyped /\ CountsTyped
  BY TypeParts, Zenon
<1>2. ManifestsTyped'
  BY <1>1, ManifestsStay, Zenon DEF ManifestsTyped, ManifestsKept
<1>3. TasksTyped'
  <2>1. targets \union {"prune"} \subseteq Tasks
    BY <1>1, ConstantsAssumption, Zenon DEF ManifestsTyped, Tasks
  <2> QED BY <1>1, <2>1, TasksDo, Zenon DEF TasksTyped
<1> QED BY <1>1, <1>2, <1>3, StatesType, LoopType, HooksType, CountsType, TypePartsNext, Zenon

\* The type invariant holds at first.
LEMMA TypeInit == ASSUME Init PROVE TypeOK
<1>1. hook \in [Hooks -> HookAttr]
  BY ConstantsAssumption, Zenon DEF Init
<1>2. ManifestsTyped /\ TasksTyped
  BY Zenon DEF Init, ManifestsTyped, TasksTyped
<1>3. [k \in HookKeys |-> "none"] \in [HookKeys -> Statuses \union {"none"}]
  BY Zenon
<1>4. saved \in OperationState
  BY <1>3, SMT DEF Init, OperationState, Statuses
<1>5. StatesTyped
  BY <1>4, Zenon DEF Init, StatesTyped
<1>6. 1 \in 1 .. (NumHooks + 1) /\ 0 \in 0 .. MaxCrashes /\ 0 \in Nat
  BY ConstantsAssumption, SMT
<1>7. LoopTyped
  BY <1>6, Zenon DEF Init, LoopTyped, Labels, Stages
<1>8. CountsTyped
  BY <1>6, Zenon DEF Init, CountsTyped
<1>9. PICK left \in SUBSET Leftovers :
          /\ obj = [o \in Objects |->
                      IF o \notin left THEN "absent"
                      ELSE IF hook[o[1]].runnable THEN "Running" ELSE "Succeeded"]
          /\ succ = {o \in left : ~hook[o[1]].runnable}
          /\ orphans = left
  BY Zenon DEF Init
<1>10. left \in SUBSET Objects
  BY Zenon DEF Leftovers
<1>11. obj \in [Objects -> Statuses \union {"absent"}]
  BY <1>9, Zenon DEF Statuses
<1>12. created \in [Objects -> Nat]
  BY <1>6, Zenon DEF Init
<1>13. HooksTyped
  BY <1>9, <1>10, <1>11, <1>12, Zenon DEF HooksTyped, Init
<1> QED BY <1>2, <1>5, <1>7, <1>8, <1>13, TypeParts, Zenon

-----------------------------------------------------------------------------
(* Where a pass is, and what for.                                          *)

\* The labels of a pass that works on the tasks, and those of doHookSync.
Working == {"dryrun", "apply", "verify", "hooks", "nonhook", "health"}
HookSync == {"verify", "hooks", "nonhook", "health"}

Path ==
    /\ pc # "idle" => ~Completed(saved.phase)
    /\ pc \in Working => cur.phase = "Running"
    /\ pc \in HookSync => op.strategy = "Hook"
    /\ pc = "apply" => op.strategy = "Apply"
    /\ pc \in HookSync \union {"apply"} => ~op.dryRun
    /\ pc = "terminate" => saved.phase = "Terminating" /\ cur.phase = "Terminating"

\* A dry-run operation changes nothing, and is not stored before it ends.
Dry ==
    op.dryRun =>
        /\ applied = {} /\ \A o \in Objects : created[o] = 0
        /\ ~Completed(saved.phase) => ~startedPreSyncPhase(saved)
        /\ pc = "store" => Completed(cur.phase)

\* What shows that a stage started are the resources and the hooks.
LEMMA StartedSame ==
    ASSUME NEW r, NEW s, r.hooks = s.hooks, r.resources = s.resources
    PROVE  /\ startedPreSyncPhase(r) <=> startedPreSyncPhase(s)
           /\ startedSyncPhase(r) <=> startedSyncPhase(s)
           /\ startedPostSyncPhase(r) <=> startedPostSyncPhase(s)
BY Zenon DEF startedPreSyncPhase, startedSyncPhase, startedPostSyncPhase

\* The labels of the strategies.
LEMMA StrategyType ==
    ASSUME ManifestsTyped
    PROVE  /\ \/ Strategy = "apply" /\ op.strategy = "Apply"
              \/ Strategy = "verify" /\ op.strategy = "Hook"
           /\ op.dryRun \in BOOLEAN /\ op.prune \in BOOLEAN
<1>1. op \in Operations
  BY ConstantsAssumption, Zenon DEF ManifestsTyped
<1>2. op.strategy \in {"Apply", "Hook"} /\ op.dryRun \in BOOLEAN /\ op.prune \in BOOLEAN
  BY <1>1, Zenon DEF Operations
<1> QED BY <1>2, Zenon DEF Strategy

\* Every step keeps Path.
LEMMA PathStep == ASSUME TypeOK, Path, Dry, Steps PROVE Path'
<1>1. op' = op
  BY ManifestsStay, Zenon DEF ManifestsKept
<1>2. CASE Begins
  <2>1. saved' = saved /\ ~Completed(saved.phase)
    BY <1>2, Zenon DEF Begins
  <2>2. \/ Strategy = "apply" /\ op.strategy = "Apply"
        \/ Strategy = "verify" /\ op.strategy = "Hook"
    BY TypeParts, StrategyType, Zenon
  <2>3. startedPreSyncPhase(saved) => ~op.dryRun
    BY <2>1, Zenon DEF Dry
  <2> QED BY <1>1, <1>2, <2>1, <2>2, <2>3, Zenon DEF Begins, Path, Working, HookSync
<1>3. CASE DryRuns
  <2>1. \/ Strategy = "apply" /\ op.strategy = "Apply"
        \/ Strategy = "verify" /\ op.strategy = "Hook"
    BY TypeParts, StrategyType, Zenon
  <2>2. saved' = saved /\ ~Completed(saved.phase) /\ cur.phase = "Running"
    BY <1>3, Zenon DEF DryRuns, Advances, Path, Working
  <2> QED BY <1>1, <1>3, <2>1, <2>2, Zenon DEF DryRuns, Path, Working, HookSync
<1>4. CASE AppliesOrEnds \/ Terminates
  BY <1>1, <1>4, Zenon DEF AppliesOrEnds, Terminates, Advances, Path, Working, HookSync
<1>5. CASE Verifies \/ EndsLoop \/ SyncsNonHooks \/ ChecksHealth
  <2>1. /\ saved' = saved /\ ~Completed(saved.phase) /\ cur.phase = "Running"
        /\ op.strategy = "Hook" /\ ~op.dryRun
    BY <1>5, Zenon DEF Verifies, EndsLoop, SyncsNonHooks, ChecksHealth, Advances, Path, Working, HookSync
  <2>2. pc' = "store" \/ (pc' \in HookSync /\ cur'.phase = cur.phase)
    BY <1>5, Zenon DEF Verifies, EndsLoop, SyncsNonHooks, ChecksHealth, HookSync
  <2> QED BY <1>1, <2>1, <2>2, Zenon DEF Path, Working, HookSync
<1>6. CASE RunsHook
  <2>1. /\ saved' = saved /\ ~Completed(saved.phase) /\ cur.phase = "Running"
        /\ op.strategy = "Hook" /\ ~op.dryRun /\ pc = "hooks"
    BY <1>6, Zenon DEF RunsHook, Path, Working, HookSync
  <2>2. pc' = "store" \/ (pc' = "hooks" /\ cur'.phase = cur.phase)
    BY <1>6, Zenon DEF RunsHook, Passes, Breaks, Records
  <2> QED BY <1>1, <2>1, <2>2, Zenon DEF Path, Working, HookSync
<1>7. CASE Stores \/ Restarts
  BY <1>7, Zenon DEF Stores, Restarts, Resets, Path, Working, HookSync
<1>8. CASE IsTerminated
  BY <1>1, <1>8, Zenon DEF IsTerminated, PassKept, Path, Completed
<1>9. CASE Stutters \/ \E o \in Objects : Finishes(o)
  BY <1>1, <1>9, Zenon DEF Stutters, Finishes, PassKept, Path
<1> QED BY <1>2, <1>3, <1>4, <1>5, <1>6, <1>7, <1>8, <1>9, Zenon DEF Steps

\* Every step keeps Dry.
LEMMA DryStep == ASSUME TypeOK, Path, Dry, Steps PROVE Dry'
<1>1. op' = op
  BY ManifestsStay, Zenon DEF ManifestsKept
<1> SUFFICES ASSUME op.dryRun PROVE Dry'
  BY <1>1, Zenon DEF Dry
<1>2. /\ applied = {} /\ \A o \in Objects : created[o] = 0
      /\ ~Completed(saved.phase) => ~startedPreSyncPhase(saved)
      /\ pc = "store" => Completed(cur.phase)
  BY Zenon DEF Dry
<1>3. pc \notin HookSync \union {"apply"}
  BY Zenon DEF Path
<1>4. Completed("Error") /\ Completed("Failed") /\ Completed("Succeeded")
  BY Zenon DEF Completed
<1>5. CASE Begins \/ DryRuns \/ Terminates
  <2>1. applied' = applied /\ created' = created /\ saved' = saved
    BY <1>5, Zenon DEF Begins, DryRuns, Terminates, Advances, ClusterKept, HooksKept
  <2>2. pc' = "store" => Completed(cur'.phase)
    BY <1>3, <1>4, <1>5, StrategyType, TypeParts, Zenon DEF Begins, DryRuns, Terminates
  <2> QED BY <1>2, <2>1, <2>2, Zenon DEF Dry
<1>6. CASE Stores
  <2>1. Completed(saved'.phase)
    BY <1>2, <1>4, <1>6, Zenon DEF Stores, Completed
  <2> QED BY <1>2, <1>6, <2>1, Zenon DEF Stores, Resets, Dry
<1>7. CASE Restarts
  BY <1>2, <1>7, Zenon DEF Restarts, Resets, Dry
<1>8. CASE IsTerminated
  <2>1. ~Completed(saved.phase)
    BY <1>8, Zenon DEF IsTerminated, Completed
  <2>2. ~startedPreSyncPhase(saved')
    BY <1>2, <1>8, <2>1, StartedSame, Zenon DEF IsTerminated
  <2> QED BY <1>2, <1>8, <2>2, Zenon DEF IsTerminated, PassKept, ClusterKept, HooksKept, Dry
<1>9. CASE Stutters \/ \E o \in Objects : Finishes(o)
  BY <1>2, <1>9, Zenon DEF Stutters, Finishes, PassKept, ClusterKept, HooksKept, Dry
<1>10. ~(AppliesOrEnds \/ Verifies \/ RunsHook \/ EndsLoop \/ SyncsNonHooks \/ ChecksHealth)
  BY <1>3, Zenon DEF AppliesOrEnds, Verifies, RunsHook, EndsLoop, SyncsNonHooks, ChecksHealth, HookSync
<1> QED BY <1>5, <1>6, <1>7, <1>8, <1>9, <1>10, Zenon DEF Steps

-----------------------------------------------------------------------------
(* The stages are in turn.                                                 *)

\* The copy goes on from what is stored: a status that is completed stays, and
\* only runHooks' stage, up to its hook, differs before the pass ends.
Follows ==
    /\ \A h \in Hooks : \A t \in Stages :
          /\ saved.hooks[<<h, t>>] # "none" => cur.hooks[<<h, t>>] # "none"
          /\ Completed(saved.hooks[<<h, t>>]) => cur.hooks[<<h, t>>] = saved.hooks[<<h, t>>]
          /\ pc # "store" /\ cur.hooks[<<h, t>>] # saved.hooks[<<h, t>>] =>
                pc = "hooks" /\ ~cont /\ t = stage /\ h < next
    /\ saved.resources \subseteq cur.resources
    /\ \/ pc \in {"idle", "dryrun", "apply", "verify", "nonhook", "terminate"}
       \/ pc = "hooks" /\ stage = "PreSync"
       => cur.resources = saved.resources

\* A hook is recorded at a stage it runs at, after the earlier stages have
\* succeeded.
StageDone(s, t) == \A h \in Running(t) : s.hooks[<<h, t>>] = "Succeeded"
StagesInTurn(s) ==
    \A h \in Hooks : \A t \in Stages : s.hooks[<<h, t>>] # "none" =>
        /\ h \in Running(t)
        /\ t \in {"Sync", "PostSync"} => StageDone(s, "PreSync")
        /\ t = "PostSync" => StageDone(s, "Sync")
InTurn == StagesInTurn(saved) /\ StagesInTurn(cur)

\* The stages that the pass has gone through.
Gone ==
    /\ pc = "hooks" => /\ stage \in {"Sync", "PostSync"} => StageDone(cur, "PreSync")
                       /\ stage = "PostSync" => StageDone(cur, "Sync") /\ ~fresh
                       /\ \A h \in Running(stage) : h < next /\ cont =>
                             Completed(cur.hooks[<<h, stage>>])
    /\ pc = "nonhook" => StageDone(cur, "PreSync")
    /\ pc = "health" => StageDone(cur, "PreSync") /\ StageDone(cur, "Sync") /\ ~fresh

\* What is said of the manifests stays.
LEMMA RunningKept ==
    ASSUME ManifestsKept
    PROVE  /\ \A t : Running(t)' = Running(t) /\ RunsAgain(t)' = RunsAgain(t)
           /\ \A h, t : Obj(h, t)' = Obj(h, t)
BY Zenon DEF ManifestsKept, Running, RunsAgain, isHookType, Obj

\* A stage that is done, and the order of stages, of the next copy.
LEMMA InTurnNext ==
    ASSUME ManifestsKept
    PROVE  /\ StagesInTurn(cur)' <=> StagesInTurn(cur')
           /\ StagesInTurn(saved)' <=> StagesInTurn(saved')
           /\ \A t : StageDone(cur, t)' <=> StageDone(cur', t)
           /\ \A t : StageDone(saved, t)' <=> StageDone(saved', t)
<1>1. \A t : Running(t)' = Running(t)
  BY RunningKept, Zenon
<1>2. /\ \A t : StageDone(cur, t)' <=> StageDone(cur', t)
      /\ \A t : StageDone(saved, t)' <=> StageDone(saved', t)
  BY <1>1, Zenon DEF StageDone
<1> QED BY <1>1, <1>2, Zenon DEF StagesInTurn

\* The stages are those of the statuses.
LEMMA InTurnSame ==
    ASSUME NEW r, NEW s, r.hooks = s.hooks
    PROVE  /\ \A t : StageDone(r, t) <=> StageDone(s, t)
           /\ StagesInTurn(r) <=> StagesInTurn(s)
BY Zenon DEF StageDone, StagesInTurn

\* A status is recorded for a hook that is not done: the stages that have
\* succeeded are not that of the hook.
LEMMA RecordsStages ==
    ASSUME NEW o, NEW st, next \in Hooks, stage \in Stages, Records(o, st)
    PROVE  \A t \in Stages : StageDone(cur, t) => StageDone(cur', t)
<1> SUFFICES ASSUME NEW t \in Stages, StageDone(cur, t) PROVE StageDone(cur', t)
  OBVIOUS
<1>1. t # stage
  BY Zenon DEF StageDone, Records, HookDone, Completed
<1>2. ASSUME NEW h \in Running(t) PROVE cur'.hooks[<<h, t>>] = "Succeeded"
  <2>1. h \in Hooks /\ <<h, t>> # <<next, stage>>
    BY <1>1, Zenon DEF Running
  <2>2. cur'.hooks[<<h, t>>] = cur.hooks[<<h, t>>]
    BY <2>1, Zenon DEF Records
  <2> QED BY <2>2, Zenon DEF StageDone
<1> QED BY <1>2, Zenon DEF StageDone

\* terminate changes the status of hooks that run.
LEMMA TerminatesStages ==
    ASSUME Terminates
    PROVE  /\ \A t \in Stages : StageDone(cur, t) => StageDone(cur', t)
           /\ \A h \in Hooks : \A t \in Stages :
                 /\ cur'.hooks[<<h, t>>] # "none" => cur.hooks[<<h, t>>] # "none"
                 /\ cur.hooks[<<h, t>>] # "none" => cur'.hooks[<<h, t>>] # "none"
                 /\ Completed(cur.hooks[<<h, t>>]) => cur'.hooks[<<h, t>>] = cur.hooks[<<h, t>>]
<1>1. ASSUME NEW h \in Hooks, NEW t \in Stages
      PROVE  /\ cur.hooks[<<h, t>>] = "Succeeded" => cur'.hooks[<<h, t>>] = "Succeeded"
             /\ cur'.hooks[<<h, t>>] # "none" => cur.hooks[<<h, t>>] # "none"
             /\ cur.hooks[<<h, t>>] # "none" => cur'.hooks[<<h, t>>] # "none"
             /\ Completed(cur.hooks[<<h, t>>]) => cur'.hooks[<<h, t>>] = cur.hooks[<<h, t>>]
  <2> DEFINE k == <<h, t>>
  <2>1. k \in HookKeys
    BY Zenon DEF HookKeys
  <2> HIDE DEF k
  <2>2. cur'.hooks[k] = IF k \in RunningHooks THEN "Failed" ELSE cur.hooks[k]
    BY <2>1, Zenon DEF Terminates
  <2>3. k \in RunningHooks => cur.hooks[k] = "Running"
    BY Zenon DEF RunningHooks
  <2> QED BY <2>2, <2>3, Zenon DEF Completed, k
<1>2. \A t \in Stages : Running(t) \subseteq Hooks
  BY Zenon DEF Running
<1> QED BY <1>1, <1>2, Zenon DEF StageDone

\* Every step keeps the order of the stages.
LEMMA InTurnStep == ASSUME TypeOK, InTurn, Gone, Steps PROVE InTurn'
<1>1. ManifestsKept
  BY ManifestsStay, Zenon
<1> SUFFICES StagesInTurn(saved') /\ StagesInTurn(cur')
  BY <1>1, InTurnNext, Zenon DEF InTurn
<1>2. StagesInTurn(saved) /\ StagesInTurn(cur)
  BY Zenon DEF InTurn
<1>3. CASE saved' = saved /\ cur'.hooks = cur.hooks
  BY <1>2, <1>3, InTurnSame, Zenon
<1>4. CASE Begins
  BY <1>2, <1>4, InTurnSame, Zenon DEF Begins
<1>5. CASE RunsHook
  <2>1. saved' = saved /\ next \in Hooks /\ stage \in Stages /\ pc = "hooks"
    BY <1>5, Zenon DEF RunsHook, TypeOK
  <2>2. CASE cur'.hooks = cur.hooks
    BY <1>2, <2>1, <2>2, InTurnSame, Zenon
  <2>3. ASSUME NEW o, NEW st, Records(o, st) PROVE StagesInTurn(cur')
    <3>1. \A t \in Stages : StageDone(cur, t) => StageDone(cur', t)
      BY <2>1, <2>3, RecordsStages, Zenon
    <3>2. "PreSync" \in Stages /\ "Sync" \in Stages
      BY Zenon DEF Stages
    <3>3. /\ stage \in {"Sync", "PostSync"} => StageDone(cur, "PreSync")
          /\ stage = "PostSync" => StageDone(cur, "Sync")
      BY <2>1, Zenon DEF Gone
    <3>4. ASSUME NEW h \in Hooks, NEW t \in Stages, cur'.hooks[<<h, t>>] # "none"
          PROVE  /\ h \in Running(t)
                 /\ t \in {"Sync", "PostSync"} => StageDone(cur, "PreSync")
                 /\ t = "PostSync" => StageDone(cur, "Sync")
      <4>1. CASE h = next /\ t = stage
        BY <2>3, <3>3, <4>1, Zenon DEF Records
      <4>2. CASE ~(h = next /\ t = stage)
        <5>1. <<h, t>> # <<next, stage>>
          BY <4>2, Zenon
        <5>2. cur.hooks[<<h, t>>] # "none"
          BY <2>3, <3>4, <5>1, Zenon DEF Records
        <5> QED BY <1>2, <5>2, Zenon DEF StagesInTurn
      <4> QED BY <4>1, <4>2, Zenon
    <3> QED BY <3>1, <3>2, <3>4, Zenon DEF StagesInTurn
  <2> QED BY <1>2, <1>5, <2>1, <2>2, <2>3, Zenon DEF RunsHook, Passes, Breaks
<1>6. CASE Terminates
  <2>1. saved' = saved /\ "PreSync" \in Stages /\ "Sync" \in Stages
    BY <1>6, Zenon DEF Terminates, Stages
  <2>2. StagesInTurn(cur')
    BY <1>2, <1>6, <2>1, TerminatesStages, Zenon DEF StagesInTurn
  <2> QED BY <1>2, <2>1, <2>2, Zenon
<1>7. CASE Stores \/ Restarts
  <2>1. cur' = saved' /\ (saved'.hooks = cur.hooks \/ saved' = saved)
    BY <1>7, Zenon DEF Stores, Restarts, Resets
  <2> QED BY <1>2, <2>1, InTurnSame, Zenon
<1>8. CASE IsTerminated
  <2>1. cur' = cur /\ saved'.hooks = saved.hooks
    BY <1>8, Zenon DEF IsTerminated, PassKept
  <2> QED BY <1>2, <2>1, InTurnSame, Zenon
<1> QED BY <1>3, <1>4, <1>5, <1>6, <1>7, <1>8, Zenon DEF Steps, DryRuns, AppliesOrEnds, Verifies,
     EndsLoop, SyncsNonHooks, ChecksHealth, Finishes, Stutters, Advances, CopyKept, PassKept

\* The hooks that runHooks has been through, after one more round.
LEMMA NextHook ==
    ASSUME TypeOK
    PROVE  /\ \A h \in Hooks : h < next => h < next + 1
           /\ next < next + 1
           /\ \A h \in Hooks : h < next + 1 => h < next \/ h = next
           /\ next \notin Hooks => \A h \in Hooks : h < next
           /\ \A h \in Hooks : ~(h < 1)
<1>1. next \in 1 .. (NumHooks + 1) /\ NumHooks \in Nat
  BY ConstantsAssumption, Zenon DEF TypeOK
<1> QED BY <1>1, SMT DEF Hooks

\* runHooks goes on when the hooks of its stage have succeeded.
LEMMA EndsStage ==
    ASSUME TypeOK, Gone, pc = "hooks", next \notin Hooks, cont, areHooksSuccessful(stage)
    PROVE  StageDone(cur, stage)
<1>1. ASSUME NEW h \in Running(stage) PROVE cur.hooks[<<h, stage>>] = "Succeeded"
  <2>1. h \in Hooks
    BY Zenon DEF Running
  <2>2. h < next
    BY <2>1, NextHook, Zenon
  <2>3. Completed(cur.hooks[<<h, stage>>])
    BY <2>2, Zenon DEF Gone
  <2> QED BY <2>1, <2>3, Zenon DEF areHooksSuccessful, Completed
<1> QED BY <1>1, Zenon DEF StageDone

\* Every step keeps what a pass has behind it.
LEMMA GoneStep == ASSUME TypeOK, Gone, Steps PROVE Gone'
<1>1. ManifestsKept
  BY ManifestsStay, Zenon
<1>2. /\ \A t : Running(t)' = Running(t)
      /\ \A t : StageDone(cur, t)' <=> StageDone(cur', t)
  BY <1>1, RunningKept, InTurnNext, Zenon
<1>3. CASE pc' \notin {"hooks", "nonhook", "health"}
  BY <1>3, Zenon DEF Gone
<1>4. ASSUME cur'.hooks = cur.hooks PROVE \A t : StageDone(cur', t) <=> StageDone(cur, t)
  BY <1>4, InTurnSame, Zenon
<1>5. CASE PassKept
  <2>1. (Running(stage))' = Running(stage)
    BY <1>2, <1>5, Zenon DEF PassKept, LoopKept
  <2>2. /\ cur' = cur /\ pc' = pc /\ stage' = stage /\ next' = next /\ cont' = cont /\ fresh' = fresh
    BY <1>5, Zenon DEF PassKept, LoopKept
  <2>3. \A t : StageDone(cur', t) <=> StageDone(cur, t)
    BY <1>4, <2>2, Zenon
  <2> QED BY <1>2, <2>1, <2>2, <2>3, Zenon DEF Gone
<1>6. ASSUME NEW t \in Stages, pc' = "hooks", LoopStarts(t), cur'.hooks = cur.hooks,
             t \in {"Sync", "PostSync"} => StageDone(cur, "PreSync"),
             t = "PostSync" => StageDone(cur, "Sync") /\ ~fresh'
      PROVE  Gone'
  <2>1. stage' = t /\ next' = 1
    BY <1>6, Zenon DEF LoopStarts
  <2>2. \A h \in (Running(stage))' : ~(h < next')
    <3>1. (Running(stage))' \subseteq Hooks
      BY Zenon DEF Running
    <3> QED BY <2>1, <3>1, NextHook, Zenon
  <2>3. \A u : StageDone(cur', u) <=> StageDone(cur, u)
    BY <1>4, <1>6, Zenon
  <2> QED BY <1>2, <1>6, <2>1, <2>2, <2>3, Zenon DEF Gone
<1>7. CASE Verifies
  BY <1>3, <1>6, <1>7, Zenon DEF Verifies, Advances, CopyKept, Stages
<1>8. CASE SyncsNonHooks
  BY <1>3, <1>6, <1>8, Zenon DEF SyncsNonHooks, Advances, CopyKept, Stages, Gone
<1>9. CASE ChecksHealth
  BY <1>3, <1>6, <1>9, Zenon DEF ChecksHealth, Advances, CopyKept, Stages, Gone
<1>10. CASE EndsLoop
  <2>1. cur'.hooks = cur.hooks /\ pc = "hooks" /\ next \notin Hooks /\ fresh' = fresh
    BY <1>10, Zenon DEF EndsLoop, Advances, CopyKept, LoopKept
  <2>2. ASSUME cont, areHooksSuccessful(stage) PROVE StageDone(cur, stage)
    BY <2>1, <2>2, EndsStage, Zenon
  <2>3. \A t : StageDone(cur', t) <=> StageDone(cur, t)
    BY <1>4, <2>1, Zenon
  <2>4. CASE stage = "PreSync" /\ pc' = "nonhook" /\ StageDone(cur, stage)
    BY <1>2, <2>3, <2>4, Zenon DEF Gone
  <2>5. CASE stage = "Sync" /\ ~fresh /\ pc' = "health" /\ StageDone(cur, stage)
    BY <1>2, <2>1, <2>3, <2>5, Zenon DEF Gone
  <2> QED BY <1>3, <1>10, <2>2, <2>4, <2>5, Zenon DEF EndsLoop
<1>11. CASE RunsHook
  <2>1. /\ pc = "hooks" /\ next \in Hooks /\ next' = next + 1 /\ stage' = stage /\ fresh' = fresh
        /\ stage \in Stages /\ "PreSync" \in Stages /\ "Sync" \in Stages
    BY <1>11, Zenon DEF RunsHook, TypeOK, Stages
  <2>2. (Running(stage))' = Running(stage)
    BY <1>2, <2>1, Zenon
  <2>3. CASE Passes
    <3>1. cur'.hooks = cur.hooks /\ cont' = cont /\ pc' = "hooks" /\ (next \in Running(stage) => HookDone(next))
      BY <2>1, <2>3, Zenon DEF Passes
    <3>2. \A t : StageDone(cur', t) <=> StageDone(cur, t)
      BY <1>4, <3>1, Zenon
    <3>3. ASSUME NEW h \in Running(stage), h < next', cont
          PROVE  Completed(cur'.hooks[<<h, stage>>])
      <4>1. h < next \/ h = next
        <5>1. h \in Hooks
          BY Zenon DEF Running
        <5> QED BY <2>1, <3>3, <5>1, NextHook, Zenon
      <4> QED BY <2>1, <3>1, <3>3, <4>1, Zenon DEF Gone, HookDone
    <3> QED BY <1>2, <2>1, <2>2, <3>1, <3>2, <3>3, Zenon DEF Gone
  <2>4. ASSUME NEW st \in Statuses, Records(Obj(next, stage), st) PROVE Gone'
    <3>1. \A t \in Stages : StageDone(cur, t) => StageDone(cur', t)
      BY <2>1, <2>4, RecordsStages, Zenon
    <3>2. pc' = "hooks" /\ ~cont'
      BY <2>1, <2>4, Zenon DEF Records
    <3> QED BY <1>2, <2>1, <3>1, <3>2, Zenon DEF Gone
  <2> QED BY <1>3, <1>11, <2>3, <2>4, Zenon DEF RunsHook, Breaks
<1>12. CASE Begins \/ DryRuns \/ AppliesOrEnds \/ Terminates \/ Stores \/ Restarts
  BY <1>3, <1>12, StrategyType, TypeParts, Zenon DEF Begins, DryRuns, AppliesOrEnds, Terminates, Stores, Restarts, Resets
<1> QED BY <1>5, <1>7, <1>8, <1>9, <1>10, <1>11, <1>12, Zenon DEF Steps, IsTerminated, Finishes, Stutters

\* Unless runHooks has recorded a status, the copy has the stored statuses.
LEMMA FollowsSame ==
    ASSUME Follows, pc # "store", pc = "hooks" => cont
    PROVE  \A h \in Hooks : \A t \in Stages : cur.hooks[<<h, t>>] = saved.hooks[<<h, t>>]
BY Zenon DEF Follows

\* Every step keeps that the copy goes on from what is stored.
LEMMA FollowsStep == ASSUME TypeOK, Follows, Steps PROVE Follows'
<1> DEFINE Later(s, r) == \A h \in Hooks : \A t \in Stages :
                            /\ s.hooks[<<h, t>>] # "none" => r.hooks[<<h, t>>] # "none"
                            /\ Completed(s.hooks[<<h, t>>]) => r.hooks[<<h, t>>] = s.hooks[<<h, t>>]
           Same(s, r) == \A h \in Hooks : \A t \in Stages : r.hooks[<<h, t>>] = s.hooks[<<h, t>>]
<1>1. Later(saved, cur) /\ saved.resources \subseteq cur.resources
  BY Zenon DEF Follows
<1>2. ASSUME saved'.hooks = saved.hooks, saved'.resources = saved.resources, cur'.hooks = cur.hooks,
             cur'.resources = cur.resources, pc' = pc, stage' = stage, cont' = cont, next' = next
      PROVE  Follows'
  BY <1>2, Zenon DEF Follows
<1>3. ASSUME Same(saved', cur'), cur'.resources = saved'.resources PROVE Follows'
  BY <1>3, Zenon DEF Follows
<1>4. ASSUME pc' = "store", Later(saved', cur'), saved'.resources \subseteq cur'.resources
      PROVE  Follows'
  BY <1>4, Zenon DEF Follows
<1>5. ASSUME Same(saved', cur'), saved'.resources \subseteq cur'.resources,
             pc' = "health" \/ (pc' = "hooks" /\ stage' \in {"Sync", "PostSync"})
      PROVE  Follows'
  BY <1>5, Zenon DEF Follows
<1>6. CASE Begins \/ Stores \/ Restarts
  <2>1. cur'.hooks = saved'.hooks /\ cur'.resources = saved'.resources
    BY <1>6, Zenon DEF Begins, Stores, Restarts, Resets
  <2> QED BY <1>3, <2>1, Zenon
<1>7. CASE IsTerminated \/ Stutters \/ \E o \in Objects : Finishes(o)
  BY <1>2, <1>7, Zenon DEF IsTerminated, Stutters, Finishes, PassKept, LoopKept
<1>8. ASSUME Advances, pc' = "store" PROVE Follows'
  <2>1. saved' = saved /\ cur'.hooks = cur.hooks /\ cur.resources \subseteq cur'.resources
    BY <1>8, Zenon DEF Advances, CopyKept
  <2>2. Later(saved', cur') /\ saved'.resources \subseteq cur'.resources
    BY <1>1, <2>1, Zenon
  <2> HIDE DEF Later
  <2> QED BY <1>4, <1>8, <2>2, Zenon
<1>9. ASSUME Advances, pc # "store", pc = "hooks" => cont
      PROVE  Same(saved', cur') /\ saved'.resources \subseteq cur'.resources
  BY <1>1, <1>9, FollowsSame, Zenon DEF Advances, CopyKept
<1>10. ASSUME Advances, pc # "store", pc = "hooks" => cont, cur'.resources = cur.resources,
              \/ pc \in {"idle", "dryrun", "apply", "verify", "nonhook", "terminate"}
              \/ pc = "hooks" /\ stage = "PreSync"
       PROVE  Follows'
  <2>1. cur.resources = saved.resources /\ saved' = saved
    BY <1>10, Zenon DEF Follows, Advances
  <2> QED BY <1>3, <1>9, <1>10, <2>1, Zenon
<1>11. CASE DryRuns
  BY <1>8, <1>10, <1>11, Zenon DEF DryRuns
<1>12. CASE AppliesOrEnds
  BY <1>8, <1>12, Zenon DEF AppliesOrEnds
<1>13. CASE Verifies
  BY <1>8, <1>10, <1>13, Zenon DEF Verifies
<1> HIDE DEF Later, Same
<1>14. CASE EndsLoop
  BY <1>5, <1>8, <1>9, <1>10, <1>14, Zenon DEF EndsLoop
<1>15. CASE SyncsNonHooks
  BY <1>5, <1>8, <1>9, <1>15, Zenon DEF SyncsNonHooks, LoopStarts
<1>16. CASE ChecksHealth
  BY <1>5, <1>8, <1>9, <1>16, Zenon DEF ChecksHealth, LoopStarts
<1>17. CASE Terminates
  <2>1. saved' = saved /\ cur'.resources = cur.resources /\ pc' = "store"
    BY <1>17, Zenon DEF Terminates
  <2>2. Later(saved', cur')
    BY <1>1, <1>17, <2>1, TerminatesStages, Zenon DEF Later
  <2>3. saved'.resources \subseteq cur'.resources
    BY <1>1, <2>1, Zenon
  <2> QED BY <1>4, <2>1, <2>2, <2>3, Zenon
<1>18. CASE RunsHook
  <2>1. saved' = saved /\ pc = "hooks" /\ next \in Hooks /\ next' = next + 1 /\ stage' = stage
    BY <1>18, Zenon DEF RunsHook
  <2>2. cur.resources \subseteq cur'.resources /\ (stage = "PreSync" => cur'.resources = cur.resources)
    BY <1>18, Zenon DEF RunsHook, Passes, Breaks, Records
  <2>3. saved'.resources \subseteq cur'.resources
    BY <1>1, <2>1, <2>2, Zenon
  <2>4. stage = "PreSync" => cur'.resources = saved'.resources
    BY <2>1, <2>2, Zenon DEF Follows
  <2>5. CASE Passes
    <3>1. cur'.hooks = cur.hooks /\ cont' = cont /\ pc' = "hooks"
      BY <2>1, <2>5, Zenon DEF Passes
    <3>2. \A h \in Hooks : h < next => h < next'
      BY <2>1, NextHook, Zenon
    <3> QED BY <2>1, <2>3, <2>4, <3>1, <3>2, Zenon DEF Follows
  <2>6. CASE Breaks(Obj(next, stage))
    <3>1. cur'.hooks = cur.hooks /\ pc' = "store"
      BY <2>6, Zenon DEF Breaks
    <3>2. Later(saved', cur')
      BY <1>1, <2>1, <3>1, Zenon DEF Later
    <3> QED BY <1>4, <2>3, <3>1, <3>2, Zenon
  <2>7. ASSUME NEW st \in Statuses, Records(Obj(next, stage), st) PROVE Follows'
    <3>1. /\ pc' = "hooks" /\ ~cont' /\ cur'.hooks[<<next, stage>>] = st
          /\ ~Completed(cur.hooks[<<next, stage>>])
      BY <2>1, <2>7, Zenon DEF Records, HookDone
    <3>2. ASSUME NEW h \in Hooks, NEW t \in Stages
          PROVE  /\ saved.hooks[<<h, t>>] # "none" => cur'.hooks[<<h, t>>] # "none"
                 /\ Completed(saved.hooks[<<h, t>>]) => cur'.hooks[<<h, t>>] = saved.hooks[<<h, t>>]
                 /\ cur'.hooks[<<h, t>>] # saved.hooks[<<h, t>>] => t = stage /\ h < next'
      <4>1. CASE h = next /\ t = stage
        <5>1. st # "none" /\ h < next'
          BY <2>1, <4>1, NextHook, Zenon DEF Statuses
        <5> QED BY <1>1, <3>1, <4>1, <5>1, Zenon DEF Later
      <4>2. CASE ~(h = next /\ t = stage)
        <5>1. <<h, t>> # <<next, stage>>
          BY <4>2, Zenon
        <5>2. cur'.hooks[<<h, t>>] = cur.hooks[<<h, t>>]
          BY <2>7, <5>1, Zenon DEF Records
        <5>3. h < next => h < next'
          BY <2>1, NextHook, Zenon
        <5> QED BY <2>1, <5>2, <5>3, Zenon DEF Follows
      <4> QED BY <4>1, <4>2, Zenon
    <3> QED BY <2>1, <2>3, <2>4, <3>1, <3>2, Zenon DEF Follows
  <2> QED BY <1>18, <2>5, <2>6, <2>7, Zenon DEF RunsHook
<1> QED BY <1>6, <1>7, <1>11, <1>12, <1>13, <1>14, <1>15, <1>16, <1>17, <1>18, Zenon DEF Steps

-----------------------------------------------------------------------------
(* The tasks are applied when the operation state shows it.                *)

Done(s) == Effective(s) \subseteq applied

AppliedIn(s) ==
    /\ ~op.dryRun /\ s.phase \notin {"Failed", "Error"} /\ startedSyncPhase(s) => Done(s)
    /\ s.phase = "Succeeded" /\ ~op.dryRun =>
          Done(s) /\ (op.strategy = "Hook" /\ targets # {} => \A t \in Stages : StageDone(s, t))

\* The Sync stage goes on from an apply, the PostSync stage from a health.
Basis ==
    /\ pc = "health" \/ (pc = "hooks" /\ stage \in {"Sync", "PostSync"}) =>
          Done(cur) /\ (~fresh => startedSyncPhase(saved))
    /\ pc = "hooks" /\ stage = "PostSync" =>
          seen \/ startedPostSyncPhase(saved) \/ Running("PostSync") = {}

AppliedInv == AppliedIn(saved) /\ AppliedIn(cur) /\ Basis

\* Nothing that was applied is undone.
LEMMA AppliedStays == ASSUME Steps PROVE applied \subseteq applied'
BY Zenon DEF Steps, Begins, DryRuns, AppliesOrEnds, Verifies, RunsHook, EndsLoop, SyncsNonHooks,
   ChecksHealth, Terminates, Stores, Restarts, IsTerminated, Finishes, Stutters, Applies,
   ClusterKept, Resets

\* What there is to do depends on the resources that a state lists.
LEMMA EffectiveFewer ==
    ASSUME NEW r, NEW s, r.resources \subseteq s.resources \union {"skipped"}
    PROVE  Effective(r) \subseteq Effective(s)
BY Zenon DEF Effective

\* What there is to do after a step, with the manifests of before.
LEMMA EffectiveNext ==
    ASSUME ManifestsKept
    PROVE  /\ Done(cur)' <=> Effective(cur') \subseteq applied'
           /\ Done(saved)' <=> Effective(saved') \subseteq applied'
<1>1. op' = op /\ targets' = targets
  BY Zenon DEF ManifestsKept
<1>2. Effective(cur)' = Effective(cur') /\ Effective(saved)' = Effective(saved')
  BY <1>1, Zenon DEF Effective
<1> QED BY <1>2, Zenon DEF Done

\* A step that lists nothing more to do undoes nothing.
LEMMA DoneStays ==
    ASSUME Steps, Done(cur), cur'.resources \subseteq cur.resources \union {"skipped"}
    PROVE  Done(cur)'
<1>1. ManifestsKept /\ applied \subseteq applied'
  BY ManifestsStay, AppliedStays, Zenon
<1>2. Effective(cur') \subseteq Effective(cur)
  BY EffectiveFewer, Zenon
<1> QED BY <1>1, <1>2, EffectiveNext, Zenon DEF Done

\* An apply without failure does the tasks.
LEMMA AppliesTasks ==
    ASSUME ManifestsKept, Applies(tasks) \/ (Applies(tasks \ {"skip"}) /\ op.strategy = "Hook"),
           targets \subseteq tasks, ~startedSyncPhase(cur), cur'.phase # "Failed"
    PROVE  Done(cur)' /\ cur'.phase = cur.phase
<1>1. cur.resources = {}
  BY Zenon DEF startedSyncPhase
<1>2. CASE Applies(tasks)
  <2>1. /\ {t \in tasks : t = "prune" => op.prune} \subseteq applied' /\ cur'.phase = cur.phase
        /\ cur'.resources = cur.resources \union tasks
    BY <1>2, Zenon DEF Applies
  <2>2. cur'.resources = tasks
    BY <1>1, <2>1, Zenon
  <2>3. Effective(cur') \subseteq applied'
    BY <2>1, <2>2, Zenon DEF Effective
  <2> QED BY <2>1, <2>3, EffectiveNext, Zenon
<1>3. CASE Applies(tasks \ {"skip"}) /\ op.strategy = "Hook"
  <2>1. /\ {t \in tasks \ {"skip"} : t = "prune" => op.prune} \subseteq applied'
        /\ cur'.phase = cur.phase /\ cur'.resources = cur.resources \union (tasks \ {"skip"})
    BY <1>3, Zenon DEF Applies
  <2>2. cur'.resources = tasks \ {"skip"}
    BY <1>1, <2>1, Zenon
  <2>3. Effective(cur') \subseteq applied'
    BY <1>3, <2>1, <2>2, Zenon DEF Effective
  <2> QED BY <2>1, <2>3, EffectiveNext, Zenon
<1> QED BY <1>2, <1>3, Zenon

\* Where the copy has the stored statuses and resources, it shows the same.
LEMMA StartedFollows ==
    ASSUME Follows, pc # "store", pc = "hooks" => cont
    PROVE  /\ startedPostSyncPhase(cur) => startedPostSyncPhase(saved)
           /\ cur.resources = saved.resources /\ startedSyncPhase(cur) => startedSyncPhase(saved)
<1>1. \A h \in Hooks : \A t \in Stages : cur.hooks[<<h, t>>] = saved.hooks[<<h, t>>]
  BY FollowsSame, Zenon
<1>2. ASSUME NEW k \in HookKeys PROVE cur.hooks[k] = saved.hooks[k]
  <2>1. PICK h \in Hooks, t \in Stages : k = <<h, t>>
    BY KeyParts, Zenon
  <2> QED BY <1>1, <2>1, Zenon
<1> QED BY <1>2, Zenon DEF startedPostSyncPhase, startedSyncPhase

\* runHook lists no more to do.
LEMMA RunsHookLists ==
    ASSUME RunsHook PROVE cur'.resources \subseteq cur.resources \union {"skipped"}
BY Zenon DEF RunsHook, Passes, Breaks, Records

\* Every step keeps what the Sync and PostSync stages rest on.
LEMMA BasisStep ==
    ASSUME TypeOK, Path, Follows, Gone, HasTargets, AppliedInv, Steps
    PROVE  Basis'
<1>1. ManifestsKept /\ Running("PostSync")' = Running("PostSync")
  BY ManifestsStay, RunningKept, Zenon
<1>2. CASE pc' \notin {"health", "hooks"} \/ (pc' = "hooks" /\ stage' = "PreSync")
  BY <1>2, Zenon DEF Basis
<1>3. CASE PassKept
  <2>1. pc' = pc /\ stage' = stage /\ fresh' = fresh /\ seen' = seen
    BY <1>3, Zenon DEF PassKept, LoopKept
  <2>2. saved'.hooks = saved.hooks /\ saved'.resources = saved.resources
    BY <1>3, Zenon DEF Steps, Begins, DryRuns, AppliesOrEnds, Verifies, RunsHook, EndsLoop,
       SyncsNonHooks, ChecksHealth, Terminates, Stores, Restarts, Resets, IsTerminated, Finishes,
       Stutters, Advances, PassKept
  <2>3. /\ startedSyncPhase(saved)' <=> startedSyncPhase(saved)
        /\ startedPostSyncPhase(saved)' <=> startedPostSyncPhase(saved)
    BY <2>2, StartedSame, Zenon
  <2>4. Done(cur) => Done(cur)'
    BY <1>3, DoneStays, Zenon DEF PassKept
  <2> QED BY <1>1, <2>1, <2>3, <2>4, Zenon DEF Basis, AppliedInv
<1>4. CASE SyncsNonHooks
  <2>1. saved' = saved /\ op.strategy = "Hook" /\ ~op.dryRun /\ cur.phase = "Running"
    BY <1>4, Zenon DEF SyncsNonHooks, Advances, Path, HookSync, Working
  <2>2. CASE startedSyncPhase(cur) /\ LoopStarts("Sync") /\ cur'.resources = cur.resources
    <3>1. startedSyncPhase(saved)
      BY <1>4, <2>2, StartedFollows, Zenon DEF SyncsNonHooks, Follows
    <3>2. Done(cur)
      BY <2>1, <2>2, Zenon DEF AppliedInv, AppliedIn
    <3> QED BY <2>1, <2>2, <3>1, <3>2, DoneStays, Zenon DEF Basis, LoopStarts
  <2>3. CASE /\ Applies(tasks \ {"skip"}) /\ LoopStarts("Sync") /\ fresh' = TRUE
             /\ cur'.phase = cur.phase /\ ~startedSyncPhase(cur)
    <3>1. targets \subseteq tasks
      BY <1>4, Zenon DEF SyncsNonHooks, HasTargets, Pending
    <3>2. Done(cur)'
      BY <1>1, <2>1, <2>3, <3>1, AppliesTasks, Zenon
    <3> QED BY <2>3, <3>2, Zenon DEF Basis, LoopStarts
  <2> QED BY <1>2, <1>4, <2>2, <2>3, Zenon DEF SyncsNonHooks
<1>5. CASE ChecksHealth
  <2>1. /\ saved' = saved /\ fresh' = fresh /\ seen' = seen /\ pc = "health"
        /\ cur'.resources = cur.resources
    BY <1>5, Zenon DEF ChecksHealth, Advances
  <2>2. CASE pc' = "hooks" /\ LoopStarts("PostSync") /\ (AwaitsHealth => seen)
    <3>1. Done(cur)' /\ (~fresh' => startedSyncPhase(saved'))
      BY <2>1, DoneStays, Zenon DEF Basis, AppliedInv
    <3>2. startedPostSyncPhase(cur) => startedPostSyncPhase(saved)
      BY <2>1, StartedFollows, Zenon
    <3>3. (\A h \in Hooks : ~isHookType(h, "PostSync")) => Running("PostSync") = {}
      BY Zenon DEF Running
    <3>4. seen \/ startedPostSyncPhase(saved) \/ Running("PostSync") = {}
      BY <2>2, <3>2, <3>3, Zenon DEF AwaitsHealth
    <3> QED BY <1>1, <2>1, <2>2, <3>1, <3>4, Zenon DEF Basis, LoopStarts
  <2> QED BY <1>2, <1>5, <2>2, Zenon DEF ChecksHealth
<1>6. CASE EndsLoop
  <2>1. Done(cur) => Done(cur)'
    BY <1>6, DoneStays, Zenon DEF EndsLoop
  <2> QED BY <1>2, <1>6, <2>1, Zenon DEF EndsLoop, Advances, LoopKept, Basis, AppliedInv
<1>7. CASE RunsHook
  <2>1. saved' = saved /\ fresh' = fresh /\ seen' = seen /\ pc = "hooks" /\ stage' = stage
        /\ (pc' = "hooks" \/ pc' = "store")
    BY <1>7, Zenon DEF RunsHook, Passes, Breaks, Records
  <2>2. Done(cur) => Done(cur)'
    BY <1>7, RunsHookLists, DoneStays, Zenon
  <2> QED BY <1>1, <1>2, <2>1, <2>2, Zenon DEF Basis, AppliedInv
<1>8. CASE Begins \/ DryRuns \/ AppliesOrEnds \/ Verifies \/ Terminates \/ Stores \/ Restarts
  BY <1>2, <1>8, StrategyType, TypeParts, Zenon DEF Begins, DryRuns, AppliesOrEnds, Verifies,
     Terminates, Stores, Restarts, Resets, LoopStarts
<1> QED BY <1>3, <1>4, <1>5, <1>6, <1>7, <1>8, Zenon DEF Steps, IsTerminated, Finishes, Stutters

\* The phase and the statuses of an operation state decide what it shows.
LEMMA AppliedSame ==
    ASSUME NEW r, NEW s, AppliedIn(s), r.hooks = s.hooks, r.resources = s.resources,
           \/ r.phase = s.phase
           \/ r.phase \in {"Failed", "Error"}
           \/ r.phase \in {"Running", "Terminating"} /\ s.phase \notin {"Failed", "Error"}
    PROVE  AppliedIn(r)
<1>1. /\ startedSyncPhase(r) <=> startedSyncPhase(s)
      /\ \A t : StageDone(r, t) <=> StageDone(s, t)
  BY StartedSame, InTurnSame, Zenon
<1>2. Done(s) => Done(r)
  BY EffectiveFewer, Zenon DEF Done
<1> QED BY <1>1, <1>2, Zenon DEF AppliedIn

\* AppliedIn after a step, with the manifests of before.
LEMMA AppliedNext ==
    ASSUME ManifestsKept, applied \subseteq applied'
    PROVE  /\ AppliedIn(cur') => AppliedIn(cur)'
           /\ AppliedIn(saved') => AppliedIn(saved)'
           /\ Done(cur)' /\ cur'.phase # "Succeeded" => AppliedIn(cur)'
<1>1. /\ \A t : StageDone(cur, t)' <=> StageDone(cur', t)
      /\ \A t : StageDone(saved, t)' <=> StageDone(saved', t)
  BY InTurnNext, Zenon
<1>2. op' = op /\ targets' = targets
  BY Zenon DEF ManifestsKept
<1>3. /\ startedSyncPhase(cur)' <=> startedSyncPhase(cur')
      /\ startedSyncPhase(saved)' <=> startedSyncPhase(saved')
  BY Zenon DEF startedSyncPhase
<1>4. (Done(cur') => Done(cur)') /\ (Done(saved') => Done(saved)')
  BY EffectiveNext, Zenon DEF Done
<1> QED BY <1>1, <1>2, <1>3, <1>4, Zenon DEF AppliedIn

\* Every step keeps that a started Sync stage was applied.
LEMMA AppliedStep ==
    ASSUME TypeOK, Path, Follows, Gone, HasTargets, AppliedInv, Steps
    PROVE  AppliedInv'
<1>1. ManifestsKept /\ applied \subseteq applied'
  BY ManifestsStay, AppliedStays, Zenon
<1>2. AppliedIn(saved) /\ AppliedIn(cur)
  BY Zenon DEF AppliedInv
<1>3. Basis'
  BY BasisStep, Zenon
<1>4. ASSUME AppliedIn(cur'), saved' = saved PROVE AppliedInv'
  BY <1>1, <1>2, <1>3, <1>4, AppliedNext, Zenon DEF AppliedInv
<1>5. ASSUME Done(cur)', cur'.phase # "Succeeded", saved' = saved PROVE AppliedInv'
  BY <1>1, <1>2, <1>3, <1>5, AppliedNext, Zenon DEF AppliedInv
<1>6. ASSUME cur'.hooks = cur.hooks, cur'.resources = cur.resources, saved' = saved,
             cur'.phase = cur.phase
      PROVE  AppliedInv'
  <2>1. AppliedIn(cur')
    BY <1>2, <1>6, AppliedSame, Zenon
  <2> QED BY <1>4, <1>6, <2>1, Zenon
<1>7. ASSUME cur'.phase \in {"Failed", "Error"}, saved' = saved PROVE AppliedInv'
  <2>1. AppliedIn(cur')
    BY <1>7, Zenon DEF AppliedIn
  <2> QED BY <1>4, <1>7, <2>1, Zenon
<1>8. CASE Begins
  <2>1. saved' = saved /\ cur'.hooks = saved.hooks /\ cur'.resources = saved.resources
        /\ saved.phase \notin {"Failed", "Error"}
    BY <1>8, Zenon DEF Begins, Completed
  <2>2. CASE cur'.phase \in {"Error", "Terminating", "Running"}
    BY <1>2, <1>4, <2>1, <2>2, AppliedSame, Zenon
  <2>3. CASE targets = {}
    <3>1. ASSUME ~op.dryRun PROVE Done(saved)
      <4>1. CASE saved.resources = {}
        BY <2>3, <4>1, Zenon DEF Done, Effective
      <4>2. CASE saved.resources # {}
        BY <1>2, <2>1, <3>1, <4>2, Zenon DEF AppliedIn, startedSyncPhase
      <4> QED BY <4>1, <4>2, Zenon
    <3>2. ASSUME ~op.dryRun PROVE Done(cur')
      BY <2>1, <3>1, <3>2, EffectiveFewer, Zenon DEF Done
    <3>3. AppliedIn(cur')
      BY <2>3, <3>2, Zenon DEF AppliedIn
    <3> QED BY <1>4, <2>1, <3>3, Zenon
  <2> QED BY <1>8, <2>2, <2>3, Zenon DEF Begins
<1>9. CASE DryRuns
  <2>1. saved' = saved /\ cur'.hooks = cur.hooks
    BY <1>9, Zenon DEF DryRuns, Advances, CopyKept
  <2>2. CASE op.dryRun
    <3>1. AppliedIn(cur')
      BY <2>2, Zenon DEF AppliedIn
    <3> QED BY <1>4, <2>1, <3>1, Zenon
  <2> QED BY <1>6, <1>7, <1>9, <2>1, <2>2, Zenon DEF DryRuns
<1>10. CASE AppliesOrEnds
  <2>1. saved' = saved /\ cur'.hooks = cur.hooks /\ cur.phase = "Running" /\ op.strategy = "Apply"
        /\ ~op.dryRun
    BY <1>10, Zenon DEF AppliesOrEnds, Advances, CopyKept, Path, Working
  <2>2. CASE ~startedSyncPhase(cur) /\ Applies(tasks)
    <3>1. targets \subseteq tasks
      BY <1>10, Zenon DEF AppliesOrEnds, HasTargets, Pending
    <3>2. CASE cur'.phase = "Failed"
      BY <1>7, <2>1, <3>2, Zenon
    <3>3. CASE cur'.phase # "Failed"
      <4>1. Done(cur)' /\ cur'.phase = cur.phase
        BY <1>1, <2>2, <3>1, <3>3, AppliesTasks, Zenon
      <4> QED BY <1>5, <2>1, <4>1, Zenon
    <3> QED BY <3>2, <3>3, Zenon
  <2>3. CASE startedSyncPhase(cur) /\ cur'.phase = "Succeeded" /\ cur'.resources = cur.resources
    <3>1. Done(cur)
      BY <1>2, <2>1, <2>3, Zenon DEF AppliedIn
    <3>2. Done(cur')
      BY <2>3, <3>1, EffectiveFewer, Zenon DEF Done
    <3>3. AppliedIn(cur')
      BY <2>1, <3>2, Zenon DEF AppliedIn
    <3> QED BY <1>4, <2>1, <3>3, Zenon
  <2> QED BY <1>10, <2>2, <2>3, Zenon DEF AppliesOrEnds
<1>11. CASE Verifies \/ ChecksHealth
  BY <1>6, <1>7, <1>11, Zenon DEF Verifies, ChecksHealth, Advances, CopyKept
<1>12. CASE SyncsNonHooks
  <2>1. /\ saved' = saved /\ cur'.hooks = cur.hooks /\ cur.phase = "Running"
        /\ op.strategy = "Hook"
    BY <1>12, Zenon DEF SyncsNonHooks, Advances, CopyKept, Path, Working, HookSync
  <2>2. CASE ~startedSyncPhase(cur) /\ Applies(tasks \ {"skip"})
    <3>1. targets \subseteq tasks
      BY <1>12, Zenon DEF SyncsNonHooks, HasTargets, Pending
    <3>2. CASE cur'.phase = "Failed"
      BY <1>7, <2>1, <3>2, Zenon
    <3>3. CASE cur'.phase # "Failed"
      <4>1. Done(cur)' /\ cur'.phase = cur.phase
        BY <1>1, <2>1, <2>2, <3>1, <3>3, AppliesTasks, Zenon
      <4> QED BY <1>5, <2>1, <4>1, Zenon
    <3> QED BY <3>2, <3>3, Zenon
  <2> QED BY <1>6, <1>12, <2>1, <2>2, Zenon DEF SyncsNonHooks
<1>13. CASE EndsLoop
  <2>1. /\ saved' = saved /\ cur'.hooks = cur.hooks /\ cur'.resources = cur.resources
        /\ pc = "hooks" /\ next \notin Hooks
    BY <1>13, Zenon DEF EndsLoop, Advances, CopyKept
  <2>2. CASE cont /\ areHooksSuccessful(stage) /\ stage = "PostSync" /\ cur'.phase = "Succeeded"
    <3>1. StageDone(cur, "PostSync")
      BY <2>1, <2>2, EndsStage, Zenon
    <3>2. StageDone(cur, "PreSync") /\ StageDone(cur, "Sync") /\ Done(cur)
      BY <2>1, <2>2, Zenon DEF Gone, Basis, AppliedInv
    <3>3. \A t \in Stages : StageDone(cur, t)
      BY <3>1, <3>2, Zenon DEF Stages
    <3>4. \A t \in Stages : StageDone(cur', t)
      BY <2>1, <3>3, InTurnSame, Zenon
    <3>5. Done(cur')
      BY <2>1, <3>2, EffectiveFewer, Zenon DEF Done
    <3>6. AppliedIn(cur')
      BY <3>4, <3>5, Zenon DEF AppliedIn
    <3> QED BY <1>4, <2>1, <3>6, Zenon
  <2> QED BY <1>6, <1>7, <1>13, <2>1, <2>2, Zenon DEF EndsLoop
<1>14. CASE RunsHook
  <2>1. /\ saved' = saved /\ cur.phase = "Running" /\ pc = "hooks" /\ stage \in Stages /\ next \in Hooks
    BY <1>14, Zenon DEF RunsHook, Path, Working, TypeOK
  <2>2. cur'.phase = cur.phase \/ cur'.phase = "Error"
    BY <1>14, Zenon DEF RunsHook, Passes, Breaks, Records
  <2>3. CASE stage \in {"Sync", "PostSync"}
    <3>1. Done(cur)'
      BY <1>14, <2>1, <2>3, RunsHookLists, DoneStays, Zenon DEF Basis, AppliedInv
    <3> QED BY <1>5, <2>1, <2>2, <3>1, Zenon
  <2>4. CASE stage = "PreSync" /\ cur'.phase # "Error"
    <3>1. /\ cur'.resources = cur.resources
          /\ \A g \in Hooks : \A u \in Stages :
               <<g, u>> # <<next, stage>> => cur'.hooks[<<g, u>>] = cur.hooks[<<g, u>>]
      BY <1>14, <2>4, Zenon DEF RunsHook, Passes, Breaks, Records
    <3>2. startedSyncPhase(cur') => startedSyncPhase(cur)
      <4>1. ASSUME NEW k \in HookKeys, k[2] \in {"Sync", "PostSync"}
            PROVE  cur'.hooks[k] = cur.hooks[k]
        <5>1. PICK g \in Hooks, u \in Stages : k = <<g, u>>
          BY KeyParts, Zenon
        <5>2. <<g, u>> # <<next, stage>>
          BY <2>4, <4>1, <5>1, Zenon
        <5> QED BY <3>1, <5>1, <5>2, Zenon
      <4> QED BY <3>1, <4>1, Zenon DEF startedSyncPhase
    <3>3. Done(cur) => Done(cur')
      BY <3>1, EffectiveFewer, Zenon DEF Done
    <3>4. AppliedIn(cur')
      BY <1>2, <2>1, <2>2, <2>4, <3>2, <3>3, Zenon DEF AppliedIn
    <3> QED BY <1>4, <2>1, <3>4, Zenon
  <2> QED BY <1>7, <2>1, <2>2, <2>3, <2>4, Zenon DEF Stages
<1>15. CASE Terminates
  BY <1>7, <1>15, Zenon DEF Terminates
<1>16. CASE Stores \/ Restarts
  <2>1. cur' = saved'
    BY <1>16, Zenon DEF Stores, Restarts, Resets
  <2>2. AppliedIn(saved')
    BY <1>2, <1>16, AppliedSame, Zenon DEF Stores, Restarts
  <2> QED BY <1>1, <1>3, <2>1, <2>2, AppliedNext, Zenon DEF AppliedInv
<1>17. CASE IsTerminated
  <2>1. AppliedIn(saved') /\ cur' = cur
    BY <1>2, <1>17, AppliedSame, Zenon DEF IsTerminated, PassKept
  <2> QED BY <1>1, <1>2, <1>3, <2>1, AppliedNext, Zenon DEF AppliedInv
<1>18. CASE Stutters \/ \E o \in Objects : Finishes(o)
  BY <1>6, <1>18, Zenon DEF Stutters, Finishes, PassKept
<1> QED BY <1>8, <1>9, <1>10, <1>11, <1>12, <1>13, <1>14, <1>15, <1>16, <1>17, <1>18, Zenon DEF Steps

-----------------------------------------------------------------------------
(* The manifests are applied once.                                         *)

ApplyInv ==
    /\ applies <= 1 + crashes
    /\ ~startedSyncPhase(cur) => applies <= crashes

\* A pass forgets no status and no resource.
Grows ==
    /\ cur.resources \subseteq cur'.resources
    /\ \A h \in Hooks : \A t \in Stages : cur.hooks[<<h, t>>] # "none" => cur'.hooks[<<h, t>>] # "none"

\* A copy that grows has started what it had started.
LEMMA StartedGrows == ASSUME Grows, startedSyncPhase(cur) PROVE startedSyncPhase(cur')
<1>1. CASE cur.resources # {}
  BY <1>1, Zenon DEF Grows, startedSyncPhase
<1>2. CASE \E k \in HookKeys : k[2] \in {"Sync", "PostSync"} /\ cur.hooks[k] # "none"
  <2>1. PICK k \in HookKeys : k[2] \in {"Sync", "PostSync"} /\ cur.hooks[k] # "none"
    BY <1>2, Zenon
  <2>2. cur'.hooks[k] # "none"
    BY <2>1, KeyParts, Zenon DEF Grows
  <2> QED BY <2>1, <2>2, Zenon DEF startedSyncPhase
<1> QED BY <1>1, <1>2, Zenon DEF startedSyncPhase

\* Within a pass the copy grows.
LEMMA CopyGrows ==
    ASSUME Steps
    PROVE  Begins \/ Stores \/ Restarts \/ Grows
<1>1. CASE Advances
  BY <1>1, Zenon DEF Advances, CopyKept, Grows
<1>2. CASE PassKept
  BY <1>2, Zenon DEF PassKept, Grows
<1>3. CASE Terminates
  <2>1. cur'.resources = cur.resources
    BY <1>3, Zenon DEF Terminates
  <2> QED BY <1>3, <2>1, TerminatesStages, Zenon DEF Grows
<1>4. CASE RunsHook
  <2>1. cur.resources \subseteq cur'.resources
    BY <1>4, Zenon DEF RunsHook, Passes, Breaks, Records
  <2>2. ASSUME NEW st \in Statuses, Records(Obj(next, stage), st), NEW h \in Hooks, NEW t \in Stages,
               cur.hooks[<<h, t>>] # "none"
        PROVE  cur'.hooks[<<h, t>>] # "none"
    BY <2>2, Zenon DEF Records, Statuses
  <2> QED BY <1>4, <2>1, <2>2, Zenon DEF RunsHook, Passes, Breaks, Grows
<1> QED BY <1>1, <1>2, <1>3, <1>4, Zenon DEF Steps, DryRuns, AppliesOrEnds, Verifies, EndsLoop,
     SyncsNonHooks, ChecksHealth, IsTerminated, Finishes, Stutters

\* Every step keeps the count of applies.
LEMMA ApplyStep == ASSUME TypeOK, Path, Follows, ApplyInv, Steps PROVE ApplyInv'
<1>1. crashes \in Nat /\ applies \in Nat
  BY ConstantsAssumption, SMT DEF TypeOK
<1>2. startedSyncPhase(cur)' <=> startedSyncPhase(cur')
  BY Zenon DEF startedSyncPhase
<1>3. ASSUME applies' = applies, crashes' = crashes, startedSyncPhase(cur) => startedSyncPhase(cur')
      PROVE  ApplyInv'
  BY <1>2, <1>3, Zenon DEF ApplyInv
<1>4. CASE Begins
  <2>1. startedSyncPhase(cur) => startedSyncPhase(saved)
    BY <1>4, StartedFollows, Zenon DEF Begins, Follows
  <2>2. startedSyncPhase(saved) => startedSyncPhase(cur')
    BY <1>4, StartedSame, Zenon DEF Begins
  <2> QED BY <1>3, <1>4, <2>1, <2>2, Zenon DEF Begins, ClusterKept
<1>5. CASE Stores
  <2>1. startedSyncPhase(cur') <=> startedSyncPhase(cur)
    BY <1>5, StartedSame, Zenon DEF Stores, Resets
  <2> QED BY <1>3, <1>5, <2>1, Zenon DEF Stores, Resets
<1>6. CASE Restarts
  <2>1. applies' = applies /\ crashes' = crashes + 1
    BY <1>6, Zenon DEF Restarts, Resets
  <2>2. applies' <= 1 + crashes' /\ applies' <= crashes'
    BY <1>1, <2>1, SMT DEF ApplyInv
  <2> QED BY <2>2, Zenon DEF ApplyInv
<1>7. ASSUME NEW ts, Applies(ts), ~startedSyncPhase(cur), crashes' = crashes, Grows PROVE ApplyInv'
  <2>1. CASE ts = {}
    BY <1>3, <1>7, <2>1, Zenon DEF Applies
  <2>2. CASE ts # {}
    <3>1. cur'.resources # {}
      BY <1>7, <2>2, Zenon DEF Applies
    <3>2. startedSyncPhase(cur')
      BY <3>1, Zenon DEF startedSyncPhase
    <3>3. applies' = applies + 1 /\ applies <= crashes
      BY <1>7, <2>2, Zenon DEF Applies, ApplyInv
    <3>4. applies' <= 1 + crashes'
      BY <1>1, <1>7, <3>3, SMT
    <3> QED BY <1>2, <3>2, <3>4, Zenon DEF ApplyInv
  <2> QED BY <2>1, <2>2, Zenon
<1>8. CASE AppliesOrEnds \/ SyncsNonHooks
  <2>1. Grows /\ crashes' = crashes
    BY <1>8, Zenon DEF AppliesOrEnds, SyncsNonHooks, Advances, CopyKept, Grows
  <2> QED BY <1>3, <1>7, <1>8, <2>1, StartedGrows, Zenon DEF AppliesOrEnds, SyncsNonHooks, ClusterKept
<1>9. CASE DryRuns \/ Verifies \/ EndsLoop \/ ChecksHealth \/ Terminates \/ RunsHook \/ IsTerminated
           \/ Stutters \/ \E o \in Objects : Finishes(o)
  <2>1. applies' = applies /\ crashes' = crashes
    BY <1>9, Zenon DEF DryRuns, Verifies, EndsLoop, ChecksHealth, Terminates, RunsHook, IsTerminated,
       Stutters, Finishes, Advances, ClusterKept
  <2> QED BY <1>3, <1>4, <1>5, <1>6, <2>1, CopyGrows, StartedGrows, Zenon
<1> QED BY <1>4, <1>5, <1>6, <1>8, <1>9, Zenon DEF Steps

-----------------------------------------------------------------------------
(* A hook that is recorded as succeeded did so in its latest run, unless   *)
(* its object is that of a later stage too.                                *)

\* The objects that succeeded, and those of hooks that do not run.
ObjInv ==
    \A o \in Objects :
        /\ obj[o] = "Succeeded" => o \in succ
        /\ ~hook[o[1]].runnable => obj[o] \in {"absent", "Succeeded"}

Later(t) ==
    {u \in Stages : (t = "PreSync" /\ u # "PreSync") \/ (t = "Sync" /\ u = "PostSync")}

\* A PostSync hook may have run again.
Reached(u) == u = "PostSync" => StageDone(saved, "Sync") /\ startedSyncPhase(saved)

LatestOf(s, S) ==
    \A h \in Hooks : \A t \in Stages : s.hooks[<<h, t>>] = "Succeeded" =>
        \/ Obj(h, t) \in S
        \/ \E u \in Later(t) : h \in RunsAgain(u) /\ Reached(u)

LatestInv == ObjInv /\ LatestOf(saved, succ) /\ LatestOf(cur, succ)

\* Every step keeps that an object that succeeded is in the history.
LEMMA ObjStep == ASSUME TypeOK, ObjInv, Steps PROVE ObjInv'
<1>1. hook' = hook
  BY ManifestsStay, Zenon DEF ManifestsKept
<1>2. CASE obj' = obj /\ succ' = succ
  BY <1>1, <1>2, Zenon DEF ObjInv
<1>3. CASE Terminates
  <2>1. succ' = succ /\ \A o \in Objects : obj'[o] # obj[o] => obj'[o] = "absent"
    BY <1>3, Zenon DEF Terminates
  <2> QED BY <1>1, <2>1, Zenon DEF ObjInv
<1>4. ASSUME NEW o \in Objects, Finishes(o) PROVE ObjInv'
  <2>1. /\ obj[o] = "Running" /\ \A p \in Objects : p # o => obj'[p] = obj[p]
        /\ succ' = IF obj'[o] = "Succeeded" THEN succ \union {o} ELSE succ
    BY <1>4, Zenon DEF Finishes
  <2>2. hook[o[1]].runnable
    BY <2>1, Zenon DEF ObjInv
  <2> QED BY <1>1, <2>1, <2>2, Zenon DEF ObjInv
<1>5. ASSUME NEW o \in Objects, Makes(o), obj'[o] \in {Live(o), "absent"} PROVE ObjInv'
  <2>1. ASSUME NEW p \in Objects, p # o
        PROVE  /\ obj'[p] = "Succeeded" => p \in succ'
               /\ ~hook[p[1]].runnable => obj'[p] \in {"absent", "Succeeded"}
    <3>1. obj'[p] = obj[p] /\ (p \in succ => p \in succ')
      BY <1>5, <2>1, Zenon DEF Makes, OthersKept
    <3> QED BY <3>1, Zenon DEF ObjInv
  <2>2. /\ obj'[o] = "Succeeded" => o \in succ'
        /\ ~hook[o[1]].runnable => obj'[o] \in {"absent", "Succeeded"}
    <3>1. CASE obj[o] # "absent"
      <4>1. Live(o) = obj[o] /\ succ' = succ
        BY <1>5, <3>1, Zenon DEF Makes, Live
      <4> QED BY <1>5, <4>1, Zenon DEF ObjInv
    <3>2. CASE obj[o] = "absent"
      BY <1>5, <3>2, Zenon DEF Makes, Live
    <3> QED BY <3>1, <3>2, Zenon
  <2> QED BY <1>1, <2>1, <2>2, Zenon DEF ObjInv
<1>6. CASE RunsHook
  <2>1. Obj(next, stage) \in Objects
    BY <1>6, ObjType, Zenon DEF RunsHook, TypeOK
  <2>2. CASE Passes \/ HooksKept
    BY <1>2, <2>2, Zenon DEF Passes, HooksKept
  <2>3. ASSUME Breaks(Obj(next, stage)), ~HooksKept PROVE ObjInv'
    BY <1>5, <2>1, <2>3, Zenon DEF Breaks
  <2>4. ASSUME NEW st \in Statuses, Records(Obj(next, stage), st) PROVE ObjInv'
    <3>1. Makes(Obj(next, stage)) /\ obj'[Obj(next, stage)] \in {Live(Obj(next, stage)), "absent"}
      BY <2>4, Zenon DEF Records
    <3> QED BY <1>5, <2>1, <3>1, Zenon
  <2> QED BY <1>6, <2>2, <2>3, <2>4, Zenon DEF RunsHook
<1> QED BY <1>2, <1>3, <1>4, <1>6, Zenon DEF Steps, Begins, DryRuns, AppliesOrEnds, Verifies, EndsLoop,
     SyncsNonHooks, ChecksHealth, Stores, Restarts, Resets, IsTerminated, Stutters, Advances,
     ClusterKept, HooksKept

\* What is stored later shows what was shown before.
LEMMA ReachedStays == ASSUME Follows, Steps PROVE \A u : Reached(u) => Reached(u)'
<1>1. ManifestsKept
  BY ManifestsStay, Zenon
<1>2. /\ StageDone(saved, "Sync")' <=> StageDone(saved', "Sync")
      /\ startedSyncPhase(saved)' <=> startedSyncPhase(saved')
  BY <1>1, InTurnNext, Zenon DEF startedSyncPhase
<1>3. CASE saved'.hooks = saved.hooks /\ saved'.resources = saved.resources
  BY <1>2, <1>3, StartedSame, InTurnSame, Zenon DEF Reached
<1>4. CASE Stores
  <2>1. /\ StageDone(saved', "Sync") <=> StageDone(cur, "Sync")
        /\ startedSyncPhase(saved') <=> startedSyncPhase(cur)
    BY <1>4, StartedSame, InTurnSame, Zenon DEF Stores
  <2>2. StageDone(saved, "Sync") => StageDone(cur, "Sync")
    <3>1. Running("Sync") \subseteq Hooks /\ "Sync" \in Stages /\ Completed("Succeeded")
      BY Zenon DEF Running, Stages, Completed
    <3> QED BY <3>1, Zenon DEF Follows, StageDone
  <2>3. startedSyncPhase(saved) => startedSyncPhase(cur)
    <3>1. CASE saved.resources # {}
      BY <3>1, Zenon DEF Follows, startedSyncPhase
    <3>2. ASSUME NEW k \in HookKeys, k[2] \in {"Sync", "PostSync"}, saved.hooks[k] # "none"
          PROVE  startedSyncPhase(cur)
      <4>1. cur.hooks[k] # "none"
        BY <3>2, KeyParts, Zenon DEF Follows
      <4> QED BY <3>2, <4>1, Zenon DEF startedSyncPhase
    <3> QED BY <3>1, <3>2, Zenon DEF startedSyncPhase
  <2> QED BY <1>2, <2>1, <2>2, <2>3, Zenon DEF Reached
<1> QED BY <1>3, <1>4, Zenon DEF Steps, Begins, DryRuns, AppliesOrEnds, Verifies, RunsHook, EndsLoop,
     SyncsNonHooks, ChecksHealth, Terminates, Restarts, IsTerminated, Finishes, Stutters, Advances

\* LatestOf in the next state, for manifests that stay.
LEMMA LatestNext ==
    ASSUME ManifestsKept, \A u : Reached(u) => Reached(u)'
    PROVE  /\ LatestOf(cur', succ') => LatestOf(cur, succ)'
           /\ LatestOf(saved', succ') => LatestOf(saved, succ)'
<1>1. /\ \A t : RunsAgain(t)' = RunsAgain(t)
      /\ \A h, t : Obj(h, t)' = Obj(h, t)
  BY RunningKept, Zenon
<1> QED BY <1>1, Zenon DEF LatestOf

\* A hook that is made again was not recorded as done, and its object is that
\* of a later stage for the stages before.
LEMMA MakesLatest ==
    ASSUME TypeOK, Follows, InTurn, Gone, Basis, pc = "hooks", next \in Running(stage), ~HookDone(next),
           NEW s, s = saved \/ s = cur,
           NEW h \in Hooks, NEW t \in Stages, s.hooks[<<h, t>>] = "Succeeded",
           Obj(h, t) = Obj(next, stage)
    PROVE  \E u \in Later(t) : h \in RunsAgain(u) /\ Reached(u)
<1>1. next \in Hooks /\ stage \in Stages
  BY Zenon DEF Running, TypeOK
<1>2. h = next /\ (hook[h].generated => t = stage)
  BY <1>1, SMT DEF Obj
<1>3. ~Completed(s.hooks[<<next, stage>>])
  BY <1>1, Zenon DEF Follows, HookDone
<1>4. t # stage /\ ~hook[h].generated
  BY <1>2, <1>3, Zenon DEF Completed
<1>5. h \in RunsAgain(stage)
  BY <1>2, <1>4, Zenon DEF RunsAgain
<1>6. StagesInTurn(s)
  BY Zenon DEF InTurn
<1>7. ~StageDone(s, stage)
  BY <1>3, Zenon DEF StageDone, Completed
<1>8. stage \in Later(t)
  <2>1. t \in {"Sync", "PostSync"} => stage # "PreSync"
    BY <1>6, <1>7, Zenon DEF StagesInTurn
  <2>2. t = "PostSync" => stage # "Sync"
    BY <1>6, <1>7, Zenon DEF StagesInTurn
  <2> QED BY <1>1, <1>4, <2>1, <2>2, Zenon DEF Later, Stages
<1>9. Reached(stage)
  <2>1. ASSUME stage = "PostSync" PROVE StageDone(saved, "Sync") /\ startedSyncPhase(saved)
    <3>1. StageDone(cur, "Sync") /\ startedSyncPhase(saved)
      BY <2>1, Zenon DEF Gone, Basis
    <3>2. ASSUME NEW g \in Running("Sync") PROVE saved.hooks[<<g, "Sync">>] = cur.hooks[<<g, "Sync">>]
      <4>1. g \in Hooks /\ "Sync" \in Stages
        BY Zenon DEF Running, Stages
      <4> QED BY <2>1, <4>1, Zenon DEF Follows
    <3> QED BY <3>1, <3>2, Zenon DEF StageDone
  <2> QED BY <2>1, Zenon DEF Reached
<1> QED BY <1>5, <1>8, <1>9, Zenon

\* Every step keeps that a recorded success is that of the latest run.
LEMMA LatestStep ==
    ASSUME TypeOK, Follows, InTurn, Gone, AppliedInv, LatestInv, Steps
    PROVE  LatestInv'
<1>1. ManifestsKept /\ (\A u : Reached(u) => Reached(u)') /\ ObjInv'
  BY ManifestsStay, ReachedStays, ObjStep, Zenon DEF LatestInv
<1>2. ObjInv /\ LatestOf(saved, succ) /\ LatestOf(cur, succ)
  BY Zenon DEF LatestInv
<1> SUFFICES LatestOf(saved', succ') /\ LatestOf(cur', succ')
  BY <1>1, LatestNext, Zenon DEF LatestInv
<1>3. ASSUME NEW s, LatestOf(s, succ), NEW r, r.hooks = s.hooks, succ \subseteq succ'
      PROVE  LatestOf(r, succ')
  BY <1>3, Zenon DEF LatestOf
<1>4. CASE saved'.hooks = saved.hooks /\ cur'.hooks = cur.hooks /\ succ' = succ
  BY <1>2, <1>3, <1>4, Zenon
<1>5. CASE Begins \/ Stores \/ Restarts
  <2>1. succ' = succ /\ (saved'.hooks = saved.hooks \/ saved'.hooks = cur.hooks) /\ cur'.hooks = saved'.hooks
    BY <1>5, Zenon DEF Begins, Stores, Restarts, Resets, ClusterKept, HooksKept
  <2> QED BY <1>2, <1>3, <2>1, Zenon
<1>6. ASSUME NEW o \in Objects, Finishes(o) PROVE LatestOf(saved', succ') /\ LatestOf(cur', succ')
  <2>1. saved' = saved /\ cur' = cur /\ succ \subseteq succ'
    BY <1>6, Zenon DEF Finishes, PassKept
  <2> QED BY <1>2, <1>3, <2>1, Zenon
<1>7. CASE Terminates
  <2>1. saved' = saved /\ succ' = succ
    BY <1>7, Zenon DEF Terminates
  <2>2. ASSUME NEW h \in Hooks, NEW t \in Stages, cur'.hooks[<<h, t>>] = "Succeeded"
        PROVE  cur.hooks[<<h, t>>] = "Succeeded"
    <3>1. <<h, t>> \in HookKeys
      BY Zenon DEF HookKeys
    <3> QED BY <1>7, <2>2, <3>1, Zenon DEF Terminates
  <2> QED BY <1>2, <2>1, <2>2, Zenon DEF LatestOf
<1>8. CASE RunsHook
  <2> DEFINE o == Obj(next, stage)
  <2>1. saved' = saved /\ pc = "hooks" /\ next \in Hooks /\ stage \in Stages /\ o \in Objects /\ o[1] = next
    BY <1>8, ObjType, Zenon DEF RunsHook, TypeOK
  <2>2. ASSUME Makes(o), next \in Running(stage), ~HookDone(next), NEW s, s = saved \/ s = cur
        PROVE  LatestOf(s, succ')
    <3>1. \A p \in Objects : p \in succ /\ p # o => p \in succ'
      BY <2>2, Zenon DEF Makes
    <3>2. ASSUME NEW h \in Hooks, NEW t \in Stages, s.hooks[<<h, t>>] = "Succeeded"
          PROVE  \/ Obj(h, t) \in succ'
                 \/ \E u \in Later(t) : h \in RunsAgain(u) /\ Reached(u)
      <4>1. CASE Obj(h, t) = o
        BY <2>1, <2>2, <3>2, <4>1, MakesLatest, Zenon DEF AppliedInv
      <4>2. CASE Obj(h, t) # o
        <5>1. Obj(h, t) \in Objects
          BY ObjType, Zenon
        <5>2. LatestOf(s, succ)
          BY <1>2, <2>2, Zenon
        <5> QED BY <3>1, <3>2, <4>2, <5>1, <5>2, Zenon DEF LatestOf
      <4> QED BY <4>1, <4>2, Zenon
    <3> QED BY <3>2, Zenon DEF LatestOf
  <2>3. CASE Passes \/ (Breaks(o) /\ HooksKept)
    BY <1>4, <2>1, <2>3, Zenon DEF Passes, Breaks, HooksKept
  <2>4. CASE Breaks(o) /\ Makes(o)
    <3>1. LatestOf(saved, succ') /\ LatestOf(cur, succ') /\ cur'.hooks = cur.hooks
      BY <2>2, <2>4, Zenon DEF Breaks
    <3> QED BY <2>1, <3>1, Zenon DEF LatestOf
  <2>5. ASSUME NEW st \in Statuses, Records(o, st)
        PROVE  LatestOf(saved', succ') /\ LatestOf(cur', succ')
    <3>1. LatestOf(saved, succ') /\ LatestOf(cur, succ')
      BY <2>2, <2>5, Zenon DEF Records
    <3>2. st = "Succeeded" => o \in succ'
      <4>1. CASE hook[next].runnable
        <5>1. st = "Succeeded" => Live(o) = "Succeeded"
          BY <2>5, <4>1, Zenon DEF Records
        <5>2. Live(o) = "Succeeded" => obj[o] = "Succeeded"
          BY <2>1, <4>1, Zenon DEF Live
        <5>3. obj[o] = "Succeeded" => succ' = succ /\ o \in succ
          BY <1>2, <2>1, <2>5, Zenon DEF Records, Makes, ObjInv
        <5> QED BY <5>1, <5>2, <5>3, Zenon
      <4>2. CASE ~hook[next].runnable
        <5>1. obj[o] = "absent" \/ o \in succ
          BY <1>2, <2>1, <4>2, Zenon DEF ObjInv
        <5> QED BY <2>1, <2>5, <4>2, <5>1, Zenon DEF Records, Makes
      <4> QED BY <4>1, <4>2, Zenon
    <3> HIDE DEF o
    <3>3. ASSUME NEW h \in Hooks, NEW t \in Stages, cur'.hooks[<<h, t>>] = "Succeeded"
          PROVE  \/ Obj(h, t) \in succ'
                 \/ \E u \in Later(t) : h \in RunsAgain(u) /\ Reached(u)
      <4>1. CASE h = next /\ t = stage
        BY <2>5, <3>2, <3>3, <4>1, Zenon DEF Records, o
      <4>2. CASE ~(h = next /\ t = stage)
        <5>1. <<h, t>> # <<next, stage>>
          BY <4>2, Zenon
        <5>2. cur.hooks[<<h, t>>] = "Succeeded"
          BY <2>5, <3>3, <5>1, Zenon DEF Records
        <5> QED BY <3>1, <5>2, Zenon DEF LatestOf
      <4> QED BY <4>1, <4>2, Zenon
    <3> QED BY <2>1, <3>1, <3>3, Zenon DEF LatestOf
  <2> QED BY <1>8, <2>3, <2>4, <2>5, Zenon DEF RunsHook, Breaks
<1> QED BY <1>4, <1>5, <1>6, <1>7, <1>8, Zenon DEF Steps, DryRuns, AppliesOrEnds, Verifies, EndsLoop,
     SyncsNonHooks, ChecksHealth, IsTerminated, Stutters, Advances, CopyKept, PassKept,
     ClusterKept, HooksKept
=============================================================================
