-------------------------- MODULE SyncContextProofs --------------------------
(***************************************************************************)
(* The inductive invariant of SyncContext, and the theorems: its safety    *)
(* properties for all manifests, hooks and operations, and any number of   *)
(* restarts.                                                               *)
(***************************************************************************)
EXTENDS SyncContextCount, FiniteSetTheorems

\* The inductive invariant.
Inv ==
    /\ TypeOK /\ Path /\ Dry /\ Follows /\ InTurn /\ Gone
    /\ HasTargets /\ AppliedInv /\ ApplyInv /\ LatestInv
    /\ MadeInv /\ RunnableInv /\ IdleInv /\ CountInv /\ TermInv

\* Every step of a pass, and of what happens beside it, keeps the invariant.
LEMMA InvStep == ASSUME Inv, [Next]_vars PROVE Inv'
<1>1. /\ TypeOK /\ Path /\ Dry /\ Follows /\ InTurn /\ Gone /\ AppliedInv /\ ApplyInv /\ LatestInv
      /\ HasTargets /\ MadeInv /\ RunnableInv /\ IdleInv /\ CountInv /\ TermInv /\ ObjInv
  BY Zenon DEF Inv, LatestInv
<1>2. Steps
  BY <1>1, NextDoes, Zenon
<1>3. TypeOK' /\ Path' /\ Dry' /\ Follows' /\ HasTargets'
  BY <1>1, <1>2, TypeStep, TargetsStep, PathStep, DryStep, FollowsStep, Zenon
<1>4. InTurn' /\ Gone' /\ AppliedInv' /\ ApplyInv'
  BY <1>1, <1>2, InTurnStep, GoneStep, AppliedStep, ApplyStep, Zenon
<1>5. LatestInv' /\ MadeInv' /\ RunnableInv' /\ IdleInv'
  BY <1>1, <1>2, LatestStep, MadeStep, RunnableStep, IdleStep, Zenon
<1>6. CountInv' /\ TermInv'
  BY <1>1, <1>2, CountStep, TermStep, Zenon
<1> QED BY <1>3, <1>4, <1>5, <1>6, Zenon DEF Inv

\* An operation that was just accepted satisfies the invariant.
LEMMA InvInit == ASSUME Init PROVE Inv
<1>1. TypeOK
  BY TypeInit, Zenon
<1>2. /\ cur = saved /\ pc = "idle" /\ applied = {} /\ made = {} /\ crashes = 0 /\ applies = 0
      /\ saved = [phase |-> "Running", hooks |-> [k \in HookKeys |-> "none"],
                  resources |-> {}, terminated |-> FALSE]
      /\ created = [o \in Objects |-> 0]
  BY Zenon DEF Init
<1>3. saved.phase = "Running" /\ saved.resources = {} /\ saved.terminated = FALSE
  BY <1>2, Zenon
<1>4. saved.hooks = [k \in HookKeys |-> "none"]
  BY <1>2, Zenon
<1>5. \A k \in HookKeys : saved.hooks[k] = "none"
  BY <1>4, Zenon
<1>6. \A h \in Hooks : \A t \in Stages : saved.hooks[<<h, t>>] = "none"
  BY <1>5, Zenon DEF HookKeys
<1>7. \A o \in Objects : created[o] = 0
  BY <1>2, Zenon
<1>8. ~startedPreSyncPhase(saved) /\ ~startedSyncPhase(saved)
  BY <1>3, <1>5, Zenon DEF startedPreSyncPhase, startedSyncPhase
<1>9. Path /\ Dry
  BY <1>2, <1>7, <1>8, Zenon DEF Path, Dry, Working, HookSync
<1>10. Follows
  BY <1>2, Zenon DEF Follows
<1>11. InTurn /\ Gone
  BY <1>2, <1>6, Zenon DEF InTurn, StagesInTurn, Gone
<1>12. AppliedInv /\ HasTargets
  BY <1>2, <1>3, <1>8, Zenon DEF AppliedInv, AppliedIn, Basis, HasTargets, Pending
<1>13. ApplyInv
  BY <1>2, SMT DEF ApplyInv
<1>14. PICK left \in SUBSET Leftovers :
          /\ obj = [o \in Objects |->
                      IF o \notin left THEN "absent"
                      ELSE IF hook[o[1]].runnable THEN "Running" ELSE "Succeeded"]
          /\ succ = {o \in left : ~hook[o[1]].runnable}
          /\ orphans = left
  BY Zenon DEF Init
<1>15. ASSUME NEW o \in Objects
       PROVE  /\ obj[o] = "Succeeded" => o \in succ
              /\ ~hook[o[1]].runnable => obj[o] \in {"absent", "Succeeded"}
              /\ obj[o] = "Running" => o \in orphans
  <2>1. obj[o] = IF o \notin left THEN "absent"
                 ELSE IF hook[o[1]].runnable THEN "Running" ELSE "Succeeded"
    BY <1>14, Zenon
  <2> QED BY <1>14, <2>1, Zenon
<1>16. LatestInv
  BY <1>2, <1>6, <1>15, Zenon DEF LatestInv, ObjInv, LatestOf
<1>17. MadeInv /\ RunnableInv /\ IdleInv
  BY <1>2, <1>6, Zenon DEF MadeInv, RunnableInv, IdleInv
<1>18. TermInv
  BY <1>2, <1>3, <1>15, Zenon DEF TermInv, Tracked, Stopped
<1>19. CountInv
  <2>1. \A n \in Nat : 0 <= 0 + n
    BY SMT
  <2>2. ASSUME NEW o \in Objects
        PROVE  RecIn(saved, o) \in Nat /\ AtMost(o) \in Nat /\ RecIn(saved, o) + One(o \in made) \in Nat
    <3>1. RecIn(saved, o) \in Nat
      BY RecType, Zenon
    <3>2. AtMost(o) \in Nat
      BY <1>1, <1>11, RecAtMost, TypeParts, Zenon DEF InTurn, StagesInTurn
    <3>3. One(o \in made) = 0
      BY <1>2, Zenon DEF One
    <3> QED BY <3>1, <3>2, <3>3, SMT
  <2>3. \A o \in Objects : ~RunningIn(saved, o)
    BY <1>6, Zenon DEF RunningIn
  <2> QED BY <1>2, <1>7, <2>1, <2>2, <2>3, Zenon DEF CountInv, CountIn, Counted, Anew
<1> QED BY <1>1, <1>9, <1>10, <1>11, <1>12, <1>13, <1>16, <1>17, <1>18, <1>19, Zenon DEF Inv

\* The invariant holds in every reachable state.
THEOREM Invariant == Spec => []Inv
<1>1. Init => Inv
  BY InvInit, Zenon
<1>2. Inv /\ [Next]_vars => Inv'
  BY InvStep, Zenon
<1> QED BY <1>1, <1>2, PTL DEF Spec

\* The operation state, its copy and the cluster keep their types.
THEOREM TypeCorrect == Spec => []TypeOK
<1>1. Inv => TypeOK
  BY Zenon DEF Inv
<1> QED BY <1>1, Invariant, PTL

\* A named hook has one object, at whichever stage it runs.
LEMMA SameObject ==
    ASSUME NEW t, NEW u, NEW h \in RunsAgain(u)
    PROVE  Obj(h, t) = Obj(h, u) /\ h \in Running(u)
BY Zenon DEF RunsAgain, Obj

\* sync: whatever tasks each pass finds, an operation that has succeeded has
\* applied all its manifests and pruned what its result lists, and the latest
\* run of each of its hooks succeeded, unless the manifests have only hooks.
THEOREM SucceededCorrect == Spec => []SucceededMeansDone
<1>1. ASSUME Inv PROVE SucceededMeansDone
  <2>1. AppliedIn(saved) /\ LatestOf(saved, succ)
    BY <1>1, Zenon DEF Inv, AppliedInv, LatestInv
  <2> SUFFICES ASSUME saved.phase = "Succeeded", ~op.dryRun
               PROVE  /\ Effective(saved) \subseteq applied
                      /\ op.strategy = "Hook" /\ targets # {} =>
                            \A t \in Stages : \A h \in Running(t) : Obj(h, t) \in succ
    BY Zenon DEF SucceededMeansDone
  <2>2. /\ Effective(saved) \subseteq applied
        /\ op.strategy = "Hook" /\ targets # {} => \A t \in Stages : StageDone(saved, t)
    BY <2>1, Zenon DEF AppliedIn, Done
  <2> SUFFICES ASSUME op.strategy = "Hook", targets # {}
               PROVE  \A t \in Stages : \A h \in Running(t) : Obj(h, t) \in succ
    BY <2>2, Zenon
  <2>3. \A t \in Stages : \A h \in Running(t) : h \in Hooks /\ saved.hooks[<<h, t>>] = "Succeeded"
    BY <2>2, Zenon DEF StageDone, Running
  <2>4. \A t \in Stages : \A h \in Running(t) :
           Obj(h, t) \in succ \/ \E u \in Later(t) : h \in RunsAgain(u)
    BY <2>1, <2>3, Zenon DEF LatestOf
  <2>5. \A u : u \in Later("PostSync") => FALSE
    BY Zenon DEF Later
  <2>6. \A u : u \in Later("Sync") => u = "PostSync"
    BY Zenon DEF Later
  <2>7. \A u : u \in Later("PreSync") => u = "PostSync" \/ u = "Sync"
    BY Zenon DEF Later, Stages
  <2>8. "PreSync" \in Stages /\ "Sync" \in Stages /\ "PostSync" \in Stages
    BY Zenon DEF Stages
  <2>9. \A h \in Running("PostSync") : Obj(h, "PostSync") \in succ
    BY <2>4, <2>5, <2>8, Zenon
  <2>10. \A h \in Running("Sync") : Obj(h, "Sync") \in succ
    BY <2>4, <2>6, <2>8, <2>9, SameObject, Zenon
  <2>11. \A h \in Running("PreSync") : Obj(h, "PreSync") \in succ
    <3> SUFFICES ASSUME NEW h \in Running("PreSync"), Obj(h, "PreSync") \notin succ PROVE FALSE
      BY Zenon
    <3>1. PICK u \in Later("PreSync") : h \in RunsAgain(u)
      BY <2>4, <2>8, Zenon
    <3>2. Obj(h, "PreSync") = Obj(h, u) /\ h \in Running(u)
      BY <3>1, SameObject, Zenon
    <3> QED BY <2>7, <2>9, <2>10, <3>2, Zenon
  <2> QED BY <2>9, <2>10, <2>11, Zenon DEF Stages
<1>2. Inv => SucceededMeansDone
  BY <1>1, Zenon
<1> QED BY <1>2, Invariant, PTL

\* sync: over all its passes a dry-run operation applies nothing and makes no
\* hook's object.
THEOREM DryRunCorrect == Spec => []DryRunIsDry
<1>1. Inv => DryRunIsDry
  BY Zenon DEF Inv, Dry, DryRunIsDry
<1> QED BY <1>1, Invariant, PTL

\* "We only want to do this once per operation": each further apply of the
\* manifests costs a restart of the controller.
THEOREM AppliedOnceCorrect == Spec => []AppliedOnce
<1>1. Inv => AppliedOnce
  BY Zenon DEF Inv, ApplyInv, AppliedOnce
<1> QED BY <1>1, Invariant, PTL

\* How many stages a set has, as the sum that the invariant uses.
LEMMA StagesCount ==
    ASSUME NEW S \in SUBSET Stages
    PROVE  /\ Cardinality(S) \in Nat
           /\ Cardinality(S) = One("PreSync" \in S) + One("Sync" \in S) + One("PostSync" \in S)
<1> DEFINE A == IF "PreSync" \in S THEN {"PreSync"} ELSE {}
           B == IF "Sync" \in S THEN A \union {"Sync"} ELSE A
           C == IF "PostSync" \in S THEN B \union {"PostSync"} ELSE B
<1>1. IsFiniteSet({}) /\ Cardinality({}) = 0
  BY FS_EmptySet, Zenon
<1>3. "Sync" \notin A /\ "PostSync" \notin B
  BY Zenon
<1>4. IsFiniteSet(A) /\ Cardinality(A) = One("PreSync" \in S)
  <2>1. IsFiniteSet({"PreSync"}) /\ Cardinality({"PreSync"}) = 1
    BY FS_Singleton, Zenon
  <2> QED BY <1>1, <2>1, Zenon DEF One
<1> HIDE DEF A
<1>5. IsFiniteSet(B) /\ Cardinality(B) = One("PreSync" \in S) + One("Sync" \in S)
  <2>1. CASE "Sync" \in S
    BY <1>3, <1>4, <2>1, FS_AddElement, SMTT(20) DEF One
  <2>2. CASE "Sync" \notin S
    BY <1>4, <2>2, SMTT(20) DEF One
  <2> QED BY <2>1, <2>2, Zenon
<1> HIDE DEF B
<1>6. IsFiniteSet(C) /\ Cardinality(C) = One("PreSync" \in S) + One("Sync" \in S) + One("PostSync" \in S)
  <2>1. CASE "PostSync" \in S
    BY <1>3, <1>5, <2>1, FS_AddElement, SMTT(20) DEF One
  <2>2. CASE "PostSync" \notin S
    BY <1>5, <2>2, SMTT(20) DEF One
  <2> QED BY <2>1, <2>2, Zenon
<1>7. C = S
  BY Zenon DEF A, B, Stages
<1> HIDE DEF C
<1>8. Cardinality(S) \in Nat
  BY <1>6, <1>7, FS_CardinalityType, Zenon
<1> QED BY <1>6, <1>7, <1>8, Zenon

\* The types of a hook, but Skip, are stages.
LEMMA TypesAreStages ==
    ASSUME ManifestsTyped, NEW h \in Hooks
    PROVE  hook[h].types \ {"Skip"} \in SUBSET Stages
<1>1. hook[h] \in HookAttr
  BY ConstantsAssumption, Zenon DEF ManifestsTyped
<1>2. hook[h].types \in SUBSET (Stages \union {"Skip"})
  BY <1>1, Zenon DEF HookAttr
<1> QED BY <1>2, Zenon

\* A hook runs at each of its types but Skip.
LEMMA TypesCount ==
    ASSUME ManifestsTyped, NEW h \in Hooks
    PROVE  /\ Cardinality(hook[h].types \ {"Skip"}) \in Nat
           /\ Cardinality(hook[h].types \ {"Skip"}) = StageCount(hook[h].types)
<1> DEFINE T == hook[h].types
           S == T \ {"Skip"}
<1>1. S \in SUBSET Stages
  BY TypesAreStages, Zenon
<1>2. \A t \in Stages : t \in S <=> t \in T
  BY Zenon DEF Stages
<1> HIDE DEF S, T
<1>3. StageCount(S) = StageCount(T)
  BY <1>2, Zenon DEF StageCount, Stages, One
<1>4. Cardinality(S) \in Nat /\ Cardinality(S) = StageCount(S)
  BY <1>1, StagesCount, Zenon DEF StageCount
<1> QED BY <1>3, <1>4, Zenon DEF S, T

\* runHook is idempotent: a hook's object is made once for each stage it runs
\* at, and at most once more for each restart.
THEOREM HookRunOnceCorrect == Spec => []HookRunOnce
<1>1. ASSUME Inv PROVE HookRunOnce
  <2>1. TypeOK /\ InTurn /\ \A o \in Objects : created[o] <= crashes + AtMost(o)
    BY <1>1, Zenon DEF Inv, CountInv, Counted
  <2>2. crashes \in Nat
    BY <2>1, ConstantsAssumption, SMTT(20) DEF TypeOK
  <2>3. ASSUME NEW h \in Hooks, NEW t \in Stages PROVE created[<<h, t>>] <= 1 + crashes
    <3>1. <<h, t>> \in Objects
      BY Zenon DEF Objects
    <3>2. AtMost(<<h, t>>) = 1
      BY SMTT(20) DEF AtMost, Stages
    <3>3. created[<<h, t>>] <= crashes + 1
      BY <2>1, <3>1, <3>2, Zenon
    <3> QED BY <2>2, <3>3, SMTT(20)
  <2>4. ASSUME NEW h \in Hooks
        PROVE  created[<<h, "any">>] <= Cardinality(hook[h].types \ {"Skip"}) + crashes
    <3>1. <<h, "any">> \in Objects
      BY Zenon DEF Objects
    <3>2. AtMost(<<h, "any">>) = StageCount(hook[h].types)
      BY SMTT(20) DEF AtMost
    <3>3. /\ Cardinality(hook[h].types \ {"Skip"}) \in Nat
          /\ Cardinality(hook[h].types \ {"Skip"}) = StageCount(hook[h].types)
      BY <2>1, TypesCount, TypeParts, Zenon
    <3>4. created[<<h, "any">>] <= crashes + Cardinality(hook[h].types \ {"Skip"})
      BY <2>1, <3>1, <3>2, <3>3, Zenon
    <3> QED BY <2>2, <3>3, <3>4, SMTT(20)
  <2> QED BY <2>3, <2>4, Zenon DEF HookRunOnce
<1>2. Inv => HookRunOnce
  BY <1>1, Zenon
<1> QED BY <1>2, Invariant, PTL

\* terminate: a terminated operation leaves no hook running but those of
\* passes lost to a restart, or of earlier operations.
THEOREM TerminateCorrect == Spec => []TerminateStopsHooks
<1>1. Inv => TerminateStopsHooks
  BY Zenon DEF Inv, TermInv, Stopped, TerminateStopsHooks
<1> QED BY <1>1, Invariant, PTL

\* Only runHook makes an object, and only for a hook that is not done.
LEMMA MadeBy ==
    ASSUME Steps, created' # created
    PROVE  RunsHook /\ next \in Running(stage) /\ ~HookDone(next)
<1>1. RunsHook
  BY Zenon DEF Steps, Begins, DryRuns, AppliesOrEnds, Verifies, EndsLoop, SyncsNonHooks, ChecksHealth,
     Terminates, Stores, Restarts, Resets, IsTerminated, Finishes, Stutters, Advances, ClusterKept, HooksKept
<1> QED BY <1>1, Zenon DEF RunsHook, Passes, Breaks, Records, HooksKept

\* Only the apply strategy and syncNonHookTasks apply manifests.
LEMMA AppliedBy ==
    ASSUME Steps, applied' # applied
    PROVE  pc = "apply" \/ (pc = "nonhook" /\ ~startedSyncPhase(cur))
BY Zenon DEF Steps, Begins, DryRuns, AppliesOrEnds, Verifies, EndsLoop, SyncsNonHooks, ChecksHealth,
   RunsHook, Terminates, Stores, Restarts, Resets, IsTerminated, Finishes, Stutters, ClusterKept

\* doHookSync: nothing is applied and no Sync hook is made before the latest
\* run of every PreSync hook has succeeded in the cluster.
THEOREM PreSyncCorrect == Spec => PreSyncFirst
<1> DEFINE A == op.strategy = "Hook"
                  /\ (applied' # applied \/ (created' # created /\ stage = "Sync"))
                => \A h \in Running("PreSync") \ RunsAgain("Sync") : Obj(h, "PreSync") \in succ
<1>1. ASSUME Inv, [Next]_vars PROVE A
  <2> SUFFICES ASSUME op.strategy = "Hook",
                      applied' # applied \/ (created' # created /\ stage = "Sync"),
                      NEW h \in Running("PreSync"), h \notin RunsAgain("Sync")
               PROVE  Obj(h, "PreSync") \in succ
    BY Zenon
  <2>1. TypeOK /\ Path /\ Follows /\ Gone /\ LatestOf(cur, succ)
    BY <1>1, Zenon DEF Inv, LatestInv
  <2>2. Steps
    BY <1>1, <2>1, NextDoes, Zenon
  <2>3. StageDone(cur, "PreSync") /\ ~Reached("PostSync")
    <3>1. CASE applied' # applied
      <4>1. pc = "nonhook" /\ ~startedSyncPhase(cur)
        BY <2>1, <2>2, <3>1, AppliedBy, Zenon DEF Path
      <4>2. startedSyncPhase(saved) => startedSyncPhase(cur)
        <5>1. \A k \in HookKeys : saved.hooks[k] # "none" => cur.hooks[k] # "none"
          <6> SUFFICES ASSUME NEW k \in HookKeys PROVE saved.hooks[k] # "none" => cur.hooks[k] # "none"
            BY Zenon
          <6>1. PICK g \in Hooks, t \in Stages : k = <<g, t>>
            BY KeyParts, Zenon
          <6> QED BY <2>1, <6>1, Zenon DEF Follows
        <5>2. saved.resources # {} => cur.resources # {}
          BY <2>1, Zenon DEF Follows
        <5> QED BY <5>1, <5>2, Zenon DEF startedSyncPhase
      <4> QED BY <2>1, <4>1, <4>2, Zenon DEF Gone, Reached
    <3>2. CASE created' # created /\ stage = "Sync"
      <4>1. RunsHook /\ next \in Running("Sync") /\ ~HookDone(next)
        BY <2>2, <3>2, MadeBy, Zenon
      <4>2. pc = "hooks" /\ next \in Hooks /\ stage \in Stages
        BY <2>1, <4>1, Zenon DEF RunsHook, TypeOK
      <4>3. StageDone(cur, "PreSync")
        BY <2>1, <3>2, <4>2, Zenon DEF Gone
      <4>4. saved.hooks[<<next, "Sync">>] # "Succeeded"
        BY <2>1, <3>2, <4>1, <4>2, Zenon DEF Follows, HookDone, Completed
      <4> QED BY <4>1, <4>3, <4>4, Zenon DEF Reached, StageDone
    <3> QED BY <3>1, <3>2, Zenon
  <2>4. h \in Hooks /\ cur.hooks[<<h, "PreSync">>] = "Succeeded" /\ "PreSync" \in Stages
    BY <2>3, Zenon DEF StageDone, Running, Stages
  <2>5. \A u \in Later("PreSync") : u = "Sync" \/ u = "PostSync"
    BY Zenon DEF Later, Stages
  <2> QED BY <2>1, <2>3, <2>4, <2>5, Zenon DEF LatestOf
<1>2. Inv /\ [Next]_vars => [A]_vars
  BY <1>1, Zenon
<1> QED BY <1>2, Invariant, PTL DEF Spec, PreSyncFirst

\* doHookSync: a PostSync hook is made only after a successful apply and
\* successful Sync hooks, by a pass that saw the application healthy and that
\* did not itself apply the manifests.
THEOREM PostSyncCorrect == Spec => PostSyncLast
<1> DEFINE A == created' # created /\ stage = "PostSync"
                => /\ seen \/ startedPostSyncPhase(saved)
                   /\ ~fresh
                   /\ Effective(saved) \subseteq applied
                   /\ \A h \in Running("Sync") \ RunsAgain("PostSync") : Obj(h, "Sync") \in succ
<1>1. ASSUME Inv, [Next]_vars PROVE A
  <2> SUFFICES ASSUME created' # created, stage = "PostSync"
               PROVE  /\ seen \/ startedPostSyncPhase(saved)
                      /\ ~fresh
                      /\ Effective(saved) \subseteq applied
                      /\ \A h \in Running("Sync") \ RunsAgain("PostSync") : Obj(h, "Sync") \in succ
    BY Zenon
  <2>1. TypeOK /\ Path /\ Gone /\ AppliedIn(saved) /\ Basis /\ LatestOf(cur, succ)
    BY <1>1, Zenon DEF Inv, AppliedInv, LatestInv
  <2>2. RunsHook /\ next \in Running("PostSync")
    BY <1>1, <2>1, NextDoes, MadeBy, Zenon
  <2>3. pc = "hooks"
    BY <2>2, Zenon DEF RunsHook
  <2>4. StageDone(cur, "Sync") /\ ~fresh
    BY <2>1, <2>3, Zenon DEF Gone
  <2>5. startedSyncPhase(saved) /\ (seen \/ startedPostSyncPhase(saved))
    BY <2>1, <2>2, <2>3, <2>4, Zenon DEF Basis
  <2>6. Effective(saved) \subseteq applied
    BY <2>1, <2>3, <2>5, Zenon DEF Path, HookSync, Completed, AppliedIn, Done
  <2>7. ASSUME NEW h \in Running("Sync"), h \notin RunsAgain("PostSync") PROVE Obj(h, "Sync") \in succ
    <3>1. h \in Hooks /\ cur.hooks[<<h, "Sync">>] = "Succeeded" /\ "Sync" \in Stages
      BY <2>4, Zenon DEF StageDone, Running, Stages
    <3>2. \A u \in Later("Sync") : u = "PostSync"
      BY Zenon DEF Later
    <3> QED BY <2>1, <2>7, <3>1, <3>2, Zenon DEF LatestOf
  <2> QED BY <2>4, <2>5, <2>6, <2>7, Zenon
<1>2. Inv /\ [Next]_vars => [A]_vars
  BY <1>1, Zenon
<1> QED BY <1>2, Invariant, PTL DEF Spec, PostSyncLast

\* What is stored of an operation is never taken back, through passes, lost
\* passes and terminations: no resource leaves the sync result, the status of a
\* completed hook stays, a hook that was started does not become unknown, and an
\* operation that is completed stays as it is.  sync, runHook and doHookSync
\* decide from this record alone what was done.
RecordIsKept ==
    [][/\ saved.resources \subseteq saved'.resources
       /\ \A k \in HookKeys :
             /\ saved.hooks[k] # "none" => saved'.hooks[k] # "none"
             /\ Completed(saved.hooks[k]) => saved'.hooks[k] = saved.hooks[k]
       /\ Completed(saved.phase) => saved' = saved]_vars

\* A completed operation has no pass, and nothing else changes what is stored.
LEMMA CompletedStays == ASSUME Path, Steps, Completed(saved.phase) PROVE saved' = saved
<1>1. pc = "idle" /\ saved.phase # "Running"
  BY Zenon DEF Path, Completed
<1> QED BY <1>1, Zenon DEF Steps, Begins, DryRuns, AppliesOrEnds, Verifies, EndsLoop, SyncsNonHooks,
     ChecksHealth, RunsHook, Terminates, Stores, Restarts, IsTerminated, Finishes, Stutters

\* Only Store and TerminateOperation change what is stored.
LEMMA StoredBy ==
    ASSUME Steps
    PROVE  \/ saved' = saved
           \/ saved'.hooks = saved.hooks /\ saved'.resources = saved.resources
           \/ saved'.hooks = cur.hooks /\ saved'.resources = cur.resources
BY Zenon DEF Steps, Begins, DryRuns, AppliesOrEnds, Verifies, EndsLoop, SyncsNonHooks, ChecksHealth,
   RunsHook, Terminates, Stores, Restarts, IsTerminated, Finishes, Stutters, Advances

\* The operation state that is stored only grows, and a completed one is final.
THEOREM RecordCorrect == Spec => RecordIsKept
<1> DEFINE A == /\ saved.resources \subseteq saved'.resources
                /\ \A k \in HookKeys :
                      /\ saved.hooks[k] # "none" => saved'.hooks[k] # "none"
                      /\ Completed(saved.hooks[k]) => saved'.hooks[k] = saved.hooks[k]
                /\ Completed(saved.phase) => saved' = saved
<1>1. ASSUME Inv, [Next]_vars PROVE A
  <2>1. TypeOK /\ Path /\ Follows
    BY <1>1, Zenon DEF Inv
  <2>2. Steps
    BY <1>1, <2>1, NextDoes, Zenon
  <2>3. Completed(saved.phase) => saved' = saved
    BY <2>1, <2>2, CompletedStays, Zenon
  <2>4. saved.resources \subseteq cur.resources
    BY <2>1, Zenon DEF Follows
  <2>5. ASSUME NEW k \in HookKeys
        PROVE  /\ saved.hooks[k] # "none" => cur.hooks[k] # "none"
               /\ Completed(saved.hooks[k]) => cur.hooks[k] = saved.hooks[k]
    <3>1. PICK h \in Hooks, t \in Stages : k = <<h, t>>
      BY <2>5, KeyParts, Zenon
    <3> QED BY <2>1, <3>1, Zenon DEF Follows
  <2> QED BY <2>2, <2>3, <2>4, <2>5, StoredBy, Zenon
<1>2. Inv /\ [Next]_vars => [A]_vars
  BY <1>1, Zenon
<1> QED BY <1>2, Invariant, PTL DEF Spec, RecordIsKept

-----------------------------------------------------------------------------
(* What AppOperation takes for granted of a pass (its SyncOutcomes).       *)

\* The pass, under way or about to begin, is that of a terminating operation.
Terminating == IF pc = "idle" THEN saved.phase = "Terminating" ELSE cur.phase = "Terminating"

\* A pass ends with a phase that AppOperation expects of SyncAppState: never
\* Terminating, and a terminating operation is Failed or in Error, whatever fails.
\* Its pass applies no manifest and makes no hook's object.
PassOutcomes ==
    [][/\ pc # "store" /\ pc' = "store" =>
             cur'.phase \in IF Terminating THEN {"Failed", "Error"}
                            ELSE {"Running", "Succeeded", "Failed", "Error"}
       /\ Terminating => applied' = applied /\ created' = created]_vars

\* SyncAppState of a terminating operation goes to terminate, or fails before.
LEMMA TerminatingBegins ==
    ASSUME TypeOK, SyncAppState, saved.phase = "Terminating"
    PROVE  pc' = "store" => cur'.phase = "Error"
<1>1. saved \in OperationState /\ "Error" \in Phases
  BY Zenon DEF TypeOK, Phases, Statuses
<1>2. SetPhase(saved, "Error").phase = "Error"
  BY <1>1, WithPhase, Zenon
<1> QED BY <1>2, Zenon DEF SyncAppState, EndPass, Goto

\* From there on the copy has the phase that the label of the pass tells.
LEMMA OutcomeOf ==
    ASSUME TypeOK, Path, Steps, pc # "idle", pc # "store", pc' = "store"
    PROVE  cur'.phase \in IF Terminating THEN {"Failed", "Error"}
                          ELSE {"Running", "Succeeded", "Failed", "Error"}
<1>1. pc \in Working \union {"terminate"}
  BY Zenon DEF TypeOK, Working
<1>2. CASE pc = "terminate"
  <2>1. Terminates
    BY <1>2, Zenon DEF Steps, Begins, DryRuns, AppliesOrEnds, Verifies, EndsLoop, SyncsNonHooks,
       ChecksHealth, RunsHook, Stores, Restarts, Resets, IsTerminated, Finishes, Stutters, PassKept
  <2> QED BY <2>1, Zenon DEF Terminates
<1>3. CASE pc \in Working
  <2>1. cur.phase = "Running" /\ ~Terminating
    BY <1>3, Zenon DEF Path, Terminating, Working
  <2>2. cur'.phase \in {"Running", "Succeeded", "Failed", "Error"}
    BY <1>3, <2>1, ZenonT(30) DEF Working, Applies, Strategy, Steps, Begins, DryRuns, AppliesOrEnds,
       Verifies, EndsLoop, SyncsNonHooks, ChecksHealth, RunsHook, Passes, Breaks, Records, Terminates,
       Stores, Restarts, Resets, IsTerminated, Finishes, Stutters, PassKept
  <2> QED BY <2>1, <2>2, Zenon
<1> QED BY <1>1, <1>2, <1>3, Zenon

\* SyncAppState keeps what AppOperation assumes of the phase it leaves, and a pass
\* of a terminating operation starts nothing.
THEOREM OutcomesCorrect == Spec => PassOutcomes
<1> DEFINE A == /\ pc # "store" /\ pc' = "store" =>
                      cur'.phase \in IF Terminating THEN {"Failed", "Error"}
                                     ELSE {"Running", "Succeeded", "Failed", "Error"}
                /\ Terminating => applied' = applied /\ created' = created
<1>1. ASSUME Inv, [Next]_vars PROVE A
  <2>1. TypeOK /\ Path
    BY <1>1, Zenon DEF Inv
  <2>2. Steps
    BY <1>1, <2>1, NextDoes, Zenon
  <2>3. ASSUME pc = "idle", pc' = "store"
        PROVE  /\ cur'.phase \in {"Succeeded", "Error"}
               /\ saved.phase = "Terminating" => cur'.phase = "Error"
    <3>1. Begins
      BY <2>2, <2>3, ZenonT(30) DEF Steps, DryRuns, AppliesOrEnds, Verifies, EndsLoop, SyncsNonHooks,
         ChecksHealth, RunsHook, Terminates, Stores, Restarts, IsTerminated, Finishes, Stutters, PassKept
    <3>2. SyncAppState
      BY <1>1, <2>3, Zenon DEF Next, Pass, SyncAppState, DryRun, ApplyStrategy, verifyPermittedHooks,
         RunHook, RunHooksDone, syncNonHookTasks, CheckHealth, terminate, Store, Restart,
         TerminateOperation, FinishHook, vars, pass
    <3>3. "store" # Strategy /\ "store" # "terminate" /\ "store" # "dryrun"
      BY Zenon DEF Strategy
    <3> QED BY <2>1, <2>3, <3>1, <3>2, <3>3, TerminatingBegins, Zenon DEF Begins
  <2>4. Terminating => applied' = applied /\ created' = created
    <3>1. ASSUME Terminating, pc \in Working PROVE FALSE
      BY <2>1, <3>1, Zenon DEF Terminating, Path, Working
    <3>2. ASSUME applied' # applied \/ created' # created PROVE pc \in Working
      BY <2>2, <3>2, AppliedBy, MadeBy, Zenon DEF Working, RunsHook
    <3> QED BY <3>1, <3>2, Zenon
  <2>5. CASE pc = "idle"
    BY <2>3, <2>4, <2>5, Zenon DEF Terminating
  <2>6. CASE pc # "idle"
    BY <2>1, <2>2, <2>4, <2>6, OutcomeOf, Zenon
  <2> QED BY <2>5, <2>6, Zenon
<1>2. Inv /\ [Next]_vars => [A]_vars
  BY <1>1, Zenon
<1> QED BY <1>2, Invariant, PTL DEF Spec, PassOutcomes
=============================================================================
