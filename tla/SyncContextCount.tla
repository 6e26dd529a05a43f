-------------------------- MODULE SyncContextCount --------------------------
(***************************************************************************)
(* The parts of SyncContext's inductive invariant about how often the      *)
(* hooks have run and which running objects a pass knows; each with the    *)
(* proof that every step keeps it.                                         *)
(***************************************************************************)
EXTENDS SyncContextInv

(* How often a hook is run.                                                *)

One(b) == IF b THEN 1 ELSE 0

\* What One counts.
LEMMA OneType == \A b \in BOOLEAN : One(b) \in 0 .. 1 /\ (b => One(b) = 1) /\ (~b => One(b) = 0)
BY SMT DEF One

\* How many stages the object o is recorded for.
Rec(s, h, t) == One(s.hooks[<<h, t>>] # "none")
RecIn(s, o) ==
    IF o[2] # "any" THEN Rec(s, o[1], o[2])
    ELSE Rec(s, o[1], "PreSync") + Rec(s, o[1], "Sync") + Rec(s, o[1], "PostSync")

\* How many stages it is run at, at most.
StageCount(S) == One("PreSync" \in S) + One("Sync" \in S) + One("PostSync" \in S)
AtMost(o) == IF o[2] = "any" THEN StageCount(hook[o[1]].types) ELSE 1

\* An object is <<h, t>> or <<h, "any">>.
LEMMA ObjectParts ==
    ASSUME NEW o \in Objects
    PROVE  o[1] \in Hooks /\ (o[2] \in Stages \/ o[2] = "any") /\ o = <<o[1], o[2]>>
BY SMT DEF Objects

\* The count of an object is a number.
LEMMA RecType ==
    ASSUME NEW s, NEW o
    PROVE  RecIn(s, o) \in Nat /\ \A h, t : Rec(s, h, t) \in 0 .. 1
<1>1. \A h, t : Rec(s, h, t) \in 0 .. 1
  BY OneType, Zenon DEF Rec
<1> QED BY <1>1, SMT DEF RecIn

\* A hook is recorded only at its stages.
LEMMA RecAtMost ==
    ASSUME ManifestsTyped, NEW s, NEW o \in Objects,
           \A h \in Hooks : \A t \in Stages : s.hooks[<<h, t>>] # "none" => h \in Running(t)
    PROVE  AtMost(o) \in Nat /\ RecIn(s, o) <= AtMost(o)
<1>1. o[1] \in Hooks /\ (o[2] \in Stages \/ o[2] = "any") /\ "any" \notin Stages
  BY ObjectParts, Zenon DEF Stages
<1> DEFINE S == hook[o[1]].types
<1>2. \A t : Rec(s, o[1], t) \in 0 .. 1
  BY RecType, Zenon
<1>3. CASE o[2] # "any"
  BY <1>2, <1>3, SMT DEF RecIn, AtMost
<1>4. CASE o[2] = "any"
  <2>2. \A t \in Stages : s.hooks[<<o[1], t>>] # "none" => t \in S
    BY <1>1, Zenon DEF Running, isHookType, Stages
  <2>3. \A t \in Stages : Rec(s, o[1], t) <= One(t \in S) /\ One(t \in S) \in 0 .. 1
    BY <2>2, SMT DEF Rec, One
  <2> HIDE DEF S
  <2>5. AtMost(o) = One("PreSync" \in S) + One("Sync" \in S) + One("PostSync" \in S)
    BY <1>4, Zenon DEF AtMost, StageCount, S
  <2>6. RecIn(s, o) = Rec(s, o[1], "PreSync") + Rec(s, o[1], "Sync") + Rec(s, o[1], "PostSync")
    BY <1>4, Zenon DEF RecIn
  <2>7. /\ Rec(s, o[1], "PreSync") <= One("PreSync" \in S) /\ One("PreSync" \in S) \in 0 .. 1
        /\ Rec(s, o[1], "Sync") <= One("Sync" \in S) /\ One("Sync" \in S) \in 0 .. 1
        /\ Rec(s, o[1], "PostSync") <= One("PostSync" \in S) /\ One("PostSync" \in S) \in 0 .. 1
    BY <2>3, Zenon DEF Stages
  <2>8. /\ Rec(s, o[1], "PreSync") \in 0 .. 1 /\ Rec(s, o[1], "Sync") \in 0 .. 1
        /\ Rec(s, o[1], "PostSync") \in 0 .. 1
    BY <1>2, Zenon
  <2> QED BY <2>5, <2>6, <2>7, <2>8, SMT
<1> QED BY <1>3, <1>4, Zenon

\* The objects that this pass made exist, unless they do not run.
MadeInv ==
    \A o \in made : /\ hook[o[1]].runnable => obj[o] # "absent"
                    /\ pc = "store" \/ (pc = "hooks" /\ o[1] < next /\ ~cont)

\* Only a job, a workflow or a pod is recorded as running.
RunnableInv ==
    \A h \in Hooks : \A t \in Stages :
        saved.hooks[<<h, t>>] = "Running" \/ cur.hooks[<<h, t>>] = "Running" => hook[h].runnable

\* Between passes only the request to terminate is not in the copy.
IdleInv ==
    pc = "idle" => cur.phase = saved.phase \/ (cur.phase = "Running" /\ saved.phase = "Terminating")

\* Every step keeps what is known of the objects this pass made.
LEMMA MadeStep == ASSUME TypeOK, MadeInv, Steps PROVE MadeInv'
<1>1. hook' = hook
  BY ManifestsStay, Zenon DEF ManifestsKept
<1>2. CASE made' = {}
  BY <1>2, Zenon DEF MadeInv
<1>3. CASE Stores \/ Restarts
  BY <1>2, <1>3, Zenon DEF Stores, Restarts, Resets
<1>4. CASE made' = made /\ pc \notin {"hooks", "store"}
  BY <1>2, <1>4, Zenon DEF MadeInv
<1>5. CASE Begins \/ DryRuns \/ AppliesOrEnds \/ Verifies \/ SyncsNonHooks \/ ChecksHealth \/ Terminates
  <2>1. made' = made
    BY <1>5, Zenon DEF Begins, DryRuns, AppliesOrEnds, Verifies, SyncsNonHooks, ChecksHealth,
       Terminates, Advances, ClusterKept, HooksKept
  <2>2. pc \notin {"hooks", "store"}
    BY <1>5, Zenon DEF Begins, DryRuns, AppliesOrEnds, Verifies, SyncsNonHooks, ChecksHealth, Terminates
  <2> QED BY <1>4, <2>1, <2>2, Zenon
<1>6. CASE EndsLoop
  <2>1. pc = "hooks" /\ made' = made /\ obj' = obj /\ (pc' = "store" \/ cont)
    BY <1>6, Zenon DEF EndsLoop, Advances, HooksKept
  <2> QED BY <1>1, <1>2, <2>1, Zenon DEF MadeInv
<1>7. ASSUME PassKept, made' = made, \A o \in Objects : obj[o] # "absent" => obj'[o] # "absent" PROVE MadeInv'
  <2>1. made \subseteq Objects
    BY Zenon DEF TypeOK
  <2> QED BY <1>1, <1>7, <2>1, Zenon DEF MadeInv, PassKept, LoopKept
<1>8. CASE IsTerminated \/ Stutters
  BY <1>7, <1>8, Zenon DEF IsTerminated, Stutters, ClusterKept, HooksKept
<1>9. ASSUME NEW o \in Objects, Finishes(o) PROVE MadeInv'
  BY <1>7, <1>9, Zenon DEF Finishes
<1>10. CASE RunsHook
  <2> DEFINE o == Obj(next, stage)
  <2>1. /\ pc = "hooks" /\ next \in Hooks /\ stage \in Stages /\ next' = next + 1
        /\ o \in Objects /\ o[1] = next /\ made \subseteq Objects
    BY <1>10, ObjType, Zenon DEF RunsHook, TypeOK
  <2>2. \A h \in Hooks : h < next => h < next' /\ h # next
    BY <2>1, NextHook, SMT DEF Hooks
  <2>3. next < next'
    BY <2>1, NextHook, Zenon
  <2>4. \A p \in made : p[1] \in Hooks /\ p[1] < next /\ ~cont /\ p # o
    BY <2>1, <2>2, ObjectParts, Zenon DEF MadeInv
  <2> HIDE DEF o
  <2>5. CASE Passes
    <3>1. made' = made /\ obj' = obj /\ pc' = pc /\ cont' = cont
      BY <2>5, Zenon DEF Passes, HooksKept
    <3> QED BY <1>1, <2>1, <2>2, <2>4, <3>1, Zenon DEF MadeInv
  <2>6. ASSUME pc' = "store" \/ (pc' = "hooks" /\ ~cont'),
               HooksKept \/ (Makes(o) /\ (obj[o] = "absent" /\ hook[o[1]].runnable => obj'[o] # "absent"))
        PROVE  MadeInv'
    <3>1. ASSUME NEW p \in made'
          PROVE  p[1] < next' /\ (hook[p[1]].runnable => obj'[p] # "absent")
      <4>1. CASE p \in made
        BY <2>1, <2>2, <2>4, <2>6, <4>1, Zenon DEF HooksKept, Makes, OthersKept, MadeInv
      <4>2. CASE p \notin made
        <5>0. made' = made \/ (made' = made \union {o} /\ obj[o] = "absent")
          BY <2>6, Zenon DEF HooksKept, Makes
        <5>1. p = o /\ obj[o] = "absent"
          BY <4>2, <5>0
        <5>2. hook[o[1]].runnable => obj'[o] # "absent"
          BY <2>6, <3>1, <4>2, <5>1, Zenon DEF HooksKept
        <5> QED BY <2>1, <2>3, <5>1, <5>2
      <4> QED BY <4>1, <4>2, Zenon
    <3> QED BY <1>1, <2>6, <3>1, Zenon DEF MadeInv
  <2>7. CASE Breaks(o)
    <3>1. Live(o) = "Running" \/ ~(obj[o] = "absent" /\ hook[o[1]].runnable)
      BY Zenon DEF Live
    <3> QED BY <2>6, <2>7, <3>1, Zenon DEF Breaks
  <2>8. ASSUME NEW st \in Statuses, Records(o, st) PROVE MadeInv'
    <3>1. Live(o) = "Running" \/ ~(obj[o] = "absent" /\ hook[o[1]].runnable)
      BY Zenon DEF Live
    <3>2. obj[o] = "absent" /\ hook[o[1]].runnable => obj'[o] # "absent"
      BY <2>1, <2>8, <3>1, Zenon DEF Records
    <3>3. pc' = "hooks" /\ ~cont' /\ Makes(o)
      BY <2>1, <2>8, Zenon DEF Records
    <3> QED BY <2>6, <3>2, <3>3, Zenon
  <2> QED BY <1>10, <2>5, <2>7, <2>8, Zenon DEF RunsHook, o
<1> QED BY <1>3, <1>5, <1>6, <1>8, <1>9, <1>10, Zenon DEF Steps

\* Every step keeps that only runnable hooks run.
LEMMA RunnableStep == ASSUME TypeOK, RunnableInv, Steps PROVE RunnableInv'
<1>1. hook' = hook
  BY ManifestsStay, Zenon DEF ManifestsKept
<1>2. CASE saved'.hooks \in {saved.hooks, cur.hooks} /\ cur'.hooks \in {saved.hooks, cur.hooks}
  BY <1>1, <1>2, Zenon DEF RunnableInv
<1>3. CASE Terminates
  <2>1. saved' = saved
    BY <1>3, Zenon DEF Terminates
  <2>2. ASSUME NEW h \in Hooks, NEW t \in Stages, cur'.hooks[<<h, t>>] = "Running"
        PROVE  cur.hooks[<<h, t>>] = "Running"
    <3>1. <<h, t>> \in HookKeys
      BY Zenon DEF HookKeys
    <3> QED BY <1>3, <2>2, <3>1, Zenon DEF Terminates
  <2> QED BY <1>1, <2>1, <2>2, Zenon DEF RunnableInv
<1>4. ASSUME NEW st \in Statuses, Records(Obj(next, stage), st), saved' = saved PROVE RunnableInv'
  <2>1. st = "Running" => hook[next].runnable
    BY <1>4, Zenon DEF Records
  <2>2. ASSUME NEW h \in Hooks, NEW t \in Stages, cur'.hooks[<<h, t>>] = "Running"
        PROVE  hook[h].runnable
    <3>1. CASE h = next /\ t = stage
      BY <1>4, <2>1, <2>2, <3>1, Zenon DEF Records
    <3>2. CASE ~(h = next /\ t = stage)
      <4>1. <<h, t>> # <<next, stage>>
        BY <3>2, Zenon
      <4>2. cur.hooks[<<h, t>>] = "Running"
        BY <1>4, <2>2, <4>1, Zenon DEF Records
      <4> QED BY <4>2, Zenon DEF RunnableInv
    <3> QED BY <3>1, <3>2, Zenon
  <2> QED BY <1>1, <1>4, <2>2, Zenon DEF RunnableInv
<1>5. CASE RunsHook
  BY <1>2, <1>4, <1>5, Zenon DEF RunsHook, Passes, Breaks
<1>6. CASE Stores \/ Restarts \/ Begins
  BY <1>2, <1>6, Zenon DEF Stores, Restarts, Resets, Begins
<1> QED BY <1>2, <1>3, <1>5, <1>6, Zenon DEF Steps, DryRuns, AppliesOrEnds, Verifies, EndsLoop,
     SyncsNonHooks, ChecksHealth, IsTerminated, Finishes, Stutters, Advances, CopyKept, PassKept

\* Every step keeps that the copy is what is stored, between passes.
LEMMA IdleStep == ASSUME TypeOK, IdleInv, Steps PROVE IdleInv'
<1>1. CASE pc' # "idle"
  BY <1>1, Zenon DEF IdleInv
<1>2. CASE Stores \/ Restarts
  BY <1>2, Zenon DEF Stores, Restarts, Resets, IdleInv
<1>3. CASE IsTerminated
  BY <1>3, Zenon DEF IsTerminated, PassKept, IdleInv
<1>4. CASE Stutters \/ \E o \in Objects : Finishes(o)
  BY <1>4, Zenon DEF Stutters, Finishes, PassKept, IdleInv
<1>5. CASE Begins \/ DryRuns \/ AppliesOrEnds \/ Terminates
  BY <1>1, <1>5, StrategyType, TypeParts, Zenon DEF Begins, DryRuns, AppliesOrEnds, Terminates
<1>6. CASE Verifies \/ RunsHook \/ EndsLoop \/ SyncsNonHooks \/ ChecksHealth
  BY <1>1, <1>6, Zenon DEF Verifies, RunsHook, EndsLoop, SyncsNonHooks, ChecksHealth, Passes, Breaks, Records
<1> QED BY <1>2, <1>3, <1>4, <1>5, <1>6, Zenon DEF Steps

\* What is recorded is counted.
LEMMA RecSame ==
    ASSUME NEW r, NEW s, NEW o \in Objects,
           \A h \in Hooks : \A t \in Stages : r.hooks[<<h, t>>] # "none" <=> s.hooks[<<h, t>>] # "none"
    PROVE  RecIn(r, o) = RecIn(s, o)
<1>1. o[1] \in Hooks /\ (o[2] \in Stages \/ o[2] = "any")
  BY ObjectParts, Zenon
<1>2. \A t \in Stages : Rec(r, o[1], t) = Rec(s, o[1], t)
  BY <1>1, Zenon DEF Rec, One
<1>3. "PreSync" \in Stages /\ "Sync" \in Stages /\ "PostSync" \in Stages
  BY Zenon DEF Stages
<1> QED BY <1>1, <1>2, <1>3, Zenon DEF RecIn

\* What is recorded more counts more.
LEMMA RecGrows ==
    ASSUME NEW r, NEW s, NEW o \in Objects,
           \A h \in Hooks : \A t \in Stages : r.hooks[<<h, t>>] # "none" => s.hooks[<<h, t>>] # "none"
    PROVE  RecIn(r, o) <= RecIn(s, o)
<1>1. o[1] \in Hooks /\ (o[2] \in Stages \/ o[2] = "any")
  BY ObjectParts, Zenon
<1>2. \A t : Rec(r, o[1], t) \in 0 .. 1 /\ Rec(s, o[1], t) \in 0 .. 1
  BY RecType, Zenon
<1>3. \A t \in Stages : Rec(r, o[1], t) <= Rec(s, o[1], t)
  BY <1>1, SMT DEF Rec, One
<1>4. CASE o[2] # "any"
  BY <1>1, <1>3, <1>4, Zenon DEF RecIn
<1>5. CASE o[2] = "any"
  <2>1. /\ Rec(r, o[1], "PreSync") <= Rec(s, o[1], "PreSync")
        /\ Rec(r, o[1], "Sync") <= Rec(s, o[1], "Sync")
        /\ Rec(r, o[1], "PostSync") <= Rec(s, o[1], "PostSync")
    BY <1>3, Zenon DEF Stages
  <2> QED BY <1>2, <1>5, <2>1, SMT DEF RecIn
<1> QED BY <1>4, <1>5, Zenon

Adds(r, s, h, t) ==
    /\ r.hooks[<<h, t>>] # "none" /\ s.hooks[<<h, t>>] = "none"
    /\ \A g \in Hooks : \A u \in Stages :
          <<g, u>> # <<h, t>> => r.hooks[<<g, u>>] = s.hooks[<<g, u>>]

\* A status recorded for the first time counts one more.
LEMMA RecMore ==
    ASSUME NEW r, NEW s, NEW h \in Hooks, NEW t \in Stages, Adds(r, s, h, t)
    PROVE  RecIn(r, Obj(h, t)) = RecIn(s, Obj(h, t)) + 1
<1>1. Rec(r, h, t) = 1 /\ Rec(s, h, t) = 0
  BY Zenon DEF Adds, Rec, One
<1>2. \A u \in Stages : u # t => Rec(r, h, u) = Rec(s, h, u)
  <2>1. ASSUME NEW u \in Stages, u # t PROVE r.hooks[<<h, u>>] = s.hooks[<<h, u>>]
    <3>1. <<h, u>> # <<h, t>>
      BY <2>1, Zenon
    <3> QED BY <3>1, Zenon DEF Adds
  <2> QED BY <2>1, Zenon DEF Rec
<1>3. \A u : Rec(r, h, u) \in 0 .. 1 /\ Rec(s, h, u) \in 0 .. 1
  BY RecType, Zenon
<1>4. CASE hook[h].generated
  <2>1. Obj(h, t)[1] = h /\ Obj(h, t)[2] = t /\ t # "any"
    BY <1>4, SMT DEF Obj, Stages
  <2>2. RecIn(r, Obj(h, t)) = Rec(r, h, t) /\ RecIn(s, Obj(h, t)) = Rec(s, h, t)
    BY <2>1, Zenon DEF RecIn
  <2> QED BY <1>1, <2>2, SMT
<1>5. CASE ~hook[h].generated
  <2>1. Obj(h, t)[1] = h /\ Obj(h, t)[2] = "any"
    BY <1>5, SMT DEF Obj
  <2>2. /\ RecIn(r, Obj(h, t)) = Rec(r, h, "PreSync") + Rec(r, h, "Sync") + Rec(r, h, "PostSync")
        /\ RecIn(s, Obj(h, t)) = Rec(s, h, "PreSync") + Rec(s, h, "Sync") + Rec(s, h, "PostSync")
    BY <2>1, Zenon DEF RecIn
  <2>3. /\ Rec(s, h, "PreSync") \in 0 .. 1 /\ Rec(s, h, "Sync") \in 0 .. 1 /\ Rec(s, h, "PostSync") \in 0 .. 1
    BY <1>3, Zenon
  <2>4. CASE t = "PreSync"
    <3>1. Rec(r, h, "Sync") = Rec(s, h, "Sync") /\ Rec(r, h, "PostSync") = Rec(s, h, "PostSync")
      BY <1>2, <2>4, Zenon DEF Stages
    <3> QED BY <1>1, <2>2, <2>3, <2>4, <3>1, SMT
  <2>5. CASE t = "Sync"
    <3>1. Rec(r, h, "PreSync") = Rec(s, h, "PreSync") /\ Rec(r, h, "PostSync") = Rec(s, h, "PostSync")
      BY <1>2, <2>5, Zenon DEF Stages
    <3> QED BY <1>1, <2>2, <2>3, <2>5, <3>1, SMT
  <2>6. CASE t = "PostSync"
    <3>1. Rec(r, h, "PreSync") = Rec(s, h, "PreSync") /\ Rec(r, h, "Sync") = Rec(s, h, "Sync")
      BY <1>2, <2>6, Zenon DEF Stages
    <3> QED BY <1>1, <2>2, <2>3, <2>6, <3>1, SMT
  <2> QED BY <2>4, <2>5, <2>6, Zenon DEF Stages
<1> QED BY <1>4, <1>5, Zenon

\* A hook that is not recorded at its stage can still be run there.
LEMMA RecRoom ==
    ASSUME TypeOK, StagesInTurn(cur), NEW h \in Hooks, NEW t \in Stages, h \in Running(t),
           cur.hooks[<<h, t>>] = "none"
    PROVE  RecIn(cur, Obj(h, t)) + 1 <= AtMost(Obj(h, t))
<1> DEFINE f == [cur.hooks EXCEPT ![<<h, t>>] = "Running"]
           r == [hooks |-> f]
<1>1. cur.hooks \in [HookKeys -> Statuses \union {"none"}] /\ <<h, t>> \in HookKeys
  BY StateType, Zenon DEF TypeOK, HookKeys
<1>2. r.hooks = f
  BY SMT
<1>3. f[<<h, t>>] = "Running"
  BY <1>1, Zenon
<1>4. ASSUME NEW g \in Hooks, NEW u \in Stages, <<g, u>> # <<h, t>> PROVE f[<<g, u>>] = cur.hooks[<<g, u>>]
  <2>1. <<g, u>> \in HookKeys
    BY Zenon DEF HookKeys
  <2> QED BY <1>1, <1>4, <2>1, Zenon
<1> HIDE DEF r, f
<1>5. RecIn(r, Obj(h, t)) = RecIn(cur, Obj(h, t)) + 1
  <2>1. r.hooks[<<h, t>>] # "none"
    BY <1>2, <1>3, Zenon
  <2>2. \A g \in Hooks : \A u \in Stages :
              <<g, u>> # <<h, t>> => r.hooks[<<g, u>>] = cur.hooks[<<g, u>>]
    BY <1>2, <1>4, Zenon
  <2>3. Adds(r, cur, h, t)
    BY <2>1, <2>2, Zenon DEF Adds
  <2> QED BY <2>3, RecMore, Zenon
<1>6. ASSUME NEW g \in Hooks, NEW u \in Stages, r.hooks[<<g, u>>] # "none" PROVE g \in Running(u)
  <2>1. CASE g = h /\ u = t
    BY <2>1, Zenon
  <2>2. CASE ~(g = h /\ u = t)
    <3>1. <<g, u>> # <<h, t>>
      BY <2>2, Zenon
    <3>2. cur.hooks[<<g, u>>] # "none"
      BY <1>2, <1>4, <1>6, <3>1, Zenon
    <3> QED BY <3>2, Zenon DEF StagesInTurn
  <2> QED BY <2>1, <2>2, Zenon
<1>7. Obj(h, t) \in Objects /\ ManifestsTyped
  BY ObjType, TypeParts, Zenon
<1>8. RecIn(r, Obj(h, t)) <= AtMost(Obj(h, t))
  BY <1>6, <1>7, RecAtMost, Zenon
<1> QED BY <1>5, <1>8, Zenon
-----------------------------------------------------------------------------
\* The object o is recorded as running; and it has to be made anew.
RunningIn(s, o) == \E h \in Hooks : \E t \in Stages : s.hooks[<<h, t>>] = "Running" /\ Obj(h, t) = o
Anew(s, o) == obj[o] = "absent" /\ RunningIn(s, o)

\* How often an object was made: once for each stage it is recorded at, once
\* for each restart, and once more if it has to be made anew.
Counted(o, n) == created[o] <= crashes + n
CountIn(s) ==
    \A o \in Objects : /\ Counted(o, RecIn(s, o))
                       /\ Anew(s, o) => created[o] < crashes + RecIn(s, o)
CountInv ==
    /\ \A o \in Objects : Counted(o, AtMost(o))
    /\ ~Completed(cur.phase) => CountIn(cur)
    /\ ~Completed(saved.phase) =>
          \A o \in Objects : Counted(o, RecIn(saved, o) + One(o \in made))

\* The counts in the next state, for manifests that stay.
LEMMA CountNext ==
    ASSUME ManifestsKept
    PROVE  /\ \A o : RunningIn(cur, o)' <=> RunningIn(cur', o)
           /\ \A o : RunningIn(saved, o)' <=> RunningIn(saved', o)
           /\ \A o : RecIn(cur, o)' = RecIn(cur', o)
           /\ \A o : RecIn(saved, o)' = RecIn(saved', o)
           /\ \A o : AtMost(o)' = AtMost(o)
<1>1. \A h, t : Obj(h, t)' = Obj(h, t)
  BY RunningKept, Zenon
<1>2. /\ \A o : RunningIn(cur, o)' <=> RunningIn(cur', o)
      /\ \A o : RunningIn(saved, o)' <=> RunningIn(saved', o)
  BY <1>1, Zenon DEF RunningIn
<1>3. /\ \A o : RecIn(cur, o)' = RecIn(cur', o)
      /\ \A o : RecIn(saved, o)' = RecIn(saved', o)
  BY Zenon DEF RecIn, Rec
<1>4. \A o : AtMost(o)' = AtMost(o)
  BY Zenon DEF AtMost, ManifestsKept
<1> QED BY <1>2, <1>3, <1>4, Zenon

\* The counts depend on the statuses only.
LEMMA RunningSame ==
    ASSUME NEW r, NEW s, r.hooks = s.hooks
    PROVE  \A o \in Objects : (RunningIn(r, o) <=> RunningIn(s, o)) /\ RecIn(r, o) = RecIn(s, o)
BY RecSame, Zenon DEF RunningIn

\* The stage at which an object runs is the pass's.
LEMMA RunsAlone ==
    ASSUME TypeOK, StagesInTurn(cur), Gone, pc = "hooks", next \in Running(stage), ~HookDone(next),
           NEW h \in Hooks, NEW t \in Stages, cur.hooks[<<h, t>>] = "Running",
           Obj(h, t) = Obj(next, stage)
    PROVE  h = next /\ t = stage
<1>1. next \in Hooks /\ stage \in Stages
  BY Zenon DEF Running, TypeOK
<1>2. h = next /\ (hook[h].generated => t = stage)
  BY <1>1, SMT DEF Obj
<1>3. h \in Running(t) /\ ~StageDone(cur, t) /\ ~StageDone(cur, stage)
  BY Zenon DEF StagesInTurn, StageDone, HookDone, Completed
<1>4. /\ stage \in {"Sync", "PostSync"} => t # "PreSync"
      /\ stage = "PostSync" => t # "Sync"
  BY <1>3, Zenon DEF Gone
<1>5. /\ t \in {"Sync", "PostSync"} => stage # "PreSync"
      /\ t = "PostSync" => stage # "Sync"
  BY <1>3, Zenon DEF StagesInTurn
<1> QED BY <1>1, <1>2, <1>4, <1>5, Zenon DEF Stages

\* A status is recorded: its object is counted, and does not have to be made anew.
LEMMA RecordsCount ==
    ASSUME TypeOK, StagesInTurn(cur), Gone, CountIn(cur), RunsHook, NEW st \in Statuses,
           Records(Obj(next, stage), st)
    PROVE  CountIn(cur)'
<1> DEFINE o == Obj(next, stage)
<1>1. /\ pc = "hooks" /\ next \in Hooks /\ stage \in Stages /\ o \in Objects /\ o[1] = next
      /\ crashes' = crashes /\ ManifestsKept /\ next \in Running(stage) /\ ~HookDone(next)
  BY ObjType, Zenon DEF RunsHook, TypeOK, Records
<1>2. crashes \in Nat /\ created \in [Objects -> Nat] /\ created' \in [Objects -> Nat]
  BY ConstantsAssumption, SMT DEF TypeOK, RunsHook, ObjectsTyped
<1>3. /\ cur'.hooks[<<next, stage>>] = st
      /\ \A g \in Hooks : \A u \in Stages :
            <<g, u>> # <<next, stage>> => cur'.hooks[<<g, u>>] = cur.hooks[<<g, u>>]
  BY Zenon DEF Records
<1>4. \A h \in Hooks : \A t \in Stages : cur.hooks[<<h, t>>] # "none" => cur'.hooks[<<h, t>>] # "none"
  BY <1>3, Zenon DEF Statuses
<1>5. \A p \in Objects : RecIn(cur, p) <= RecIn(cur', p) /\ RecIn(cur, p) \in Nat /\ RecIn(cur', p) \in Nat
  BY <1>4, RecGrows, RecType, Zenon
<1>6. ASSUME NEW p \in Objects, p # o, RunningIn(cur', p) PROVE RunningIn(cur, p)
  <2>1. PICK h \in Hooks, t \in Stages : cur'.hooks[<<h, t>>] = "Running" /\ Obj(h, t) = p
    BY <1>6, Zenon DEF RunningIn
  <2>2. <<h, t>> # <<next, stage>>
    BY <1>6, <2>1, Zenon
  <2> QED BY <1>3, <2>1, <2>2, Zenon DEF RunningIn
<1>7. ~(obj'[o] = "absent" /\ RunningIn(cur', o))
  <2> SUFFICES ASSUME obj'[o] = "absent", RunningIn(cur', o) PROVE FALSE
    OBVIOUS
  <2>1. PICK h \in Hooks, t \in Stages : cur'.hooks[<<h, t>>] = "Running" /\ Obj(h, t) = o
    BY Zenon DEF RunningIn
  <2>2. CASE h = next /\ t = stage
    <3>1. st = "Running"
      BY <1>3, <2>1, <2>2, Zenon
    <3>2. Live(o) = "absent"
      BY <3>1, Zenon DEF Records
    <3> QED BY <3>2, Zenon DEF Live
  <2>3. CASE ~(h = next /\ t = stage)
    <3>1. <<h, t>> # <<next, stage>>
      BY <2>3, Zenon
    <3>2. cur.hooks[<<h, t>>] = "Running"
      BY <1>3, <2>1, <3>1, Zenon
    <3> QED BY <1>1, <2>1, <2>3, <3>2, RunsAlone, Zenon
  <2> QED BY <2>2, <2>3, Zenon
<1> HIDE DEF o
<1>8. created'[o] <= crashes + RecIn(cur', o)
  <2>1. created[o] <= crashes + RecIn(cur, o) /\ (Anew(cur, o) => created[o] < crashes + RecIn(cur, o))
    BY <1>1, Zenon DEF CountIn, Counted
  <2>2. created'[o] = created[o] \/ (created'[o] = created[o] + 1 /\ obj[o] = "absent")
    BY Zenon DEF Records, Makes, o
  <2>3. created[o] \in Nat /\ RecIn(cur, o) <= RecIn(cur', o) /\ RecIn(cur, o) \in Nat /\ RecIn(cur', o) \in Nat
    BY <1>1, <1>2, <1>5, Zenon
  <2>4. CASE cur.hooks[<<next, stage>>] = "none"
    <3>1. Adds(cur', cur, next, stage)
      BY <1>3, <2>4, Zenon DEF Adds, Statuses
    <3>2. RecIn(cur', o) = RecIn(cur, o) + 1
      BY <1>1, <3>1, RecMore, Zenon DEF o
    <3> QED BY <1>2, <2>1, <2>2, <2>3, <3>2, SMT
  <2>5. CASE cur.hooks[<<next, stage>>] # "none"
    <3>1. cur.hooks \in [HookKeys -> Statuses \union {"none"}] /\ <<next, stage>> \in HookKeys
      BY <1>1, StateType, Zenon DEF TypeOK, HookKeys
    <3>2. cur.hooks[<<next, stage>>] = "Running"
      BY <1>1, <2>5, <3>1, Zenon DEF HookDone, Completed, Statuses
    <3>3. RunningIn(cur, o)
      BY <1>1, <3>2, Zenon DEF RunningIn, o
    <3>4. obj[o] = "absent" => created[o] < crashes + RecIn(cur, o)
      BY <2>1, <3>3, Zenon DEF Anew
    <3> QED BY <1>2, <2>1, <2>2, <2>3, <3>4, SMT
  <2> QED BY <2>4, <2>5, Zenon
<1>9. ASSUME NEW p \in Objects, p # o
      PROVE  /\ created'[p] <= crashes + RecIn(cur', p)
             /\ obj'[p] = "absent" /\ RunningIn(cur', p) => created'[p] < crashes + RecIn(cur', p)
  <2>1. created'[p] = created[p] /\ obj'[p] = obj[p]
    BY <1>9, Zenon DEF Records, Makes, OthersKept, o
  <2>2. created[p] <= crashes + RecIn(cur, p) /\ (Anew(cur, p) => created[p] < crashes + RecIn(cur, p))
    BY Zenon DEF CountIn, Counted
  <2>3. obj'[p] = "absent" /\ RunningIn(cur', p) => Anew(cur, p)
    BY <1>6, <1>9, <2>1, Zenon DEF Anew
  <2>4. created[p] \in Nat /\ RecIn(cur, p) <= RecIn(cur', p) /\ RecIn(cur, p) \in Nat /\ RecIn(cur', p) \in Nat
    BY <1>2, <1>5, Zenon
  <2>5. /\ created'[p] <= crashes + RecIn(cur', p)
        /\ Anew(cur, p) => created'[p] < crashes + RecIn(cur', p)
    BY <1>2, <2>1, <2>2, <2>4, SMT
  <2> QED BY <2>3, <2>5, Zenon
<1>10. /\ \A p : RunningIn(cur, p)' <=> RunningIn(cur', p)
       /\ \A p : RecIn(cur, p)' = RecIn(cur', p)
  BY <1>1, CountNext, Zenon
<1>11. ASSUME NEW p \in Objects
       PROVE  /\ created'[p] <= crashes' + RecIn(cur', p)
              /\ obj'[p] = "absent" /\ RunningIn(cur', p) => created'[p] < crashes' + RecIn(cur', p)
  BY <1>1, <1>7, <1>8, <1>9, Zenon
<1> QED BY <1>10, <1>11, Zenon DEF CountIn, Counted, Anew

\* A hook whose pass ends with an error was made at most as often as it may be.
LEMMA BreaksCount ==
    ASSUME TypeOK, StagesInTurn(cur), CountIn(cur), RunsHook, Breaks(Obj(next, stage)),
           \A o \in Objects : Counted(o, AtMost(o))
    PROVE  \A o \in Objects : created'[o] <= crashes + AtMost(o)
<1> DEFINE o == Obj(next, stage)
<1>1. /\ pc = "hooks" /\ next \in Hooks /\ stage \in Stages /\ o \in Objects
      /\ next \in Running(stage) /\ ~HookDone(next)
  BY ObjType, Zenon DEF RunsHook, TypeOK, Breaks
<1>2. crashes \in Nat /\ created \in [Objects -> Nat] /\ created' \in [Objects -> Nat]
  BY ConstantsAssumption, SMT DEF TypeOK, RunsHook, ObjectsTyped
<1>3. \A p \in Objects : created[p] <= crashes + AtMost(p)
  BY Zenon DEF Counted
<1>4. CASE created' = created
  BY <1>3, <1>4, Zenon
<1>5. CASE Makes(o) /\ created' # created
  <2>1. created'[o] = created[o] + 1 /\ obj[o] = "absent" /\ \A p \in Objects : p # o => created'[p] = created[p]
    BY <1>5, Zenon DEF Makes, OthersKept
  <2>2. created[o] <= crashes + RecIn(cur, o) /\ (Anew(cur, o) => created[o] < crashes + RecIn(cur, o))
    BY <1>1, Zenon DEF CountIn, Counted
  <2>3. created[o] \in Nat /\ RecIn(cur, o) \in Nat /\ AtMost(o) \in Nat /\ RecIn(cur, o) <= AtMost(o)
    BY <1>1, <1>2, RecType, RecAtMost, TypeParts, Zenon DEF StagesInTurn
  <2>4. CASE cur.hooks[<<next, stage>>] = "none"
    <3>1. RecIn(cur, o) + 1 <= AtMost(o)
      BY <1>1, <2>4, RecRoom, Zenon
    <3> HIDE DEF o
    <3>2. created'[o] <= crashes + AtMost(o)
      BY <1>2, <2>1, <2>2, <2>3, <3>1, SMT
    <3> QED BY <1>3, <2>1, <3>2, Zenon
  <2>5. CASE cur.hooks[<<next, stage>>] # "none"
    <3>1. cur.hooks \in [HookKeys -> Statuses \union {"none"}] /\ <<next, stage>> \in HookKeys
      BY <1>1, StateType, Zenon DEF TypeOK, HookKeys
    <3>2. cur.hooks[<<next, stage>>] = "Running"
      BY <1>1, <2>5, <3>1, Zenon DEF HookDone, Completed, Statuses
    <3>3. RunningIn(cur, o)
      BY <1>1, <3>2, Zenon DEF RunningIn
    <3>4. created[o] < crashes + RecIn(cur, o)
      BY <2>1, <2>2, <3>3, Zenon DEF Anew
    <3> HIDE DEF o
    <3>5. created'[o] <= crashes + AtMost(o)
      BY <1>2, <2>1, <2>3, <3>4, SMT
    <3> QED BY <1>3, <2>1, <3>5, Zenon
  <2> QED BY <2>4, <2>5, Zenon
<1> QED BY <1>4, <1>5, Zenon DEF Breaks, HooksKept

\* Every step keeps the counts.
LEMMA CountStep ==
    ASSUME TypeOK, Path, Follows, InTurn, Gone, MadeInv, RunnableInv, IdleInv, CountInv, Steps
    PROVE  CountInv'
<1>1. ManifestsKept
  BY ManifestsStay, Zenon
<1>2. /\ \A o : RunningIn(cur, o)' <=> RunningIn(cur', o)
      /\ \A o : RecIn(cur, o)' = RecIn(cur', o)
      /\ \A o : RecIn(saved, o)' = RecIn(saved', o)
      /\ \A o : AtMost(o)' = AtMost(o)
  BY <1>1, CountNext, Zenon
<1>3. crashes \in Nat /\ \A o \in Objects : created[o] \in Nat
  BY ConstantsAssumption, SMT DEF TypeOK
<1>4. /\ \A o \in Objects : Counted(o, AtMost(o))
      /\ ~Completed(cur.phase) => CountIn(cur)
      /\ ~Completed(saved.phase) =>
            \A o \in Objects : Counted(o, RecIn(saved, o) + One(o \in made))
  BY Zenon DEF CountInv
<1>5. ASSUME created' = created, crashes' = crashes, made' = made,
             saved'.hooks = saved.hooks, ~Completed(saved'.phase) => ~Completed(saved.phase),
             Completed(cur'.phase) \/ CountIn(cur)'
      PROVE  CountInv'
  <2>1. \A o \in Objects : RecIn(saved', o) = RecIn(saved, o)
    BY <1>5, RunningSame, Zenon
  <2>2. \A o : One(o \in made)' = One(o \in made)
    BY <1>5, Zenon
  <2> QED BY <1>2, <1>4, <1>5, <2>1, <2>2, Zenon DEF CountInv, Counted
<1>6. ASSUME created' = created, crashes' = crashes, cur'.hooks = cur.hooks, CountIn(cur),
             \A o \in Objects : obj'[o] = "absent" => obj[o] = "absent"
      PROVE  CountIn(cur)'
  <2>1. \A o \in Objects : (RunningIn(cur', o) <=> RunningIn(cur, o)) /\ RecIn(cur', o) = RecIn(cur, o)
    BY <1>6, RunningSame, Zenon
  <2> QED BY <1>2, <1>6, <2>1, Zenon DEF CountIn, Counted, Anew
<1>7. ASSUME Advances, Completed(cur'.phase) \/ cur'.phase = cur.phase PROVE CountInv'
  <2>1. /\ created' = created /\ crashes' = crashes /\ made' = made /\ saved' = saved /\ obj' = obj
        /\ cur'.hooks = cur.hooks
    BY <1>7, Zenon DEF Advances, HooksKept, CopyKept
  <2> QED BY <1>4, <1>5, <1>6, <1>7, <2>1, Zenon
<1>8. Completed("Failed") /\ Completed("Error") /\ Completed("Succeeded")
  BY Zenon DEF Completed
<1>9. CASE DryRuns
  BY <1>7, <1>8, <1>9, Zenon DEF DryRuns
<1>10. CASE AppliesOrEnds
  BY <1>7, <1>8, <1>10, Zenon DEF AppliesOrEnds, Applies
<1>11. CASE Verifies \/ ChecksHealth
  BY <1>7, <1>8, <1>11, Zenon DEF Verifies, ChecksHealth
<1>12. CASE EndsLoop
  BY <1>7, <1>8, <1>12, Zenon DEF EndsLoop
<1>13. CASE SyncsNonHooks
  BY <1>7, <1>8, <1>13, Zenon DEF SyncsNonHooks
<1>14. CASE Begins
  <2>1. /\ created' = created /\ crashes' = crashes /\ made' = made /\ saved' = saved /\ obj' = obj
        /\ cur'.hooks = saved.hooks /\ pc = "idle" /\ ~Completed(saved.phase)
    BY <1>14, Zenon DEF Begins, ClusterKept, HooksKept
  <2>2. CountIn(cur)
    BY <1>4, <2>1, Zenon DEF IdleInv, Completed
  <2>3. \A h \in Hooks : \A t \in Stages : cur.hooks[<<h, t>>] = saved.hooks[<<h, t>>]
    BY <2>1, FollowsSame, Zenon
  <2>4. \A o \in Objects : (RunningIn(cur', o) <=> RunningIn(cur, o)) /\ RecIn(cur', o) = RecIn(cur, o)
    <3>1. \A h \in Hooks : \A t \in Stages : cur'.hooks[<<h, t>>] = cur.hooks[<<h, t>>]
      BY <2>1, <2>3, Zenon
    <3>2. \A h \in Hooks : \A t \in Stages : cur'.hooks[<<h, t>>] # "none" <=> cur.hooks[<<h, t>>] # "none"
      BY <3>1, Zenon
    <3> QED BY <3>1, <3>2, RecSame, Zenon DEF RunningIn
  <2>5. CountIn(cur)'
    BY <1>2, <2>1, <2>2, <2>4, Zenon DEF CountIn, Counted, Anew
  <2> QED BY <1>5, <2>1, <2>5, Zenon
<1>15. CASE Terminates
  <2>1. /\ created' = created /\ crashes' = crashes /\ made' = made /\ saved' = saved
        /\ Completed(cur'.phase)
    BY <1>8, <1>15, Zenon DEF Terminates
  <2> QED BY <1>5, <2>1, Zenon
<1>16. CASE IsTerminated \/ Stutters \/ \E o \in Objects : Finishes(o)
  <2>1. /\ created' = created /\ crashes' = crashes /\ made' = made /\ saved'.hooks = saved.hooks
        /\ cur' = cur
    BY <1>16, Zenon DEF IsTerminated, Stutters, Finishes, PassKept, ClusterKept, HooksKept
  <2>2. ~Completed(saved'.phase) => ~Completed(saved.phase)
    BY <1>16, Zenon DEF IsTerminated, Stutters, Finishes, Completed
  <2>3. \A o \in Objects : obj'[o] = "absent" => obj[o] = "absent"
    BY <1>16, Zenon DEF IsTerminated, Stutters, Finishes, ClusterKept, HooksKept
  <2> QED BY <1>4, <1>5, <1>6, <2>1, <2>2, <2>3, Zenon
<1>17. CASE Stores
  <2>1. /\ created' = created /\ crashes' = crashes /\ made' = {} /\ cur' = saved' /\ obj' = obj
        /\ saved'.hooks = cur.hooks /\ cur'.hooks = cur.hooks
    BY <1>17, Zenon DEF Stores, Resets
  <2>2. ~Completed(saved'.phase) => ~Completed(cur.phase)
    BY <1>8, <1>17, Zenon DEF Stores, Completed
  <2>3. \A o \in Objects : RecIn(saved', o) = RecIn(cur, o)
    BY <2>1, RunningSame, Zenon
  <2>4. \A o : One(o \in made)' = 0
    BY <2>1, Zenon DEF One
  <2>5. ~Completed(saved'.phase) => CountIn(cur)' /\ CountIn(cur)
    BY <1>4, <1>6, <2>1, <2>2, Zenon
  <2>6. \A o \in Objects : RecIn(cur, o) + 0 = RecIn(cur, o)
    BY RecType, SMT
  <2> QED BY <1>2, <1>4, <2>1, <2>3, <2>4, <2>5, <2>6, Zenon DEF CountInv, CountIn, Counted
<1>18. CASE Restarts
  <2>1. /\ created' = created /\ crashes' = crashes + 1 /\ made' = {} /\ saved' = saved /\ cur' = saved
        /\ obj' = obj /\ ~Completed(saved.phase)
    BY <1>18, Zenon DEF Restarts, Resets, Path
  <2>2. \A o : One(o \in made)' = 0
    BY <2>1, Zenon DEF One
  <2>3. ASSUME NEW o \in Objects
        PROVE  /\ created[o] <= crashes' + AtMost(o)
               /\ created[o] <= crashes' + RecIn(saved, o)
               /\ created[o] <= crashes' + (RecIn(saved, o) + 0)
               /\ obj[o] = "absent" /\ RunningIn(saved, o) => created[o] < crashes' + RecIn(saved, o)
    <3>1. /\ created[o] <= crashes + AtMost(o)
          /\ created[o] <= crashes + (RecIn(saved, o) + One(o \in made))
      BY <1>4, <2>1, Zenon DEF Counted
    <3>2. RecIn(saved, o) \in Nat /\ created[o] \in Nat
      BY <1>3, RecType, Zenon
    <3>8. One(o \in made) \in 0 .. 1 /\ (o \notin made => One(o \in made) = 0)
      BY SMT DEF One
    <3>3. AtMost(o) \in Nat
      BY RecAtMost, TypeParts, Zenon DEF InTurn, StagesInTurn
    <3>4. obj[o] = "absent" /\ RunningIn(saved, o) => o \notin made
      <4>1. ASSUME RunningIn(saved, o) PROVE hook[o[1]].runnable
        <5>1. PICK h \in Hooks, t \in Stages : saved.hooks[<<h, t>>] = "Running" /\ Obj(h, t) = o
          BY <4>1, Zenon DEF RunningIn
        <5>2. o[1] = h
          BY <5>1, ObjType, Zenon
        <5> QED BY <5>1, <5>2, Zenon DEF RunnableInv
      <4> QED BY <4>1, Zenon DEF MadeInv
    <3>5. crashes' = crashes + 1
      BY <2>1, Zenon
    <3>6. /\ created[o] <= crashes' + AtMost(o)
          /\ created[o] <= crashes' + RecIn(saved, o)
          /\ created[o] <= crashes' + (RecIn(saved, o) + 0)
      BY <1>3, <3>1, <3>2, <3>8, <3>3, <3>5, SMT
    <3>7. o \notin made => created[o] < crashes' + RecIn(saved, o)
      BY <1>3, <3>1, <3>2, <3>8, <3>5, SMT
    <3> QED BY <3>4, <3>6, <3>7, Zenon
  <2>4. CountIn(cur)'
    BY <1>2, <2>1, <2>3, Zenon DEF CountIn, Counted, Anew
  <2> QED BY <1>2, <2>1, <2>2, <2>3, <2>4, Zenon DEF CountInv, Counted
<1>19. CASE RunsHook
  <2> DEFINE o == Obj(next, stage)
  <2>8. /\ pc = "hooks" /\ next \in Hooks /\ stage \in Stages
        /\ crashes' = crashes /\ saved' = saved
    BY <1>19, Zenon DEF RunsHook, TypeOK
  <2>9. cur.phase = "Running"
    BY <2>8, Zenon DEF Path, Working
  <2>10. ~Completed(cur.phase)
    BY <2>9, Zenon DEF Completed
  <2>11. o \in Objects /\ o[1] = next
    BY <2>8, ObjType, Zenon
  <2>1. /\ pc = "hooks" /\ next \in Hooks /\ stage \in Stages /\ o \in Objects /\ o[1] = next
        /\ crashes' = crashes /\ saved' = saved /\ ~Completed(cur.phase)
    BY <2>8, <2>10, <2>11, Zenon
  <2>2. CountIn(cur) /\ StagesInTurn(cur)
    BY <1>4, <2>1, Zenon DEF InTurn
  <2>3. o \notin made
    <3>1. ~(next < next)
      BY <2>1, SMT DEF Hooks
    <3> QED BY <2>1, <3>1, Zenon DEF MadeInv
  <2>4. ASSUME Makes(o), ~Completed(saved.phase), NEW p \in Objects
        PROVE  created'[p] <= crashes + (RecIn(saved, p) + One(p \in made'))
    <3>1. created[p] <= crashes + (RecIn(saved, p) + One(p \in made))
      BY <1>4, <2>4, Zenon DEF Counted
    <3>2. RecIn(saved, p) \in Nat /\ created[p] \in Nat
      BY <1>3, RecType, Zenon
    <3> HIDE DEF o
    <3>3. CASE created'[p] = created[p] /\ (p \in made' <=> p \in made)
      BY <3>1, <3>3, Zenon DEF One
    <3>4. CASE p = o /\ created'[p] = created[p] + 1 /\ p \in made'
      <4>1. One(p \in made) = 0 /\ One(p \in made') = 1
        BY <2>3, <3>4, Zenon DEF One
      <4> QED BY <1>3, <3>1, <3>2, <3>4, <4>1, SMT
    <3>5. CASE p # o
      <4>1. created'[p] = created[p] /\ (p \in made' <=> p \in made)
        BY <2>4, <3>5, Zenon DEF Makes, OthersKept
      <4> QED BY <3>3, <4>1, Zenon
    <3>6. p = o => \/ created'[p] = created[p] /\ (p \in made' <=> p \in made)
                   \/ created'[p] = created[p] + 1 /\ p \in made'
      BY <2>4, Zenon DEF Makes
    <3> QED BY <3>3, <3>4, <3>5, <3>6, Zenon
  <2>5. CASE Passes \/ (Breaks(o) /\ HooksKept)
    <3>1. HooksKept /\ cur'.hooks = cur.hooks
      BY <2>5, Zenon DEF Passes, Breaks
    <3> QED BY <1>5, <1>6, <2>1, <2>2, <3>1, Zenon DEF HooksKept
  <2>6. CASE Breaks(o) /\ Makes(o)
    <3>1. \A p \in Objects : created'[p] <= crashes + AtMost(p)
      BY <1>4, <1>19, <2>2, <2>6, BreaksCount, Zenon
    <3>2. Completed(cur'.phase)
      BY <1>8, <2>6, Zenon DEF Breaks
    <3> HIDE DEF o
    <3>3. \A p : One(p \in made)' = One(p \in made')
      BY Zenon
    <3> QED BY <1>2, <2>1, <2>4, <2>6, <3>1, <3>2, <3>3, Zenon DEF CountInv, Counted
  <2>7. ASSUME NEW st \in Statuses, Records(o, st) PROVE CountInv'
    <3>1. CountIn(cur)'
      BY <1>19, <2>2, <2>7, RecordsCount, Zenon
    <3>2. Makes(o)
      BY <2>7, Zenon DEF Records
    <3>3. StagesInTurn(cur')
      BY <1>1, InTurnStep, InTurnNext, Zenon DEF InTurn
    <3>4. ASSUME NEW p \in Objects PROVE created'[p] <= crashes + AtMost(p)
      <4>1. created'[p] <= crashes + RecIn(cur', p)
        BY <1>2, <2>1, <3>1, Zenon DEF CountIn, Counted
      <4>2. AtMost(p) \in Nat /\ RecIn(cur', p) <= AtMost(p) /\ RecIn(cur', p) \in Nat
        BY <3>3, RecType, RecAtMost, TypeParts, Zenon DEF StagesInTurn
      <4>3. created'[p] \in Nat
        BY <1>19, Zenon DEF RunsHook, ObjectsTyped
      <4> QED BY <1>3, <4>1, <4>2, <4>3, SMT
    <3> HIDE DEF o
    <3>5. \A p : One(p \in made)' = One(p \in made')
      BY Zenon
    <3> QED BY <1>2, <2>1, <2>4, <3>1, <3>2, <3>4, <3>5, Zenon DEF CountInv, Counted
  <2> QED BY <1>19, <2>5, <2>6, <2>7, Zenon DEF RunsHook, Breaks
<1> QED BY <1>9, <1>10, <1>11, <1>12, <1>13, <1>14, <1>15, <1>16, <1>17, <1>18, <1>19, Zenon DEF Steps
-----------------------------------------------------------------------------
\* A running object that no lost pass and no earlier operation left is known
\* to the pass, and to the operation state unless this pass made it.
Tracked ==
    \A o \in Objects : obj[o] = "Running" =>
        /\ o \in orphans \/ o \in made \/ RunningIn(saved, o) \/ Completed(saved.phase)
        /\ o \in orphans \/ RunningIn(cur, o) \/ Completed(cur.phase)

Stopped(s) ==
    s.terminated => s.phase = "Failed" /\ \A o \in Objects : obj[o] = "Running" => o \in orphans
TermInv == Tracked /\ Stopped(saved) /\ Stopped(cur)

\* A running hook is recorded, or its object is in the cluster as before.
LEMMA RecordsTracked ==
    ASSUME TypeOK, ObjInv, RunsHook, NEW st \in Statuses, Records(Obj(next, stage), st),
           NEW p \in Objects, obj'[p] = "Running"
    PROVE  /\ p \in made' \/ obj[p] = "Running"
           /\ RunningIn(cur', p) \/ (obj[p] = "Running" /\ ~RunningIn(cur, p))
<1> DEFINE o == Obj(next, stage)
<1>1. next \in Hooks /\ stage \in Stages /\ o \in Objects /\ o[1] = next
  BY ObjType, Zenon DEF RunsHook, TypeOK
<1>2. CASE p = o
  <2>1. Makes(o) /\ cur'.hooks[<<next, stage>>] = st
    BY Zenon DEF Records
  <2>2. obj[o] = "Running" \/ o \in made'
    <3>1. obj[o] = "absent" => o \in made'
      BY <2>1, Zenon DEF Makes
    <3>2. hook[next].runnable => obj'[o] = Live(o)
      BY <1>2, Zenon DEF Records
    <3>3. ~hook[next].runnable /\ obj[o] # "absent" => obj'[o] # "Running"
      BY <1>1, Zenon DEF Records, ObjInv, Live
    <3> QED BY <1>1, <1>2, <3>1, <3>2, <3>3, Zenon DEF Live
  <2>3. st = "Running"
    BY <1>1, <1>2, Zenon DEF Records, Live, ObjInv
  <2> QED BY <1>1, <1>2, <2>1, <2>2, <2>3, Zenon DEF RunningIn
<1>3. CASE p # o
  <2>1. obj[p] = "Running"
    BY <1>3, Zenon DEF Records, Makes, OthersKept
  <2>2. ASSUME RunningIn(cur, p) PROVE RunningIn(cur', p)
    <3>1. PICK h \in Hooks, t \in Stages : cur.hooks[<<h, t>>] = "Running" /\ Obj(h, t) = p
      BY <2>2, Zenon DEF RunningIn
    <3>2. <<h, t>> # <<next, stage>>
      BY <1>3, <3>1, Zenon
    <3>3. cur'.hooks[<<h, t>>] = "Running"
      BY <3>1, <3>2, Zenon DEF Records
    <3> QED BY <3>1, <3>3, Zenon DEF RunningIn
  <2> QED BY <2>1, <2>2, Zenon
<1> QED BY <1>2, <1>3, Zenon

\* Every step keeps that running objects are known.
LEMMA TermStep ==
    ASSUME TypeOK, Path, ObjInv, MadeInv, RunnableInv, TermInv, Steps
    PROVE  TermInv'
<1>1. ManifestsKept
  BY ManifestsStay, Zenon
<1>2. /\ \A o : RunningIn(cur, o)' <=> RunningIn(cur', o)
      /\ \A o : RunningIn(saved, o)' <=> RunningIn(saved', o)
  BY <1>1, CountNext, Zenon
<1>3. /\ \A r, s : r.hooks = s.hooks => \A o \in Objects : RunningIn(r, o) <=> RunningIn(s, o)
  BY RunningSame, Zenon
<1>4. Tracked /\ Stopped(saved) /\ Stopped(cur)
  BY Zenon DEF TermInv
<1>5. ~Completed("Running") /\ ~Completed("Terminating") /\ \A p : p \in {"Failed", "Error"} => Completed(p)
  BY Zenon DEF Completed
<1>6. ASSUME \A o \in Objects : obj'[o] = "Running" => obj[o] = "Running",
             orphans' = orphans, made' = made,
             saved'.hooks = saved.hooks, Completed(saved.phase) => Completed(saved'.phase),
             saved'.terminated => saved.terminated /\ saved'.phase = saved.phase,
             cur'.hooks = cur.hooks, Completed(cur.phase) => Completed(cur'.phase),
             cur'.terminated => cur.terminated /\ cur'.phase = cur.phase
      PROVE  TermInv'
  <2>1. \A o \in Objects : /\ RunningIn(saved', o) <=> RunningIn(saved, o)
                           /\ RunningIn(cur', o) <=> RunningIn(cur, o)
    BY <1>3, <1>6, Zenon
  <2>2. Tracked'
    BY <1>2, <1>4, <1>6, <2>1, Zenon DEF Tracked
  <2>3. Stopped(saved)' /\ Stopped(cur)'
    BY <1>4, <1>6, Zenon DEF Stopped
  <2> QED BY <2>2, <2>3, Zenon DEF TermInv
<1>7. ASSUME Advances, pc \in Working PROVE TermInv'
  <2>1. cur.phase = "Running"
    BY <1>7, Zenon DEF Path
  <2>2. ~cur.terminated /\ ~Completed(cur.phase)
    BY <1>4, <1>5, <2>1, Zenon DEF Stopped
  <2>3. /\ obj' = obj /\ orphans' = orphans /\ made' = made /\ saved' = saved
        /\ cur'.hooks = cur.hooks /\ cur'.terminated = cur.terminated
    BY <1>7, Zenon DEF Advances, HooksKept, CopyKept
  <2> QED BY <1>6, <2>2, <2>3, Zenon
<1>8. CASE DryRuns \/ AppliesOrEnds \/ Verifies \/ EndsLoop
  BY <1>7, <1>8, Zenon DEF DryRuns, AppliesOrEnds, Verifies, EndsLoop, Working
<1>9. CASE SyncsNonHooks \/ ChecksHealth
  BY <1>7, <1>9, Zenon DEF SyncsNonHooks, ChecksHealth, Working
<1>10. CASE Begins
  <2>1. /\ obj' = obj /\ orphans' = orphans /\ made' = made /\ saved' = saved
        /\ cur'.hooks = saved.hooks /\ cur'.terminated = saved.terminated
        /\ pc = "idle" /\ ~Completed(saved.phase)
    BY <1>10, Zenon DEF Begins, ClusterKept, HooksKept
  <2>2. ~saved.terminated
    BY <1>4, <1>5, <2>1, Zenon DEF Stopped
  <2>3. made = {}
    BY <2>1, Zenon DEF MadeInv
  <2>4. \A o \in Objects : /\ RunningIn(cur', o) <=> RunningIn(saved, o)
                           /\ RunningIn(saved', o) <=> RunningIn(saved, o)
    BY <1>3, <2>1, Zenon
  <2>5. Tracked'
    BY <1>2, <1>4, <2>1, <2>3, <2>4, Zenon DEF Tracked
  <2> QED BY <2>1, <2>2, <2>5, Zenon DEF TermInv, Stopped
<1>11. CASE IsTerminated
  <2>1. /\ obj' = obj /\ orphans' = orphans /\ made' = made /\ cur' = cur
        /\ saved'.hooks = saved.hooks /\ saved'.terminated = saved.terminated /\ saved.phase = "Running"
    BY <1>11, Zenon DEF IsTerminated, PassKept, ClusterKept, HooksKept
  <2>2. ~saved.terminated
    BY <1>4, <2>1, Zenon DEF Stopped
  <2> QED BY <1>5, <1>6, <2>1, <2>2, Zenon
<1>12. CASE Stutters
  BY <1>6, <1>12, Zenon DEF Stutters, PassKept, ClusterKept, HooksKept
<1>13. ASSUME NEW o \in Objects, Finishes(o) PROVE TermInv'
  <2>1. /\ saved' = saved /\ cur' = cur /\ orphans' = orphans /\ made' = made
        /\ \A p \in Objects : obj'[p] = "Running" => obj[p] = "Running"
    BY <1>13, Zenon DEF Finishes, PassKept
  <2> QED BY <1>6, <2>1, Zenon
<1>14. CASE Terminates
  <2>1. /\ pc = "terminate" /\ orphans' = orphans /\ made' = made /\ saved' = saved
        /\ cur'.phase \in {"Failed", "Error"}
        /\ \A o \in Objects : obj'[o] = "Running" => obj[o] = "Running"
        /\ cur'.terminated => /\ cur'.phase = "Failed"
                              /\ \A k \in RunningHooks : obj'[Obj(k[1], k[2])] = "absent"
    BY <1>14, Zenon DEF Terminates
  <2>2. cur.phase = "Terminating"
    BY <2>1, Zenon DEF Path
  <2>3. Tracked'
    BY <1>2, <1>4, <1>5, <2>1, Zenon DEF Tracked
  <2>4. ASSUME cur'.terminated, NEW o \in Objects, obj'[o] = "Running" PROVE o \in orphans'
    <3>1. o \in orphans \/ RunningIn(cur, o)
      BY <1>4, <1>5, <2>1, <2>2, <2>4, Zenon DEF Tracked
    <3>2. ASSUME RunningIn(cur, o) PROVE FALSE
      <4>1. PICK h \in Hooks, t \in Stages : cur.hooks[<<h, t>>] = "Running" /\ Obj(h, t) = o
        BY <3>2, Zenon DEF RunningIn
      <4>2. hook[h].runnable
        BY <4>1, Zenon DEF RunnableInv
      <4>3. <<h, t>> \in HookKeys /\ <<h, t>>[1] = h /\ <<h, t>>[2] = t
        BY Zenon DEF HookKeys
      <4>4. <<h, t>> \in RunningHooks
        BY <4>1, <4>2, <4>3, Zenon DEF RunningHooks
      <4>5. obj'[o] = "absent"
        BY <2>1, <2>4, <4>1, <4>3, <4>4, Zenon
      <4> QED BY <2>4, <4>5, Zenon
    <3> QED BY <2>1, <3>1, <3>2, Zenon
  <2>5. Stopped(cur)' /\ Stopped(saved)'
    BY <1>4, <2>1, <2>4, Zenon DEF Stopped
  <2> QED BY <2>3, <2>5, Zenon DEF TermInv
<1>15. CASE Stores
  <2>1. /\ obj' = obj /\ orphans' = orphans /\ cur' = saved' /\ saved'.hooks = cur.hooks
        /\ saved'.terminated = cur.terminated
    BY <1>15, Zenon DEF Stores, Resets
  <2>2. /\ Completed(cur.phase) => Completed(saved'.phase)
        /\ cur.phase = "Failed" => saved'.phase = "Failed"
    BY <1>15, Zenon DEF Stores, Completed
  <2>3. \A o \in Objects : RunningIn(saved', o) <=> RunningIn(cur, o)
    BY <1>3, <2>1, Zenon
  <2>4. Tracked'
    BY <1>2, <1>4, <2>1, <2>2, <2>3, Zenon DEF Tracked
  <2> QED BY <1>4, <2>1, <2>2, <2>4, Zenon DEF TermInv, Stopped
<1>16. CASE Restarts
  <2>1. obj' = obj /\ orphans' = orphans \union made /\ cur' = saved /\ saved' = saved
    BY <1>16, Zenon DEF Restarts, Resets
  <2>2. Tracked'
    BY <1>2, <1>4, <2>1, Zenon DEF Tracked
  <2> QED BY <1>4, <2>1, <2>2, Zenon DEF TermInv, Stopped
<1>17. CASE RunsHook
  <2> DEFINE o == Obj(next, stage)
  <2>1. /\ pc = "hooks" /\ orphans' = orphans /\ saved' = saved /\ cur'.terminated = cur.terminated
    BY <1>17, Zenon DEF RunsHook
  <2>2. cur.phase = "Running" /\ ~Completed(saved.phase)
    BY <2>1, Zenon DEF Path, Working
  <2>3. ~cur.terminated /\ ~saved.terminated /\ ~Completed(cur.phase)
    BY <1>4, <1>5, <2>2, Zenon DEF Stopped
  <2>4. Stopped(cur)' /\ Stopped(saved)'
    BY <2>1, <2>3, Zenon DEF Stopped
  <2>5. CASE Passes \/ (Breaks(o) /\ HooksKept)
    <3>1. HooksKept /\ cur'.hooks = cur.hooks
      BY <2>5, Zenon DEF Passes, Breaks
    <3> QED BY <1>6, <2>1, <2>3, <3>1, Zenon DEF HooksKept
  <2>6. CASE Breaks(o) /\ Makes(o) /\ obj'[o] = Live(o)
    <3>1. cur'.phase = "Error"
      BY <2>6, Zenon DEF Breaks
    <3> HIDE DEF o
    <3>2. \A p \in Objects : obj'[p] = "Running" => p \in made' \/ (obj[p] = "Running" /\ (p \in made => p \in made'))
      BY <2>6, Zenon DEF Makes, OthersKept, Live
    <3>3. Tracked'
      BY <1>2, <1>4, <1>5, <2>1, <2>2, <3>1, <3>2, Zenon DEF Tracked
    <3> QED BY <2>4, <3>3, Zenon DEF TermInv
  <2>7. ASSUME NEW st \in Statuses, Records(o, st) PROVE TermInv'
    <3>1. \A p \in Objects : obj'[p] = "Running" =>
             /\ p \in made' \/ obj[p] = "Running"
             /\ RunningIn(cur', p) \/ (obj[p] = "Running" /\ ~RunningIn(cur, p))
      BY <1>17, <2>7, RecordsTracked, Zenon
    <3>2. \A p \in made : p \in made'
      BY <2>7, Zenon DEF Records, Makes
    <3> HIDE DEF o
    <3>3. Tracked'
      BY <1>2, <1>4, <2>1, <2>2, <2>3, <3>1, <3>2, Zenon DEF Tracked
    <3> QED BY <2>4, <3>3, Zenon DEF TermInv
  <2> QED BY <1>17, <2>5, <2>6, <2>7, Zenon DEF RunsHook, Breaks
<1> QED BY <1>8, <1>9, <1>10, <1>11, <1>12, <1>13, <1>14, <1>15, <1>16, <1>17, Zenon DEF Steps
=============================================================================
