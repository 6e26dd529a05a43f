-------------------------- MODULE AppRefreshProofs --------------------------
(***************************************************************************)
(* Proofs about AppRefresh, for any sources, overrides, commits and worlds *)
(* of events: its types, that a change of the live resources is noticed    *)
(* without waiting for expiry, and that the controller does not leave a    *)
(* state in which the status is right and nothing is to be synced.         *)
(***************************************************************************)
EXTENDS AppRefresh, TLAPS

(* The values.                                                             *)

\* The fields of an Application.
LEMMA Fields ==
  ASSUME NEW a \in Applications
  PROVE  /\ a.source \in Sources /\ a.auto \in BOOLEAN /\ a.op \in Operations \union {None}
         /\ a.synced \in Operations \union {None} /\ a.status \in Statuses
         /\ a.to \in Sources \union {None} /\ a.at \in Ages
BY Zenon DEF Applications

\* The parts of a source and of an operation.
LEMMA Parts ==
  /\ \A p, o : [path |-> p, overrides |-> o].overrides = o
  /\ \A c, o : /\ [commit |-> c, overrides |-> o].commit = c
             /\ [commit |-> c, overrides |-> o].overrides = o
  /\ \A p \in Paths, o \in Overrides \union {None} : [path |-> p, overrides |-> o] \in Sources
  /\ \A c \in Commits, o \in Overrides \union {None} :
       [commit |-> c, overrides |-> o] \in Operations
  /\ \A s \in Sources : s.path \in Paths /\ s.overrides \in Overrides \union {None}
  /\ \A x \in Operations : x.commit \in Commits /\ x.overrides \in Overrides \union {None}
BY Zenon DEF Sources, Operations

\* The patch of updateAppStatus changes the comparison alone.
LEMMA PatchedType ==
  ASSUME NEW a \in Applications, res \in Results, copy \in Applications
  PROVE  /\ Patched(a) \in Applications
         /\ Patched(a).source = a.source /\ Patched(a).auto = a.auto
         /\ Patched(a).op = a.op /\ Patched(a).synced = a.synced
         /\ Patched(a).status = IF res.status = copy.status THEN a.status ELSE res.status
BY ZenonT(30) DEF Applications, Results, Patched

\* A client changes the source or the policy.
LEMMA SpecType ==
  ASSUME NEW a \in Applications, NEW s \in Sources
  PROVE  [a EXCEPT !.source = s] \in Applications /\ [a EXCEPT !.auto = TRUE] \in Applications
BY Zenon DEF Applications

\* An operation is set, or ends.
LEMMA OpType ==
  ASSUME NEW a \in Applications, NEW c \in Operations \union {None},
         NEW d \in Operations \union {None}
  PROVE  [a EXCEPT !.op = c, !.synced = d] \in Applications
BY Zenon DEF Applications

\* What a comparison results in.
LEMMA ResultType ==
  ASSUME NEW status \in Statuses, NEW to \in Sources \union {None}, NEW at \in Ages,
         NEW sameTime \in BOOLEAN, NEW late \in BOOLEAN, NEW commit \in Commits \union {None}
  PROVE  /\ Result(status, to, at, sameTime, late, commit) \in Results
         /\ Result(status, to, at, sameTime, late, commit).commit = commit
         /\ Result(status, to, at, sameTime, late, commit).status = status
BY SMT DEF Result, Results

\* A request during the pass changes only what it says of the time.
LEMMA LateType ==
  ASSUME NEW r \in Results, NEW late \in BOOLEAN
  PROVE  /\ [r EXCEPT !.late = late] \in Results
         /\ [r EXCEPT !.late = late].commit = r.commit
BY SMT DEF Results

\* Time takes no Application away.
LEMMA AgedType ==
  ASSUME NEW a \in Applications \union {None}
  PROVE  /\ Aged(a) \in Applications \union {None}
         /\ Aged(a) = None <=> a = None
BY RefreshAssumption DEF Applications, Aged, Ages

\* It changes nothing but the age of the comparison.
LEMMA AgedSame ==
  ASSUME NEW a \in Applications \union {None}, a # None
  PROVE  /\ Aged(a).source = a.source /\ Aged(a).auto = a.auto
         /\ Aged(a).op = a.op /\ Aged(a).synced = a.synced
         /\ Aged(a).status = a.status
BY RefreshAssumption DEF Applications, Aged, Ages

\* The same of the result of a pass.
LEMMA AgedRes ==
  ASSUME NEW a \in Results \union {None}
  PROVE  /\ Aged(a) \in Results \union {None}
         /\ Aged(a) = None <=> a = None
         /\ a # None => Aged(a).status = a.status /\ Aged(a).commit = a.commit
BY RefreshAssumption DEF Results, Aged, Ages

\* An Application as it is created.
LEMMA NewType == NewSource \in Sources /\ NewApp \in Applications
<1>1. NewSource \in Sources
  <2>1. (CHOOSE p \in Paths : TRUE) \in Paths BY RefreshAssumption, Zenon
  <2> QED BY <2>1, Parts, Zenon DEF NewSource
<1>2. ("auto" \in world) \in BOOLEAN BY SMT
<1> QED BY <1>1, <1>2, Zenon DEF NewApp, Applications, Statuses, Ages

-----------------------------------------------------------------------------
(* Which actions change what.                                              *)

around == <<world, settled, git, cluster, live, unseen>>
stored == <<app, informer>>
flags == <<queued, forced, opDone, second, answered, waiting>>

AroundSteps ==
  \/ Settle \/ Drift \/ Push \/ ChangeCluster \/ processAppRefreshQueueItem
  \/ OperationApplies

StoredSteps ==
  \/ UpdateSpec \/ Recreate \/ Expire \/ Restart \/ Deliver \/ autoSync
  \/ updateAppStatus \/ OperationEnds \/ RefreshApp

WorkerSteps ==
  \/ Expire \/ Restart \/ processAppRefreshQueueItem \/ refreshAppConditions
  \/ CompareAppState \/ ComparePanics \/ autoSync \/ updateAppStatus
  \/ RefreshApp

WatchSteps ==
  \/ Drift \/ ChangeCluster \/ Restart \/ Deliver \/ OperationApplies
  \/ ClusterEvent \/ onAppModified \/ WatchClustersEnds \/ WatchResources
  \/ WatchBreaks \/ ResourceEvent \/ AddAfterEvent

FlagSteps ==
  \/ Recreate \/ NextSecond \/ Expire \/ Restart \/ Deliver \/ Resync
  \/ processAppRefreshQueueItem \/ updateAppStatus \/ OperationEnds
  \/ ForceAfterOperation \/ ResourceEvent \/ AddAfterEvent \/ RefreshApp
  \/ WaitForRefresh \/ WaitFails

\* Each action is among the steps of the variables it changes.
Touches ==
  /\ UNCHANGED around \/ AroundSteps
  /\ UNCHANGED stored \/ StoredSteps
  /\ UNCHANGED worker \/ WorkerSteps
  /\ UNCHANGED watches \/ WatchSteps
  /\ UNCHANGED flags \/ FlagSteps

\* No other variable changes.
LEMMA NextTouches ==
  ASSUME [Next]_vars
  PROVE  Touches
<1> USE DEF Touches, around, stored, flags, outside, worker, watches, requests
<1>1. CASE Settle
  BY <1>1, Zenon DEF Settle, AroundSteps
<1>2. CASE Drift
  BY <1>2, Zenon DEF Drift, LiveBecomes, AroundSteps, WatchSteps
<1>3. CASE Push
  BY <1>3, Zenon DEF Push, AroundSteps
<1>4. CASE UpdateSpec
  BY <1>4, Zenon DEF UpdateSpec, StoredSteps
<1>5. CASE Recreate
  BY <1>5, Zenon DEF Recreate, StoredSteps, FlagSteps
<1>6. CASE ChangeCluster
  BY <1>6, Zenon DEF ChangeCluster, AroundSteps, WatchSteps
<1>7. CASE Restart
  BY <1>7, Zenon DEF Restart, StoredSteps, WorkerSteps, WatchSteps, FlagSteps
<1>8. CASE WatchClustersEnds
  BY <1>8, Zenon DEF WatchClustersEnds, WatchSteps
<1>9. CASE WatchBreaks
  BY <1>9, Zenon DEF WatchBreaks, WatchSteps
<1>10. CASE RefreshApp
  BY <1>10, Zenon DEF RefreshApp, StoredSteps, WorkerSteps, FlagSteps
<1>11. CASE WaitFails
  BY <1>11, Zenon DEF WaitFails, FlagSteps
<1>12. CASE Deliver
  BY <1>12, Zenon DEF Deliver, StoredSteps, WatchSteps, FlagSteps
<1>13. CASE Resync
  BY <1>13, Zenon DEF Resync, FlagSteps
<1>14. CASE processAppRefreshQueueItem
  BY <1>14, Zenon DEF processAppRefreshQueueItem, AroundSteps, WorkerSteps,
       FlagSteps
<1>15. CASE refreshAppConditions
  BY <1>15, Zenon DEF refreshAppConditions, WorkerSteps
<1>16. CASE CompareAppState
  BY <1>16, Zenon DEF CompareAppState, WorkerSteps
<1>17. CASE ComparePanics
  BY <1>17, Zenon DEF ComparePanics, WorkerSteps
<1>18. CASE autoSync
  BY <1>18, Zenon DEF autoSync, StoredSteps, WorkerSteps
<1>19. CASE updateAppStatus
  BY <1>19, Zenon DEF updateAppStatus, WriteStatus, StoredSteps, WorkerSteps,
       FlagSteps
<1>20. CASE OperationApplies
  BY <1>20, Zenon DEF OperationApplies, LiveBecomes, AroundSteps, WatchSteps
<1>21. CASE OperationEnds
  BY <1>21, Zenon DEF OperationEnds, StoredSteps, FlagSteps
<1>22. CASE ForceAfterOperation
  BY <1>22, Zenon DEF ForceAfterOperation, FlagSteps
<1>23. CASE ClusterEvent
  BY <1>23, Zenon DEF ClusterEvent, WatchSteps
<1>24. CASE onAppModified
  BY <1>24, Zenon DEF onAppModified, WatchSteps
<1>25. CASE WatchResources
  BY <1>25, Zenon DEF WatchResources, WatchSteps
<1>26. CASE ResourceEvent
  BY <1>26, Zenon DEF ResourceEvent, WatchSteps, FlagSteps
<1>27. CASE AddAfterEvent
  BY <1>27, Zenon DEF AddAfterEvent, WatchSteps, FlagSteps
<1>28. CASE NextSecond
  BY <1>28, Zenon DEF NextSecond, FlagSteps
<1>29. CASE Expire
  BY <1>29, Zenon DEF Expire, StoredSteps, WorkerSteps, FlagSteps
<1>30. CASE WaitForRefresh
  BY <1>30, Zenon DEF WaitForRefresh, FlagSteps
<1>31. CASE UNCHANGED vars
  BY <1>31, Zenon DEF vars
<1> QED
  BY <1>1, <1>2, <1>3, <1>4, <1>5, <1>6, <1>7, <1>8, <1>9, <1>10, <1>11, <1>12,
       <1>13, <1>14, <1>15, <1>16, <1>17, <1>18, <1>19, <1>20, <1>21, <1>22,
       <1>23, <1>24, <1>25, <1>26, <1>27, <1>28, <1>29, <1>30, <1>31, Zenon DEF
       Next, Environment, Controller

-----------------------------------------------------------------------------
(* Types.                                                                  *)

AroundType ==
  /\ world \in Worlds /\ settled \in BOOLEAN /\ git \in Commits /\ cluster \in BOOLEAN
  /\ live \in {None, Edited} \union (Sources \X Commits)
  /\ unseen \in BOOLEAN

StoredType ==
  app \in Applications \union {None} /\ informer \in Applications \union {None}

WorkerType ==
  /\ copy \in Applications \union {None}
  /\ res \in Results \union {None}
  /\ pc \in {"idle", "compare", "sync", "patch"}
  /\ pc = "idle" <=> copy = None
  /\ pc \in {"sync", "patch"} <=> res # None
  /\ pc = "sync" => res.commit # None

WatchType ==
  /\ rw \in {"none", "off", "on", "silent"}
  /\ event \in BOOLEAN /\ adding \in BOOLEAN
  /\ clusterWatch \in BOOLEAN /\ clusterEvents \in Seq({"Added", "Deleted"})
  /\ appEvent \in BOOLEAN

FlagType ==
  /\ queued \in BOOLEAN /\ forced \in BOOLEAN /\ opDone \in BOOLEAN
  /\ second \in BOOLEAN /\ answered \in BOOLEAN /\ waiting \in BOOLEAN

\* The type, by the variables that change together.
LEMMA TypeParts ==
  TypeOK <=> AroundType /\ StoredType /\ WorkerType /\ WatchType /\ FlagType
BY SMT DEF TypeOK, AroundType, StoredType, WorkerType, WatchType, FlagType

\* The same after a step.
LEMMA TypePartsNext ==
  AroundType' /\ StoredType' /\ WorkerType' /\ WatchType' /\ FlagType' => TypeOK'
BY SMT DEF TypeOK, AroundType, StoredType, WorkerType, WatchType, FlagType

\* The controller starts with the types.
LEMMA InitType == Init => TypeOK
<1> SUFFICES ASSUME Init PROVE TypeOK OBVIOUS
<1>1. git \in Commits BY RefreshAssumption, Zenon DEF Init
<1>2. AroundType BY <1>1, Zenon DEF Init, AroundType
<1>3. StoredType BY NewType, Zenon DEF Init, StoredType
<1>4. WorkerType BY Zenon DEF Init, WorkerType
<1>5. WatchType
  <2>1. <<"Added">> \in Seq({"Added", "Deleted"}) /\ <<>> \in Seq({"Added", "Deleted"}) BY SMT
  <2> QED BY <2>1, Zenon DEF Init, WatchType
<1>6. FlagType BY Zenon DEF Init, FlagType
<1> QED BY <1>2, <1>3, <1>4, <1>5, <1>6, TypeParts, Zenon

\* What is around the controller keeps its type.
LEMMA AroundTypeKept ==
  ASSUME TypeOK, Touches
  PROVE  AroundType'
<1>1. AroundType /\ StoredType BY TypeParts, Zenon
<1>2. CASE UNCHANGED around BY <1>1, <1>2, Zenon DEF AroundType, Edited, around
<1>3. CASE Settle BY <1>1, <1>3, Zenon DEF AroundType, Edited, Settle
<1>4. CASE Drift
  <2>1. app \in Applications BY <1>1, <1>4, Zenon DEF StoredType, Drift
  <2>2. <<app.source, git>> \in Sources \X Commits
    BY <1>1, <2>1, Fields, Zenon DEF AroundType
  <2> QED
    BY <1>1, <1>4, <2>2, Zenon DEF AroundType, Edited, Drift, LiveBecomes, outside
<1>5. CASE Push BY <1>1, <1>5, Zenon DEF AroundType, Edited, Push
<1>6. CASE ChangeCluster
  BY <1>1, <1>6, Zenon DEF AroundType, Edited, ChangeCluster
<1>7. CASE processAppRefreshQueueItem
  BY <1>1, <1>7, Zenon DEF AroundType, Edited, processAppRefreshQueueItem, outside
<1>8. CASE OperationApplies
  <2>1. app \in Applications /\ app.op # None
    BY <1>1, <1>8, Zenon DEF StoredType, OperationApplies
  <2>2. <<Synced(app), app.op.commit>> \in Sources \X Commits
    <3>1. app.source \in Sources /\ app.op \in Operations BY <2>1, Fields, Zenon
    <3>2. Synced(app) \in Sources BY <3>1, Parts, Zenon DEF Synced
    <3> QED BY <3>1, <3>2, Parts, Zenon
  <2> QED
    BY <1>1, <1>8, <2>2, Zenon DEF AroundType, Edited, OperationApplies, LiveBecomes, outside
<1> QED
  BY <1>2, <1>3, <1>4, <1>5, <1>6, <1>7, <1>8, Zenon DEF Touches, AroundSteps

\* The stored Application and the informer's copy keep their type.
LEMMA StoredTypeKept ==
  ASSUME TypeOK, Touches
  PROVE  StoredType'
<1>1. StoredType /\ WorkerType /\ AroundType BY TypeParts, Zenon
<1>2. CASE UNCHANGED stored BY <1>1, <1>2, Zenon DEF StoredType, stored
<1>3. CASE UpdateSpec
  <2>1. app \in Applications BY <1>1, <1>3, Zenon DEF StoredType, UpdateSpec
  <2>2. /\ \A s \in Sources : [app EXCEPT !.source = s] \in Applications
        /\ [app EXCEPT !.auto = TRUE] \in Applications
    BY <2>1, SpecType, Fields, Zenon
  <2>3. /\ \A p \in Paths : [path |-> p, overrides |-> app.source.overrides] \in Sources
        /\ \A o \in Overrides : [path |-> app.source.path, overrides |-> o] \in Sources
    BY <2>1, Fields, Parts, Zenon
  <2> QED BY <1>1, <1>3, <2>2, <2>3, NewType, Zenon DEF StoredType, UpdateSpec
<1>4. CASE Recreate BY <1>1, <1>4, NewType, Zenon DEF StoredType, Recreate
<1>5. CASE Expire BY <1>1, <1>5, AgedType, Zenon DEF StoredType, Expire
<1>6. CASE Restart BY <1>1, <1>6, Zenon DEF StoredType, Restart
<1>7. CASE Deliver BY <1>1, <1>7, Zenon DEF StoredType, Deliver
<1>8. CASE autoSync
  <2>1. res \in Results /\ res.commit \in Commits
    BY <1>1, <1>8, SMT DEF WorkerType, autoSync, Results
  <2>2. [commit |-> res.commit, overrides |-> copy.source.overrides] \in Operations
    BY <1>1, <1>8, <2>1, Fields, Parts, Zenon DEF WorkerType, autoSync
  <2>3. CASE app' = app BY <1>1, <1>8, <2>3, Zenon DEF StoredType, autoSync
  <2>4. CASE app' # app
    <3>1. PICK o \in Operations : o = [commit |-> res.commit, overrides |-> copy.source.overrides]
      BY <2>2, Zenon
    <3>2. app \in Applications /\ app' = [app EXCEPT !.op = o, !.synced = None]
      BY <1>1, <1>8, <2>4, <3>1, Zenon DEF StoredType, autoSync
    <3>3. app' \in Applications BY <3>2, OpType, Zenon
    <3> QED BY <1>1, <1>8, <3>3, Zenon DEF StoredType, autoSync
  <2> QED BY <2>3, <2>4, Zenon
<1>9. CASE updateAppStatus
  <2>1. res \in Results /\ copy \in Applications
    BY <1>1, <1>9, Zenon DEF WorkerType, updateAppStatus, WriteStatus
  <2> QED
    BY <1>1, <1>9, <2>1, PatchedType, Zenon DEF StoredType, updateAppStatus, WriteStatus
<1>10. CASE OperationEnds
  <2>1. app \in Applications BY <1>1, <1>10, Zenon DEF StoredType, OperationEnds
  <2>2. \A c \in {app.op, None} : [app EXCEPT !.op = None, !.synced = c] \in Applications
    BY <2>1, Fields, OpType, Zenon
  <2>3. \E c \in {app.op, None} : app' = [app EXCEPT !.op = None, !.synced = c]
    BY <1>10, Zenon DEF OperationEnds
  <2> QED BY <1>1, <1>10, <2>2, <2>3, Zenon DEF StoredType, OperationEnds
<1>11. CASE RefreshApp
  <2>1. app \in Applications BY <1>1, <1>11, Zenon DEF StoredType, RefreshApp
  <2>2. [app EXCEPT !.at = "none"] \in Applications
    BY <2>1, SMT DEF Applications, Ages
  <2> QED BY <1>1, <1>11, <2>2, Zenon DEF StoredType, RefreshApp
<1> QED
  BY <1>2, <1>3, <1>4, <1>5, <1>6, <1>7, <1>8, <1>9, <1>10, <1>11, Zenon
       DEF Touches, StoredSteps

\* A pass gets a copy when it begins and a result when it has compared.
LEMMA WorkerTypeKept ==
  ASSUME TypeOK, Touches
  PROVE  WorkerType'
<1>1. StoredType /\ WorkerType /\ AroundType /\ FlagType BY TypeParts, Zenon
<1>2. CASE UNCHANGED worker BY <1>1, <1>2, Zenon DEF WorkerType, worker
<1>3. CASE Expire
  <2>1. /\ Aged(copy) \in Applications \union {None}
        /\ Aged(copy) = None <=> copy = None
        /\ Aged(res) \in Results \union {None}
        /\ Aged(res) = None <=> res = None
        /\ res # None => Aged(res).commit = res.commit
    BY <1>1, AgedType, AgedRes, Zenon DEF WorkerType
  <2> QED BY <1>1, <1>3, <2>1, Zenon DEF WorkerType, Expire
<1>4. CASE Restart BY <1>1, <1>4, Zenon DEF WorkerType, Restart
<1>5. CASE processAppRefreshQueueItem
  BY <1>1, <1>5, Zenon DEF WorkerType, StoredType, processAppRefreshQueueItem
<1>6. CASE refreshAppConditions
  <2>1. copy \in Applications BY <1>1, <1>6, Zenon DEF WorkerType, refreshAppConditions
  <2>2. res' \in Results
    BY <1>6, <2>1, Fields, ResultType, Zenon DEF refreshAppConditions, Statuses
  <2> QED
    BY <1>1, <1>6, <2>2, RefreshAssumption, Zenon DEF WorkerType, refreshAppConditions
<1>7. CASE CompareAppState
  <2>1. copy \in Applications BY <1>1, <1>7, Zenon DEF WorkerType, CompareAppState
  <2>2. PICK status \in {Truth(copy), "Unknown"}, sameTime \in BOOLEAN :
          res' = Result(status, copy.source, "recent", sameTime, ~second, git)
    BY <1>7, Zenon DEF CompareAppState
  <2>3. status \in Statuses BY <2>2, Zenon DEF Truth, Compared, Statuses
  <2>4. git \in Commits /\ git # None
    BY <1>1, RefreshAssumption, Zenon DEF AroundType
  <2>5. res' \in Results /\ res'.commit = git
    <3>1. copy.source \in Sources \union {None} /\ "recent" \in Ages
      BY <2>1, Fields, Zenon DEF Ages
    <3>2. PICK late \in BOOLEAN : late = ~second BY Zenon
    <3>3. res' = Result(status, copy.source, "recent", sameTime, late, git)
      BY <2>2, <3>2, Zenon
    <3>4. git \in Commits \union {None} BY <2>4, Zenon
    <3>5. /\ Result(status, copy.source, "recent", sameTime, late, git) \in Results
          /\ Result(status, copy.source, "recent", sameTime, late, git).commit = git
      BY <2>2, <2>3, <3>1, <3>2, <3>4, SMT DEF Result, Results
    <3> QED BY <3>3, <3>5, Zenon
  <2>6. pc' \in {"sync", "patch"} BY <1>7, Zenon DEF CompareAppState
  <2> QED
    BY <1>1, <1>7, <2>1, <2>4, <2>5, <2>6, RefreshAssumption, Zenon
         DEF WorkerType, CompareAppState
<1>8. CASE ComparePanics BY <1>1, <1>8, Zenon DEF WorkerType, ComparePanics
<1>9. CASE autoSync BY <1>1, <1>9, Zenon DEF WorkerType, autoSync
<1>10. CASE updateAppStatus
  BY <1>1, <1>10, Zenon DEF WorkerType, updateAppStatus, WriteStatus
<1>11. CASE RefreshApp
  <2>1. CASE res = None BY <1>1, <1>11, <2>1, Zenon DEF WorkerType, RefreshApp
  <2>2. CASE res # None
    <3>1. PICK late \in BOOLEAN : res' = [res EXCEPT !.late = late]
      BY <1>11, <2>2, Zenon DEF RefreshApp
    <3>2. res' \in Results /\ res'.commit = res.commit
      BY <1>1, <2>2, <3>1, LateType, Zenon DEF WorkerType
    <3> QED
      BY <1>1, <1>11, <2>2, <3>2, RefreshAssumption, Zenon DEF WorkerType, RefreshApp
  <2> QED BY <2>1, <2>2, Zenon
<1> QED
  BY <1>2, <1>3, <1>4, <1>5, <1>6, <1>7, <1>8, <1>9, <1>10, <1>11, Zenon
       DEF Touches, WorkerSteps

\* The watches keep their type.
LEMMA WatchTypeKept ==
  ASSUME TypeOK, Touches
  PROVE  WatchType'
<1>1. WatchType /\ AroundType BY TypeParts, Zenon
<1>2. CASE UNCHANGED watches BY <1>1, <1>2, Zenon DEF WatchType, watches
<1>3. CASE Drift BY <1>1, <1>3, Zenon DEF WatchType, Drift, LiveBecomes
<1>4. CASE ChangeCluster
  <2>1. clusterEvents' \in Seq({"Added", "Deleted"})
    BY <1>1, <1>4, SMT DEF WatchType, ChangeCluster
  <2> QED BY <1>1, <1>4, <2>1, Zenon DEF WatchType, ChangeCluster
<1>5. CASE Restart
  <2>1. clusterEvents' \in {<<"Added">>, <<>>} BY <1>5, Zenon DEF Restart
  <2>2. <<"Added">> \in Seq({"Added", "Deleted"}) /\ <<>> \in Seq({"Added", "Deleted"}) BY SMT
  <2> QED BY <1>1, <1>5, <2>1, <2>2, Zenon DEF WatchType, Restart
<1>6. CASE Deliver BY <1>1, <1>6, Zenon DEF WatchType, Deliver
<1>7. CASE OperationApplies
  BY <1>1, <1>7, Zenon DEF WatchType, OperationApplies, LiveBecomes
<1>8. CASE ClusterEvent
  <2>1. clusterEvents' \in Seq({"Added", "Deleted"})
    BY <1>1, <1>8, SMT DEF WatchType, ClusterEvent
  <2> QED
    BY <1>1, <1>8, <2>1, Zenon DEF WatchType, ClusterEvent, clusterEventCallback
<1>9. CASE onAppModified
  BY <1>1, <1>9, Zenon DEF WatchType, onAppModified, clusterEventCallback
<1>10. CASE WatchClustersEnds
  <2>1. clusterEvents' \in Seq({"Added", "Deleted"}) BY <1>10, SMT DEF WatchClustersEnds
  <2> QED BY <1>1, <1>10, <2>1, Zenon DEF WatchType, WatchClustersEnds
<1>11. CASE WatchResources BY <1>1, <1>11, Zenon DEF WatchType, WatchResources
<1>12. CASE WatchBreaks BY <1>1, <1>12, Zenon DEF WatchType, WatchBreaks
<1>13. CASE ResourceEvent BY <1>1, <1>13, Zenon DEF WatchType, ResourceEvent
<1>14. CASE AddAfterEvent BY <1>1, <1>14, Zenon DEF WatchType, AddAfterEvent
<1> QED
  BY <1>2, <1>3, <1>4, <1>5, <1>6, <1>7, <1>8, <1>9, <1>10, <1>11, <1>12, <1>13, <1>14,
     Zenon DEF Touches, WatchSteps

\* The queue, the flag and the requests keep their type.
LEMMA FlagTypeKept ==
  ASSUME TypeOK, Touches
  PROVE  FlagType'
<1>1. FlagType /\ WorkerType BY TypeParts, Zenon
<1>2. CASE UNCHANGED flags BY <1>1, <1>2, Zenon DEF FlagType, flags
<1>3. CASE Recreate BY <1>1, <1>3, Zenon DEF FlagType, Recreate
<1>4. CASE NextSecond BY <1>1, <1>4, Zenon DEF FlagType, NextSecond
<1>5. CASE Expire BY <1>1, <1>5, Zenon DEF FlagType, Expire
<1>6. CASE Restart BY <1>1, <1>6, Zenon DEF FlagType, Restart, requests
<1>7. CASE Deliver
  BY <1>1, <1>7, Zenon DEF FlagType, Deliver, toggledAutomatedSync, requests
<1>8. CASE Resync BY <1>1, <1>8, Zenon DEF FlagType, Resync, requests
<1>9. CASE processAppRefreshQueueItem
  BY <1>1, <1>9, Zenon DEF FlagType, processAppRefreshQueueItem, requests
<1>10. CASE updateAppStatus
  <2>1. res.sameTime \in BOOLEAN /\ res.late \in BOOLEAN
    BY <1>1, <1>10, SMT DEF WorkerType, updateAppStatus, WriteStatus, Results
  <2> QED BY <1>1, <1>10, <2>1, Zenon DEF FlagType, updateAppStatus, WriteStatus
<1>11. CASE OperationEnds BY <1>1, <1>11, Zenon DEF FlagType, OperationEnds, requests
<1>12. CASE ForceAfterOperation
  BY <1>1, <1>12, Zenon DEF FlagType, ForceAfterOperation, requests
<1>13. CASE ResourceEvent BY <1>1, <1>13, Zenon DEF FlagType, ResourceEvent, requests
<1>14. CASE AddAfterEvent BY <1>1, <1>14, Zenon DEF FlagType, AddAfterEvent, requests
<1>15. CASE RefreshApp BY <1>1, <1>15, Zenon DEF FlagType, RefreshApp
<1>16. CASE WaitForRefresh BY <1>1, <1>16, Zenon DEF FlagType, WaitForRefresh
<1>17. CASE WaitFails BY <1>1, <1>17, Zenon DEF FlagType, WaitFails
<1> QED
  BY <1>2, <1>3, <1>4, <1>5, <1>6, <1>7, <1>8, <1>9, <1>10, <1>11, <1>12, <1>13, <1>14,
     <1>15, <1>16, <1>17, Zenon DEF Touches, FlagSteps

\* Every step keeps the types.
LEMMA NextType == TypeOK /\ [Next]_vars => TypeOK'
BY NextTouches, AroundTypeKept, StoredTypeKept, WorkerTypeKept, WatchTypeKept, FlagTypeKept,
   TypePartsNext, Zenon

\* The state keeps its type: a pass has a copy of an application until it ends, and
\* a result from its comparison on, also when the application goes meanwhile; and
\* SetAppOperation is called with a commit.
THEOREM RefreshTypeCorrect == Spec => []TypeOK
BY InitType, NextType, PTL DEF Spec

-----------------------------------------------------------------------------
(* A change of the live resources is noticed.                              *)

\* The last event of a cluster that WatchClusters has yet to deliver tells whether
\* it is registered.
EventsOK ==
  clusterWatch /\ clusterEvents # <<>> =>
    (clusterEvents[Len(clusterEvents)] = "Added" <=> cluster)

\* Resources of a registered cluster with an application are watched, or somebody
\* is yet to call clusterEventCallback.
WatchedOK ==
  clusterWatch /\ cluster /\ informer # None /\ rw = "none" =>
    appEvent \/ clusterEvents # <<>>

\* From a change of watched resources to the next pass there is an event to
\* deliver, or the flag is set and the key is queued or will be.
NoticedOK ==
  rw = "on" /\ unseen /\ live # None =>
    event \/ (forced /\ (adding \/ queued \/ informer = None))

WatchInv == EventsOK /\ WatchedOK /\ NoticedOK

\* At first WatchClusters has the registered cluster to tell, or has ended.
LEMMA InitWatch == Init => WatchInv
<1> SUFFICES ASSUME Init PROVE WatchInv OBVIOUS
<1>1. /\ ~clusterWatch \/ (clusterEvents = <<"Added">> /\ cluster /\ informer = None)
      /\ ~unseen
  BY Zenon DEF Init
<1>2. EventsOK BY <1>1, SMT DEF EventsOK
<1> QED BY <1>1, <1>2, Zenon DEF WatchInv, WatchedOK, NoticedOK

\* What the invariant speaks of stays as it is.
Unwatched ==
  /\ UNCHANGED <<cluster, live, unseen, queued, watches>>
  /\ forced => forced'
  /\ informer' = None <=> informer = None

\* ChangeCluster, ClusterEvent, WatchClustersEnds and Restart change the events.
LEMMA EventsKept ==
  ASSUME TypeOK, EventsOK, [Next]_vars
  PROVE  EventsOK'
<1>1. WatchType BY TypeParts, Zenon
<1>2. CASE ChangeCluster
  <2>1. /\ clusterEvents \in Seq({"Added", "Deleted"}) /\ cluster' = ~cluster
        /\ clusterEvents' = IF clusterWatch
                            THEN Append(clusterEvents, IF cluster THEN "Deleted" ELSE "Added")
                            ELSE clusterEvents
        /\ UNCHANGED clusterWatch
    BY <1>1, <1>2, Zenon DEF WatchType, ChangeCluster
  <2>2. clusterWatch =>
          clusterEvents'[Len(clusterEvents')] = IF cluster THEN "Deleted" ELSE "Added"
    BY <2>1, SMT
  <2> QED BY <2>1, <2>2, Zenon DEF EventsOK
<1>3. CASE ClusterEvent
  <2>1. /\ clusterEvents \in Seq({"Added", "Deleted"}) /\ clusterEvents # <<>>
        /\ clusterEvents' = Tail(clusterEvents)
        /\ UNCHANGED <<clusterWatch, cluster>>
    BY <1>1, <1>3, Zenon DEF WatchType, ClusterEvent, outside
  <2>2. clusterEvents' # <<>> =>
          clusterEvents'[Len(clusterEvents')] = clusterEvents[Len(clusterEvents)]
    BY <2>1, SMT
  <2> QED BY <2>1, <2>2, Zenon DEF EventsOK
<1>4. CASE WatchClustersEnds BY <1>4, Zenon DEF EventsOK, WatchClustersEnds
<1>5. CASE Restart
  <2>1. clusterEvents' = (IF cluster THEN <<"Added">> ELSE <<>>) /\ UNCHANGED cluster
    BY <1>5, Zenon DEF Restart, outside
  <2> QED BY <2>1, SMT DEF EventsOK
<1>6. CASE UNCHANGED <<clusterWatch, clusterEvents, cluster>>
  BY <1>6, Zenon DEF EventsOK
<1>7. \/ ChangeCluster \/ ClusterEvent \/ WatchClustersEnds \/ Restart
      \/ UNCHANGED <<clusterWatch, clusterEvents, cluster>>
  <2>1. CASE UNCHANGED around /\ UNCHANGED watches
    BY <2>1, Zenon DEF around, watches
  <2>2. CASE AroundSteps
    BY <2>2, Zenon DEF AroundSteps, Settle, Drift, Push, processAppRefreshQueueItem,
         OperationApplies, outside, watches
  <2>3. CASE WatchSteps
    BY <2>3, Zenon DEF WatchSteps, Drift, Deliver, OperationApplies, onAppModified,
         WatchResources, WatchBreaks, ResourceEvent, AddAfterEvent, outside
  <2> QED BY <2>1, <2>2, <2>3, NextTouches, Zenon DEF Touches
<1> QED BY <1>2, <1>3, <1>4, <1>5, <1>6, <1>7, Zenon

\* The other actions leave it alone.
LEMMA NextUnwatched ==
  ASSUME TypeOK, [Next]_vars
  PROVE  \/ Unwatched \/ Resync
         \/ Drift \/ OperationApplies \/ processAppRefreshQueueItem
         \/ WatchSteps
<1>1. CASE Expire
  <2>1. Aged(informer) = None <=> informer = None
    BY AgedType, TypeParts, Zenon DEF StoredType
  <2> QED BY <1>1, <2>1, Zenon DEF Expire, Unwatched, outside
<1>2. CASE Resync \/ processAppRefreshQueueItem \/ WatchSteps BY <1>2, Zenon
<1>3. CASE Settle \/ Push \/ UpdateSpec \/ Recreate \/ RefreshApp \/ WaitFails
  BY <1>3, Zenon DEF Settle, Push, UpdateSpec, Recreate, RefreshApp, WaitFails, Unwatched,
       outside
<1>4. CASE \/ refreshAppConditions \/ CompareAppState \/ ComparePanics \/ autoSync
          \/ updateAppStatus
  BY <1>4, Zenon DEF refreshAppConditions, CompareAppState, ComparePanics, autoSync,
       updateAppStatus, WriteStatus, Unwatched, outside
<1>5. CASE \/ OperationEnds \/ ForceAfterOperation \/ NextSecond \/ WaitForRefresh
          \/ UNCHANGED vars
  BY <1>5, Zenon DEF OperationEnds, ForceAfterOperation, NextSecond, WaitForRefresh, vars,
       Unwatched, outside
<1> QED
  BY <1>1, <1>2, <1>3, <1>4, <1>5, Zenon DEF Next, Environment, Controller, WatchSteps

\* A watch ends by a Deleted event, after which there is an event of a registered
\* cluster to come, or when the application is gone.
LEMMA WatchedKept ==
  ASSUME TypeOK, EventsOK, WatchedOK, [Next]_vars
  PROVE  WatchedOK'
<1>1. WatchType BY TypeParts, Zenon
<1>2. CASE ChangeCluster
  <2>1. clusterWatch => clusterEvents' # <<>>
    BY <1>1, <1>2, SMT DEF WatchType, ChangeCluster
  <2> QED BY <1>2, <2>1, Zenon DEF WatchedOK, ChangeCluster
<1>3. CASE Restart
  <2>1. cluster' => clusterEvents' # <<>>
    BY <1>3, SMT DEF Restart, outside
  <2> QED BY <2>1, Zenon DEF WatchedOK
<1>4. CASE Deliver BY <1>4, Zenon DEF WatchedOK, Deliver, outside
<1>5. CASE ClusterEvent
  <2>1. /\ clusterEvents \in Seq({"Added", "Deleted"}) /\ clusterEvents # <<>>
        /\ clusterEvents' = Tail(clusterEvents)
        /\ clusterEventCallback(Head(clusterEvents))
        /\ UNCHANGED <<clusterWatch, cluster, informer>>
    BY <1>1, <1>5, Zenon DEF WatchType, ClusterEvent, outside
  <2>2. CASE Head(clusterEvents) = "Deleted"
    <3>1. clusterWatch /\ cluster => Head(clusterEvents) # clusterEvents[Len(clusterEvents)]
      BY <2>1, <2>2, Zenon DEF EventsOK
    <3>2. Tail(clusterEvents) = <<>> => Head(clusterEvents) = clusterEvents[Len(clusterEvents)]
      <4>1. Len(Tail(clusterEvents)) = Len(clusterEvents) - 1 /\ Len(clusterEvents) \in Nat
        BY <2>1, SMT
      <4>2. Len(<<>>) = 0 BY SMT
      <4>3. Len(Tail(clusterEvents)) = 0 => Len(clusterEvents) = 1 BY <4>1, SMT
      <4>4. Len(clusterEvents) = 1 => Head(clusterEvents) = clusterEvents[Len(clusterEvents)]
        BY <2>1, SMT
      <4> QED BY <4>2, <4>3, <4>4, Zenon
    <3> QED BY <2>1, <3>1, <3>2, Zenon DEF WatchedOK
  <2>3. CASE Head(clusterEvents) # "Deleted"
    BY <2>1, <2>3, Zenon DEF WatchedOK, clusterEventCallback
  <2> QED BY <2>2, <2>3, Zenon
<1>6. CASE onAppModified
  BY <1>6, Zenon DEF WatchedOK, onAppModified, clusterEventCallback, outside
<1>7. CASE WatchClustersEnds BY <1>7, Zenon DEF WatchedOK, WatchClustersEnds
<1>8. CASE WatchResources BY <1>8, Zenon DEF WatchedOK, WatchResources, outside
<1>9. CASE WatchBreaks BY <1>9, Zenon DEF WatchedOK, WatchBreaks, outside
<1>10. CASE ResourceEvent \/ AddAfterEvent
  BY <1>10, Zenon DEF WatchedOK, ResourceEvent, AddAfterEvent, outside
<1>11. CASE Drift \/ OperationApplies
  BY <1>11, Zenon DEF WatchedOK, Drift, OperationApplies, outside
<1>12. CASE Resync \/ processAppRefreshQueueItem
  BY <1>12, Zenon DEF WatchedOK, Resync, processAppRefreshQueueItem, outside, watches
<1>13. CASE Unwatched BY <1>13, Zenon DEF WatchedOK, Unwatched, watches
<1> QED
  BY <1>2, <1>3, <1>4, <1>5, <1>6, <1>7, <1>8, <1>9, <1>10, <1>11, <1>12, <1>13,
     NextUnwatched, Zenon DEF WatchSteps

\* The flag is set before the key is queued, and taken only by a pass that begins.
LEMMA NoticedKept ==
  ASSUME TypeOK, NoticedOK, [Next]_vars
  PROVE  NoticedOK'
<1>1. WatchType BY TypeParts, Zenon
<1>2. CASE ChangeCluster
  BY <1>2, Zenon DEF NoticedOK, ChangeCluster
<1>3. CASE Restart BY <1>3, Zenon DEF NoticedOK, Restart
<1>4. CASE Deliver BY <1>4, Zenon DEF NoticedOK, Deliver
<1>5. CASE ClusterEvent \/ onAppModified
  BY <1>5, Zenon DEF NoticedOK, ClusterEvent, onAppModified, clusterEventCallback
<1>6. CASE WatchClustersEnds BY <1>6, Zenon DEF NoticedOK, WatchClustersEnds
<1>7. CASE WatchResources BY <1>7, Zenon DEF NoticedOK, WatchResources
<1>8. CASE WatchBreaks BY <1>1, <1>8, Zenon DEF NoticedOK, WatchBreaks
<1>9. CASE ResourceEvent \/ AddAfterEvent
  BY <1>9, Zenon DEF NoticedOK, ResourceEvent, AddAfterEvent
<1>10. CASE Drift \/ OperationApplies
  BY <1>10, Zenon DEF NoticedOK, Drift, OperationApplies, LiveBecomes
<1>11. CASE Resync BY <1>11, Zenon DEF NoticedOK, Resync, watches
<1>12. CASE processAppRefreshQueueItem
  BY <1>12, Zenon DEF NoticedOK, processAppRefreshQueueItem, needRefreshAppStatus, watches
<1>13. CASE Unwatched BY <1>13, Zenon DEF NoticedOK, Unwatched, watches
<1> QED
  BY <1>2, <1>3, <1>4, <1>5, <1>6, <1>7, <1>8, <1>9, <1>10, <1>11, <1>12, <1>13,
     NextUnwatched, Zenon DEF WatchSteps

\* Every step keeps the invariant.
LEMMA NextWatch == TypeOK /\ WatchInv /\ [Next]_vars => WatchInv'
BY EventsKept, WatchedKept, NoticedKept, Zenon DEF WatchInv

\* A change of the live resources is noticed without waiting for expiry, for any
\* number of broken watches, restarts, changes of clusters and passes: the flag of
\* watchClusterResources is not lost between its event and the pass, and every
\* registered cluster with an application gets its watch.
THEOREM DriftCorrect == Spec => []DriftNoticed
<1>1. TypeOK /\ WatchInv => DriftNoticed
  BY TypeParts, Zenon
     DEF WatchInv, WatchedOK, NoticedOK, DriftNoticed, Drained, WatchType
<1> QED BY InitType, InitWatch, NextType, NextWatch, <1>1, PTL DEF Spec

-----------------------------------------------------------------------------
(* The controller stays at rest.                                           *)

\* No step of the controller leaves a state of rest, and nothing else happens in one.
LEMMA RestStep ==
  ASSUME TypeOK, AtRest, [Next]_vars
  PROVE  AtRest'
<1> DEFINE Kept == UNCHANGED <<settled, git, cluster, live, app>>
<1>1. StoredType /\ WorkerType /\ AroundType BY TypeParts, Zenon
<1>2. ~Environment
  BY Zenon DEF AtRest, Environment, Happens, Settle, Drift, Push, UpdateSpec, Recreate,
       ChangeCluster, Restart, WatchClustersEnds, WatchBreaks, RefreshApp, WaitFails
<1>3. ~OperationApplies /\ ~OperationEnds /\ ~autoSync /\ ~ComparePanics
  BY Zenon DEF AtRest, OperationApplies, OperationEnds, autoSync, ComparePanics, Happens
<1> USE DEF SyncAttempted
<1>4. ASSUME Kept, UNCHANGED <<informer, worker>> PROVE AtRest'
  BY <1>4, Zenon DEF AtRest, UpToDate, Truth, Compared, worker
<1>5. CASE Deliver
  BY <1>5, Zenon DEF Deliver, AtRest, UpToDate, Truth, Compared, outside, worker
<1>6. CASE processAppRefreshQueueItem
  BY <1>6, Zenon
     DEF processAppRefreshQueueItem, AtRest, UpToDate, Truth, Compared, outside
<1>7. CASE refreshAppConditions
  <2>1. ~cluster BY <1>7, Zenon DEF refreshAppConditions, Happens, AtRest
  <2>2. copy \in Applications BY <1>1, <1>7, Zenon DEF WorkerType, refreshAppConditions
  <2>3. res'.status = "Unknown"
    BY <1>7, SMT DEF refreshAppConditions, Result
  <2>4. res'.status = app.status BY <2>1, <2>3, Zenon DEF AtRest, Truth
  <2> QED
    BY <1>7, <2>4, Zenon
       DEF refreshAppConditions, AtRest, UpToDate, Truth, Compared, outside
<1>8. CASE CompareAppState
  <2>1. UpToDate(copy) /\ Truth(copy) = Truth(app)
    BY <1>8, Zenon DEF CompareAppState, AtRest, UpToDate, Truth, Compared
  <2>2. PICK sameTime \in BOOLEAN :
          res' = Result(Truth(copy), copy.source, "recent", sameTime, ~second, git)
    BY <1>8, Zenon DEF CompareAppState, Happens, AtRest
  <2>3. res'.status = app.status BY <2>1, <2>2, SMT DEF Result, AtRest
  <2>4. pc' = "patch"
    <3>1. SyncAttempted => alreadyAttemptedSync(copy, git)
      <4>1. app \in Applications /\ app.source.overrides \in Overrides \union {None}
        BY <1>1, Fields, Parts, Zenon DEF StoredType, AtRest
      <4>2. PICK o \in Operations : o = [commit |-> git, overrides |-> app.source.overrides]
        BY <1>1, <4>1, Parts, Zenon DEF AroundType
      <4>3. o # None /\ o.commit = git /\ o.overrides = app.source.overrides
        BY <4>2, Parts, RefreshAssumption, Zenon
      <4> QED BY <2>1, <4>2, <4>3, Zenon DEF alreadyAttemptedSync, UpToDate
    <3>2. copy.auto /\ Truth(copy) = "OutOfSync" => SyncAttempted
      BY <2>1, Zenon DEF AtRest, UpToDate
    <3> QED BY <1>8, <3>1, <3>2, Zenon DEF CompareAppState, Happens, AtRest
  <2> QED
    BY <1>8, <2>3, <2>4, Zenon DEF CompareAppState, AtRest, UpToDate, Truth, Compared, outside
<1>9. CASE updateAppStatus
  <2>1. res \in Results /\ copy \in Applications /\ app \in Applications
    BY <1>1, <1>9, Zenon DEF WorkerType, StoredType, updateAppStatus, WriteStatus, AtRest
  <2>2. app' = Patched(app)
    BY <1>9, Zenon DEF updateAppStatus, WriteStatus, Happens, AtRest
  <2>3. /\ app' \in Applications
        /\ app'.source = app.source /\ app'.auto = app.auto
        /\ app'.op = app.op /\ app'.synced = app.synced
        /\ app'.status = IF res.status = copy.status THEN app.status ELSE res.status
    BY <2>1, <2>2, PatchedType, Zenon
  <2>4. app'.status = app.status
    BY <1>9, <2>3, Zenon DEF updateAppStatus, WriteStatus, AtRest
  <2> QED
    BY <1>9, <2>3, <2>4, RefreshAssumption, Zenon
       DEF updateAppStatus, WriteStatus, AtRest, UpToDate, Truth, Compared, outside
<1>10. CASE Expire
  <2>1. app \in Applications /\ informer \in Applications
    BY <1>1, Zenon DEF StoredType, AtRest, UpToDate
  <2>2. UpToDate(informer)' /\ app' # None /\ app'.op = None /\ app'.synced = app.synced
        /\ app'.status = app.status /\ app'.source = app.source /\ app'.auto = app.auto
    BY <1>10, <2>1, AgedSame, AgedType, Zenon DEF Expire, AtRest, UpToDate
  <2>3. pc = "compare" => UpToDate(copy)'
    BY <1>1, <1>10, <2>2, AgedSame, AgedType, Zenon DEF Expire, AtRest, UpToDate, WorkerType
  <2>4. pc = "patch" => res'.status \in {app'.status, copy'.status}
    BY <1>1, <1>10, <2>2, AgedSame, AgedRes, Zenon DEF Expire, AtRest, WorkerType
  <2> QED
    BY <1>10, <2>2, <2>3, <2>4, Zenon DEF Expire, AtRest, Truth, Compared, outside
<1>11. CASE Resync \/ ForceAfterOperation \/ ClusterEvent \/ onAppModified
  BY <1>4, <1>11, Zenon
     DEF Resync, ForceAfterOperation, ClusterEvent, onAppModified, outside
<1>12. CASE WatchResources \/ ResourceEvent \/ AddAfterEvent
  BY <1>4, <1>12, Zenon DEF WatchResources, ResourceEvent, AddAfterEvent, outside
<1>13. CASE NextSecond \/ WaitForRefresh \/ UNCHANGED vars
  BY <1>4, <1>13, Zenon DEF NextSecond, WaitForRefresh, vars, outside
<1> QED
  BY <1>2, <1>3, <1>5, <1>6, <1>7, <1>8, <1>9, <1>10, <1>11, <1>12, <1>13, Zenon
     DEF Next, Controller

\* What the controller does when nothing happens around it any more is stable: once
\* at rest it stays there, for any number of passes, expiries and deliveries.
\* StatusConverges and AutoSyncSettles need it to stay.
THEOREM RestCorrect == Spec => RestIsKept
<1>1. TypeOK /\ [Next]_vars => [AtRest => AtRest']_vars BY RestStep, Zenon
<1> QED BY RefreshTypeCorrect, <1>1, PTL DEF Spec, RestIsKept

=============================================================================
