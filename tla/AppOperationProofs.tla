------------------------- MODULE AppOperationProofs -------------------------
(***************************************************************************)
(* Proofs about AppOperation for every value of its constants: any number  *)
(* of operations, deletions and restarts.  Types, PendingNotCompleted and  *)
(* NoOrphanedResources hold whatever the worker's copy is worth and        *)
(* whichever replies are lost; the rest is proved for prompt workers.      *)
(***************************************************************************)
EXTENDS AppOperation, TLAPS

\* The head and the tail of a sequence.
LEMMA HeadAndTail ==
    ASSUME NEW S, NEW s \in Seq(S), s # <<>>
    PROVE  /\ Head(s) \in S
           /\ Tail(s) \in Seq(S) /\ Len(Tail(s)) = Len(s) - 1
           /\ \A i \in 1..Len(Tail(s)) : Tail(s)[i] = s[i + 1]
OBVIOUS

\* Nil is not the record a pointer field may hold.
LEMMA NilIsNoRecord ==
    Nil \notin Operation /\ Nil \notin OperationState /\ Nil \notin SyncResult
BY NilAssumption, Zenon

\* The trimmed history is again a history of at most MaxHistory entries.
LEMMA DeployedType ==
    ASSUME NEW h \in Histories, NEW id \in 1..MaxOps
    PROVE  Deployed(h, id) \in Histories
<1> DEFINE g == Append(h, id)
<1>1. h \in Seq(1..MaxOps) /\ Len(h) \in Nat /\ Len(h) <= MaxHistory
  BY DEF Histories
<1>2. g \in Seq(1..MaxOps) /\ Len(g) = Len(h) + 1
  BY <1>1
<1>3. CASE Len(g) > MaxHistory
  <2>1. Len(g) = MaxHistory + 1
    BY <1>1, <1>2, <1>3, BoundsAssumption
  <2> DEFINE k == SubSeq(g, 2, MaxHistory + 1)
  <2>2. k \in Seq(1..MaxOps) /\ Len(k) = MaxHistory
    BY <1>2, <2>1, BoundsAssumption
  <2>3. Deployed(h, id) = k
    BY <1>3, Zenon DEF Deployed
  <2> HIDE DEF k
  <2>4. k \in Histories
    BY <2>2, BoundsAssumption DEF Histories
  <2> QED
    BY <2>3, <2>4, Zenon
<1>4. CASE ~(Len(g) > MaxHistory)
  BY <1>1, <1>2, <1>4, BoundsAssumption DEF Deployed, Histories
<1> QED
  BY <1>3, <1>4, Zenon

\* Kubernetes stores an application or none.
LEMMA StoredType ==
    ASSUME NEW a \in Application
    PROVE  Stored(a) \in Application
<1>1. <<>> \in Histories
  BY BoundsAssumption DEF Histories
<1>2. Removed \in Application
  BY <1>1, Zenon DEF Removed, Application
<1> QED
  BY <1>2, Zenon DEF Stored

\* A write keeps the application and the watch well typed, and the watch
\* within its bound.
LEMMA WriteType ==
    ASSUME TypeOK, NEW a \in Application, Write(a)
    PROVE  /\ app' \in Application
           /\ watch' \in Seq(Application) /\ Len(watch') <= MaxLag
<1>1. Stored(a) \in Application
  BY StoredType, Zenon
<1>2. watch \in Seq(Application) /\ Len(watch) \in Nat /\ Len(watch) <= MaxLag
  BY DEF TypeOK
<1>3. CASE Len(watch) < MaxLag
  BY <1>1, <1>2, <1>3, BoundsAssumption DEF Write
<1>4. CASE ~(Len(watch) < MaxLag)
  <2>1. watch # <<>> /\ Len(watch) = MaxLag
    BY <1>2, <1>4, BoundsAssumption
  <2>2. Tail(watch) \in Seq(Application) /\ Len(Tail(watch)) = MaxLag - 1
    BY <1>2, <2>1, HeadAndTail, Zenon
  <2> QED
    BY <1>1, <1>4, <2>2, BoundsAssumption DEF Write
<1> QED
  BY <1>3, <1>4, Zenon

\* While it works on an operation the worker holds the operation's state.
StateHeld == pc \in {"init", "sync", "persist", "check", "set"} => state # Nil

\* The inductive form of TypeOK.
TypeInv == TypeOK /\ StateHeld

\* The patch of setOperationState stores an application.
LEMMA PatchType ==
    ASSUME TypeOK, state # Nil, PatchOperationState
    PROVE  /\ app' \in Application
           /\ watch' \in Seq(Application) /\ Len(watch') <= MaxLag
<1> DEFINE a == [app EXCEPT
                  !.os = MergePatch(app.os, state),
                  !.op = IF Completed(state.phase) THEN Nil ELSE app.op]
<1>1. state \in OperationState /\ app \in Application
  BY Zenon DEF TypeOK
<1>2. app.os \in OperationState \union {Nil} /\ app.op \in Operation \union {Nil}
  BY <1>1, Zenon DEF Application
<1>3. MergePatch(app.os, state) \in OperationState
  BY <1>1, <1>2, Zenon DEF MergePatch, OperationState
<1>4. a \in Application
  BY <1>1, <1>2, <1>3, Zenon DEF Application
<1>5. Write(a)
  BY Zenon DEF PatchOperationState
<1> HIDE DEF a
<1> QED
  BY <1>4, <1>5, WriteType, Zenon

\* The types hold at first.
LEMMA TypeInit == Init => TypeInv
<1> SUFFICES ASSUME Init PROVE TypeInv
  OBVIOUS
<1>1. <<>> \in Histories /\ <<>> \in Seq(Application) /\ Len(<<>>) = 0
  BY BoundsAssumption DEF Histories
<1>2. app \in Application
  BY <1>1, Zenon DEF Init, Removed, Application
<1>3. wapp \in [os : OperationState \union {Nil}, history : Histories]
  BY <1>1, Zenon DEF Init, Idle
<1>4. starts \in [1..MaxOps -> 0..2]
  BY DEF Init
<1>5. watch \in Seq(Application) /\ Len(watch) <= MaxLag
  BY <1>1, BoundsAssumption DEF Init
<1>6. informer \in Application
  BY <1>2, Zenon DEF Init
<1>7. dirty \in BOOLEAN /\ forced \in BOOLEAN /\ del \in [DeleteSteps -> Nat]
  BY DEF Init
<1>8. /\ pc = "idle" /\ state = Nil /\ call = Nil
      /\ live \in {"none", "present"}
      /\ requests = 0 /\ deletes = 0 /\ crashes = 0 /\ lost = 0
  BY Zenon DEF Init
<1> QED
  BY <1>2, <1>3, <1>4, <1>5, <1>6, <1>7, <1>8, BoundsAssumption
  DEF TypeInv, TypeOK, StateHeld

\* What the patch of Delete writes.
LEMMA PatchesFinalizer ==
    ASSUME DeletePatchFinalizer
    PROVE  /\ UNCHANGED <<informerVars, workerVars, live, call, requests, deletes>>
           /\ \/ UNCHANGED <<app, watch>>
              \/ app.exists /\ \E c \in BOOLEAN : Write([app EXCEPT !.finalizer = c])
<1>1. ASSUME NEW step PROVE (step = "set") \in BOOLEAN
  BY Zenon
<1> QED
  BY <1>1, Zenon DEF DeletePatchFinalizer

\* Delete moves its calls from step to step.
LEMMA DeleteType ==
    ASSUME del \in [DeleteSteps -> Nat], DeleteGet \/ DeletePatchFinalizer \/ Delete
    PROVE  del' \in [DeleteSteps -> Nat]
<1>1. ASSUME NEW x \in DeleteSteps PROVE [del EXCEPT ![x] = @ + 1] \in [DeleteSteps -> Nat]
  OBVIOUS
<1>2. ASSUME NEW x \in DeleteSteps, del[x] > 0
      PROVE  [del EXCEPT ![x] = @ - 1] \in [DeleteSteps -> Nat]
  BY <1>2
<1>3. ASSUME NEW x \in {"set", "unset"}, del[x] > 0
      PROVE  [del EXCEPT ![x] = @ - 1, !["delete"] = @ + 1] \in [DeleteSteps -> Nat]
  <2>1. x # "delete" /\ x \in DeleteSteps /\ "delete" \in DeleteSteps
    BY <1>3, Zenon DEF DeleteSteps
  <2> DEFINE d == [del EXCEPT ![x] = @ - 1, !["delete"] = @ + 1]
  <2>2. d = [y \in DeleteSteps |-> d[y]]
    OBVIOUS
  <2>3. ASSUME NEW y \in DeleteSteps PROVE d[y] \in Nat
    <3>1. CASE y = "delete"
      BY <2>1, <3>1
    <3>2. CASE y # "delete"
      BY <1>3, <2>1, <3>2
    <3> QED BY <3>1, <3>2, Zenon
  <2> HIDE DEF d
  <2>4. d \in [DeleteSteps -> Nat]
    BY <2>2, <2>3
  <2> QED BY <2>4 DEF d
<1>4. "set" \in DeleteSteps /\ "unset" \in DeleteSteps /\ "delete" \in DeleteSteps
  BY Zenon DEF DeleteSteps
<1>5. CASE DeleteGet
  <2>1. PICK cascade \in BOOLEAN :
           del' = [del EXCEPT ![IF app.finalizer = cascade THEN "delete"
                                ELSE IF cascade THEN "set" ELSE "unset"] = @ + 1]
    BY <1>5, Zenon DEF DeleteGet
  <2> DEFINE step == IF app.finalizer = cascade THEN "delete" ELSE IF cascade THEN "set" ELSE "unset"
  <2>2. step \in DeleteSteps
    BY <1>4, Zenon
  <2>3. del' = [del EXCEPT ![step] = @ + 1]
    BY <2>1, Zenon
  <2> HIDE DEF step
  <2> QED BY <1>1, <2>2, <2>3, Zenon
<1>6. CASE DeletePatchFinalizer
  BY <1>2, <1>3, <1>4, <1>6, Zenon DEF DeletePatchFinalizer
<1>7. CASE Delete
  BY <1>2, <1>4, <1>7, Zenon DEF Delete
<1> QED
  BY <1>5, <1>6, <1>7, Zenon

\* The handlers of the API server, the informer and the refresh worker.
LEMMA TypeApi ==
    ASSUME TypeInv,
           \/ Sync \/ Rollback \/ SetAppOperation \/ TerminateOperation
           \/ DeleteGet \/ DeletePatchFinalizer \/ Delete \/ UpdateOtherFields
    PROVE  TypeInv'
<1> USE DEF apiVars, informerVars, workerVars
<1>1. CASE Sync
  BY <1>1, BoundsAssumption DEF TypeInv, TypeOK, StateHeld, Sync, Operation
<1>2. CASE Rollback
  BY <1>2, BoundsAssumption DEF TypeInv, TypeOK, StateHeld, Rollback, Operation
<1>3. CASE SetAppOperation
  <2>1. CASE app.exists /\ app.op = Nil /\ Write([app EXCEPT !.op = call, !.os = Nil])
    <3>1. [app EXCEPT !.op = call, !.os = Nil] \in Application
      BY <1>3, Zenon DEF TypeInv, TypeOK, SetAppOperation, Application
    <3> QED
      BY <1>3, <2>1, <3>1, WriteType DEF TypeInv, TypeOK, StateHeld, SetAppOperation
  <2>2. CASE UNCHANGED <<app, watch>>
    BY <1>3, <2>2 DEF TypeInv, TypeOK, StateHeld, SetAppOperation
  <2> QED
    BY <1>3, <2>1, <2>2, Zenon DEF SetAppOperation
<1>4. CASE TerminateOperation
  <2>1. app.os \in OperationState /\ app \in Application
    BY <1>4, Zenon DEF TypeInv, TypeOK, TerminateOperation, Application
  <2>2. [app EXCEPT !.os.phase = "Terminating"] \in Application
    BY <2>1, Zenon DEF Application, OperationState, Phases
  <2> QED
    BY <1>4, <2>2, WriteType DEF TypeInv, TypeOK, StateHeld, TerminateOperation
<1>5. CASE DeletePatchFinalizer
  <2>1. ASSUME NEW c \in BOOLEAN PROVE [app EXCEPT !.finalizer = c] \in Application
    BY Zenon DEF TypeInv, TypeOK, Application
  <2>2. app' \in Application /\ watch' \in Seq(Application) /\ Len(watch') <= MaxLag
    BY <1>5, <2>1, PatchesFinalizer, WriteType, Zenon DEF TypeInv, TypeOK
  <2>3. del' \in [DeleteSteps -> Nat]
    BY <1>5, DeleteType, Zenon DEF TypeInv, TypeOK
  <2>4. UNCHANGED <<informer, dirty, forced, pc, wapp, state, crashes, lost,
                    starts, live, call, requests, deletes>>
    BY <1>5, PatchesFinalizer, Zenon
  <2> QED
    BY <2>2, <2>3, <2>4 DEF TypeInv, TypeOK, StateHeld
<1>6. CASE Delete
  <2>1. [app EXCEPT !.deleting = TRUE] \in Application
    BY Zenon DEF TypeInv, TypeOK, Application
  <2>2. app' \in Application /\ watch' \in Seq(Application) /\ Len(watch') <= MaxLag
    BY <1>6, <2>1, WriteType, Zenon DEF TypeInv, TypeOK, Delete
  <2>3. del' \in [DeleteSteps -> Nat]
    BY <1>6, DeleteType, Zenon DEF TypeInv, TypeOK
  <2>4. UNCHANGED <<informer, dirty, forced, pc, wapp, state, crashes, lost,
                    starts, live, call, requests, deletes>>
    BY <1>6, Zenon DEF Delete
  <2> QED
    BY <2>2, <2>3, <2>4 DEF TypeInv, TypeOK, StateHeld
<1>7. CASE UpdateOtherFields
  BY <1>7, WriteType DEF TypeInv, TypeOK, StateHeld, UpdateOtherFields
<1>8. CASE DeleteGet
  <2>1. deletes' \in 0..MaxDeletes
    <3>1. deletes < MaxDeletes /\ deletes' = deletes + 1
      BY <1>8, Zenon DEF DeleteGet
    <3>2. deletes \in 0..MaxDeletes
      BY Zenon DEF TypeInv, TypeOK
    <3> QED
      BY <3>1, <3>2, BoundsAssumption
  <2>2. del' \in [DeleteSteps -> Nat]
    BY <1>8, DeleteType, Zenon DEF TypeInv, TypeOK
  <2>3. UNCHANGED <<app, watch, informer, dirty, forced, pc, wapp, state, crashes, lost,
                    starts, live, call, requests>>
    BY <1>8, Zenon DEF DeleteGet
  <2> QED
    BY <2>1, <2>2, <2>3 DEF TypeInv, TypeOK, StateHeld
<1> QED
  BY <1>1, <1>2, <1>3, <1>4, <1>5, <1>6, <1>7, <1>8, Zenon

\* The steps of the informer and a restart keep the types.
LEMMA TypeInformer ==
    ASSUME TypeInv,
           DeliverEvent \/ Relist \/ Resync \/ autoSync \/ ResourcesGone \/ Restart
    PROVE  TypeInv'
<1> USE DEF apiVars, informerVars, workerVars
<1>0. <<>> \in Seq(Application) /\ Len(<<>>) = 0 /\ <<>> \in Histories
  BY BoundsAssumption DEF Histories
<1>1. CASE DeliverEvent
  <2>1. /\ Head(watch) \in Application
        /\ Tail(watch) \in Seq(Application) /\ Len(Tail(watch)) <= MaxLag
    BY <1>1, HeadAndTail, BoundsAssumption DEF TypeInv, TypeOK, DeliverEvent
  <2>2. dirty' \in BOOLEAN
    BY <1>1, Zenon DEF DeliverEvent
  <2> QED
    BY <1>1, <2>1, <2>2 DEF TypeInv, TypeOK, StateHeld, DeliverEvent
<1>2. CASE Relist
  <2>1. dirty' \in BOOLEAN
    BY <1>2, Zenon DEF Relist
  <2> QED
    BY <1>0, <1>2, <2>1, BoundsAssumption DEF TypeInv, TypeOK, StateHeld, Relist
<1>3. CASE Resync
  BY <1>3 DEF TypeInv, TypeOK, StateHeld, Resync
<1>4. CASE autoSync
  <2>1. call' \in Operation \union {Nil} /\ requests' \in 0..MaxOps
    <3>1. CASE UNCHANGED <<call, requests>>
      BY <3>1, Zenon DEF TypeInv, TypeOK
    <3>2. CASE /\ call = Nil /\ requests < MaxOps
               /\ informer.op = Nil
               /\ call' = [id |-> requests + 1, full |-> TRUE]
               /\ requests' = requests + 1
      <4>1. requests \in 0..MaxOps /\ TRUE \in BOOLEAN
        BY Zenon DEF TypeInv, TypeOK
      <4> QED
        BY <3>2, <4>1, BoundsAssumption DEF Operation
    <3> QED
      BY <1>4, <3>1, <3>2, Zenon DEF autoSync
  <2>2. forced' \in BOOLEAN
    BY <1>4, Zenon DEF autoSync
  <2> QED
    BY <1>4, <2>1, <2>2 DEF TypeInv, TypeOK, StateHeld, autoSync
<1>5. CASE ResourcesGone
  BY <1>5 DEF TypeInv, TypeOK, StateHeld, ResourcesGone
<1>6. CASE Restart
  <2>1. dirty' \in BOOLEAN
    BY <1>6, Zenon DEF Restart, TypeInv, TypeOK, Application
  <2>2. wapp' \in [os : OperationState \union {Nil}, history : Histories]
    BY <1>0, <1>6, Zenon DEF Restart, Done, Idle
  <2> QED
    <3>1. forced' \in BOOLEAN
      BY <1>6, Zenon DEF Restart
    <3> QED
      BY <1>0, <1>6, <2>1, <2>2, <3>1, BoundsAssumption
      DEF TypeInv, TypeOK, StateHeld, Restart, Done
<1> QED
  BY <1>1, <1>2, <1>3, <1>4, <1>5, <1>6, Zenon

\* The operation worker, up to the end of a pass of SyncAppState.
LEMMA TypeOperation ==
    ASSUME TypeInv,
           \/ processAppOperationQueueItem \/ ResumeOperation \/ LoseReply
           \/ InitializeOperation \/ SyncAppState
    PROVE  TypeInv'
<1> USE DEF apiVars, informerVars, workerVars
<1>0. Idle \in [os : OperationState \union {Nil}, history : Histories]
  BY BoundsAssumption DEF Histories, Idle
<1>1. CASE processAppOperationQueueItem
  <2>1. CASE /\ informer.exists /\ informer.op # Nil
             /\ isOperationInProgress(informer)
             /\ pc' = "resume"
             /\ UNCHANGED <<wapp, state>>
    BY <1>1, <2>1, Zenon DEF TypeInv, TypeOK, StateHeld, processAppOperationQueueItem
  <2>2. CASE /\ informer.exists /\ informer.op # Nil
             /\ ~isOperationInProgress(informer)
             /\ pc' = "init"
             /\ wapp' = Copy(informer)
             /\ state' = [phase |-> "Running", op |-> informer.op, res |-> Nil]
    <3>1. state' \in OperationState
      BY <2>2, Zenon DEF TypeInv, TypeOK, Application, OperationState, Phases
    <3>2. wapp' \in [os : OperationState \union {Nil}, history : Histories]
      BY <2>2, Zenon DEF TypeInv, TypeOK, Application, Copy
    <3> QED
      BY <1>1, <2>2, <3>1, <3>2, NilIsNoRecord, Zenon
      DEF TypeInv, TypeOK, StateHeld, processAppOperationQueueItem
  <2>3. CASE /\ informer.exists /\ informer.op = Nil
             /\ informer.deleting /\ informer.finalizer
             /\ pc' = "finalize"
             /\ UNCHANGED <<wapp, state>>
    BY <1>1, <2>3, Zenon DEF TypeInv, TypeOK, StateHeld, processAppOperationQueueItem
  <2>4. CASE Done
    BY <1>0, <1>1, <2>4, Zenon
    DEF TypeInv, TypeOK, StateHeld, processAppOperationQueueItem, Done
  <2> QED
    BY <1>1, <2>1, <2>2, <2>3, <2>4, Zenon DEF processAppOperationQueueItem
<1>2. CASE ResumeOperation
  <2>1. CASE /\ app.exists /\ isOperationInProgress(app)
             /\ wapp' = Copy(app)
             /\ state' = app.os
             /\ pc' = "sync"
    <3>1. state' \in OperationState
      BY <2>1, Zenon DEF TypeInv, TypeOK, Application, isOperationInProgress
    <3>2. wapp' \in [os : OperationState \union {Nil}, history : Histories]
      BY <2>1, Zenon DEF TypeInv, TypeOK, Application, Copy
    <3> QED
      BY <1>2, <2>1, <3>1, <3>2, NilIsNoRecord, Zenon
      DEF TypeInv, TypeOK, StateHeld, ResumeOperation
  <2>2. CASE Done
    BY <1>0, <1>2, <2>2, Zenon DEF TypeInv, TypeOK, StateHeld, ResumeOperation, Done
  <2> QED
    BY <1>2, <2>1, <2>2, Zenon DEF ResumeOperation
<1>3. CASE LoseReply
  <2>1. state # Nil
    BY <1>3, Zenon DEF TypeInv, StateHeld, LoseReply
  <2> QED
    BY <1>3, <2>1, PatchType, BoundsAssumption
    DEF TypeInv, TypeOK, StateHeld, LoseReply
<1>4. CASE InitializeOperation
  <2>1. state # Nil
    BY <1>4, Zenon DEF TypeInv, StateHeld, InitializeOperation
  <2>2. starts' \in [1..MaxOps -> 0..2]
    <3>1. starts \in [1..MaxOps -> 0..2] /\ 1 \in 0..2 /\ 2 \in 0..2
      BY DEF TypeInv, TypeOK
    <3>2. PICK i : starts' = [starts EXCEPT ![i] = IF @ = 0 THEN 1 ELSE 2]
      BY <1>4, Zenon DEF InitializeOperation
    <3> QED
      BY <3>1, <3>2, Zenon
  <2>3. app' \in Application /\ watch' \in Seq(Application) /\ Len(watch') <= MaxLag
    BY <1>4, <2>1, PatchType, Zenon DEF TypeInv, InitializeOperation
  <2>4. /\ pc' = "sync"
        /\ UNCHANGED <<informerVars, wapp, state, crashes, lost, live, apiVars>>
    BY <1>4, Zenon DEF InitializeOperation
  <2> QED
    BY <2>1, <2>2, <2>3, <2>4, Zenon DEF TypeInv, TypeOK, StateHeld
<1>5. CASE SyncAppState
  <2>1. state \in OperationState /\ state.op \in Operation
    BY <1>5, Zenon DEF TypeInv, TypeOK, StateHeld, SyncAppState, OperationState
  <2>2. SyncOutcomes(state) \subseteq OperationState
    BY <2>1, Zenon DEF SyncOutcomes, OperationState, Phases
  <2>3. state' \in OperationState
    BY <1>5, <2>2, Zenon DEF SyncAppState
  <2>4. pc' \in {"persist", "check", "set"} /\ live' \in {live, "present"}
    BY <1>5, Zenon DEF SyncAppState
  <2> QED
    BY <1>5, <2>3, <2>4, NilIsNoRecord, Zenon
    DEF TypeInv, TypeOK, StateHeld, SyncAppState
<1> QED
  BY <1>1, <1>2, <1>3, <1>4, <1>5, Zenon

\* The operation worker after a pass, and finalizeApplicationDeletion.
LEMMA TypeCompletion ==
    ASSUME TypeInv,
           \/ persistDeploymentInfo \/ CheckTerminating \/ SetOperationState
           \/ DeleteResourcesWithLabel \/ GetResourcesWithLabel \/ RemoveFinalizer
    PROVE  TypeInv'
<1> USE DEF apiVars, informerVars, workerVars
<1>0. Idle \in [os : OperationState \union {Nil}, history : Histories]
  BY BoundsAssumption DEF Histories, Idle
<1>f. ASSUME FailDeletion
      PROVE  /\ app' \in Application
             /\ watch' \in Seq(Application) /\ Len(watch') <= MaxLag
             /\ pc' = "idle" /\ wapp' = Idle /\ state' = Nil /\ live' = live
  BY <1>f, WriteType, Zenon DEF FailDeletion, Done, TypeInv, TypeOK
<1>1. CASE persistDeploymentInfo
  <2>1. /\ state \in OperationState /\ state.op.id \in 1..MaxOps
        /\ wapp.history \in Histories /\ app \in Application
    BY <1>1, Zenon
    DEF TypeInv, TypeOK, StateHeld, persistDeploymentInfo, OperationState, Operation
  <2>2. [app EXCEPT !.history = Deployed(wapp.history, state.op.id)] \in Application
    BY <2>1, DeployedType, Zenon DEF Application
  <2>3. state' \in OperationState
    BY <1>1, <2>1, Zenon DEF persistDeploymentInfo, OperationState, Phases
  <2>4. app' \in Application /\ watch' \in Seq(Application) /\ Len(watch') <= MaxLag
    BY <1>1, <2>2, WriteType, Zenon DEF TypeInv, TypeOK, persistDeploymentInfo
  <2> QED
    BY <1>1, <2>3, <2>4, NilIsNoRecord, Zenon
    DEF TypeInv, TypeOK, StateHeld, persistDeploymentInfo
<1>2. CASE CheckTerminating
  <2>1. state \in OperationState
    BY <1>2, Zenon DEF TypeInv, TypeOK, StateHeld, CheckTerminating
  <2>2. state' \in OperationState
    BY <1>2, <2>1, Zenon DEF CheckTerminating, OperationState, Phases
  <2> QED
    BY <1>2, <2>2, NilIsNoRecord, Zenon DEF TypeInv, TypeOK, StateHeld, CheckTerminating
<1>3. CASE SetOperationState
  <2>1. state # Nil
    BY <1>3, Zenon DEF TypeInv, StateHeld, SetOperationState
  <2>2. app' \in Application /\ watch' \in Seq(Application) /\ Len(watch') <= MaxLag
    BY <1>3, <2>1, PatchType, Zenon DEF TypeInv, TypeOK, SetOperationState
  <2>3. forced' \in BOOLEAN
    BY <1>3, Zenon DEF SetOperationState
  <2> QED
    BY <1>0, <1>3, <2>2, <2>3, Zenon DEF TypeInv, TypeOK, StateHeld, SetOperationState, Done
<1>4. CASE DeleteResourcesWithLabel
  <2>1. CASE FailDeletion
    BY <1>0, <1>4, <1>f, <2>1, Zenon
    DEF TypeInv, TypeOK, StateHeld, DeleteResourcesWithLabel
  <2>2. CASE ~FailDeletion
    BY <1>4, <2>2, Zenon DEF TypeInv, TypeOK, StateHeld, DeleteResourcesWithLabel
  <2> QED
    BY <2>1, <2>2, Zenon
<1>5. CASE GetResourcesWithLabel
  <2>1. CASE FailDeletion
    BY <1>0, <1>5, <1>f, <2>1, Zenon DEF TypeInv, TypeOK, StateHeld, GetResourcesWithLabel
  <2>2. CASE ~FailDeletion
    BY <1>0, <1>5, <2>2, Zenon
    DEF TypeInv, TypeOK, StateHeld, GetResourcesWithLabel, Done
  <2> QED
    BY <2>1, <2>2
<1>6. CASE RemoveFinalizer
  <2>1. CASE FailDeletion
    BY <1>0, <1>6, <1>f, <2>1, Zenon DEF TypeInv, TypeOK, StateHeld, RemoveFinalizer
  <2>2. CASE ~FailDeletion
    <3>1. [app EXCEPT !.finalizer = FALSE] \in Application
      BY Zenon DEF TypeInv, TypeOK, Application
    <3> QED
      BY <1>0, <1>6, <2>2, <3>1, WriteType, Zenon
      DEF TypeInv, TypeOK, StateHeld, RemoveFinalizer, Done
  <2> QED
    BY <2>1, <2>2
<1> QED
  BY <1>1, <1>2, <1>3, <1>4, <1>5, <1>6, Zenon

\* Every step keeps the types.
LEMMA TypeStep == TypeInv /\ [Next]_vars => TypeInv'
<1>1. ASSUME TypeInv, UNCHANGED vars PROVE TypeInv'
  BY <1>1 DEF TypeInv, TypeOK, StateHeld, vars, apiVars, informerVars, workerVars
<1> QED
  BY <1>1, TypeApi, TypeInformer, TypeOperation, TypeCompletion, Zenon DEF Next, Worker

\* Every value stays in its type: a worker never patches without a state, the
\* history never outgrows maxHistoryCnt, the watch never outgrows its bound.
THEOREM TypeCorrect == Spec => []TypeOK
<1>1. TypeInv => TypeOK
  BY Zenon DEF TypeInv
<1> QED
  BY <1>1, TypeInit, TypeStep, PTL DEF Spec
-----------------------------------------------------------------------------
(* An operation and the result of a finished one.                          *)

\* What is stored satisfies PendingNotCompleted if what is written does.
LEMMA StoredPending ==
    ASSUME NEW a, Write(a),
           a.op # Nil /\ a.os # Nil => ~Completed(a.os.phase)
    PROVE  PendingNotCompleted'
BY Zenon DEF Write, Stored, Removed, PendingNotCompleted

\* The patch of setOperationState stores a completed state only where it
\* clears the operation field.
LEMMA PatchPending ==
    ASSUME TypeOK, state # Nil, PatchOperationState
    PROVE  PendingNotCompleted'
<1> DEFINE s == MergePatch(app.os, state)
           o == IF Completed(state.phase) THEN Nil ELSE app.op
           a == [app EXCEPT !.os = s, !.op = o]
<1>1. state \in OperationState /\ app \in Application
  BY DEF TypeOK
<1>2. s.phase = state.phase
  BY <1>1, Zenon DEF MergePatch, OperationState
<1>3. a.op = o /\ a.os = s
  BY <1>1, Zenon DEF Application
<1>4. Write(a)
  BY Zenon DEF PatchOperationState
<1>5. a.op # Nil /\ a.os # Nil => ~Completed(a.os.phase)
  BY <1>2, <1>3, Zenon
<1> QED
  BY <1>4, <1>5, StoredPending, Zenon

\* SetAppOperation and setOperationState keep the operation field and
\* operationState consistent, however stale the informer, whatever replies are
\* lost and whenever the controller restarts.
THEOREM PendingCorrect == Spec => []PendingNotCompleted
<1>1. Init => PendingNotCompleted
  BY Zenon DEF Init, Removed, PendingNotCompleted
<1>2. TypeInv /\ PendingNotCompleted /\ [Next]_vars => PendingNotCompleted'
  <2> SUFFICES ASSUME TypeInv, PendingNotCompleted, [Next]_vars
               PROVE  PendingNotCompleted'
    OBVIOUS
  <2>0. app \in Application /\ TypeOK
    BY Zenon DEF TypeInv, TypeOK
  <2>1. ASSUME UNCHANGED app PROVE PendingNotCompleted'
    BY <2>1, Zenon DEF PendingNotCompleted
  <2>2. ASSUME NEW a, Write(a), a.op = app.op, a.os = app.os
        PROVE  PendingNotCompleted'
    BY <2>2, StoredPending, Zenon DEF PendingNotCompleted
  <2>3. CASE SetAppOperation
    <3>1. [app EXCEPT !.op = call, !.os = Nil].os = Nil
      BY <2>0, Zenon DEF Application
    <3> QED
      BY <2>1, <2>3, <3>1, StoredPending, Zenon DEF SetAppOperation
  <2>4. CASE TerminateOperation
    <3>1. app.os \in OperationState
      BY <2>0, <2>4, Zenon DEF TerminateOperation, Application
    <3>2. [app EXCEPT !.os.phase = "Terminating"].os.phase = "Terminating"
      BY <2>0, <3>1, Zenon DEF Application, OperationState
    <3>3. ~Completed("Terminating")
      BY Zenon DEF Completed
    <3> QED
      BY <2>4, <3>2, <3>3, StoredPending, Zenon DEF TerminateOperation
  <2>5. CASE DeletePatchFinalizer
    <3>1. \A c \in BOOLEAN : /\ [app EXCEPT !.finalizer = c].op = app.op
                            /\ [app EXCEPT !.finalizer = c].os = app.os
      BY <2>0, Zenon DEF Application
    <3> QED
      BY <2>1, <2>2, <2>5, <3>1, PatchesFinalizer, Zenon
  <2>6. CASE Delete
    <3>1. /\ [app EXCEPT !.deleting = TRUE].op = app.op
          /\ [app EXCEPT !.deleting = TRUE].os = app.os
      BY <2>0, Zenon DEF Application
    <3> QED
      BY <2>1, <2>2, <2>6, <3>1, Zenon DEF Delete
  <2>7. CASE LoseReply \/ InitializeOperation \/ SetOperationState
    <3>1. state # Nil
      BY <2>7, Zenon DEF TypeInv, StateHeld, LoseReply, InitializeOperation, SetOperationState
    <3> QED
      BY <2>0, <2>1, <2>7, <3>1, PatchPending, Zenon
      DEF LoseReply, InitializeOperation, SetOperationState
  <2>8. CASE persistDeploymentInfo
    <3>1. ASSUME NEW h
          PROVE  /\ [app EXCEPT !.history = h].op = app.op
                 /\ [app EXCEPT !.history = h].os = app.os
      BY <2>0, Zenon DEF Application
    <3> QED
      BY <2>1, <2>2, <2>8, <3>1, Zenon DEF persistDeploymentInfo
  <2>9. CASE RemoveFinalizer
    <3>1. /\ [app EXCEPT !.finalizer = FALSE].op = app.op
          /\ [app EXCEPT !.finalizer = FALSE].os = app.os
      BY <2>0, Zenon DEF Application
    <3> QED
      BY <2>1, <2>2, <2>9, <3>1, Zenon DEF RemoveFinalizer, FailDeletion
  <2>10. CASE UpdateOtherFields \/ DeleteResourcesWithLabel \/ GetResourcesWithLabel
    <3>1. Write(app) \/ UNCHANGED <<app, watch>>
      BY <2>10, Zenon
      DEF UpdateOtherFields, DeleteResourcesWithLabel, GetResourcesWithLabel, FailDeletion
    <3> QED
      BY <2>1, <2>2, <3>1, Zenon
  <2>11. CASE \/ Sync \/ Rollback \/ DeleteGet \/ DeliverEvent \/ Relist \/ Resync \/ autoSync
              \/ processAppOperationQueueItem \/ ResumeOperation \/ SyncAppState
              \/ CheckTerminating \/ ResourcesGone \/ Restart \/ UNCHANGED vars
    BY <2>1, <2>11, Zenon
    DEF Sync, Rollback, DeleteGet, DeliverEvent, Relist, Resync, autoSync,
        processAppOperationQueueItem, ResumeOperation, SyncAppState,
        CheckTerminating, ResourcesGone, Restart, vars
  <2> QED
    BY <2>3, <2>4, <2>5, <2>6, <2>7, <2>8, <2>9, <2>10, <2>11, Zenon DEF Next, Worker
<1> QED
  BY <1>1, <1>2, TypeInit, TypeStep, PTL DEF Spec
-----------------------------------------------------------------------------
(* The removal of a deleted application.                                   *)

\* The list of resources is still empty when the finalizer is patched: only
\* the worker itself makes resources, and it is busy with the deletion.
RemoveWhenGone == pc = "remove" => live = "none"

\* Every step keeps that.
LEMMA RemoveWhenGoneStep == RemoveWhenGone /\ [Next]_vars => RemoveWhenGone'
<1> SUFFICES ASSUME RemoveWhenGone, [Next]_vars PROVE RemoveWhenGone'
  OBVIOUS
<1> USE DEF RemoveWhenGone
<1>1. ASSUME pc' = pc, live' \in {live, "none"} PROVE RemoveWhenGone'
  BY <1>1, Zenon
<1>2. ASSUME pc' # "remove" PROVE RemoveWhenGone'
  BY <1>2, Zenon
<1>3. CASE GetResourcesWithLabel
  BY <1>3, Zenon DEF GetResourcesWithLabel, FailDeletion, Done
<1>4. CASE \/ processAppOperationQueueItem \/ ResumeOperation
           \/ InitializeOperation \/ SyncAppState \/ persistDeploymentInfo
           \/ CheckTerminating \/ SetOperationState
           \/ DeleteResourcesWithLabel \/ RemoveFinalizer \/ Restart
  <2>1. CASE \/ processAppOperationQueueItem \/ ResumeOperation
             \/ InitializeOperation \/ SyncAppState \/ persistDeploymentInfo
    BY <1>2, <2>1, Zenon
    DEF processAppOperationQueueItem, ResumeOperation, InitializeOperation,
        SyncAppState, persistDeploymentInfo, Done
  <2>2. CASE \/ CheckTerminating \/ SetOperationState
             \/ DeleteResourcesWithLabel \/ RemoveFinalizer \/ Restart
    BY <1>2, <2>2, Zenon
    DEF CheckTerminating, SetOperationState, DeleteResourcesWithLabel,
        RemoveFinalizer, Restart, FailDeletion, Done
  <2> QED
    BY <1>4, <2>1, <2>2, Zenon
<1>5. CASE \/ Sync \/ Rollback \/ SetAppOperation \/ TerminateOperation
           \/ DeleteGet \/ DeletePatchFinalizer \/ Delete \/ UpdateOtherFields
           \/ DeliverEvent \/ Relist \/ Resync \/ autoSync
           \/ LoseReply \/ ResourcesGone \/ UNCHANGED vars
  BY <1>1, <1>5, Zenon
  DEF Sync, Rollback, SetAppOperation, TerminateOperation,
      DeleteGet, DeletePatchFinalizer, Delete, UpdateOtherFields, DeliverEvent, Relist,
      Resync, autoSync, LoseReply, ResourcesGone, vars, workerVars
<1> QED
  BY <1>3, <1>4, <1>5, Zenon DEF Next, Worker

\* An application that keeps its finalizer is not removed by a write.
LEMMA FinalizerHolds ==
    ASSUME NEW a, Write(a), a.finalizer, a.exists
    PROVE  app'.exists
BY Zenon DEF Write, Stored

\* However deletions, syncs, restarts and stale copies interleave, the
\* controller removes the finalizer only from an application with no
\* resource left.
THEOREM NoOrphans == Spec => NoOrphanedResources
<1> DEFINE A == app.exists /\ ~app'.exists /\ app.finalizer
                  => live = "none" \/ del'["unset"] < del["unset"]
<1>1. Init => RemoveWhenGone
  BY Zenon DEF Init, RemoveWhenGone
<1>2. TypeInv /\ RemoveWhenGone /\ [Next]_vars => [A]_vars
  <2> SUFFICES ASSUME TypeInv, RemoveWhenGone, [Next]_vars,
                      app.exists, ~app'.exists, app.finalizer
               PROVE  live = "none" \/ del'["unset"] < del["unset"]
    OBVIOUS
  <2>0. app \in Application /\ del \in [DeleteSteps -> Nat]
    BY Zenon DEF TypeInv, TypeOK
  <2>1. app' # app
    OBVIOUS
  <2>2. ~(\E a : Write(a) /\ a.finalizer /\ a.exists)
    BY FinalizerHolds, Zenon
  <2>3. ASSUME NEW s, NEW o, NEW h
        PROVE  /\ [app EXCEPT !.os = s, !.op = o].finalizer
               /\ [app EXCEPT !.os = s, !.op = o].exists
               /\ [app EXCEPT !.op = o, !.os = s].finalizer
               /\ [app EXCEPT !.op = o, !.os = s].exists
               /\ [app EXCEPT !.history = h].finalizer
               /\ [app EXCEPT !.history = h].exists
               /\ [app EXCEPT !.os.phase = "Terminating"].finalizer
               /\ [app EXCEPT !.os.phase = "Terminating"].exists
               /\ [app EXCEPT !.deleting = TRUE].finalizer
               /\ [app EXCEPT !.deleting = TRUE].exists
               /\ [app EXCEPT !.finalizer = TRUE].finalizer
               /\ [app EXCEPT !.finalizer = TRUE].exists
    BY <2>0, Zenon DEF Application
  <2>4. ~PatchOperationState
    BY <2>2, <2>3, Zenon DEF PatchOperationState
  <2>5. CASE RemoveFinalizer
    BY <2>5, Zenon DEF RemoveFinalizer, RemoveWhenGone
  <2>6. CASE SetAppOperation \/ TerminateOperation \/ Delete \/ UpdateOtherFields
    BY <2>1, <2>2, <2>3, <2>6, Zenon
    DEF SetAppOperation, TerminateOperation, Delete, UpdateOtherFields
  <2>7. CASE DeletePatchFinalizer
    <3>1. PICK step \in {"set", "unset"} :
             \/ /\ Write([app EXCEPT !.finalizer = (step = "set")])
                /\ del' = [del EXCEPT ![step] = @ - 1, !["delete"] = @ + 1]
             \/ UNCHANGED <<app, watch>>
      BY <2>7, Zenon DEF DeletePatchFinalizer
    <3>2. step # "set"
      <4> SUFFICES ASSUME step = "set" PROVE FALSE
        BY Zenon
      <4>1. Write([app EXCEPT !.finalizer = TRUE])
        <5>1. (step = "set") = TRUE
          BY Zenon
        <5> QED BY <2>1, <3>1, <5>1, Zenon
      <4> QED BY <2>2, <2>3, <4>1, Zenon
    <3>3. del' = [del EXCEPT !["unset"] = @ - 1, !["delete"] = @ + 1]
      BY <2>1, <3>1, <3>2, Zenon
    <3> QED BY <2>0, <3>3 DEF DeleteSteps
  <2>8. CASE persistDeploymentInfo
    BY <2>1, <2>2, <2>3, <2>8, Zenon DEF persistDeploymentInfo
  <2>9. CASE LoseReply \/ InitializeOperation \/ SetOperationState
    BY <2>1, <2>4, <2>9, Zenon DEF LoseReply, InitializeOperation, SetOperationState
  <2>10. CASE DeleteResourcesWithLabel \/ GetResourcesWithLabel
    BY <2>1, <2>2, <2>10, Zenon
    DEF DeleteResourcesWithLabel, GetResourcesWithLabel, FailDeletion
  <2>11. CASE \/ Sync \/ Rollback \/ DeleteGet \/ DeliverEvent \/ Relist \/ Resync \/ autoSync
              \/ processAppOperationQueueItem \/ ResumeOperation \/ SyncAppState
              \/ CheckTerminating \/ ResourcesGone \/ Restart \/ UNCHANGED vars
    BY <2>1, <2>11, Zenon
    DEF Sync, Rollback, DeleteGet, DeliverEvent, Relist, Resync, autoSync,
        processAppOperationQueueItem, ResumeOperation, SyncAppState,
        CheckTerminating, ResourcesGone, Restart, vars
  <2> QED
    BY <2>5, <2>6, <2>7, <2>8, <2>9, <2>10, <2>11, Zenon DEF Next, Worker
<1> QED
  BY <1>1, <1>2, TypeInit, TypeStep, RemoveWhenGoneStep, PTL
  DEF Spec, NoOrphanedResources
-----------------------------------------------------------------------------
(* Prompt workers.  A worker that takes the key before the informer caught *)
(* up with two writes may act on an operation that is over; here it is at  *)
(* most one write behind.                                                  *)

\* The worker sees all writes but at most the last one when it takes the key,
\* the watch is long enough for that to be what pending events mean, and no
\* reply of a patch is lost.
Prompt == MaxStale <= 1 /\ MaxStale < MaxLag /\ MaxLostReplies = 0

\* The version of the application before the last write, as far as the
\* informer has yet to receive the last one.
Prev == IF Len(watch) >= 2 THEN watch[Len(watch) - 1] ELSE informer

\* The worker is between the first and the last patch of an operation.
Busy == pc \in {"sync", "persist", "check", "set"}

\* The informer's copy, once it is at most one write behind: a copy that shows
\* an operation not yet started shows the truth, unless the worker has just
\* started it.
Chain ==
    /\ watch = <<>> => informer = app
    /\ watch # <<>> => watch[Len(watch)] = app
    /\ watch # <<>> /\ MaxLag > 1 =>
          /\ Prev.op # Nil /\ Prev.os # Nil => ~Completed(Prev.os.phase)
          /\ Prev.op # Nil /\ Prev.os = Nil /\ app.exists =>
                /\ app.op = Prev.op /\ app.history = Prev.history
                /\ app.os = Nil \/ (Busy /\ wapp.os = Nil)

\* A write appends the new version, and the version before it is the one the
\* store held.
LEMMA WriteChain ==
    ASSUME TypeOK, Chain, NEW a \in Application, Write(a), UNCHANGED informer
    PROVE  /\ watch' # <<>> /\ watch'[Len(watch')] = app'
           /\ MaxLag > 1 => Prev' = app
<1> DEFINE w == IF Len(watch) < MaxLag THEN watch ELSE Tail(watch)
<1>1. watch \in Seq(Application) /\ Len(watch) \in Nat /\ Len(watch) <= MaxLag
  BY DEF TypeOK
<1>2. Stored(a) \in Application
  BY StoredType, Zenon
<1>3. /\ w \in Seq(Application) /\ Len(w) \in Nat
      /\ w # <<>> => watch # <<>> /\ w[Len(w)] = watch[Len(watch)]
      /\ MaxLag > 1 /\ w = <<>> => watch = <<>>
  <2>1. CASE Len(watch) < MaxLag
    BY <1>1, <2>1, Zenon
  <2>2. CASE ~(Len(watch) < MaxLag)
    <3>1. watch # <<>> /\ Len(watch) = MaxLag
      BY <1>1, <2>2, BoundsAssumption
    <3>2. /\ Tail(watch) \in Seq(Application) /\ Len(Tail(watch)) = MaxLag - 1
          /\ \A i \in 1..(MaxLag - 1) : Tail(watch)[i] = watch[i + 1]
      BY <1>1, <3>1, HeadAndTail, BoundsAssumption, Zenon
    <3>3. w = Tail(watch)
      BY <2>2, Zenon
    <3> HIDE DEF w
    <3>a. w \in Seq(Application) /\ Len(w) = MaxLag - 1
      BY <3>2, <3>3, Zenon
    <3>4. w # <<>> => w[Len(w)] = watch[Len(watch)]
      BY <1>1, <3>1, <3>2, <3>3, BoundsAssumption
    <3>5. MaxLag > 1 => Len(w) # 0
      BY <3>a, BoundsAssumption
    <3> QED
      BY <3>1, <3>a, <3>4, <3>5, BoundsAssumption
  <2> QED
    BY <2>1, <2>2, Zenon
<1>4. watch' = Append(w, Stored(a)) /\ app' = Stored(a)
  BY Zenon DEF Write
<1> HIDE DEF w
<1>5. /\ watch' \in Seq(Application) /\ Len(watch') = Len(w) + 1
      /\ watch'[Len(w) + 1] = Stored(a)
      /\ \A i \in 1..Len(w) : watch'[i] = w[i]
  BY <1>2, <1>3, <1>4
<1>6. watch' # <<>> /\ watch'[Len(watch')] = app'
  BY <1>3, <1>4, <1>5
<1>7. ASSUME MaxLag > 1 PROVE Prev' = app
  <2>1. CASE w = <<>>
    BY <1>3, <1>5, <1>7, <2>1 DEF Prev, Chain
  <2>2. CASE w # <<>>
    <3>1. Len(w) >= 1 /\ w[Len(w)] = app
      BY <1>3, <2>2 DEF Chain
    <3> QED
      BY <1>3, <1>5, <3>1 DEF Prev
  <2> QED
    BY <2>1, <2>2, Zenon
<1> QED
  BY <1>6, <1>7, Zenon

\* The next event: the last two versions stay the same.
LEMMA DeliverChain ==
    ASSUME TypeOK, Chain, DeliverEvent
    PROVE  Chain'
<1>1. watch \in Seq(Application) /\ Len(watch) \in Nat /\ watch # <<>>
  BY DEF TypeOK, DeliverEvent
<1>2. /\ watch' \in Seq(Application) /\ Len(watch') = Len(watch) - 1
      /\ \A i \in 1..Len(watch') : watch'[i] = watch[i + 1]
      /\ informer' = watch[1]
  BY <1>1, HeadAndTail DEF DeliverEvent
<1>3. UNCHANGED <<app, wapp, Busy>>
  BY Zenon DEF DeliverEvent, workerVars, Busy
<1>4. CASE watch' = <<>>
  <2>1. Len(watch) = 1
    BY <1>1, <1>2, <1>4
  <2> QED
    BY <1>1, <1>2, <1>3, <1>4, <2>1, Zenon DEF Chain
<1>5. CASE watch' # <<>>
  <2>1. Len(watch') >= 1 /\ Len(watch) >= 2
    BY <1>1, <1>2, <1>5
  <2>2. watch'[Len(watch')] = watch[Len(watch)]
    BY <1>1, <1>2, <2>1
  <2>3. Prev' = Prev
    BY <1>1, <1>2, <2>1 DEF Prev
  <2> QED
    BY <1>1, <1>3, <1>5, <2>1, <2>2, <2>3, Zenon DEF Chain
<1> QED
  BY <1>4, <1>5, Zenon

-----------------------------------------------------------------------------
\* The stored application and the worker agree on the operation.
AppOK ==
    /\ ~app.exists => app = Removed
    /\ PendingNotCompleted /\ InProgressIsRequested
    /\ ResultOfOperation /\ SucceededIsRecorded

\* The worker's state is that of the stored operation: not started at the
\* first patch, in progress until the last one.
WorkerOK ==
    /\ pc = "init" =>
          /\ state.phase = "Running" /\ state.res = Nil /\ wapp.os = Nil
          /\ app.exists => app.op = state.op /\ app.os = Nil
    /\ Busy =>
          /\ state.res # Nil => state.res.id = state.op.id
          /\ app.exists => /\ isOperationInProgress(app)
                           /\ app.op = state.op /\ app.os.op = state.op
    /\ pc \in {"init", "sync", "persist"} /\ app.exists => wapp.history = app.history
    /\ pc = "check" => state.phase = "Running"
    /\ pc = "set" /\ state.phase = "Succeeded" /\ state.op.full /\ app.exists =>
          app.history # <<>> /\ app.history[Len(app.history)] = state.op.id

\* Operations get their numbers in the order of the requests; the one that
\* waits to be started was not started.
IdOK ==
    /\ call # Nil => call.id <= requests
    /\ \A i \in 1..MaxOps :
          starts[i] # 0 => i <= requests /\ (call # Nil => i < call.id)
    /\ app.op # Nil => app.op.id <= requests /\ (call # Nil => app.op.id < call.id)
    /\ app.op # Nil /\ app.os = Nil => starts[app.op.id] = 0

\* The invariant but for the informer's copy.
OpInv == TypeInv /\ AppOK /\ WorkerOK /\ IdOK /\ StartedOnce

\* What a step makes of the application: it is removed, or it has these fields.
Effect(op, os, history) ==
    \/ app' = Removed
    \/ /\ app.exists /\ app'.exists
       /\ app'.op = op /\ app'.os = os /\ app'.history = history

\* The fields of a removed application.
LEMMA RemovedFields ==
    /\ Removed.exists = FALSE /\ Removed.op = Nil /\ Removed.os = Nil
    /\ Removed.history = <<>>
BY Zenon DEF Removed

\* What is written is stored, or the application is removed.
LEMMA WriteEffect ==
    ASSUME NEW a, Write(a), a.exists, app.exists
    PROVE  Effect(a.op, a.os, a.history)
BY Zenon DEF Write, Stored, Effect

\* A step that does not write.
LEMMA StillEffect ==
    ASSUME AppOK, UNCHANGED app, app \in Application
    PROVE  Effect(app.op, app.os, app.history)
BY Zenon DEF AppOK, Effect, Application

\* The types of what the application and the worker hold.
LEMMA Fields ==
    ASSUME TypeInv
    PROVE  /\ app \in Application /\ app.op \in Operation \union {Nil}
           /\ app.os \in OperationState \union {Nil} /\ app.history \in Histories
           /\ Busy \/ pc = "init" => state \in OperationState /\ state.op \in Operation
           /\ starts \in [1..MaxOps -> 0..2] /\ requests \in 0..MaxOps
           /\ call \in Operation \union {Nil}
<1>1. app \in Application /\ TypeOK /\ StateHeld
  BY Zenon DEF TypeInv, TypeOK
<1>2. Busy \/ pc = "init" => state \in OperationState
  BY <1>1, Zenon DEF TypeOK, StateHeld, Busy
<1>3. \A s \in OperationState : s.op \in Operation
  BY Zenon DEF OperationState
<1> QED
  BY <1>1, <1>2, <1>3, Zenon DEF TypeOK, Application

\* A removed application satisfies everything.
LEMMA RemovedOK ==
    ASSUME app' = Removed
    PROVE  AppOK'
BY RemovedFields, Zenon DEF AppOK, PendingNotCompleted, InProgressIsRequested,
    ResultOfOperation, SucceededIsRecorded, isOperationInProgress

\* A request for a new operation, or none.
NewCall ==
    \/ UNCHANGED <<call, requests>>
    \/ /\ call = Nil /\ requests' = requests + 1
       /\ call' # Nil /\ call'.id = requests + 1

\* A step that leaves the worker and these fields of the application alone.
LEMMA QuietStep ==
    ASSUME OpInv, Effect(app.op, app.os, app.history), NewCall,
           UNCHANGED <<pc, wapp, state, starts>>
    PROVE  AppOK' /\ WorkerOK' /\ IdOK' /\ StartedOnce'
<1>0. TypeInv /\ AppOK /\ WorkerOK /\ IdOK /\ StartedOnce
  BY Zenon DEF OpInv
<1>1. StartedOnce'
  BY <1>0, Zenon DEF StartedOnce
<1>2. AppOK'
  <2>1. CASE app' = Removed
    BY <2>1, RemovedOK, Zenon
  <2>2. CASE app' # Removed
    BY <1>0, <2>2, Zenon
    DEF Effect, AppOK, PendingNotCompleted, InProgressIsRequested,
        ResultOfOperation, SucceededIsRecorded, isOperationInProgress
  <2> QED
    BY <2>1, <2>2, Zenon
<1>3. WorkerOK'
  BY <1>0, RemovedFields, Zenon DEF WorkerOK, Effect, Busy, isOperationInProgress
<1>4. IdOK'
  <2>1. /\ starts \in [1..MaxOps -> 0..2] /\ requests \in 0..MaxOps
        /\ app.op \in Operation \union {Nil} /\ call \in Operation \union {Nil}
    BY <1>0, Fields, Zenon
  <2>2. \A o \in Operation : o.id \in 1..MaxOps
    BY Zenon DEF Operation
  <2>3. app'.op # Nil => app'.op = app.op /\ app'.os = app.os
    BY RemovedFields, Zenon DEF Effect
  <2> QED
    BY <1>0, <2>1, <2>2, <2>3, BoundsAssumption DEF IdOK, NewCall
<1> QED
  BY <1>1, <1>2, <1>3, <1>4, Zenon

\* A step keeps it; the types are kept by TypeStep.
Kept == AppOK' /\ WorkerOK' /\ IdOK' /\ StartedOnce' /\ Chain'

\* A write keeps Chain if it leaves an operation not yet started alone, or
\* starts it.
LEMMA ChainWrite ==
    ASSUME TypeOK, Chain, AppOK, NEW a \in Application, Write(a), UNCHANGED informer,
           app.op # Nil /\ app.os = Nil /\ app'.exists =>
              /\ app'.op = app.op /\ app'.history = app.history
              /\ app'.os = Nil \/ (Busy' /\ wapp'.os = Nil)
    PROVE  Chain'
<1>1. /\ watch' # <<>> /\ watch'[Len(watch')] = app'
      /\ MaxLag > 1 => Prev' = app
  BY WriteChain, Zenon
<1>2. PendingNotCompleted
  BY Zenon DEF AppOK
<1> QED
  BY <1>1, <1>2, Zenon DEF Chain, PendingNotCompleted

\* A step that does not write keeps Chain while the worker stays where it is
\* between its patches.
LEMMA ChainStill ==
    ASSUME Chain, UNCHANGED <<app, watch, informer>>,
           Busy /\ wapp.os = Nil => Busy' /\ wapp'.os = Nil
    PROVE  Chain'
BY Zenon DEF Chain, Prev

\* A write that leaves the operation and the history alone.
LEMMA QuietWrite ==
    ASSUME OpInv, Chain, NEW a \in Application, Write(a), a.exists, app.exists,
           a.op = app.op, a.os = app.os, a.history = app.history,
           NewCall, UNCHANGED <<informer, pc, wapp, state, starts>>
    PROVE  Kept
<1>1. Effect(app.op, app.os, app.history)
  BY WriteEffect, Zenon
<1>2. AppOK' /\ WorkerOK' /\ IdOK' /\ StartedOnce'
  BY <1>1, QuietStep, Zenon
<1>3. TypeOK /\ AppOK
  BY Zenon DEF OpInv, TypeInv
<1>4. app'.exists => app'.op = app.op /\ app'.history = app.history /\ app'.os = app.os
  BY <1>1, RemovedFields, Zenon DEF Effect
<1>5. Chain'
  BY <1>3, <1>4, ChainWrite, Zenon
<1> QED
  BY <1>2, <1>5, Zenon DEF Kept

\* A step that neither writes nor moves the worker.
LEMMA QuietStill ==
    ASSUME OpInv, Chain, NewCall,
           UNCHANGED <<app, watch, informer, pc, wapp, state, starts>>
    PROVE  Kept
<1>1. AppOK /\ app \in Application
  BY Fields, Zenon DEF OpInv
<1>2. Effect(app.op, app.os, app.history)
  BY <1>1, StillEffect, Zenon
<1>3. AppOK' /\ WorkerOK' /\ IdOK' /\ StartedOnce'
  BY <1>2, QuietStep, Zenon
<1>4. Chain'
  BY ChainStill, Zenon DEF Busy
<1> QED
  BY <1>3, <1>4, Zenon DEF Kept

\* SetAppOperation finds no operation, so no worker is busy with one, and the
\* operation it sets has a number of its own.
LEMMA OpSetAppOperation ==
    ASSUME OpInv, Chain, SetAppOperation
    PROVE  Kept
<1> USE DEF apiVars, informerVars, workerVars
<1>1. CASE UNCHANGED <<app, watch>>
  <2>1. Effect(app.op, app.os, app.history)
    BY <1>1, StillEffect, Fields, Zenon DEF OpInv
  <2>2. call' = Nil /\ UNCHANGED <<informer, pc, wapp, state, starts, requests>>
    BY Zenon DEF SetAppOperation
  <2>3. TypeInv /\ AppOK /\ WorkerOK /\ IdOK /\ StartedOnce
    BY Zenon DEF OpInv
  <2>4. AppOK' /\ WorkerOK' /\ StartedOnce' /\ IdOK'
    BY <1>1, <2>2, <2>3
    DEF AppOK, PendingNotCompleted, InProgressIsRequested, ResultOfOperation,
        SucceededIsRecorded, isOperationInProgress, WorkerOK, Busy, StartedOnce, IdOK
  <2>5. Chain'
    BY <1>1, <2>2, ChainStill, Zenon DEF Busy
  <2> QED
    BY <2>4, <2>5, Zenon DEF Kept
<1>2. CASE app.exists /\ app.op = Nil /\ Write([app EXCEPT !.op = call, !.os = Nil])
  <2> DEFINE a == [app EXCEPT !.op = call, !.os = Nil]
  <2>0. TypeInv /\ TypeOK /\ AppOK /\ WorkerOK /\ IdOK /\ StartedOnce
    BY Zenon DEF OpInv, TypeInv
  <2>1. /\ app \in Application /\ call \in Operation
        /\ starts \in [1..MaxOps -> 0..2] /\ requests \in 0..MaxOps
    BY <2>0, Fields, Zenon DEF SetAppOperation
  <2>2. /\ a \in Application /\ a.exists = app.exists /\ a.op = call /\ a.os = Nil
        /\ a.history = app.history
    BY <2>1, Zenon DEF Application
  <2> HIDE DEF a
  <2>3. Effect(call, Nil, app.history)
    BY <1>2, <2>2, WriteEffect, Zenon DEF a
  <2>4. call' = Nil /\ UNCHANGED <<informer, pc, wapp, state, starts, requests>>
    BY DEF SetAppOperation
  <2>5. Chain'
    BY <1>2, <2>0, <2>2, <2>4, ChainWrite, Zenon DEF a
  <2>6. pc # "init" /\ ~Busy
    <3>1. Busy \/ pc = "init" => state.op \in Operation
      BY <2>0, Fields, Zenon
    <3> QED
      BY <1>2, <2>0, <3>1, NilIsNoRecord, Zenon DEF WorkerOK
  <2>7. WorkerOK'
    BY <2>4, <2>6, Zenon DEF WorkerOK, Busy
  <2>8. AppOK'
    <3>1. CASE app' = Removed
      BY <3>1, RemovedOK, Zenon
    <3>2. CASE app' # Removed
      BY <2>3, <3>2, Zenon
      DEF Effect, AppOK, PendingNotCompleted, InProgressIsRequested,
          ResultOfOperation, SucceededIsRecorded, isOperationInProgress
    <3> QED
      BY <3>1, <3>2, Zenon
  <2>9. IdOK'
    <3>1. call.id \in 1..MaxOps
      BY <2>1, Zenon DEF Operation
    <3>2. starts[call.id] = 0
      BY <2>0, <2>1, <3>1, NilIsNoRecord DEF IdOK
    <3>3. app'.op # Nil => app'.op = call
      BY <2>3, RemovedFields, Zenon DEF Effect
    <3> QED
      BY <2>0, <2>1, <2>4, <3>1, <3>2, <3>3, NilIsNoRecord, Zenon DEF IdOK
  <2>10. StartedOnce'
    BY <2>0, <2>4, Zenon DEF StartedOnce
  <2> QED
    BY <2>5, <2>7, <2>8, <2>9, <2>10, Zenon DEF Kept
<1> QED
  BY <1>1, <1>2, Zenon DEF SetAppOperation

\* TerminateOperation changes only the phase of an operation in progress.
LEMMA OpTerminateOperation ==
    ASSUME OpInv, Chain, TerminateOperation
    PROVE  Kept
<1> DEFINE a == [app EXCEPT !.os.phase = "Terminating"]
<1>0. TypeInv /\ TypeOK /\ AppOK /\ WorkerOK /\ IdOK /\ StartedOnce
  BY DEF OpInv, TypeInv
<1>1. /\ app \in Application /\ app.os \in OperationState /\ app.os # Nil /\ app.op # Nil
      /\ app.exists /\ Write(a)
  BY <1>0, Fields, Zenon DEF TerminateOperation
<1>2. a.os = [app.os EXCEPT !.phase = "Terminating"]
  BY <1>1, Zenon DEF Application
<1>3. /\ a \in Application /\ a.exists = app.exists /\ a.op = app.op
      /\ a.history = app.history
      /\ a.os \in OperationState /\ a.os.phase = "Terminating"
      /\ a.os.op = app.os.op /\ a.os.res = app.os.res
  BY <1>1, Zenon DEF Application, OperationState, Phases
<1> HIDE DEF a
<1>4. Effect(app.op, a.os, app.history)
  BY <1>1, <1>3, WriteEffect, Zenon
<1>5. UNCHANGED <<informer, pc, wapp, state, starts, requests, call>>
  BY Zenon DEF TerminateOperation, apiVars, informerVars, workerVars
<1>6. Chain'
  BY <1>0, <1>1, <1>3, <1>5, ChainWrite, Zenon
<1>7. a.os # Nil /\ ~Completed("Terminating")
  BY <1>3, NilIsNoRecord, Zenon DEF Completed
<1>8. isOperationInProgress(app) /\ app.op = app.os.op
  BY <1>0, <1>1, Zenon DEF AppOK, PendingNotCompleted, InProgressIsRequested, isOperationInProgress
<1>9. AppOK'
  <2>1. CASE app' = Removed
    BY <2>1, RemovedOK
  <2>2. CASE app' # Removed
    BY <1>0, <1>1, <1>3, <1>4, <1>7, <1>8, <2>2, Zenon
    DEF Effect, AppOK, PendingNotCompleted, InProgressIsRequested,
        ResultOfOperation, SucceededIsRecorded, isOperationInProgress
  <2> QED
    BY <2>1, <2>2
<1>10. WorkerOK'
  BY <1>0, <1>1, <1>3, <1>4, <1>5, <1>7, <1>8, RemovedFields, Zenon
  DEF Effect, WorkerOK, Busy, isOperationInProgress
<1>11. IdOK'
  BY <1>0, <1>1, <1>4, <1>5, <1>7, RemovedFields, Zenon DEF Effect, IdOK
<1>12. StartedOnce'
  BY <1>0, <1>5, Zenon DEF StartedOnce
<1> QED
  BY <1>6, <1>9, <1>10, <1>11, <1>12, Zenon DEF Kept

\* The other handlers of the API server, and the informer's side.
LEMMA OpApi ==
    ASSUME OpInv, Chain,
           Sync \/ Rollback \/ DeleteGet \/ DeletePatchFinalizer \/ Delete \/ UpdateOtherFields
    PROVE  Kept
<1> USE DEF apiVars, informerVars, workerVars
<1>0. app \in Application /\ requests \in 0..MaxOps
  BY Fields, Zenon DEF OpInv
<1>1. CASE Sync \/ Rollback
  <2>1. \E f \in BOOLEAN : call' = [id |-> requests + 1, full |-> f]
    BY <1>1, Zenon DEF Sync, Rollback
  <2>2. call' \in Operation
    BY <1>0, <1>1, <2>1, BoundsAssumption DEF Operation, Sync, Rollback
  <2>3. NewCall
    BY <1>1, <2>1, <2>2, NilIsNoRecord DEF NewCall, Sync, Rollback
  <2>4. UNCHANGED <<app, watch, informer, pc, wapp, state, starts>>
    BY <1>1, Zenon DEF Sync, Rollback
  <2> QED
    BY <2>3, <2>4, QuietStill, Zenon
<1>2. ASSUME NEW a \in Application, Write(a), a.exists, app.exists, a.op = app.op,
             a.os = app.os, a.history = app.history,
             UNCHANGED <<call, requests, informer, pc, wapp, state, starts>>
      PROVE  Kept
  BY <1>2, QuietWrite, Zenon DEF NewCall
<1>3. ASSUME UNCHANGED <<call, requests, app, watch, informer, pc, wapp, state, starts>>
      PROVE  Kept
  BY <1>3, QuietStill, Zenon DEF NewCall
<1>4. CASE DeletePatchFinalizer
  <2>1. ASSUME NEW c \in BOOLEAN
        PROVE  /\ [app EXCEPT !.finalizer = c] \in Application
               /\ [app EXCEPT !.finalizer = c].exists = app.exists
               /\ [app EXCEPT !.finalizer = c].op = app.op
               /\ [app EXCEPT !.finalizer = c].os = app.os
               /\ [app EXCEPT !.finalizer = c].history = app.history
    BY <1>0, Zenon DEF Application
  <2>2. /\ UNCHANGED <<call, requests, informer, pc, wapp, state, starts>>
        /\ \/ UNCHANGED <<app, watch>>
           \/ app.exists /\ \E c \in BOOLEAN : Write([app EXCEPT !.finalizer = c])
    BY <1>4, PatchesFinalizer, Zenon
  <2>3. CASE UNCHANGED <<app, watch>>
    BY <1>3, <2>2, <2>3, Zenon
  <2>4. ASSUME app.exists, NEW c \in BOOLEAN, Write([app EXCEPT !.finalizer = c]) PROVE Kept
    <3> DEFINE a == [app EXCEPT !.finalizer = c]
    <3>1. /\ a \in Application /\ a.exists = app.exists /\ a.op = app.op
          /\ a.os = app.os /\ a.history = app.history /\ Write(a)
      BY <2>1, <2>4, Zenon
    <3> HIDE DEF a
    <3> QED
      BY <1>2, <2>2, <2>4, <3>1, Zenon
  <2> QED
    BY <2>2, <2>3, <2>4, Zenon
<1>5. CASE Delete
  <2> DEFINE a == [app EXCEPT !.deleting = TRUE]
  <2>1. /\ a.exists = app.exists /\ a.op = app.op /\ a.os = app.os
        /\ a.history = app.history
    BY <1>0, Zenon DEF Application
  <2>2. a \in Application
    BY <1>0, Zenon DEF Application
  <2>3. /\ UNCHANGED <<call, requests, informer, pc, wapp, state, starts>>
        /\ \/ app.exists /\ Write(a)
           \/ UNCHANGED <<app, watch>>
    BY <1>5, Zenon DEF Delete
  <2> HIDE DEF a
  <2> QED
    BY <1>2, <1>3, <2>1, <2>2, <2>3, Zenon
<1>6. CASE UpdateOtherFields
  <2>1. /\ UNCHANGED <<call, requests, informer, pc, wapp, state, starts>>
        /\ app.exists /\ Write(app)
    BY <1>6, Zenon DEF UpdateOtherFields
  <2> QED
    BY <1>0, <1>2, <2>1, Zenon
<1>7. CASE DeleteGet
  BY <1>3, <1>7, Zenon DEF DeleteGet
<1> QED
  BY <1>1, <1>4, <1>5, <1>6, <1>7, Zenon

\* The informer, the refresh worker, the cluster and a restart change neither
\* the application nor an operation.
LEMMA OpInformer ==
    ASSUME OpInv, Chain,
           DeliverEvent \/ Relist \/ Resync \/ autoSync \/ ResourcesGone \/ Restart
    PROVE  Kept
<1> USE DEF apiVars, informerVars, workerVars
<1>0. /\ app \in Application /\ requests \in 0..MaxOps
      /\ TypeOK /\ AppOK /\ WorkerOK /\ IdOK /\ StartedOnce
  BY Fields, Zenon DEF OpInv, TypeInv
<1>1. Effect(app.op, app.os, app.history) \/ app' # app
  BY <1>0, StillEffect, Zenon
<1>2. CASE DeliverEvent \/ Relist
  <2>1. UNCHANGED <<app, call, requests, pc, wapp, state, starts>>
    BY <1>2, Zenon DEF DeliverEvent, Relist
  <2>2. AppOK' /\ WorkerOK' /\ IdOK' /\ StartedOnce'
    BY <1>1, <2>1, QuietStep, Zenon DEF NewCall
  <2>3. Chain'
    <3>1. CASE DeliverEvent
      BY <1>0, <3>1, DeliverChain, Zenon
    <3>2. CASE Relist
      BY <2>1, <3>2, Zenon DEF Relist, Chain
    <3> QED
      BY <1>2, <3>1, <3>2, Zenon
  <2> QED
    BY <2>2, <2>3, Zenon DEF Kept
<1>3. CASE Resync \/ autoSync \/ ResourcesGone
  <2>1. UNCHANGED <<app, watch, informer, pc, wapp, state, starts>>
    BY <1>3, Zenon DEF Resync, autoSync, ResourcesGone
  <2>2. NewCall
    <3>1. CASE Resync \/ ResourcesGone
      BY <3>1, Zenon DEF Resync, ResourcesGone, NewCall
    <3>2. CASE autoSync /\ ~UNCHANGED <<call, requests>>
      <4>1. /\ call = Nil /\ requests < MaxOps /\ requests' = requests + 1
            /\ call' = [id |-> requests + 1, full |-> TRUE]
        BY <3>2, Zenon DEF autoSync
      <4>2. TRUE \in BOOLEAN /\ requests + 1 \in 1..MaxOps
        BY <1>0, <4>1, BoundsAssumption
      <4>3. call' \in Operation /\ call'.id = requests + 1
        BY <4>1, <4>2, Zenon DEF Operation
      <4> QED
        BY <4>1, <4>3, NilIsNoRecord, Zenon DEF NewCall
    <3> QED
      BY <1>3, <3>1, <3>2, Zenon DEF NewCall
  <2> QED
    BY <2>1, <2>2, QuietStill, Zenon
<1>4. CASE Restart
  <2>1. /\ UNCHANGED <<app, call, requests, starts>> /\ pc' = "idle"
        /\ watch' = <<>> /\ informer' = app
    BY <1>4, Zenon DEF Restart, Done
  <2>2. AppOK' /\ IdOK' /\ StartedOnce'
    BY <1>0, <2>1
    DEF AppOK, PendingNotCompleted, InProgressIsRequested, ResultOfOperation,
        SucceededIsRecorded, isOperationInProgress, StartedOnce, IdOK
  <2>3. WorkerOK'
    BY <2>1, Zenon DEF WorkerOK, Busy
  <2>4. Chain'
    BY <2>1, Zenon DEF Chain
  <2> QED
    BY <2>2, <2>3, <2>4, Zenon DEF Kept
<1> QED
  BY <1>2, <1>3, <1>4, Zenon

\* A step of the worker that neither writes nor starts an operation.
LEMMA WorkerStill ==
    ASSUME OpInv, Chain, WorkerOK',
           UNCHANGED <<app, watch, informer, starts, call, requests>>,
           Busy /\ wapp.os = Nil => Busy' /\ wapp'.os = Nil
    PROVE  Kept
<1>0. TypeOK /\ AppOK /\ WorkerOK /\ IdOK /\ StartedOnce
  BY Zenon DEF OpInv, TypeInv
<1>1. AppOK' /\ IdOK' /\ StartedOnce'
  BY <1>0
  DEF AppOK, PendingNotCompleted, InProgressIsRequested, ResultOfOperation,
      SucceededIsRecorded, isOperationInProgress, StartedOnce, IdOK
<1>2. Chain'
  BY ChainStill, Zenon
<1> QED
  BY <1>1, <1>2, Zenon DEF Kept

\* The worker takes the key: a copy that shows an operation not started shows
\* the operation as it is stored.
LEMMA OpProcess ==
    ASSUME Prompt, OpInv, Chain, processAppOperationQueueItem
    PROVE  Kept
<1>0. TypeInv /\ TypeOK /\ AppOK /\ WorkerOK /\ IdOK /\ StartedOnce
  BY Zenon DEF OpInv, TypeInv
<1>1. /\ UNCHANGED <<app, watch, informer, starts, call, requests>>
      /\ pc = "idle" /\ Len(watch) <= MaxStale
  BY Zenon DEF processAppOperationQueueItem, apiVars
<1>2. ~Busy
  BY <1>1, Zenon DEF Busy
<1>3. CASE pc' \in {"resume", "finalize", "idle"}
  <2>1. WorkerOK'
    BY <1>3, Zenon DEF WorkerOK, Busy
  <2> QED
    BY <1>1, <1>2, <2>1, WorkerStill, Zenon
<1>4. CASE /\ informer.exists /\ informer.op # Nil
           /\ ~isOperationInProgress(informer)
           /\ pc' = "init"
           /\ wapp' = Copy(informer)
           /\ state' = [phase |-> "Running", op |-> informer.op, res |-> Nil]
  <2>1. informer.os = Nil /\ (app.exists => app.op = informer.op /\ app.os = Nil
                                           /\ app.history = informer.history)
    <3>1. watch \in Seq(Application) /\ Len(watch) \in Nat
      BY <1>0 DEF TypeOK
    <3>2. CASE watch = <<>>
      <4>1. informer = app
        BY <3>2, Zenon DEF Chain
      <4>2. app.os = Nil
        BY <1>0, <1>4, <4>1, Zenon DEF AppOK, PendingNotCompleted, isOperationInProgress
      <4> QED
        BY <4>1, <4>2, Zenon
    <3>3. CASE watch # <<>>
      <4>0. Len(watch) # 0
        BY <3>1, <3>3
      <4>1. Len(watch) = 1 /\ MaxLag > 1
        <5>1. MaxStale \in Nat /\ MaxLag \in Nat /\ MaxStale <= 1 /\ MaxStale < MaxLag
          BY BoundsAssumption, Zenon DEF Prompt
        <5>2. ASSUME NEW k \in Nat, k # 0, k <= MaxStale PROVE k = 1 /\ MaxLag > 1
          BY <5>1, <5>2
        <5> QED
          BY <1>1, <3>1, <4>0, <5>2, Zenon
      <4>2. Prev = informer
        BY <4>1 DEF Prev
      <4> QED
        BY <1>2, <1>4, <3>3, <4>1, <4>2, Zenon DEF Chain, isOperationInProgress
    <3> QED
      BY <3>2, <3>3, Zenon
  <2>2. /\ state'.phase = "Running" /\ state'.res = Nil /\ state'.op = informer.op
        /\ wapp'.os = informer.os /\ wapp'.history = informer.history
    BY <1>4, Zenon DEF Copy
  <2>3. WorkerOK'
    BY <1>1, <1>4, <2>1, <2>2, Zenon DEF WorkerOK, Busy
  <2> QED
    BY <1>1, <1>2, <2>3, WorkerStill
<1> QED
  BY <1>3, <1>4, Zenon DEF processAppOperationQueueItem, Done

\* What setOperationState's patch makes of the application.
LEMMA PatchEffect ==
    ASSUME TypeInv, state \in OperationState, PatchOperationState
    PROVE  LET s == MergePatch(app.os, state)
           IN  /\ app.exists
               /\ Effect(IF Completed(state.phase) THEN Nil ELSE app.op, s, app.history)
               /\ s \in OperationState /\ s.phase = state.phase /\ s.op = state.op
               /\ s.res = state.res \/ (app.os # Nil /\ s.res = app.os.res)
               /\ app.os = Nil => s = state
               /\ \E a \in Application : Write(a)
<1> DEFINE s == MergePatch(app.os, state)
           o == IF Completed(state.phase) THEN Nil ELSE app.op
           a == [app EXCEPT !.os = s, !.op = o]
<1>0. app \in Application /\ app.op \in Operation \union {Nil}
      /\ app.os \in OperationState \union {Nil}
  BY Fields, Zenon
<1>1. /\ s \in OperationState /\ s.phase = state.phase /\ s.op = state.op
      /\ s.res = state.res \/ (app.os # Nil /\ s.res = app.os.res)
      /\ app.os = Nil => s = state
  BY <1>0, Zenon DEF MergePatch, OperationState
<1>2. app.exists /\ Write(a)
  BY Zenon DEF PatchOperationState
<1>3. o \in Operation \union {Nil}
  BY <1>0, Zenon
<1> HIDE DEF s, o
<1>4. /\ a \in Application /\ a.exists = app.exists /\ a.op = o /\ a.os = s
      /\ a.history = app.history
  BY <1>0, <1>1, <1>3, Zenon DEF Application
<1> HIDE DEF a
<1>5. Effect(o, s, app.history)
  BY <1>2, <1>4, WriteEffect, Zenon
<1> QED
  BY <1>1, <1>2, <1>4, <1>5, Zenon DEF s, o

\* A resumed operation is the one the application holds.
LEMMA OpResume ==
    ASSUME OpInv, Chain, ResumeOperation
    PROVE  Kept
<1>0. TypeInv /\ AppOK /\ app \in Application /\ app.os \in OperationState \union {Nil}
  BY Fields, Zenon DEF OpInv
<1>1. /\ UNCHANGED <<app, watch, informer, starts, call, requests>> /\ ~Busy
  BY Zenon DEF ResumeOperation, apiVars, informerVars, Busy
<1>2. CASE pc' = "idle"
  <2>1. WorkerOK'
    BY <1>2, Zenon DEF WorkerOK, Busy
  <2> QED
    BY <1>1, <2>1, WorkerStill, Zenon
<1>3. CASE /\ app.exists /\ isOperationInProgress(app)
           /\ wapp' = Copy(app) /\ state' = app.os /\ pc' = "sync"
  <2>1. wapp'.history = app.history
    BY <1>3, Zenon DEF Copy
  <2>2. state'.res # Nil => state'.res.id = state'.op.id
    BY <1>0, <1>3, Zenon DEF AppOK, ResultOfOperation, isOperationInProgress
  <2>3. isOperationInProgress(app)' /\ app'.op = state'.op /\ app'.os.op = state'.op
    BY <1>0, <1>1, <1>3, Zenon DEF AppOK, InProgressIsRequested, isOperationInProgress
  <2>4. WorkerOK'
    BY <1>1, <1>3, <2>1, <2>2, <2>3, Zenon DEF WorkerOK, Busy
  <2> QED
    BY <1>1, <2>4, WorkerStill
<1> QED
  BY <1>2, <1>3, Zenon DEF ResumeOperation, Done

\* The first patch starts the operation that is stored, which was not started.
LEMMA OpInitialize ==
    ASSUME OpInv, Chain, InitializeOperation
    PROVE  Kept
<1>0. TypeInv /\ TypeOK /\ AppOK /\ WorkerOK /\ IdOK /\ StartedOnce
  BY DEF OpInv, TypeInv
<1>1. /\ pc = "init" /\ pc' = "sync" /\ PatchOperationState
      /\ starts' = [starts EXCEPT ![state.op.id] = IF @ = 0 THEN 1 ELSE 2]
      /\ UNCHANGED <<informer, wapp, state, call, requests>>
  BY Zenon DEF InitializeOperation, apiVars, informerVars
<1>2. /\ state \in OperationState /\ state.op \in Operation /\ state.op.id \in 1..MaxOps
      /\ starts \in [1..MaxOps -> 0..2] /\ requests \in 0..MaxOps
      /\ call \in Operation \union {Nil}
  BY <1>0, <1>1, Fields, Zenon DEF Operation
<1>3. /\ state.phase = "Running" /\ state.res = Nil /\ wapp.os = Nil
      /\ app.exists /\ app.op = state.op /\ app.os = Nil
      /\ wapp.history = app.history
  BY <1>0, <1>1, <1>2, PatchEffect, Zenon DEF WorkerOK
<1>4. Effect(app.op, state, app.history) /\ \E a \in Application : Write(a)
  BY <1>0, <1>1, <1>2, <1>3, PatchEffect, Zenon DEF Completed
<1>5. state # Nil /\ state.op # Nil
  BY <1>2, NilIsNoRecord, Zenon
<1>6. Busy' /\ wapp'.os = Nil
  BY <1>1, <1>3, Zenon DEF Busy
<1>7. app'.exists => /\ app'.op = app.op /\ app'.history = app.history
                     /\ app'.os = state
  BY <1>4, RemovedFields, Zenon DEF Effect
<1>8. Chain'
  BY <1>0, <1>1, <1>4, <1>6, <1>7, ChainWrite, Zenon
<1>9. starts[state.op.id] = 0
  BY <1>0, <1>3, <1>5, Zenon DEF IdOK
<1>10. StartedOnce'
  BY <1>0, <1>1, <1>2, <1>9 DEF StartedOnce
<1>11. IdOK'
  <2>1. app'.op # Nil => app'.op = app.op /\ app'.os # Nil
    BY <1>4, <1>5, RemovedFields, Zenon DEF Effect
  <2>2. \A i \in 1..MaxOps : starts'[i] # 0 => starts[i] # 0 \/ i = app.op.id
    BY <1>1, <1>2, <1>3, Zenon
  <2> QED
    BY <1>0, <1>1, <1>2, <1>3, <1>5, <2>1, <2>2, Zenon DEF IdOK
<1>12. AppOK'
  <2>1. CASE app' = Removed
    BY <2>1, RemovedOK
  <2>2. CASE app' # Removed
    <3>1. app'.exists /\ app'.op = state.op /\ app'.os = state
      BY <1>3, <1>4, <2>2, Zenon DEF Effect
    <3> QED
      BY <1>3, <1>5, <3>1, Zenon
      DEF AppOK, PendingNotCompleted, InProgressIsRequested,
          ResultOfOperation, SucceededIsRecorded, isOperationInProgress, Completed
  <2> QED
    BY <2>1, <2>2
<1>13. WorkerOK'
  BY <1>1, <1>3, <1>5, <1>7, Zenon DEF WorkerOK, Busy, isOperationInProgress, Completed
<1> QED
  BY <1>8, <1>10, <1>11, <1>12, <1>13, Zenon DEF Kept

\* A pass of SyncAppState leaves a result of its own operation.
LEMMA OpSync ==
    ASSUME OpInv, Chain, SyncAppState
    PROVE  Kept
<1>0. TypeInv /\ WorkerOK
  BY Zenon DEF OpInv
<1>1. /\ pc = "sync" /\ UNCHANGED <<app, watch, informer, starts, call, requests, wapp>>
      /\ state' \in SyncOutcomes(state)
      /\ pc' \in {"persist", "check", "set"}
      /\ pc' = "check" => state'.phase = "Running"
      /\ pc' = "set" => ~(state'.phase = "Succeeded" /\ state.op.full)
  BY Zenon DEF SyncAppState, apiVars, informerVars
<1>2. Busy /\ Busy'
  BY <1>1, Zenon DEF Busy
<1>3. state'.op = state.op /\ (state'.res # Nil => state'.res.id = state.op.id)
  <2>1. state \in OperationState /\ (state.res # Nil => state.res.id = state.op.id)
    BY <1>0, <1>2, Fields, Zenon DEF WorkerOK
  <2> QED
    BY <1>1, <2>1, Zenon DEF SyncOutcomes
<1>4. WorkerOK'
  BY <1>0, <1>1, <1>2, <1>3, Zenon DEF WorkerOK, isOperationInProgress
<1> QED
  BY <1>1, <1>2, <1>4, WorkerStill, Zenon

\* t holds the k elements of s after the first m.
IsSlice(t, s, m, k) ==
    /\ t \in Seq(1..MaxOps) /\ Len(t) = k
    /\ \A i \in 1..k : t[i] = s[i + m]

\* SubSeq takes a slice.
LEMMA Slice ==
    ASSUME NEW s \in Seq(1..MaxOps), NEW m \in Nat, NEW k \in Nat, m + k <= Len(s)
    PROVE  IsSlice(SubSeq(s, m + 1, m + k), s, m, k)
<1> DEFINE S == 1..MaxOps
<1>0. s \in Seq(S)
  OBVIOUS
<1> HIDE DEF S
<1>1. SubSeq(s, m + 1, m + k) \in Seq(S) /\ Len(SubSeq(s, m + 1, m + k)) = k
  BY <1>0
<1>2. ASSUME NEW i \in 1..k PROVE SubSeq(s, m + 1, m + k)[i] = s[i + m]
  BY <1>0
<1> QED
  BY <1>1, <1>2, Zenon DEF S, IsSlice

\* The new history ends with the new deployment, after what it keeps of the
\* old one.
LEMMA DeployedKeeps ==
    ASSUME NEW h \in Histories, NEW id \in 1..MaxOps
    PROVE  LET new == Deployed(h, id)
               kept == IF Len(h) < MaxHistory THEN Len(h) ELSE MaxHistory - 1
           IN  /\ new # <<>> /\ new[Len(new)] = id
               /\ Len(new) = kept + 1
               /\ SubSeq(new, 1, kept) = SubSeq(h, Len(h) - kept + 1, Len(h))
<1> DEFINE g == Append(h, id)
           n == Len(h)
           new == Deployed(h, id)
           kept == IF n < MaxHistory THEN n ELSE MaxHistory - 1
           off == IF n < MaxHistory THEN 0 ELSE 1
<1>1. /\ h \in Seq(1..MaxOps) /\ n \in Nat /\ n <= MaxHistory
      /\ MaxHistory \in Nat /\ MaxHistory > 0
  BY BoundsAssumption DEF Histories
<1>2. /\ g \in Seq(1..MaxOps) /\ Len(g) = n + 1 /\ g[n + 1] = id
      /\ \A i \in 1..n : g[i] = h[i]
  BY <1>1
<1>3. /\ kept \in Nat /\ off \in Nat /\ kept + 1 \in Nat
      /\ off + kept = n /\ off + (kept + 1) = n + 1 /\ n - kept = off
  BY <1>1
<1>4. n < MaxHistory => new = g /\ off = 0
  BY <1>1, <1>2 DEF Deployed
<1>5. ~(n < MaxHistory) => new = SubSeq(g, 2, MaxHistory + 1) /\ n = MaxHistory /\ off = 1
  BY <1>1, <1>2 DEF Deployed
<1>l. Len(h) = n
  OBVIOUS
<1> HIDE DEF g, n, new, kept, off
<1>6. new = SubSeq(g, off + 1, n + 1)
  <2>1. SubSeq(g, 1, n + 1) = g
    BY <1>2
  <2>2. CASE n < MaxHistory
    <3>1. off + 1 = 1
      BY <1>4, <2>2
    <3> QED
      BY <1>4, <2>1, <2>2, <3>1, Zenon
  <2>3. CASE ~(n < MaxHistory)
    <3>1. off + 1 = 2
      BY <1>5, <2>3
    <3> QED
      BY <1>5, <2>3, <3>1, Zenon
  <2> QED
    BY <2>2, <2>3, Zenon
<1>7. IsSlice(new, g, off, kept + 1)
  <2>1. off + (kept + 1) <= Len(g)
    BY <1>1, <1>2, <1>3
  <2>2. IsSlice(SubSeq(g, off + 1, off + (kept + 1)), g, off, kept + 1)
    BY <1>2, <1>3, <2>1, Slice, Zenon
  <2> QED
    BY <1>3, <1>6, <2>2, Zenon
<1>8. new # <<>> /\ new[Len(new)] = id
  <2>1. kept + 1 \in 1..(kept + 1) /\ kept + 1 + off = n + 1
    BY <1>1, <1>3
  <2> QED
    BY <1>2, <1>7, <2>1 DEF IsSlice
<1>9. SubSeq(new, 1, kept) = SubSeq(h, off + 1, n)
  <2> DEFINE a == SubSeq(new, 1, kept)
             b == SubSeq(h, off + 1, n)
  <2>1. IsSlice(a, new, 0, kept)
    <3>1. new \in Seq(1..MaxOps) /\ 0 \in Nat /\ 0 + kept <= Len(new)
      BY <1>3, <1>7 DEF IsSlice
    <3>2. 0 + kept = kept /\ 0 + 1 = 1
      BY <1>3
    <3>3. IsSlice(SubSeq(new, 0 + 1, 0 + kept), new, 0, kept)
      BY <1>3, <3>1, Slice, Zenon
    <3> QED
      BY <3>2, <3>3, Zenon
  <2>2. IsSlice(b, h, off, kept)
    <3>1. off + kept <= Len(h)
      BY <1>1, <1>3, <1>l
    <3>2. IsSlice(SubSeq(h, off + 1, off + kept), h, off, kept)
      BY <1>1, <1>3, <3>1, Slice, Zenon
    <3> QED
      BY <1>3, <3>2, Zenon
  <2> HIDE DEF a, b
  <2>3. ASSUME NEW i \in 1..kept PROVE a[i] = b[i]
    <3>1. i \in 1..(kept + 1) /\ i + off \in 1..n /\ i + 0 = i
      BY <1>1, <1>3, <2>3
    <3>2. new[i] = g[i + off] /\ g[i + off] = h[i + off]
      BY <1>2, <1>7, <3>1, Zenon DEF IsSlice
    <3>3. a[i] = new[i + 0] /\ b[i] = h[i + off]
      BY <2>1, <2>2, <2>3, Zenon DEF IsSlice
    <3> QED
      BY <3>1, <3>2, <3>3, Zenon
  <2>4. a = b
    <3>1. /\ a \in Seq(1..MaxOps) /\ b \in Seq(1..MaxOps)
          /\ Len(a) = kept /\ Len(b) = kept
      BY <2>1, <2>2, Zenon DEF IsSlice
    <3> QED
      BY <2>3, <3>1
  <2> QED
    BY <2>4, Zenon DEF a, b
<1> QED
  BY <1>3, <1>7, <1>8, <1>9, Zenon DEF new, kept, n, IsSlice

\* Recording the deployment makes it the last one of the history; an error
\* leaves no success to store.
LEMMA OpPersist ==
    ASSUME OpInv, Chain, persistDeploymentInfo
    PROVE  Kept
<1>0. TypeInv /\ TypeOK /\ AppOK /\ WorkerOK /\ IdOK /\ StartedOnce
  BY DEF OpInv, TypeInv
<1>1. /\ pc = "persist" /\ pc' = "set"
      /\ UNCHANGED <<informer, wapp, starts, call, requests>>
  BY Zenon DEF persistDeploymentInfo, apiVars, informerVars
<1>2. Busy /\ Busy'
  BY <1>1, Zenon DEF Busy
<1>3. /\ state \in OperationState /\ state.op \in Operation /\ state.op.id \in 1..MaxOps
      /\ app \in Application /\ wapp.history \in Histories
  BY <1>0, <1>2, Fields, Zenon DEF Operation, TypeOK
<1>4. CASE /\ app.exists /\ UNCHANGED state
           /\ Write([app EXCEPT !.history = Deployed(wapp.history, state.op.id)])
  <2> DEFINE h == Deployed(wapp.history, state.op.id)
             a == [app EXCEPT !.history = h]
  <2>1. h \in Histories /\ h # <<>> /\ h[Len(h)] = state.op.id
    BY <1>3, DeployedType, DeployedKeeps, Zenon
  <2> HIDE DEF h
  <2>2. /\ a \in Application /\ a.exists = app.exists /\ a.op = app.op /\ a.os = app.os
        /\ a.history = h
    BY <1>3, <2>1, Zenon DEF Application
  <2>3. Write(a)
    BY <1>4, Zenon DEF h
  <2> HIDE DEF a
  <2>4. Effect(app.op, app.os, h)
    BY <1>4, <2>2, <2>3, WriteEffect, Zenon
  <2>5. app.os # Nil /\ ~Completed(app.os.phase) /\ app.op = state.op /\ app.os.op = state.op
    BY <1>0, <1>2, <1>4, Zenon DEF WorkerOK, isOperationInProgress
  <2>6. Chain'
    BY <1>0, <1>1, <2>2, <2>3, <2>5, ChainWrite
  <2>7. AppOK'
    <3>1. CASE app' = Removed
      BY <3>1, RemovedOK
    <3>2. CASE app' # Removed
      BY <1>0, <2>4, <2>5, <3>2, Zenon
      DEF Effect, AppOK, PendingNotCompleted, InProgressIsRequested,
          ResultOfOperation, SucceededIsRecorded, isOperationInProgress, Completed
    <3> QED
      BY <3>1, <3>2
  <2>8. WorkerOK'
    BY <1>0, <1>1, <1>2, <1>4, <2>1, <2>4, <2>5, RemovedFields, Zenon
    DEF Effect, WorkerOK, isOperationInProgress
  <2>9. IdOK' /\ StartedOnce'
    <3>1. app'.op # Nil => app'.op = app.op /\ app'.os = app.os
      BY <2>4, RemovedFields, Zenon DEF Effect
    <3> QED
      BY <1>0, <1>1, <3>1, Zenon DEF IdOK, StartedOnce
  <2> QED
    BY <2>6, <2>7, <2>8, <2>9, Zenon DEF Kept
<1>5. CASE state' = [state EXCEPT !.phase = "Error"] /\ UNCHANGED <<app, watch>>
  <2>1. state'.phase = "Error" /\ state'.op = state.op /\ state'.res = state.res
    BY <1>3, <1>5, Zenon DEF OperationState
  <2>2. WorkerOK'
    BY <1>0, <1>1, <1>2, <1>5, <2>1, Zenon DEF WorkerOK, isOperationInProgress
  <2> QED
    BY <1>1, <1>2, <1>5, <2>2, WorkerStill, Zenon
<1> QED
  BY <1>4, <1>5, Zenon DEF persistDeploymentInfo

\* The check for a termination never makes the state a success.
LEMMA OpCheck ==
    ASSUME OpInv, Chain, CheckTerminating
    PROVE  Kept
<1>0. TypeInv /\ WorkerOK
  BY DEF OpInv
<1>1. /\ pc = "check" /\ pc' = "set"
      /\ UNCHANGED <<app, watch, informer, wapp, starts, call, requests>>
      /\ state' = state \/ state' = [state EXCEPT !.phase = "Terminating"]
  BY Zenon DEF CheckTerminating, apiVars, informerVars
<1>2. Busy /\ Busy'
  BY <1>1, Zenon DEF Busy
<1>3. state \in OperationState /\ state.phase = "Running"
  BY <1>0, <1>1, <1>2, Fields, Zenon DEF WorkerOK
<1>4. /\ state'.phase # "Succeeded" /\ state'.op = state.op /\ state'.res = state.res
  BY <1>1, <1>3, Zenon DEF OperationState
<1>5. WorkerOK'
  BY <1>0, <1>1, <1>2, <1>4, Zenon DEF WorkerOK, isOperationInProgress
<1> QED
  BY <1>1, <1>2, <1>5, WorkerStill, Zenon

\* The last patch stores the state of the operation in progress.
LEMMA OpSetState ==
    ASSUME OpInv, Chain, SetOperationState
    PROVE  Kept
<1>0. TypeInv /\ TypeOK /\ AppOK /\ WorkerOK /\ IdOK /\ StartedOnce
  BY DEF OpInv, TypeInv
<1>1. /\ pc = "set" /\ pc' = "idle"
      /\ UNCHANGED <<informer, starts, call, requests>>
  BY Zenon DEF SetOperationState, Done, apiVars
<1>2. Busy /\ ~Busy' /\ pc' # "init"
  BY <1>1, Zenon DEF Busy
<1>3. state \in OperationState /\ state # Nil /\ state.op # Nil
  BY <1>0, <1>2, Fields, NilIsNoRecord, Zenon
<1>4. WorkerOK'
  BY <1>1, <1>2, Zenon DEF WorkerOK
<1>5. CASE wapp.os = state /\ UNCHANGED <<app, watch>>
  BY <1>1, <1>3, <1>4, <1>5, WorkerStill, Zenon
<1>6. CASE PatchOperationState
  <2> DEFINE s == MergePatch(app.os, state)
             o == IF Completed(state.phase) THEN Nil ELSE app.op
  <2>1. /\ app.exists /\ Effect(o, s, app.history)
        /\ s \in OperationState /\ s.phase = state.phase /\ s.op = state.op
        /\ s.res = state.res \/ (app.os # Nil /\ s.res = app.os.res)
        /\ \E a \in Application : Write(a)
    BY <1>0, <1>3, <1>6, PatchEffect, Zenon
  <2>2. /\ app.os # Nil /\ app.op = state.op /\ app.os.op = state.op
        /\ state.res # Nil => state.res.id = state.op.id
        /\ state.phase = "Succeeded" /\ state.op.full =>
              app.history # <<>> /\ app.history[Len(app.history)] = state.op.id
    BY <1>0, <1>1, <1>2, <2>1, Zenon DEF WorkerOK, isOperationInProgress
  <2>3. s # Nil /\ o = (IF Completed(state.phase) THEN Nil ELSE state.op)
    BY <2>1, <2>2, NilIsNoRecord, Zenon
  <2>4. s.res # Nil => s.res.id = s.op.id
    BY <1>0, <2>1, <2>2 DEF AppOK, ResultOfOperation
  <2> HIDE DEF s, o
  <2>5. Chain'
    BY <1>0, <1>1, <2>1, <2>2, ChainWrite, Zenon
  <2>6. AppOK'
    <3>1. CASE app' = Removed
      BY <3>1, RemovedOK
    <3>2. CASE app' # Removed
      <4>1. app'.exists /\ app'.op = o /\ app'.os = s /\ app'.history = app.history
        BY <2>1, <3>2, Zenon DEF Effect
      <4> QED
        BY <2>1, <2>2, <2>3, <2>4, <4>1, Zenon
        DEF AppOK, PendingNotCompleted, InProgressIsRequested,
            ResultOfOperation, SucceededIsRecorded, isOperationInProgress
    <3> QED
      BY <3>1, <3>2
  <2>7. IdOK' /\ StartedOnce'
    <3>1. app'.op # Nil => app'.op = app.op /\ app'.os # Nil
      BY <2>1, <2>2, <2>3, RemovedFields, Zenon DEF Effect
    <3> QED
      BY <1>0, <1>1, <3>1, Zenon DEF IdOK, StartedOnce
  <2> QED
    BY <1>4, <2>5, <2>6, <2>7, Zenon DEF Kept
<1> QED
  BY <1>5, <1>6, Zenon DEF SetOperationState

\* The steps of a deletion leave the operation alone.
LEMMA OpDeletion ==
    ASSUME OpInv, Chain,
           DeleteResourcesWithLabel \/ GetResourcesWithLabel \/ RemoveFinalizer
    PROVE  Kept
<1>0. TypeInv /\ TypeOK /\ AppOK /\ WorkerOK /\ IdOK /\ StartedOnce /\ app \in Application
  BY Fields, Zenon DEF OpInv, TypeInv
<1>1. /\ UNCHANGED <<informer, starts, call, requests>> /\ ~Busy
      /\ pc' \in {"idle", "list", "remove"}
  BY Zenon DEF DeleteResourcesWithLabel, GetResourcesWithLabel, RemoveFinalizer,
         FailDeletion, Done, apiVars, informerVars, Busy
<1>2. WorkerOK'
  BY <1>1, Zenon DEF WorkerOK, Busy
<1>3. CASE UNCHANGED <<app, watch>>
  BY <1>1, <1>2, <1>3, WorkerStill, Zenon
<1>4. ASSUME NEW a \in Application, Write(a), a.exists, app.exists, a.op = app.op,
             a.os = app.os, a.history = app.history
      PROVE  Kept
  <2>1. Effect(app.op, app.os, app.history)
    BY <1>4, WriteEffect, Zenon
  <2>2. app'.exists => app'.op = app.op /\ app'.history = app.history /\ app'.os = app.os
    BY <2>1, RemovedFields, Zenon DEF Effect
  <2>3. Chain'
    BY <1>0, <1>1, <1>4, <2>2, ChainWrite, Zenon
  <2>4. AppOK'
    <3>1. CASE app' = Removed
      BY <3>1, RemovedOK, Zenon
    <3>2. CASE app' # Removed
      BY <1>0, <2>1, <3>2, Zenon
      DEF Effect, AppOK, PendingNotCompleted, InProgressIsRequested,
          ResultOfOperation, SucceededIsRecorded, isOperationInProgress
    <3> QED
      BY <3>1, <3>2, Zenon
  <2>5. IdOK' /\ StartedOnce'
    <3>1. app'.op # Nil => app'.op = app.op /\ app'.os = app.os
      BY <2>1, RemovedFields, Zenon DEF Effect
    <3> QED
      BY <1>0, <1>1, <3>1, Zenon DEF IdOK, StartedOnce
  <2> QED
    BY <1>2, <2>3, <2>4, <2>5, Zenon DEF Kept
<1>5. \/ UNCHANGED <<app, watch>>
      \/ app.exists /\ Write(app)
      \/ app.exists /\ Write([app EXCEPT !.finalizer = FALSE])
  BY Zenon DEF DeleteResourcesWithLabel, GetResourcesWithLabel, RemoveFinalizer, FailDeletion
<1>6. CASE app.exists /\ Write(app)
  BY <1>0, <1>4, <1>6, Zenon
<1>7. CASE app.exists /\ Write([app EXCEPT !.finalizer = FALSE])
  <2> DEFINE a == [app EXCEPT !.finalizer = FALSE]
  <2>1. /\ a.exists = app.exists /\ a.op = app.op /\ a.os = app.os
        /\ a.history = app.history
    BY <1>0, Zenon DEF Application
  <2>2. a \in Application
    BY <1>0, Zenon DEF Application
  <2> HIDE DEF a
  <2> QED
    BY <1>4, <1>7, <2>1, <2>2, Zenon DEF a
<1> QED
  BY <1>3, <1>5, <1>6, <1>7, Zenon

\* No reply is lost.
LEMMA NoLostReply ==
    ASSUME Prompt, TypeOK
    PROVE  ~LoseReply
<1>1. lost \in 0..0
  BY Zenon DEF TypeOK, Prompt
<1> QED
  BY <1>1 DEF LoseReply, Prompt

\* The inductive invariant.
PromptInv == OpInv /\ Chain

\* It holds at the start.
LEMMA PromptInit == Init => PromptInv
<1> SUFFICES ASSUME Init PROVE PromptInv
  OBVIOUS
<1>1. TypeInv
  BY TypeInit, Zenon
<1>2. /\ app.exists /\ app.op = Nil /\ app.os = Nil /\ watch = <<>> /\ informer = app
      /\ pc = "idle" /\ call = Nil /\ starts = [i \in 1..MaxOps |-> 0]
  BY Zenon DEF Init, Removed
<1>3. AppOK
  BY <1>2, Zenon DEF AppOK, PendingNotCompleted, InProgressIsRequested,
              ResultOfOperation, SucceededIsRecorded, isOperationInProgress
<1>4. WorkerOK
  BY <1>2, Zenon DEF WorkerOK, Busy
<1>5. IdOK
  BY <1>2, Zenon DEF IdOK
<1>6. StartedOnce
  BY <1>2 DEF StartedOnce
<1>7. Chain
  BY <1>2, Zenon DEF Chain
<1> QED
  BY <1>1, <1>3, <1>4, <1>5, <1>6, <1>7, Zenon DEF PromptInv, OpInv

\* Every step keeps it.
LEMMA PromptStep ==
    ASSUME Prompt, PromptInv, [Next]_vars
    PROVE  PromptInv'
<1>0. OpInv /\ Chain /\ TypeInv /\ TypeOK
  BY Zenon DEF PromptInv, OpInv, TypeInv
<1>1. TypeInv'
  BY <1>0, TypeStep, Zenon
<1>2. ASSUME UNCHANGED vars PROVE Kept
  BY <1>0, <1>2, QuietStill, Zenon
  DEF NewCall, vars, apiVars, informerVars, workerVars
<1>3. Kept
  BY <1>0, <1>2, NoLostReply, OpApi, OpSetAppOperation, OpTerminateOperation,
     OpInformer, OpProcess, OpResume, OpInitialize, OpSync, OpPersist, OpCheck,
     OpSetState, OpDeletion
  DEF Next, Worker
<1> QED
  BY <1>1, <1>3, Zenon DEF Kept, PromptInv, OpInv

\* The inductive invariant holds in every behaviour of prompt workers.
THEOREM PromptCorrect ==
    ASSUME Prompt
    PROVE  Spec => []PromptInv
BY PromptInit, PromptStep, PTL DEF Spec

\* No operation is started twice: the copy of a prompt worker never shows an
\* operation as waiting that was started before.
THEOREM StartedOnceCorrect ==
    ASSUME Prompt
    PROVE  Spec => []StartedOnce
<1>1. PromptInv => StartedOnce
  BY Zenon DEF PromptInv, OpInv
<1> QED
  BY <1>1, PromptCorrect, PTL

\* The operation that operationState shows in progress is the one the operation
\* field holds.
THEOREM InProgressCorrect ==
    ASSUME Prompt
    PROVE  Spec => []InProgressIsRequested
<1>1. PromptInv => InProgressIsRequested
  BY Zenon DEF PromptInv, OpInv, AppOK
<1> QED
  BY <1>1, PromptCorrect, PTL

\* A merge patch never leaves the sync result of another operation.
THEOREM ResultCorrect ==
    ASSUME Prompt
    PROVE  Spec => []ResultOfOperation
<1>1. PromptInv => ResultOfOperation
  BY Zenon DEF PromptInv, OpInv, AppOK
<1> QED
  BY <1>1, PromptCorrect, PTL

\* A full sync that shows as succeeded is the last entry of the history.
THEOREM SucceededCorrect ==
    ASSUME Prompt
    PROVE  Spec => []SucceededIsRecorded
<1>1. PromptInv => SucceededIsRecorded
  BY Zenon DEF PromptInv, OpInv, AppOK
<1> QED
  BY <1>1, PromptCorrect, PTL
-----------------------------------------------------------------------------
\* What the steps do to the operation, its state and the history.
Quiet == Effect(app.op, app.os, app.history) /\ UNCHANGED starts

\* SetAppOperation sets an operation that was never started.
Accepts ==
    /\ app.exists /\ app.op = Nil /\ call \in Operation /\ starts[call.id] = 0
    /\ Effect(call, Nil, app.history) /\ UNCHANGED starts

\* TerminateOperation marks an operation in progress.
Terminates ==
    /\ app.op # Nil /\ app.os # Nil
    /\ Effect(app.op, [app.os EXCEPT !.phase = "Terminating"], app.history)
    /\ UNCHANGED starts

\* The worker starts the operation that waits.
Starts ==
    /\ app.op \in Operation /\ app.os = Nil /\ starts[app.op.id] = 0
    /\ state \in OperationState /\ state.phase = "Running"
    /\ app' # Removed /\ Effect(app.op, state, app.history)
    /\ starts' = [starts EXCEPT ![app.op.id] = 1]

\* The worker records a deployment.
Records ==
    /\ \E id \in 1..MaxOps : Effect(app.op, app.os, Deployed(app.history, id))
    /\ UNCHANGED starts

\* The worker stores the state of the operation.
Reports ==
    /\ app.op \in Operation /\ app.os # Nil
    /\ \E s \in OperationState :
          /\ s.op = app.op
          /\ Effect(IF Completed(s.phase) THEN Nil ELSE app.op, s, app.history)
    /\ UNCHANGED starts

\* An application that is deleted and has no finalizer left is not stored.
Settled == app = Stored(app)

\* A write leaves a settled application.
LEMMA SettledWrite ==
    ASSUME NEW a, Write(a)
    PROVE  Settled'
BY Zenon DEF Write, Stored, Removed, Settled

\* Every step does.
LEMMA SettledStep == Settled /\ [Next]_vars => Settled'
<1> SUFFICES ASSUME Settled, [Next]_vars PROVE Settled'
  OBVIOUS
<1>1. CASE UNCHANGED app
  BY <1>1, Zenon DEF Settled, Stored, Removed
<1>2. CASE \E a : Write(a)
  BY <1>2, SettledWrite, Zenon
<1>3. UNCHANGED app \/ \E a : Write(a)
  BY Zenon DEF Next, vars, Sync, Rollback, SetAppOperation, TerminateOperation,
         DeleteGet, DeletePatchFinalizer, Delete, UpdateOtherFields, DeliverEvent, Relist,
         Resync, autoSync, LoseReply, ResourcesGone, Restart, Worker,
         processAppOperationQueueItem, ResumeOperation, InitializeOperation,
         SyncAppState, persistDeploymentInfo, CheckTerminating, SetOperationState,
         DeleteResourcesWithLabel, GetResourcesWithLabel, RemoveFinalizer,
         FailDeletion, PatchOperationState
<1> QED
  BY <1>1, <1>2, <1>3, Zenon

\* A patch keeps deletion and finalizer, so it removes no application.
LEMMA PatchStays ==
    ASSUME TypeInv, Settled, PatchOperationState
    PROVE  app' # Removed
<1>0. app \in Application /\ app.exists
  BY Fields, Zenon DEF PatchOperationState
<1>1. ~(app.deleting /\ ~app.finalizer)
  BY <1>0, RemovedFields, Zenon DEF Settled, Stored
<1> DEFINE s == MergePatch(app.os, state)
           o == IF Completed(state.phase) THEN Nil ELSE app.op
           a == [app EXCEPT !.os = s, !.op = o]
<1>a. Write(a)
  BY Zenon DEF PatchOperationState
<1> HIDE DEF s, o
<1>b. a.exists = app.exists /\ a.deleting = app.deleting /\ a.finalizer = app.finalizer
  BY <1>0, Zenon DEF Application
<1> HIDE DEF a
<1>2. app'.exists
  BY <1>0, <1>1, <1>a, <1>b, Zenon DEF Write, Stored
<1> QED
  BY <1>2, RemovedFields, Zenon

\* Every step is of one of these kinds.
LEMMA Classified ==
    ASSUME Prompt, PromptInv, Settled, Next
    PROVE  Quiet \/ Accepts \/ Terminates \/ Starts \/ Records \/ Reports
<1> USE DEF apiVars, informerVars, workerVars
<1>0. /\ TypeInv /\ TypeOK /\ AppOK /\ WorkerOK /\ IdOK /\ StartedOnce
      /\ app \in Application /\ app.op \in Operation \union {Nil}
      /\ app.os \in OperationState \union {Nil} /\ app.history \in Histories
      /\ starts \in [1..MaxOps -> 0..2] /\ requests \in 0..MaxOps
      /\ call \in Operation \union {Nil}
  BY Fields, Zenon DEF PromptInv, OpInv, TypeInv
<1>1. ASSUME UNCHANGED <<app, starts>> PROVE Quiet
  BY <1>0, <1>1, StillEffect, Zenon DEF Quiet
<1>2. ASSUME NEW a, Write(a), a.exists, app.exists, a.op = app.op, a.os = app.os,
             a.history = app.history, UNCHANGED starts
      PROVE  Quiet
  BY <1>2, WriteEffect, Zenon DEF Quiet
<1>3. CASE SetAppOperation
  <2>1. CASE UNCHANGED <<app, watch>>
    BY <1>1, <1>3, <2>1, Zenon DEF SetAppOperation
  <2>2. CASE app.exists /\ app.op = Nil /\ Write([app EXCEPT !.op = call, !.os = Nil])
    <3> DEFINE a == [app EXCEPT !.op = call, !.os = Nil]
    <3>1. /\ a.exists = app.exists /\ a.op = call /\ a.os = Nil
          /\ a.history = app.history
      BY <1>0, Zenon DEF Application
    <3> HIDE DEF a
    <3>2. Effect(call, Nil, app.history)
      BY <2>2, <3>1, WriteEffect, Zenon DEF a
    <3>3. call \in Operation /\ call.id \in 1..MaxOps /\ UNCHANGED starts
      BY <1>0, <1>3, Zenon DEF SetAppOperation, Operation
    <3>4. starts[call.id] = 0
      BY <1>0, <1>3, <3>3 DEF IdOK, SetAppOperation
    <3> QED
      BY <2>2, <3>2, <3>3, <3>4, Zenon DEF Accepts
  <2> QED
    BY <1>3, <2>1, <2>2, Zenon DEF SetAppOperation
<1>4. CASE TerminateOperation
  <2> DEFINE s == [app.os EXCEPT !.phase = "Terminating"]
             a == [app EXCEPT !.os = s]
  <2>1. app.exists /\ app.op # Nil /\ app.os # Nil /\ UNCHANGED starts
    BY <1>4, Zenon DEF TerminateOperation
  <2>2. Write(a)
    BY <1>4, Zenon DEF TerminateOperation
  <2>3. /\ a.exists = app.exists /\ a.op = app.op /\ a.os = s /\ a.history = app.history
    BY <1>0, Zenon DEF Application
  <2> HIDE DEF a
  <2>4. Effect(app.op, s, app.history)
    BY <2>1, <2>2, <2>3, WriteEffect, Zenon
  <2> QED
    BY <2>1, <2>4, Zenon DEF Terminates
<1>5. CASE InitializeOperation
  <2>1. /\ pc = "init" /\ PatchOperationState
        /\ starts' = [starts EXCEPT ![state.op.id] = IF @ = 0 THEN 1 ELSE 2]
    BY <1>5, Zenon DEF InitializeOperation
  <2>2. /\ state \in OperationState /\ state.op \in Operation
        /\ state.op.id \in 1..MaxOps /\ state.op # Nil
    BY <1>0, <2>1, Fields, NilIsNoRecord, Zenon DEF Operation
  <2>3. /\ state.phase = "Running" /\ app.exists /\ app.op = state.op /\ app.os = Nil
    BY <1>0, <2>1, <2>2, PatchEffect, Zenon DEF WorkerOK
  <2>4. Effect(app.op, state, app.history)
    BY <1>0, <2>1, <2>2, <2>3, PatchEffect, Zenon DEF Completed
  <2>5. app' # Removed
    BY <1>0, <2>1, PatchStays, Zenon
  <2>6. starts[app.op.id] = 0
    BY <1>0, <2>2, <2>3, Zenon DEF IdOK
  <2>7. starts' = [starts EXCEPT ![app.op.id] = 1]
    BY <1>0, <2>1, <2>2, <2>3, <2>6, Zenon
  <2> QED
    BY <2>2, <2>3, <2>4, <2>5, <2>6, <2>7, Zenon DEF Starts
<1>6. CASE persistDeploymentInfo
  <2>1. pc = "persist" /\ UNCHANGED starts
    BY <1>6, Zenon DEF persistDeploymentInfo
  <2>2. CASE UNCHANGED <<app, watch>>
    BY <1>1, <2>1, <2>2, Zenon
  <2>3. CASE app.exists /\ Write([app EXCEPT !.history = Deployed(wapp.history, state.op.id)])
    <3> DEFINE h == Deployed(wapp.history, state.op.id)
               a == [app EXCEPT !.history = h]
    <3>1. /\ a.exists = app.exists /\ a.op = app.op /\ a.os = app.os /\ a.history = h
      BY <1>0, Zenon DEF Application
    <3>2. Write(a) /\ app.exists
      BY <2>3, Zenon
    <3>3. wapp.history = app.history
      BY <1>0, <2>1, <2>3, Zenon DEF WorkerOK
    <3> HIDE DEF a
    <3>4. Effect(app.op, app.os, Deployed(app.history, state.op.id))
      BY <3>1, <3>2, <3>3, WriteEffect, Zenon
    <3>5. state.op.id \in 1..MaxOps
      BY <1>0, <2>1, Fields, Zenon DEF Busy, Operation
    <3> QED
      BY <2>1, <3>4, <3>5, Zenon DEF Records
  <2> QED
    BY <1>6, <2>2, <2>3, Zenon DEF persistDeploymentInfo
<1>7. CASE SetOperationState
  <2>1. pc = "set" /\ UNCHANGED starts /\ Busy
    BY <1>7, Zenon DEF SetOperationState, Busy
  <2>2. CASE UNCHANGED <<app, watch>>
    BY <1>1, <2>1, <2>2, Zenon
  <2>3. CASE PatchOperationState
    <3> DEFINE s == MergePatch(app.os, state)
    <3>1. state \in OperationState /\ state.op \in Operation
      BY <1>0, <2>1, Fields, Zenon
    <3>2. /\ app.exists /\ s \in OperationState /\ s.phase = state.phase /\ s.op = state.op
          /\ Effect(IF Completed(state.phase) THEN Nil ELSE app.op, s, app.history)
      BY <1>0, <2>3, <3>1, PatchEffect, Zenon
    <3>3. app.os # Nil /\ app.op = state.op
      BY <1>0, <2>1, <3>2, Zenon DEF WorkerOK, isOperationInProgress
    <3> HIDE DEF s
    <3>4. Effect(IF Completed(s.phase) THEN Nil ELSE app.op, s, app.history)
      BY <3>2, Zenon
    <3> QED
      BY <2>1, <3>1, <3>2, <3>3, <3>4, Zenon DEF Reports
  <2> QED
    BY <1>7, <2>2, <2>3, Zenon DEF SetOperationState
<1>8. CASE \/ Sync \/ Rollback \/ DeleteGet \/ DeliverEvent \/ Relist \/ Resync \/ autoSync
           \/ ResourcesGone \/ Restart \/ processAppOperationQueueItem
           \/ ResumeOperation \/ SyncAppState \/ CheckTerminating
  <2>1. CASE \/ Sync \/ Rollback \/ DeleteGet \/ DeliverEvent \/ Relist \/ Resync \/ autoSync
             \/ ResourcesGone \/ Restart
    BY <1>1, <2>1, Zenon
    DEF Sync, Rollback, DeleteGet, DeliverEvent, Relist, Resync, autoSync, ResourcesGone, Restart
  <2>2. CASE \/ processAppOperationQueueItem \/ ResumeOperation \/ SyncAppState
             \/ CheckTerminating
    BY <1>1, <2>2, Zenon
    DEF processAppOperationQueueItem, ResumeOperation, SyncAppState, CheckTerminating
  <2> QED
    BY <1>8, <2>1, <2>2, Zenon
<1>9. CASE \/ DeletePatchFinalizer \/ Delete \/ UpdateOtherFields
           \/ DeleteResourcesWithLabel \/ GetResourcesWithLabel \/ RemoveFinalizer
  <2>1. /\ UNCHANGED starts
        /\ \/ UNCHANGED app
           \/ app.exists /\ Write(app)
           \/ app.exists /\ \E c \in BOOLEAN : Write([app EXCEPT !.finalizer = c])
           \/ app.exists /\ Write([app EXCEPT !.deleting = TRUE])
    BY <1>9, PatchesFinalizer, Zenon
    DEF workerVars, Delete, UpdateOtherFields, DeleteResourcesWithLabel,
        GetResourcesWithLabel, RemoveFinalizer, FailDeletion
  <2>2. CASE UNCHANGED app
    BY <1>1, <2>1, <2>2, Zenon
  <2>3. CASE app.exists /\ Write(app)
    BY <1>2, <2>1, <2>3, Zenon
  <2>4. ASSUME app.exists, NEW c \in BOOLEAN, Write([app EXCEPT !.finalizer = c])
        PROVE  Quiet
    <3> DEFINE a == [app EXCEPT !.finalizer = c]
    <3>1. /\ a.exists = app.exists /\ a.op = app.op /\ a.os = app.os
          /\ a.history = app.history
      BY <1>0, Zenon DEF Application
    <3> HIDE DEF a
    <3> QED
      BY <1>2, <2>1, <2>4, <3>1, Zenon DEF a
  <2>5. CASE app.exists /\ Write([app EXCEPT !.deleting = TRUE])
    <3> DEFINE a == [app EXCEPT !.deleting = TRUE]
    <3>1. /\ a.exists = app.exists /\ a.op = app.op /\ a.os = app.os
          /\ a.history = app.history
      BY <1>0, Zenon DEF Application
    <3> HIDE DEF a
    <3> QED
      BY <1>2, <2>1, <2>5, <3>1, Zenon DEF a
  <2> QED
    BY <2>1, <2>2, <2>3, <2>4, <2>5, Zenon
<1> QED
  BY <1>0, <1>3, <1>4, <1>5, <1>6, <1>7, <1>8, <1>9, NoLostReply DEF Next, Worker

\* The types of the stored application.
LEMMA PromptFields ==
    ASSUME PromptInv
    PROVE  /\ app \in Application /\ app.op \in Operation \union {Nil}
           /\ app.os \in OperationState \union {Nil} /\ app.history \in Histories
           /\ starts \in [1..MaxOps -> 0..2] /\ AppOK
BY Fields, Zenon DEF PromptInv, OpInv

\* However requests, terminations, deletions, restarts and prompt workers
\* interleave, an operation leaves the operation field only by its own completion.
THEOREM OperationStays ==
    ASSUME Prompt
    PROVE  Spec => OperationKept
<1> DEFINE A == app.op # Nil /\ app'.exists /\ app'.op # app.op =>
                  /\ app'.op = Nil
                  /\ app'.os # Nil /\ app'.os.op = app.op
                  /\ Completed(app'.os.phase)
<1>1. PromptInv /\ Settled /\ [Next]_vars => [A]_vars
  <2> SUFFICES ASSUME PromptInv, Settled, Next,
                      app.op # Nil, app'.exists, app'.op # app.op
               PROVE  /\ app'.op = Nil
                      /\ app'.os # Nil /\ app'.os.op = app.op
                      /\ Completed(app'.os.phase)
    BY Zenon DEF vars
  <2>1. Quiet \/ Accepts \/ Terminates \/ Starts \/ Records \/ Reports
    BY Classified, Zenon
  <2>2. Reports
    BY <2>1, RemovedFields, Zenon DEF Quiet, Accepts, Terminates, Starts, Records, Effect
  <2>3. PICK s \in OperationState :
          /\ s.op = app.op
          /\ Effect(IF Completed(s.phase) THEN Nil ELSE app.op, s, app.history)
    BY <2>2, Zenon DEF Reports
  <2>4. app'.os = s /\ app'.op = IF Completed(s.phase) THEN Nil ELSE app.op
    BY <2>3, RemovedFields, Zenon DEF Effect
  <2> QED
    BY <2>3, <2>4, NilIsNoRecord, Zenon
<1>2. Init => Settled
  BY Zenon DEF Init, Removed, Settled, Stored
<1> QED
  BY <1>1, <1>2, SettledStep, PromptInit, PromptStep, PTL DEF Spec, OperationKept

\* The deployment history made from the worker's copy never loses an entry but
\* the oldest of a full one.
THEOREM HistoryStays ==
    ASSUME Prompt
    PROVE  Spec => HistoryKept
<1> DEFINE K == LET old == app.history
                    kept == IF Len(old) < MaxHistory THEN Len(old) ELSE MaxHistory - 1
                IN  /\ Len(app'.history) = kept + 1
                    /\ SubSeq(app'.history, 1, kept) =
                           SubSeq(old, Len(old) - kept + 1, Len(old))
           A == app.exists /\ app'.exists /\ app'.history # app.history => K
<1>1. PromptInv /\ Settled /\ [Next]_vars => [A]_vars
  <2> SUFFICES ASSUME PromptInv, Settled, Next,
                      app.exists, app'.exists, app'.history # app.history
               PROVE  K
    BY Zenon DEF vars
  <2> HIDE DEF K
  <2>1. Quiet \/ Accepts \/ Terminates \/ Starts \/ Records \/ Reports
    BY Classified, Zenon
  <2>2. Records
    BY <2>1, RemovedFields, Zenon DEF Quiet, Accepts, Terminates, Starts, Reports, Effect
  <2>3. PICK id \in 1..MaxOps : Effect(app.op, app.os, Deployed(app.history, id))
    BY <2>2, Zenon DEF Records
  <2> DEFINE h == app.history
             new == Deployed(h, id)
             kept == IF Len(h) < MaxHistory THEN Len(h) ELSE MaxHistory - 1
  <2>4. app'.history = new /\ h \in Histories
    BY <2>3, RemovedFields, PromptFields DEF Effect
  <2> HIDE DEF h
  <2>5. Len(new) = kept + 1 /\ SubSeq(new, 1, kept) = SubSeq(h, Len(h) - kept + 1, Len(h))
    BY <2>4, DeployedKeeps, Zenon
  <2> HIDE DEF new, kept
  <2>6. /\ Len(app'.history) = kept + 1
        /\ SubSeq(app'.history, 1, kept) = SubSeq(h, Len(h) - kept + 1, Len(h))
    BY <2>4, <2>5, Zenon
  <2> QED
    BY <2>6, Zenon DEF K, kept, h
<1>2. Init => Settled
  BY DEF Init, Removed, Settled, Stored
<1> HIDE DEF K
<1>3. HistoryKept <=> [][A]_vars
  BY Zenon DEF HistoryKept, K
<1> QED
  BY <1>1, <1>2, <1>3, SettledStep, PromptInit, PromptStep, PTL DEF Spec
-----------------------------------------------------------------------------
\* The stage of the operation, as the life cycle sees it.
Stage == CASE app.op = Nil -> "free"
           [] app.op # Nil /\ app.os = Nil -> "requested"
           [] OTHER -> IF app.os.phase = "Terminating" THEN "terminating" ELSE "running"
\* The operation, as the life cycle sees it.
Current == IF app.op = Nil THEN Nil ELSE app.op.id
\* The operations ever started, as the life cycle sees them.
Started == {i \in 1..MaxOps : starts[i] > 0}

\* The stage in terms of the operation and its state.
LEMMA StageFacts ==
    /\ app.op = Nil => Stage = "free" /\ Current = Nil
    /\ app.op # Nil => Current = app.op.id
    /\ app.op # Nil /\ app.os = Nil => Stage = "requested"
    /\ app.op # Nil /\ app.os # Nil =>
          Stage = IF app.os.phase = "Terminating" THEN "terminating" ELSE "running"
BY Zenon DEF Stage, Current

\* Every step is a step of the life cycle, or none.
LEMMA LifecycleStep ==
    ASSUME Prompt, PromptInv, PromptInv', Settled, Next
    PROVE  [Lifecycle!Next]_Lifecycle!vars
<1> DEFINE E == app.exists
<1>0. /\ app \in Application /\ app.op \in Operation \union {Nil}
      /\ app.os \in OperationState \union {Nil} /\ AppOK
      /\ starts \in [1..MaxOps -> 0..2]
  BY PromptFields, Zenon
<1>1. Quiet \/ Accepts \/ Terminates \/ Starts \/ Records \/ Reports
  BY Classified, Zenon
<1>2. ASSUME E' = E, Stage' = Stage, Current' = Current, Started' = Started
      PROVE  UNCHANGED Lifecycle!vars
  BY <1>2, Zenon DEF Lifecycle!vars, Stage, Current, Started
<1>3. CASE app' = Removed /\ UNCHANGED starts
  <2>1. E' = FALSE /\ Stage' = "free" /\ Current' = Nil /\ Started' = Started
    BY <1>3, RemovedFields, Zenon DEF Stage, Current, Started
  <2>2. Lifecycle!Remove
    BY <2>1, Zenon DEF Lifecycle!Remove, Stage, Current, Started
  <2> QED
    BY <2>2, Zenon DEF Lifecycle!Next
<1>4. ASSUME NEW op, NEW os, NEW h, Effect(op, os, h), app' # Removed
      PROVE  E' = E /\ app'.op = op /\ app'.os = os
  <2>1. /\ app.exists /\ app'.exists /\ app'.op = op /\ app'.os = os
    BY <1>4, Zenon DEF Effect
  <2>2. app.exists = TRUE /\ app'.exists = TRUE
    <3>1. app' \in Application
      BY PromptFields, Zenon DEF PromptInv, OpInv, TypeInv, TypeOK
    <3> QED
      BY <1>0, <2>1, <3>1, Zenon DEF Application
  <2> QED
    BY <2>1, <2>2, Zenon
<1>5. UNCHANGED starts => Started' = Started
  BY Zenon DEF Started
<1>6. CASE (Quiet \/ Records) /\ app' # Removed
  <2>1. E' = E /\ app'.op = app.op /\ app'.os = app.os /\ UNCHANGED starts
    BY <1>4, <1>6, Zenon DEF Quiet, Records
  <2>2. Stage' = Stage /\ Current' = Current
    BY <2>1, Zenon DEF Stage, Current
  <2> QED
    BY <1>2, <1>5, <2>1, <2>2, Zenon
<1>7. CASE Accepts /\ app' # Removed
  <2>1. /\ E' = E /\ app.exists /\ app'.op = call /\ app'.os = Nil /\ UNCHANGED starts
        /\ app.op = Nil /\ call \in Operation /\ starts[call.id] = 0 /\ call # Nil
    BY <1>4, <1>7, NilIsNoRecord, Zenon DEF Accepts
  <2>2. Stage = "free" /\ Stage' = "requested" /\ Current' = call.id
    BY <2>1, StageFacts, Zenon DEF Stage, Current
  <2>3. Current' \in (1..MaxOps) \ Started
    BY <2>1, <2>2 DEF Started, Operation
  <2>4. Lifecycle!Accept
    BY <1>5, <2>1, <2>2, <2>3, Zenon DEF Lifecycle!Accept, Stage, Current, Started
  <2> QED
    BY <2>4, Zenon DEF Lifecycle!Next
<1>8. CASE Terminates /\ app' # Removed
  <2> DEFINE s == [app.os EXCEPT !.phase = "Terminating"]
  <2>1. /\ E' = E /\ app'.op = app.op /\ app'.os = s /\ UNCHANGED starts
        /\ app.op # Nil /\ app.os # Nil
    BY <1>4, <1>8, Zenon DEF Terminates
  <2>2. s \in OperationState /\ s.phase = "Terminating"
    BY <1>0, <2>1, Zenon DEF OperationState, Phases
  <2>3. s # Nil
    BY <2>2, NilIsNoRecord, Zenon
  <2> HIDE DEF s
  <2>4. Stage' = "terminating" /\ Current' = Current
    BY <2>1, <2>2, <2>3, Zenon DEF Stage, Current
  <2>5. CASE Stage = "terminating"
    BY <1>2, <1>5, <2>1, <2>4, <2>5, Zenon
  <2>6. CASE Stage = "running"
    <3>1. Lifecycle!Terminate
      BY <1>5, <2>1, <2>4, <2>6, Zenon DEF Lifecycle!Terminate, Stage, Current, Started
    <3> QED
      BY <3>1, Zenon DEF Lifecycle!Next
  <2> QED
    BY <2>1, <2>5, <2>6, StageFacts, Zenon
<1>9. CASE Starts
  <2>1. /\ E' = E /\ app'.op = app.op /\ app'.os = state
        /\ app.op \in Operation /\ app.os = Nil /\ starts[app.op.id] = 0
        /\ state \in OperationState /\ state.phase = "Running"
        /\ starts' = [starts EXCEPT ![app.op.id] = 1]
    BY <1>4, <1>9, Zenon DEF Starts
  <2>2. app.op # Nil /\ state # Nil /\ app.op.id \in 1..MaxOps
    BY <2>1, NilIsNoRecord, Zenon DEF Operation
  <2>3. Stage = "requested" /\ Stage' = "running" /\ Current' = Current /\ Current = app.op.id
    BY <2>1, <2>2, Zenon DEF Stage, Current
  <2>4. Started' = Started \union {app.op.id} /\ app.op.id \notin Started
    BY <1>0, <2>1, <2>2 DEF Started
  <2>5. Lifecycle!Start
    BY <2>1, <2>3, <2>4, Zenon DEF Lifecycle!Start, Stage, Current, Started
  <2> QED
    BY <2>5, Zenon DEF Lifecycle!Next
<1>10. CASE Reports /\ app' # Removed
  <2>1. PICK s \in OperationState :
          /\ s.op = app.op
          /\ Effect(IF Completed(s.phase) THEN Nil ELSE app.op, s, app.history)
    BY <1>10, Zenon DEF Reports
  <2>2. /\ E' = E /\ app'.os = s /\ UNCHANGED starts
        /\ app'.op = IF Completed(s.phase) THEN Nil ELSE app.op
        /\ app.op \in Operation /\ app.os # Nil
    BY <1>4, <1>10, <2>1, Zenon DEF Reports
  <2>3. app.op # Nil /\ s # Nil
    BY <2>1, <2>2, NilIsNoRecord, Zenon
  <2>4. Stage \in {"running", "terminating"}
    BY <2>2, <2>3, StageFacts, Zenon
  <2>5. CASE Completed(s.phase)
    <3>1. Stage' = "free" /\ Current' = Nil
      BY <2>2, <2>5, Zenon DEF Stage, Current
    <3>2. Lifecycle!End
      BY <1>5, <2>2, <2>4, <3>1, Zenon DEF Lifecycle!End, Stage, Current, Started
    <3> QED
      BY <3>2, Zenon DEF Lifecycle!Next
  <2>6. CASE ~Completed(s.phase)
    <3>1. app'.op = app.op
      BY <2>2, <2>6, Zenon
    <3>2. /\ Current' = Current
          /\ Stage' = IF s.phase = "Terminating" THEN "terminating" ELSE "running"
      BY <2>2, <2>3, <3>1, Zenon DEF Stage, Current
    <3>3. CASE Stage' = Stage
      BY <1>2, <1>5, <2>2, <3>2, <3>3, Zenon
    <3>4. CASE Stage = "running" /\ Stage' = "terminating"
      <4>1. Lifecycle!Terminate
        BY <1>5, <2>2, <3>2, <3>4, Zenon DEF Lifecycle!Terminate, Stage, Current, Started
      <4> QED
        BY <4>1, Zenon DEF Lifecycle!Next
    <3>5. CASE Stage = "terminating" /\ Stage' = "running"
      <4>1. Lifecycle!ForgetTermination
        BY <1>5, <2>2, <3>2, <3>5, Zenon DEF Lifecycle!ForgetTermination, Stage, Current, Started
      <4> QED
        BY <4>1, Zenon DEF Lifecycle!Next
    <3> QED
      BY <2>4, <3>2, <3>3, <3>4, <3>5, Zenon
  <2> QED
    BY <2>5, <2>6, Zenon
<1>11. Starts \/ UNCHANGED starts
  BY <1>1, Zenon DEF Quiet, Accepts, Terminates, Records, Reports
<1> QED
  BY <1>1, <1>3, <1>6, <1>7, <1>8, <1>9, <1>10, <1>11, Zenon

\* SetAppOperation, TerminateOperation, the worker and deletion implement
\* OperationLifecycle: one operation at a time, each started at most once, none
\* forgotten.
THEOREM LifecycleImplemented ==
    ASSUME Prompt
    PROVE  Spec => ImplementsLifecycle
<1>1. Init => Lifecycle!Init
  <2> SUFFICES ASSUME Init PROVE Lifecycle!Init
    OBVIOUS
  <2>1. app.exists = TRUE /\ app.op = Nil /\ starts = [i \in 1..MaxOps |-> 0]
    BY Zenon DEF Init, Removed
  <2>2. Started = {}
    BY <2>1 DEF Started
  <2> QED
    BY <2>1, <2>2, Zenon DEF Lifecycle!Init, Started
<1>2. Init => Settled
  BY DEF Init, Removed, Settled, Stored
<1>3. PromptInv /\ PromptInv' /\ Settled /\ [Next]_vars => [Lifecycle!Next]_Lifecycle!vars
  <2>1. UNCHANGED vars => UNCHANGED Lifecycle!vars
    BY Zenon DEF vars, Lifecycle!vars, workerVars
  <2> QED
    BY <2>1, LifecycleStep, Zenon
<1> QED
  BY <1>1, <1>2, <1>3, SettledStep, PromptInit, PromptStep, PTL
  DEF Spec, ImplementsLifecycle, Lifecycle!Spec
=============================================================================
