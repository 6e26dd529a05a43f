---------------------------- MODULE AppOperation ----------------------------
(***************************************************************************)
(* The life of an operation (a sync or a rollback) on one Application:     *)
(* the object in the Kubernetes API server, the API server's handlers that *)
(* request, terminate and delete, and the application controller's         *)
(* operation worker, which learns of changes through a shared informer.    *)
(*                                                                         *)
(* One application is enough: the work queue never hands the same key to   *)
(* two workers, so the workers of different applications share no state.   *)
(* A SyncAppState pass is taken here by its outcome only.                  *)
(***************************************************************************)
EXTENDS Integers, Sequences

CONSTANTS
    Nil,            \* an absent pointer field
    MaxOps,         \* bound: Sync and Rollback calls
    MaxDeletes,     \* bound: Delete calls
    MaxHistory,     \* maxHistoryCnt
    MaxProgress,    \* bound: distinct sync results of one operation
    MaxLag,         \* bound: pending events of the informer's watch
    MaxStale,       \* events pending when a worker takes the key
    MaxCrashes,     \* bound: controller restarts
    MaxLostReplies  \* bound: operation state patches applied, reply lost

Operation == [id : 1..MaxOps, full : BOOLEAN]
SyncResult == [id : 1..MaxOps, progress : 0..MaxProgress]
Phases == {"Running", "Terminating", "Succeeded", "Failed", "Error"}
OperationState ==
    [phase : Phases, op : Operation, res : SyncResult \union {Nil}]
Histories == {h \in Seq(1..MaxOps) : Len(h) <= MaxHistory}
Application ==
    [exists : BOOLEAN, deleting : BOOLEAN, finalizer : BOOLEAN,
     op : Operation \union {Nil}, os : OperationState \union {Nil},
     history : Histories]

ASSUME BoundsAssumption ==
    /\ MaxOps \in Nat \ {0} /\ MaxHistory \in Nat \ {0}
    /\ MaxDeletes \in Nat /\ MaxProgress \in Nat
    /\ MaxLag \in Nat \ {0} /\ MaxStale \in Nat
    /\ MaxCrashes \in Nat /\ MaxLostReplies \in Nat

ASSUME NilAssumption ==
    Nil \notin Operation \union OperationState \union SyncResult

VARIABLES
    app,        \* the Application object in the API server
    watch,      \* changes of app the informer has yet to receive
    informer,   \* the informer's copy of app
    dirty,      \* the key waits in appOperationQueue
    pc,         \* where the operation worker is
    wapp,       \* the copy of the application the worker works with
    state,      \* its local *OperationState
    forced,     \* the application is in forceRefreshApps
    live,       \* the resources labelled with the application's name
    call,       \* a Sync or Rollback call past its checks
    del,        \* how many Delete calls are at each of their steps
    requests, deletes, crashes, lost,   \* counters of the bounded events
    starts      \* history variable: how often each operation was started,
                \* counted up to 2

apiVars == <<call, del, requests, deletes>>
informerVars == <<informer, dirty, forced>>
workerVars == <<pc, wapp, state, crashes, lost, starts>>
vars == <<app, watch, informerVars, workerVars, live, apiVars>>
-----------------------------------------------------------------------------
Completed(phase) == phase \in {"Succeeded", "Failed", "Error"}

\* Fault: an operation that is terminating does not count.
isOperationInProgress_OnlyRunning(a) == a.os # Nil /\ a.os.phase = "Running"

isOperationInProgress(a) == a.os # Nil /\ ~Completed(a.os.phase)

Removed ==
    [exists |-> FALSE, deleting |-> FALSE, finalizer |-> FALSE,
     op |-> Nil, os |-> Nil, history |-> <<>>]

\* Kubernetes removes an object that is deleted and has no finalizer left.
Stored(a) == IF a.deleting /\ ~a.finalizer THEN Removed ELSE a

\* Every change of the object is also an event of the informer's watch.  At
\* the bound the oldest event goes: as if it had come with the next one.
Write(a) ==
    /\ app' = Stored(a)
    /\ watch' = Append(IF Len(watch) < MaxLag THEN watch ELSE Tail(watch),
                       Stored(a))

\* A JSON merge patch leaves what the patch omits: a nil syncResult, which
\* has omitempty, keeps the one stored before.
MergePatch(old, new) ==
    IF old # Nil /\ new.res = Nil THEN [new EXCEPT !.res = old.res] ELSE new
-----------------------------------------------------------------------------
(* The API server's handlers.  A Get followed by an Update of the object   *)
(* that was read, retried on conflict, changes the object atomically.      *)

\* Server.Sync: the object is read and checked before SetAppOperation
\* reads it again.
Sync ==
    /\ call = Nil /\ requests < MaxOps
    /\ app.exists /\ ~app.deleting
    /\ \E full \in BOOLEAN : call' = [id |-> requests + 1, full |-> full]
    /\ requests' = requests + 1
    /\ UNCHANGED <<app, watch, informerVars, workerVars, live, del, deletes>>

\* Server.Rollback: the same, for a revision of the deployment history.
Rollback ==
    /\ call = Nil /\ requests < MaxOps
    /\ app.exists /\ ~app.deleting /\ app.history # <<>>
    /\ \E dryRun \in BOOLEAN : call' = [id |-> requests + 1, full |-> ~dryRun]
    /\ requests' = requests + 1
    /\ UNCHANGED <<app, watch, informerVars, workerVars, live, del, deletes>>

\* Fault: the result of the operation before is kept.
SetAppOperation_KeepsState ==
    /\ call # Nil
    /\ call' = Nil
    /\ \/ /\ app.exists /\ app.op = Nil
          /\ Write([app EXCEPT !.op = call])
       \/ /\ ~app.exists \/ app.op # Nil
          /\ UNCHANGED <<app, watch>>
    /\ UNCHANGED <<informerVars, workerVars, live, del, requests, deletes>>

\* Fault: an operation in progress is replaced.
SetAppOperation_NoBusyCheck ==
    /\ call # Nil
    /\ call' = Nil
    /\ app.exists /\ Write([app EXCEPT !.op = call, !.os = Nil])
    /\ UNCHANGED <<informerVars, workerVars, live, del, requests, deletes>>

SetAppOperation ==
    /\ call # Nil
    /\ call' = Nil
    /\ \/ /\ app.exists /\ app.op = Nil
          /\ Write([app EXCEPT !.op = call, !.os = Nil])
       \/ /\ ~app.exists \/ app.op # Nil
          /\ UNCHANGED <<app, watch>>
    /\ UNCHANGED <<informerVars, workerVars, live, del, requests, deletes>>

TerminateOperation ==
    /\ app.exists /\ app.op # Nil /\ app.os # Nil
    /\ Write([app EXCEPT !.os.phase = "Terminating"])
    /\ UNCHANGED <<informerVars, workerVars, live, apiVars>>

\* Server.Delete reads the application, patches the finalizer if the copy does
\* not have what the call asks for, and deletes the object.  Other calls come
\* between: projectLock is taken after the read, in each server instance.
DeleteSteps == {"set", "unset", "delete"}

DeleteGet ==
    /\ deletes < MaxDeletes /\ app.exists
    /\ \E cascade \in BOOLEAN :
          LET step == IF app.finalizer = cascade THEN "delete"
                      ELSE IF cascade THEN "set" ELSE "unset"
          IN  del' = [del EXCEPT ![step] = @ + 1]
    /\ deletes' = deletes + 1
    /\ UNCHANGED <<app, watch, informerVars, workerVars, live, call, requests>>

\* A call whose patch fails returns.
DeletePatchFinalizer ==
    /\ \E step \in {"set", "unset"} :
          /\ del[step] > 0
          /\ \/ /\ app.exists
                /\ Write([app EXCEPT !.finalizer = (step = "set")])
                /\ del' = [del EXCEPT ![step] = @ - 1, !["delete"] = @ + 1]
             \/ /\ UNCHANGED <<app, watch>>
                /\ del' = [del EXCEPT ![step] = @ - 1]
    /\ UNCHANGED <<informerVars, workerVars, live, call, requests, deletes>>

Delete ==
    /\ del["delete"] > 0
    /\ del' = [del EXCEPT !["delete"] = @ - 1]
    /\ \/ app.exists /\ Write([app EXCEPT !.deleting = TRUE])
       \/ UNCHANGED <<app, watch>>
    /\ UNCHANGED <<informerVars, workerVars, live, call, requests, deletes>>

\* A change of fields the model leaves out: the refresh worker's status
\* patch, a refresh request, an update of the spec.
UpdateOtherFields ==
    /\ app.exists
    /\ Write(app)
    /\ UNCHANGED <<informerVars, workerVars, live, apiVars>>
-----------------------------------------------------------------------------
(* The informer and appOperationQueue.                                     *)

\* Added and changed applications are queued, removed ones are not.
DeliverEvent ==
    /\ watch # <<>>
    /\ informer' = Head(watch)
    /\ watch' = Tail(watch)
    /\ dirty' = (dirty \/ Head(watch).exists)
    /\ UNCHANGED <<app, forced, workerVars, live, apiVars>>

\* The watch broke and the informer listed the objects anew.
Relist ==
    /\ watch # <<>>
    /\ informer' = app
    /\ watch' = <<>>
    /\ dirty' = (dirty \/ app.exists)
    /\ UNCHANGED <<app, forced, workerVars, live, apiVars>>

\* Fault: the informer is made without a resync period.
Resync_Off == FALSE

\* The informer repeats every object each statusRefreshTimeout.
Resync ==
    /\ informer.exists /\ ~dirty
    /\ dirty' = TRUE
    /\ UNCHANGED <<app, watch, informer, forced, workerVars, live, apiVars>>

\* The refresh worker takes the forced refresh and, for an application with
\* automated sync, calls SetAppOperation when its copy shows no operation.
\* Its status patch is an UpdateOtherFields.
autoSync ==
    /\ informer.exists
    /\ forced' = FALSE
    /\ \/ /\ call = Nil /\ requests < MaxOps
          /\ informer.op = Nil
          /\ call' = [id |-> requests + 1, full |-> TRUE]
          /\ requests' = requests + 1
       \/ UNCHANGED <<call, requests>>     \* manual, in sync or attempted
    /\ UNCHANGED <<app, watch, informer, dirty, workerVars, live, del, deletes>>
-----------------------------------------------------------------------------
(* The operation worker.                                                   *)

Idle == [os |-> Nil, history |-> <<>>]

Copy(a) == [os |-> a.os, history |-> a.history]

\* The worker is done with the key.
Done ==
    /\ pc' = "idle"
    /\ wapp' = Idle
    /\ state' = Nil

\* processAppOperationQueueItem up to its first call of the API server: an
\* operation comes before a deletion, and an operation the informer's copy
\* shows in progress is resumed from a fresh copy.
processAppOperationQueueItem ==
    /\ pc = "idle" /\ dirty
    /\ Len(watch) <= MaxStale
    /\ dirty' = FALSE
    /\ \/ /\ informer.exists /\ informer.op # Nil
          /\ isOperationInProgress(informer)
          /\ pc' = "resume"
          /\ UNCHANGED <<wapp, state>>
       \/ /\ informer.exists /\ informer.op # Nil
          /\ ~isOperationInProgress(informer)
          /\ pc' = "init"
          /\ wapp' = Copy(informer)
          /\ state' = [phase |-> "Running", op |-> informer.op, res |-> Nil]
       \/ /\ informer.exists /\ informer.op = Nil
          /\ informer.deleting /\ informer.finalizer
          /\ pc' = "finalize"
          /\ UNCHANGED <<wapp, state>>
       \/ /\ \/ ~informer.exists
             \/ informer.op = Nil /\ ~(informer.deleting /\ informer.finalizer)
          /\ Done
    /\ UNCHANGED <<app, watch, informer, forced, live, apiVars, crashes, lost,
                   starts>>

\* Fault: the fresh copy is not checked again.
ResumeOperation_NoRecheck ==
    /\ pc = "resume"
    /\ app.exists /\ app.os # Nil
    /\ wapp' = Copy(app)
    /\ state' = app.os
    /\ pc' = "sync"
    /\ UNCHANGED <<app, watch, informerVars, live, apiVars,
                   crashes, lost, starts>>

\* Fault: the fresh copy is waited for until it shows the operation.
ResumeOperation_Waits ==
    /\ pc = "resume"
    /\ app.exists /\ isOperationInProgress(app)
    /\ wapp' = Copy(app)
    /\ state' = app.os
    /\ pc' = "sync"
    /\ UNCHANGED <<app, watch, informerVars, live, apiVars,
                   crashes, lost, starts>>

\* The copy is read anew; an operation that is over is not performed again.
ResumeOperation ==
    /\ pc = "resume"
    /\ \/ /\ app.exists /\ isOperationInProgress(app)
          /\ wapp' = Copy(app)
          /\ state' = app.os
          /\ pc' = "sync"
       \/ Done     \* it is over, the application is gone, or Get failed
    /\ UNCHANGED <<app, watch, informerVars, live, apiVars,
                   crashes, lost, starts>>

\* Fault: a completed operation stays in the operation field.
PatchOperationState_KeepsOperation ==
    /\ app.exists
    /\ Write([app EXCEPT !.os = MergePatch(app.os, state)])

\* Fault: every patch clears the operation field.
PatchOperationState_AlwaysClears ==
    /\ app.exists
    /\ Write([app EXCEPT !.os = MergePatch(app.os, state), !.op = Nil])

\* The patch of setOperationState.  A completed operation also leaves the
\* operation field.
PatchOperationState ==
    /\ app.exists
    /\ Write([app EXCEPT
                !.os = MergePatch(app.os, state),
                !.op = IF Completed(state.phase) THEN Nil ELSE app.op])

\* setOperationState retries its patch until it succeeds, also when the
\* patch was applied but its reply was lost.
LoseReply ==
    /\ pc \in {"init", "set"} /\ lost < MaxLostReplies
    /\ ~(pc = "set" /\ wapp.os = state)
    /\ PatchOperationState
    /\ lost' = lost + 1
    /\ UNCHANGED <<informerVars, pc, wapp, state, crashes, starts, live,
                   apiVars>>

\* The new operation is persisted as Running before any work is done.
InitializeOperation ==
    /\ pc = "init"
    /\ PatchOperationState
    /\ pc' = "sync"
    /\ starts' = [starts EXCEPT ![state.op.id] = IF @ = 0 THEN 1 ELSE 2]
    /\ UNCHANGED <<informerVars, wapp, state, crashes, lost, live, apiVars>>

\* What a pass of SyncAppState may leave in the operation state.  The sync
\* result is created by the first pass; a terminating operation always
\* completes; a panic is turned into an error.
SyncOutcomes(s) ==
    LET before == IF s.res = Nil THEN [id |-> s.op.id, progress |-> 0]
                                 ELSE s.res
        after == {r \in SyncResult :
                    r.id = before.id /\ r.progress - before.progress \in {0, 1}}
        phases == IF s.phase = "Terminating"
                  THEN {"Failed", "Error"}
                  ELSE {"Running", "Succeeded", "Failed", "Error"}
    IN  [phase : phases, op : {s.op}, res : after]

SyncAppState ==
    /\ pc = "sync"
    /\ state' \in SyncOutcomes(state)
    /\ live' \in IF state.phase = "Terminating" THEN {live}
                 ELSE {live, "present"}
    /\ pc' = CASE state'.phase = "Succeeded" /\ state.op.full -> "persist"
               [] state'.phase = "Running" -> "check"
               [] OTHER -> "set"
    /\ UNCHANGED <<app, watch, informerVars, wapp, crashes, lost, starts,
                   apiVars>>

\* Fault: the history is never trimmed.
Deployed_Untrimmed(history, id) == Append(history, id)

\* Fault: the bound of the slice is one too low.
Deployed_OffByOne(history, id) ==
    LET h == Append(history, id)
    IN  IF Len(h) > MaxHistory THEN SubSeq(h, 2, MaxHistory) ELSE h

\* The new deployment history, made from the worker's copy of the old one.
Deployed(history, id) ==
    LET h == Append(history, id)
    IN  IF Len(h) > MaxHistory THEN SubSeq(h, 2, MaxHistory + 1) ELSE h

\* Fault: a failure to record the deployment is ignored.
persistDeploymentInfo_IgnoresError ==
    /\ pc = "persist"
    /\ \/ /\ app.exists
          /\ Write([app EXCEPT !.history = Deployed(wapp.history, state.op.id)])
       \/ UNCHANGED <<app, watch>>
    /\ pc' = "set"
    /\ UNCHANGED <<informerVars, wapp, state, crashes, lost, starts, live,
                   apiVars>>

persistDeploymentInfo ==
    /\ pc = "persist"
    /\ \/ /\ app.exists
          /\ Write([app EXCEPT !.history = Deployed(wapp.history, state.op.id)])
          /\ UNCHANGED state
       \/ /\ state' = [state EXCEPT !.phase = "Error"]
          /\ UNCHANGED <<app, watch>>
    /\ pc' = "set"
    /\ UNCHANGED <<informerVars, wapp, crashes, lost, starts, live, apiVars>>

\* A termination requested during the pass is not to be overwritten.
CheckTerminating ==
    /\ pc = "check"
    /\ \/ /\ app.exists /\ app.os # Nil /\ app.os.phase = "Terminating"
          /\ state' = [state EXCEPT !.phase = "Terminating"]
       \/ UNCHANGED state      \* not terminated, or Get failed
    /\ pc' = "set"
    /\ UNCHANGED <<app, watch, informerVars, wapp, crashes, lost, starts,
                   live, apiVars>>

\* The patch is left out when it would not change the worker's copy.  A
\* completed operation forces a refresh.
SetOperationState ==
    /\ pc = "set"
    /\ \/ wapp.os # state /\ PatchOperationState
       \/ wapp.os = state /\ UNCHANGED <<app, watch>>
    /\ forced' = (forced \/ Completed(state.phase))
    /\ Done
    /\ UNCHANGED <<informer, dirty, crashes, lost, starts, live, apiVars>>
-----------------------------------------------------------------------------
(* finalizeApplicationDeletion.                                            *)

\* An error ends the pass; setAppCondition stores it, if it can.
FailDeletion ==
    /\ \/ app.exists /\ Write(app)
       \/ UNCHANGED <<app, watch>>
    /\ Done
    /\ UNCHANGED live

\* The application is read anew, if it is still there, and its resources are deleted.
DeleteResourcesWithLabel ==
    /\ pc = "finalize"
    /\ \/ /\ app.exists
          /\ live' = IF live = "present" THEN "terminating" ELSE live
          /\ pc' = "list"
          /\ UNCHANGED <<app, watch, wapp, state>>
       \/ FailDeletion
    /\ UNCHANGED <<informerVars, crashes, lost, starts, apiVars>>

\* Fault: resources left do not hold up the finalizer.
GetResourcesWithLabel_NoCheck ==
    /\ pc = "list"
    /\ pc' = "remove"
    /\ UNCHANGED <<app, watch, wapp, state, live>>
    /\ UNCHANGED <<informerVars, crashes, lost, starts, apiVars>>

\* The finalizer stays while a resource is left.
GetResourcesWithLabel ==
    /\ pc = "list"
    /\ \/ /\ live = "none"
          /\ pc' = "remove"
          /\ UNCHANGED <<app, watch, wapp, state, live>>
       \/ /\ live # "none"
          /\ Done
          /\ UNCHANGED <<app, watch, live>>
       \/ FailDeletion
    /\ UNCHANGED <<informerVars, crashes, lost, starts, apiVars>>

RemoveFinalizer ==
    /\ pc = "remove"
    /\ \/ /\ app.exists /\ Write([app EXCEPT !.finalizer = FALSE])
          /\ Done
          /\ UNCHANGED live
       \/ FailDeletion
    /\ UNCHANGED <<informerVars, crashes, lost, starts, apiVars>>

\* Foreground deletion of the resources ends.
ResourcesGone ==
    /\ live = "terminating"
    /\ live' = "none"
    /\ UNCHANGED <<app, watch, informerVars, workerVars, apiVars>>

\* The controller restarts: its informer lists the applications and adds
\* each of them to the queue.
Restart ==
    /\ crashes < MaxCrashes
    /\ crashes' = crashes + 1
    /\ informer' = app
    /\ watch' = <<>>
    /\ dirty' = app.exists
    /\ forced' = FALSE
    /\ Done
    /\ UNCHANGED <<app, lost, starts, live, apiVars>>
-----------------------------------------------------------------------------
\* An application can be created with the finalizer.
Init ==
    /\ \E f \in BOOLEAN :
          app = [Removed EXCEPT !.exists = TRUE, !.finalizer = f]
    /\ watch = <<>>
    /\ informer = app
    /\ dirty = TRUE /\ forced = FALSE
    /\ pc = "idle" /\ wapp = Idle /\ state = Nil
    /\ live \in {"none", "present"}
    /\ call = Nil /\ del = [step \in DeleteSteps |-> 0]
    /\ requests = 0 /\ deletes = 0 /\ crashes = 0 /\ lost = 0
    /\ starts = [i \in 1..MaxOps |-> 0]

Worker ==
    \/ processAppOperationQueueItem
    \/ ResumeOperation \/ InitializeOperation \/ SyncAppState
    \/ persistDeploymentInfo \/ CheckTerminating \/ SetOperationState
    \/ DeleteResourcesWithLabel \/ GetResourcesWithLabel \/ RemoveFinalizer

Next ==
    \/ Sync \/ Rollback \/ SetAppOperation \/ TerminateOperation
    \/ DeleteGet \/ DeletePatchFinalizer \/ Delete \/ UpdateOtherFields
    \/ DeliverEvent \/ Relist \/ Resync \/ autoSync
    \/ Worker \/ LoseReply \/ ResourcesGone \/ Restart

Spec == Init /\ [][Next]_vars

\* The informer, its resync and the queue's worker, which is at one step at a
\* time, keep running.  Assumed of the environment: a pass of SyncAppState,
\* and the calls of the API server and of the cluster, do not fail for ever,
\* and deleted resources go away.
Fairness ==
    /\ WF_vars(DeliverEvent) /\ WF_vars(Resync)
    /\ WF_vars(processAppOperationQueueItem)
    /\ WF_vars(ResumeOperation) /\ SF_vars(ResumeOperation /\ pc' = "sync")
    /\ SF_vars(SyncAppState /\ Completed(state'.phase))
    /\ WF_vars(\/ InitializeOperation \/ persistDeploymentInfo \/ CheckTerminating
               \/ SetOperationState \/ GetResourcesWithLabel \/ RemoveFinalizer)
    /\ SF_vars(DeleteResourcesWithLabel /\ pc' = "list")
    /\ SF_vars(GetResourcesWithLabel /\ pc' = "remove")
    /\ SF_vars(RemoveFinalizer /\ ~app'.finalizer)
    /\ WF_vars(ResourcesGone)

FairSpec == Spec /\ Fairness
-----------------------------------------------------------------------------
\* The object, the copies of it and the bounded counters keep their types.
TypeOK ==
    /\ app \in Application
    /\ watch \in Seq(Application) /\ Len(watch) <= MaxLag
    /\ informer \in Application
    /\ dirty \in BOOLEAN /\ forced \in BOOLEAN
    /\ pc \in {"idle", "resume", "init", "sync", "persist", "check", "set",
               "finalize", "list", "remove"}
    /\ wapp \in [os : OperationState \union {Nil}, history : Histories]
    /\ state \in OperationState \union {Nil}
    /\ live \in {"none", "present", "terminating"}
    /\ call \in Operation \union {Nil}
    /\ del \in [DeleteSteps -> Nat]
    /\ requests \in 0..MaxOps /\ deletes \in 0..MaxDeletes
    /\ crashes \in 0..MaxCrashes /\ lost \in 0..MaxLostReplies
    /\ starts \in [1..MaxOps -> 0..2]

\* An operation that waits or runs is never stored beside the result of a
\* finished one: SetAppOperation clears operationState in the update that
\* sets the operation, and completion clears the operation in the patch
\* that stores the result.  TerminateOperation relies on it.
PendingNotCompleted ==
    app.op # Nil /\ app.os # Nil => ~Completed(app.os.phase)

\* No operation is started twice ("We don't want to perform the operation
\* again", processRequestedAppOperation).
StartedOnce == \A i \in 1..MaxOps : starts[i] <= 1

\* While operationState shows an operation in progress, it is the one the
\* operation field holds, so it can be resumed and terminated.
InProgressIsRequested ==
    isOperationInProgress(app) => app.op = app.os.op

\* The sync result stored in operationState was made by the operation
\* stored there, although merge patches keep a result they omit.
ResultOfOperation ==
    app.os # Nil /\ app.os.res # Nil => app.os.res.id = app.os.op.id

\* An operation leaves the operation field only by its own completion.
OperationKept ==
    [][app.op # Nil /\ app'.exists /\ app'.op # app.op =>
         /\ app'.op = Nil
         /\ app'.os # Nil /\ app'.os.op = app.op
         /\ Completed(app'.os.phase)]_vars

\* Recording a deployment loses no entry but the oldest of a full history,
\* although the list is made from the worker's copy.
HistoryKept ==
    [][app.exists /\ app'.exists /\ app'.history # app.history =>
         LET old == app.history
             kept == IF Len(old) < MaxHistory THEN Len(old) ELSE MaxHistory - 1
         IN  /\ Len(app'.history) = kept + 1
             /\ SubSeq(app'.history, 1, kept) =
                    SubSeq(old, Len(old) - kept + 1, Len(old))]_vars

\* A sync of the whole application that shows as succeeded is the latest
\* deployment in the history, where Rollback finds it.
SucceededIsRecorded ==
    app.os # Nil /\ app.os.phase = "Succeeded" /\ app.os.op.full =>
        app.history # <<>> /\ app.history[Len(app.history)] = app.os.op.id

\* An application with the finalizer is removed only when no resource of it is
\* left in the cluster, unless a Delete call that asked for that takes the
\* finalizer away, however the calls and the controller interleave.
NoOrphanedResources ==
    [][app.exists /\ ~app'.exists /\ app.finalizer =>
         live = "none" \/ del'["unset"] < del["unset"]]_vars

\* The operations of the application as OperationLifecycle describes them:
\* one at a time, each started at most once, none forgotten.
Lifecycle == INSTANCE OperationLifecycle WITH
    Ops <- 1..MaxOps,
    None <- Nil,
    present <- app.exists,
    current <- IF app.op = Nil THEN Nil ELSE app.op.id,
    stage <- CASE app.op = Nil -> "free"
               [] app.op # Nil /\ app.os = Nil -> "requested"
               [] OTHER -> IF app.os.phase = "Terminating"
                           THEN "terminating" ELSE "running",
    started <- {i \in 1..MaxOps : starts[i] > 0}

\* SetAppOperation, the operation worker and TerminateOperation implement
\* the life cycle.
ImplementsLifecycle == Lifecycle!Spec

\* A requested operation ends, also across restarts, skipped patches, failed
\* reads and termination requests, unless the application is removed first.
OperationCompletes == app.op # Nil ~> app.op = Nil

\* A deleted application is removed in the end: a pass that finds resources
\* left is repeated, an operation set after the deletion ends first, and the
\* worker gives the key back whatever it finds when it reads anew.
DeletionCompletes == app.deleting ~> ~app.exists

\* A requested termination is not overwritten with Running.
TerminatingNotClobbered ==
    [][app.os # Nil /\ app.os.phase = "Terminating" /\ app'.os # Nil =>
         app'.os.phase # "Running"]_vars
=============================================================================
