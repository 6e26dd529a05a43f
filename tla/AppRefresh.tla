----------------------------- MODULE AppRefresh -----------------------------
(***************************************************************************)
(* How the application controller keeps the status of one Application up   *)
(* to date and starts automated syncs (controller/appcontroller.go): the   *)
(* refresh queue and its worker, the flag that forces a refresh, the watch *)
(* of clusters and of the resources on them, and the requests for a        *)
(* refresh from the API server (util/argo).                                *)
(*                                                                         *)
(* The worker works from the informer's copy, which may be old, compares   *)
(* what it reads from Git and from the cluster, and patches into the       *)
(* stored object what differs from its copy.  Much can go by unnoticed: a  *)
(* watch that breaks, a flag lost in a restart, a pass overtaken by a      *)
(* request, a patch against a copy that is no longer true.  In the end     *)
(* only the expiry of the comparison repairs it.                           *)
(*                                                                         *)
(* Git is one repository, known by the commit at its head, and the live    *)
(* resources are known by the source and the commit whose manifests they   *)
(* match.  Time is known by what the code compares: whether a comparison   *)
(* has expired, and whether it is from after the second of the last        *)
(* request.                                                                *)
(***************************************************************************)
EXTENDS Naturals, Sequences

CONSTANTS
  Paths,      \* what spec.source may be but for its parameter overrides
  Overrides,  \* and its parameter overrides; None is their absence
  Commits,    \* the commits of the repository, as numbers in their order
  Worlds,     \* what happens around the controller: sets of event names
  MaxClusterEvents,  \* bound on the cluster events under way
  None        \* absent: no object, no operation, no resources

\* A source, and what a sync operation asks for.
Sources == [path : Paths, overrides : Overrides \union {None}]
Operations == [commit : Commits, overrides : Overrides \union {None}]

\* An Application, and what a comparison leaves for the patch.
Statuses == {"", "Unknown", "Synced", "OutOfSync"}
Ages == {"none", "recent", "old"}
Applications ==
  [source : Sources, auto : BOOLEAN, op : Operations \union {None},
   synced : Operations \union {None}, status : Statuses, to : Sources \union {None},
   at : Ages]
Results ==
  [status : Statuses, to : Sources \union {None}, at : Ages, sameTime : BOOLEAN,
   late : BOOLEAN, commit : Commits \union {None}]

\* There is a path and a first commit, and absent is none of the values.
ASSUME RefreshAssumption ==
  /\ Paths # {} /\ \E c \in Commits : \A d \in Commits : c <= d
  /\ None \notin Sources /\ None \notin Operations /\ None \notin Commits
  /\ None \notin Applications /\ None \notin Results

VARIABLES
  world,     \* the events of this behaviour
  settled,   \* nothing happens around the controller any more
  git,       \* the commit at the head
  live,      \* the source and commit the resources on the cluster match
  cluster,   \* the cluster is registered
  app,       \* the stored Application
  informer,  \* the controller's copy of it
  queued,    \* the key waits in appRefreshQueue
  forced,    \* the application is in forceRefreshApps
  pc, copy, res,   \* the refresh worker: its step, its copy, its comparison
  opDone,    \* an operation is over, its worker has yet to force a refresh
  rw,        \* the watch of the cluster's resources
  event,     \* it has an event to deliver
  adding,    \* its handler has set the flag and has yet to queue the key
  clusterWatch,  \* WatchClusters runs
  clusterEvents, \* and has these events to deliver
  appEvent,  \* onAppModified is to be called
  second,    \* the clock shows the second of the last request for a refresh
  answered,  \* the stored comparison is from after that request
  waiting,   \* a Get waits in WaitForRefresh
  unseen     \* history: no pass has begun since the last change of live

outside == <<world, settled, git, cluster>>
worker == <<pc, copy, res>>
watches == <<rw, event, adding, clusterWatch, clusterEvents, appEvent>>
requests == <<second, answered, waiting>>
vars == <<outside, live, app, informer, queued, forced, worker, opDone, watches,
          requests, unseen>>

-----------------------------------------------------------------------------
\* An Application as it is created: never compared, no operation.
NewSource == [path |-> CHOOSE p \in Paths : TRUE, overrides |-> None]
NewApp ==
  [source |-> NewSource, auto |-> "auto" \in world,
   op |-> None, synced |-> None, status |-> "", to |-> None, at |-> "none"]

\* What a comparison of the source with the live resources results in.
Compared(source) == IF live = <<source, git>> THEN "Synced" ELSE "OutOfSync"

\* What the status should say.
Truth(a) == IF cluster THEN Compared(a.source) ELSE "Unknown"

\* Resources that match no manifests.
Edited == <<None, None>>

\* The event may happen.
Happens(e) == ~settled /\ e \in world

\* The live resources change; a watch that runs has an event of it.  Where no
\* watch can run the history is not kept.
LiveBecomes(v) ==
  /\ live' = v
  /\ unseen' = ("unwatched" \notin world)
  /\ event' = (event \/ rw = "on")

\* Fault: a comparison never expires.
needRefreshAppStatus_NoExpiry(a, isForced) ==
  isForced \/ a.source # a.to \/ a.at = "none"

\* The conditions of needRefreshAppStatus: the flag, which the caller takes, a
\* source that is not the one compared, an expired comparison.
needRefreshAppStatus(a, isForced) ==
  isForced \/ a.source # a.to \/ a.at # "recent"

\* Fault: every revision counts as one that was not tried.
alreadyAttemptedSync_Forgets(a, commit) == FALSE

\* Fault: the parameter overrides are not compared.
alreadyAttemptedSync_AnyOverrides(a, commit) ==
  a.synced # None /\ a.synced.commit = commit

\* The most recent sync was to this commit, with the parameter overrides the
\* application has now.
alreadyAttemptedSync(a, commit) ==
  a.synced # None /\ a.synced.commit = commit /\ a.synced.overrides = a.source.overrides

toggledAutomatedSync(old, new) == new.auto /\ ~old.auto

\* The two-way merge patch of updateAppStatus, applied: it carries the fields
\* in which the comparison differs from the worker's copy.  Times are kept in
\* seconds, so a comparison may have the time of the one before.
Patched(now) ==
  [now EXCEPT !.status = IF res.status = copy.status THEN @ ELSE res.status,
              !.to = IF res.to = copy.to THEN @ ELSE res.to,
              !.at = IF res.sameTime THEN @ ELSE res.at]

-----------------------------------------------------------------------------
\* The controller is about to list the clusters and the application.  Where its
\* watches come to nothing it has done so: that of the clusters has ended, and
\* the resources are on a cluster on which every attempt to watch them fails.
Init ==
  /\ world \in Worlds /\ settled = FALSE
  /\ git = CHOOSE c \in Commits : \A d \in Commits : c <= d
  /\ live = None /\ cluster = TRUE
  /\ app = NewApp
  /\ forced = FALSE
  /\ pc = "idle" /\ copy = None /\ res = None
  /\ opDone = FALSE
  /\ event = FALSE /\ adding = FALSE /\ appEvent = FALSE
  /\ IF "unwatched" \in world
     THEN /\ informer = app /\ queued = TRUE
          /\ rw = "off" /\ clusterWatch = FALSE /\ clusterEvents = <<>>
     ELSE /\ informer = None /\ queued = FALSE
          /\ rw = "none" /\ clusterWatch = TRUE /\ clusterEvents = <<"Added">>
  /\ second = FALSE /\ answered = FALSE /\ waiting = FALSE
  /\ unseen = FALSE

-----------------------------------------------------------------------------
\* What happens around the controller.

\* From some time on nothing does.
Settle ==
  /\ ~settled /\ settled' = TRUE
  /\ UNCHANGED <<world, git, cluster, live, app, informer, queued, forced, worker,
                 opDone, watches, requests, unseen>>

\* Somebody edits the resources on the cluster, puts them right, or deletes them.
Drift ==
  /\ Happens("drift") /\ app # None
  /\ \E v \in {None, Edited, <<app.source, git>>} \ {live} : LiveBecomes(v)
  /\ UNCHANGED <<outside, app, informer, queued, forced, worker, opDone, rw, adding,
                 clusterWatch, clusterEvents, appEvent, requests>>

\* A commit is pushed.  Without a webhook the controller does not hear of it.
Push ==
  /\ Happens("push")
  /\ git' \in Commits /\ git' > git
  /\ UNCHANGED <<world, settled, cluster, live, app, informer, queued, forced, worker,
                 opDone, watches, requests, unseen>>

\* A client changes the source or its parameter overrides, takes that back, or
\* turns automated sync on.
UpdateSpec ==
  /\ app # None
  /\ \/ /\ Happens("source")
        /\ \E p \in Paths \ {NewSource.path} :
             app' = [app EXCEPT !.source = [path |-> p, overrides |-> @.overrides]]
     \/ /\ Happens("overrides")
        /\ \E o \in Overrides :
             app' = [app EXCEPT !.source = [path |-> @.path, overrides |-> o]]
     \/ Happens("reset") /\ app' = [app EXCEPT !.source = NewSource]
     \/ Happens("toggle") /\ ~app.auto /\ app' = [app EXCEPT !.auto = TRUE]
  /\ UNCHANGED <<outside, live, informer, queued, forced, worker, opDone, watches,
                 requests, unseen>>

\* The application is deleted, or one of that name is created.
Recreate ==
  /\ Happens("recreate")
  /\ app' = IF app = None THEN NewApp ELSE None
  /\ answered' = FALSE
  /\ UNCHANGED <<outside, live, informer, queued, forced, worker, opDone, watches,
                 second, waiting, unseen>>

\* A cluster is registered or removed; WatchClusters, if it runs, hears of it.
ChangeCluster ==
  /\ Happens("cluster") /\ Len(clusterEvents) < MaxClusterEvents
  /\ cluster' = ~cluster
  /\ clusterEvents' =
       IF clusterWatch THEN Append(clusterEvents, IF cluster THEN "Deleted" ELSE "Added")
                       ELSE clusterEvents
  /\ UNCHANGED <<world, settled, git, live, app, informer, queued, forced, worker, opDone,
                 rw, event, adding, clusterWatch, appEvent, requests, unseen>>

\* Time passes: beyond the second of the request, and until what has been
\* compared expires.
NextSecond ==
  /\ second /\ second' = FALSE
  /\ UNCHANGED <<outside, live, app, informer, queued, forced, worker, opDone, watches,
                 answered, waiting, unseen>>

Aged(a) == IF a # None /\ a.at = "recent" THEN [a EXCEPT !.at = "old"] ELSE a

Expire ==
  /\ Aged(app) # app \/ Aged(informer) # informer
  /\ app' = Aged(app) /\ informer' = Aged(informer)
  /\ copy' = Aged(copy) /\ res' = Aged(res)
  /\ second' = FALSE
  /\ UNCHANGED <<outside, live, queued, forced, pc, opDone, watches, answered, waiting,
                 unseen>>

\* The controller restarts.  The informer lists the application, which queues
\* it and calls onAppModified; what was in memory is gone.
Restart ==
  /\ Happens("crash")
  /\ informer' = app /\ queued' = (app # None) /\ forced' = FALSE
  /\ pc' = "idle" /\ copy' = None /\ res' = None /\ opDone' = FALSE
  /\ rw' = "none" /\ event' = FALSE /\ adding' = FALSE
  /\ clusterWatch' = TRUE /\ clusterEvents' = IF cluster THEN <<"Added">> ELSE <<>>
  /\ appEvent' = (app # None)
  /\ UNCHANGED <<outside, live, app, requests, unseen>>

-----------------------------------------------------------------------------
\* The informer.

\* It receives the stored object as it is now; versions between may be skipped,
\* as in a relist.  A policy that turned automatic forces a refresh.  An object
\* that came or went is also told to onAppModified, which cannot read what a
\* relist says of one that went.
Deliver ==
  /\ informer # app
  /\ informer' = app
  /\ forced' = (forced \/ (informer # None /\ app # None
                            /\ toggledAutomatedSync(informer, app)))
  /\ queued' = TRUE
  /\ appEvent' \in IF informer = None THEN {TRUE}
                    ELSE IF app = None THEN {TRUE, appEvent} ELSE {appEvent}
  /\ UNCHANGED <<outside, live, app, worker, opDone, rw, event, adding, clusterWatch,
                 clusterEvents, requests, unseen>>

\* Every statusRefreshTimeout it repeats what it has.
Resync ==
  /\ informer # None /\ ~queued
  /\ queued' = TRUE
  /\ UNCHANGED <<outside, live, app, informer, forced, worker, opDone, watches, requests,
                 unseen>>

-----------------------------------------------------------------------------
\* The refresh worker.

\* Fault: it is not checked that the application is there.
processAppRefreshQueueItem_Gone ==
  /\ pc = "idle" /\ queued
  /\ queued' = FALSE
  /\ IF informer = None \/ needRefreshAppStatus(informer, forced)
     THEN pc' = "compare" /\ copy' = informer /\ unseen' = FALSE
     ELSE UNCHANGED <<pc, copy, unseen>>
  /\ forced' = FALSE
  /\ UNCHANGED <<outside, live, app, informer, res, opDone, watches, requests>>

\* The worker takes the key and, if the application is there, the flag, and
\* stops unless a refresh is needed.
processAppRefreshQueueItem ==
  /\ pc = "idle" /\ queued
  /\ queued' = FALSE
  /\ IF informer # None /\ needRefreshAppStatus(informer, forced)
     THEN pc' = "compare" /\ copy' = informer /\ unseen' = FALSE
     ELSE UNCHANGED <<pc, copy, unseen>>
  /\ forced' = (forced /\ informer = None)
  /\ UNCHANGED <<outside, live, app, informer, res, opDone, watches, requests>>

Result(status, to, at, sameTime, late, commit) ==
  [status |-> status, to |-> to, at |-> at, sameTime |-> sameTime, late |-> late,
   commit |-> commit]

\* refreshAppConditions found errors in the spec, among them a cluster that is
\* not registered: the status is Unknown, the rest stays as in the copy.
refreshAppConditions ==
  /\ pc = "compare" /\ (~cluster \/ Happens("errors"))
  /\ res' = Result("Unknown", copy.to, copy.at, TRUE, FALSE, None)
  /\ pc' = "patch"
  /\ UNCHANGED <<outside, live, app, informer, queued, forced, copy, opDone, watches,
                 requests, unseen>>

\* CompareAppState, with the time at its end, which may be the second of the
\* comparison before.  It may fail to load the target or the live objects, these
\* for sure when the cluster was removed after refreshAppConditions.
\* autoSync goes on for an automatic application that is out of sync, when the
\* copy shows neither an operation nor a sync to that commit with its overrides.
CompareAppState ==
  /\ pc = "compare" /\ (cluster \/ Happens("cluster"))
  /\ \E status \in {Truth(copy)} \union
                    (IF Happens("errors") THEN {"Unknown"} ELSE {}),
        sameTime \in {FALSE, copy.at = "recent"} :
       /\ res' = Result(status, copy.source, "recent", sameTime, ~second, git)
       /\ pc' = IF /\ copy.auto /\ copy.op = None
                   /\ status = "OutOfSync"
                   /\ ~alreadyAttemptedSync(copy, git)
                THEN "sync" ELSE "patch"
  /\ UNCHANGED <<outside, live, app, informer, queued, forced, copy, opDone, watches,
                 requests, unseen>>

\* A comparison that cannot be made at all panics in setApplicationHealth: the
\* pass ends there, and the flag is gone.
ComparePanics ==
  /\ pc = "compare" /\ Happens("errors")
  /\ pc' = "idle" /\ copy' = None
  /\ UNCHANGED <<outside, live, app, informer, queued, forced, res, opDone, watches,
                 requests, unseen>>

\* SetAppOperation reads the application anew and refuses when it has an
\* operation; a new one takes the state of the one before away.  Its commit is
\* that of the comparison, its overrides are those of the worker's copy.  A
\* failed request leaves the application as it is, and the pass goes on.
autoSync ==
  /\ pc = "sync"
  /\ pc' = "patch"
  /\ \/ /\ app # None /\ app.op = None
        /\ app' = [app EXCEPT !.op = [commit |-> res.commit,
                                     overrides |-> copy.source.overrides],
                              !.synced = None]
     \/ /\ app = None \/ app.op # None \/ Happens("apierror")
        /\ app' = app
  /\ UNCHANGED <<outside, live, informer, queued, forced, copy, res, opDone, watches,
                 requests, unseen>>

\* The patch arrives, or it fails, which is only logged.  The pass is over.
WriteStatus(skip) ==
  /\ pc = "patch"
  /\ IF app = None \/ skip THEN UNCHANGED <<app, answered>>
     ELSE \/ /\ app' = Patched(app)
             /\ answered' = IF res.sameTime THEN answered ELSE res.late
          \/ Happens("apierror") /\ UNCHANGED <<app, answered>>
  /\ pc' = "idle" /\ copy' = None /\ res' = None
  /\ UNCHANGED <<outside, live, informer, queued, opDone, watches, second, waiting, unseen>>

\* Fault: the flag is cleared when the pass is over.
updateAppStatus_ClearsFlag == WriteStatus(FALSE) /\ forced' = FALSE

\* Fault: a comparison with the same outcome is not written.
updateAppStatus_StatusOnly == WriteStatus(res.status = copy.status) /\ UNCHANGED forced

\* An empty patch is not sent, which changes as little as sending it.
updateAppStatus == WriteStatus(FALSE) /\ UNCHANGED forced

-----------------------------------------------------------------------------
\* The operation, by what it leaves behind (module AppOperation).

\* The source it compares with: an operation without overrides uses those of the
\* application.
Synced(a) ==
  [path |-> a.source.path,
   overrides |-> IF a.op.overrides = None THEN a.source.overrides ELSE a.op.overrides]

\* It applies the manifests of its commit.
OperationApplies ==
  /\ app # None /\ app.op # None /\ live # <<Synced(app), app.op.commit>>
  /\ LiveBecomes(<<Synced(app), app.op.commit>>)
  /\ UNCHANGED <<outside, app, informer, queued, forced, worker, opDone, rw, adding,
                 clusterWatch, clusterEvents, appEvent, requests>>

\* It ends, whether it has applied them or not.  An error before the commit is
\* known leaves no sync result.
OperationEnds ==
  /\ app # None /\ app.op # None
  /\ \E o \in {app.op} \union (IF Happens("operror") THEN {None} ELSE {}) :
        app' = [app EXCEPT !.op = None, !.synced = o]
  /\ opDone' = TRUE
  /\ UNCHANGED <<outside, live, informer, queued, forced, worker, watches, requests, unseen>>

\* Then its worker forces a refresh, and queues nothing.
ForceAfterOperation ==
  /\ opDone /\ opDone' = FALSE
  /\ forced' = TRUE
  /\ UNCHANGED <<outside, live, app, informer, queued, worker, watches, requests, unseen>>

-----------------------------------------------------------------------------
\* The watches.

\* clusterEventCallback: resources are watched on a registered cluster that has
\* an application.  "off" is a watch that is about to be made.
clusterEventCallback(type) ==
  rw' = IF (type = "Deleted" \/ informer = None) /\ rw # "none" THEN "none"
        ELSE IF type # "Deleted" /\ rw = "none" /\ informer # None THEN "off"
        ELSE rw

ClusterEvent ==
  /\ clusterEvents # <<>>
  /\ clusterEventCallback(Head(clusterEvents))
  /\ clusterEvents' = Tail(clusterEvents)
  /\ event' = (event /\ rw' = "on")
  /\ UNCHANGED <<outside, live, app, informer, queued, forced, worker, opDone, adding,
                 clusterWatch, appEvent, requests, unseen>>

\* onAppModified: the cluster is the watched one, or the registered one.
onAppModified ==
  /\ appEvent /\ appEvent' = FALSE
  /\ IF rw # "none" \/ cluster THEN clusterEventCallback("Modified") ELSE UNCHANGED rw
  /\ event' = (event /\ rw' = "on")
  /\ UNCHANGED <<outside, live, app, informer, queued, forced, worker, opDone, adding,
                 clusterWatch, clusterEvents, requests, unseen>>

\* The channel of WatchClusters closes: it returns no error, so it is not tried
\* again.
WatchClustersEnds ==
  /\ Happens("clusterwatch") /\ clusterWatch
  /\ clusterWatch' = FALSE /\ clusterEvents' = <<>>
  /\ UNCHANGED <<outside, live, app, informer, queued, forced, worker, opDone, rw, event,
                 adding, appEvent, requests, unseen>>

\* A new watch begins with an event for every resource there is.
WatchResources ==
  /\ rw = "off" /\ "unwatched" \notin world
  /\ rw' = "on" /\ event' = (live # None)
  /\ UNCHANGED <<outside, live, app, informer, queued, forced, worker, opDone, adding,
                 clusterWatch, clusterEvents, appEvent, requests, unseen>>

\* The watch of one kind of resources ends.  The channel closes, and the watch is
\* made again, only when those of all kinds have.
WatchBreaks ==
  /\ Happens("watch")
  /\ \/ rw = "on" /\ rw' \in {"silent", "off"}
     \/ rw = "silent" /\ rw' = "off"
  /\ event' = FALSE
  /\ UNCHANGED <<outside, live, app, informer, queued, forced, worker, opDone, adding,
                 clusterWatch, clusterEvents, appEvent, requests, unseen>>

\* watchClusterResources: an event of a resource forces a refresh of the
\* application in its label ...
ResourceEvent ==
  /\ event /\ ~adding
  /\ event' = FALSE /\ adding' = TRUE
  /\ forced' = TRUE
  /\ UNCHANGED <<outside, live, app, informer, queued, worker, opDone, rw, clusterWatch,
                 clusterEvents, appEvent, requests, unseen>>

\* ... and then queues it.
AddAfterEvent ==
  /\ adding /\ adding' = FALSE
  /\ queued' = TRUE
  /\ UNCHANGED <<outside, live, app, informer, forced, worker, opDone, rw, event,
                 clusterWatch, clusterEvents, appEvent, requests, unseen>>

-----------------------------------------------------------------------------
\* Requests for a refresh.

\* RefreshApp notes the time and takes that of the comparison away, for a Get
\* that goes on to wait or for a webhook.  The time was read before the patch, so
\* a comparison under way may be from after it.
RefreshApp ==
  /\ Happens("refresh") /\ app # None
  /\ app' = [app EXCEPT !.at = "none"]
  /\ second' = TRUE /\ answered' = FALSE
  /\ IF res = None THEN UNCHANGED res
     ELSE \E late \in BOOLEAN : res' = [res EXCEPT !.late = late]
  /\ waiting' \in {TRUE, waiting}
  /\ UNCHANGED <<outside, live, informer, queued, forced, pc, copy, opDone, watches, unseen>>

\* WaitForRefresh returns once the comparison is from after the request.
WaitForRefresh ==
  /\ waiting /\ app # None /\ answered
  /\ waiting' = FALSE
  /\ UNCHANGED <<outside, live, app, informer, queued, forced, worker, opDone, watches,
                 second, answered, unseen>>

\* Or its own watch ends, and it returns an error.
WaitFails ==
  /\ Happens("watch") /\ waiting
  /\ waiting' = FALSE
  /\ UNCHANGED <<outside, live, app, informer, queued, forced, worker, opDone, watches,
                 second, answered, unseen>>

-----------------------------------------------------------------------------
Environment ==
  \/ Settle \/ Drift \/ Push \/ UpdateSpec \/ Recreate \/ ChangeCluster \/ Restart
  \/ WatchClustersEnds \/ WatchBreaks \/ RefreshApp \/ WaitFails

Controller ==
  \/ Deliver \/ Resync \/ processAppRefreshQueueItem
  \/ refreshAppConditions \/ CompareAppState \/ ComparePanics \/ autoSync \/ updateAppStatus
  \/ OperationApplies \/ OperationEnds \/ ForceAfterOperation
  \/ ClusterEvent \/ onAppModified \/ WatchResources \/ ResourceEvent \/ AddAfterEvent

Next == Environment \/ Controller \/ NextSecond \/ Expire \/ WaitForRefresh

Spec == Init /\ [][Next]_vars

\* Time passes, the informer delivers and repeats what it has, the worker and an
\* operation go on, and a waiting Get sees what it waits for.  Nothing is assumed
\* of the watches of clusters and resources.
Fairness ==
  /\ WF_vars(NextSecond) /\ WF_vars(Expire)
  /\ WF_vars(Deliver) /\ WF_vars(Resync)
  /\ WF_vars(processAppRefreshQueueItem)
  /\ WF_vars(refreshAppConditions \/ CompareAppState)
  /\ WF_vars(autoSync) /\ WF_vars(updateAppStatus)
  /\ WF_vars(OperationEnds) /\ WF_vars(ForceAfterOperation)
  /\ WF_vars(WaitForRefresh)

FairSpec == Spec /\ Fairness

-----------------------------------------------------------------------------
\* The type of the state: a pass has a copy until it ends, and a result from its
\* comparison on; automated sync has a commit to sync to.
TypeOK ==
  /\ world \in Worlds /\ git \in Commits
  /\ live \in {None, Edited} \union (Sources \X Commits)
  /\ settled \in BOOLEAN /\ cluster \in BOOLEAN
  /\ app \in Applications \union {None} /\ informer \in Applications \union {None}
  /\ queued \in BOOLEAN /\ forced \in BOOLEAN /\ opDone \in BOOLEAN
  /\ copy \in Applications \union {None}
  /\ res \in Results \union {None}
  /\ pc \in {"idle", "compare", "sync", "patch"}
  /\ pc = "idle" <=> copy = None
  /\ pc \in {"sync", "patch"} <=> res # None
  /\ pc = "sync" => res.commit # None
  /\ rw \in {"none", "off", "on", "silent"}
  /\ event \in BOOLEAN /\ adding \in BOOLEAN
  /\ clusterWatch \in BOOLEAN /\ clusterEvents \in Seq({"Added", "Deleted"})
  /\ appEvent \in BOOLEAN
  /\ second \in BOOLEAN /\ answered \in BOOLEAN /\ waiting \in BOOLEAN
  /\ unseen \in BOOLEAN

\* The controller has nothing left to do but wait for a resync.
Drained ==
  /\ pc = "idle" /\ ~queued /\ informer = app
  /\ ~event /\ ~adding /\ ~appEvent /\ clusterEvents = <<>>

\* A change of the live resources is noticed without waiting for expiry: when
\* everything that was queued is done, the resources of a registered cluster
\* with an application are watched, and a pass has begun since they last
\* changed.  The flag is set before the key is queued and taken before the
\* comparison, so that no event falls between.  It needs the watch of clusters,
\* which may have ended, and the watch of the resources: one that has broken is
\* off or silent.  A new watch does not tell what was deleted before.
DriftNoticed ==
  Drained /\ cluster /\ clusterWatch /\ app # None /\ rw \notin {"off", "silent"}
    => rw = "on" /\ (unseen => live = None)

\* Once nothing happens around the controller, the stored status becomes and
\* stays what a comparison says, whatever was lost before: a flag, an event, a
\* patch, or the part of a patch that a stale copy left out.
StatusConverges ==
  <>[](settled /\ app # None => app.status = Truth(app))

\* A Get that waits for a refresh returns, also when its request was overtaken
\* by a pass that was under way: the comparison expires and is made again.  The
\* spec must be without errors, and the application there.
RefreshReturns ==
  <>[](settled /\ app # None /\ cluster => ~waiting)

\* The most recent sync was to the commit the application should be at and with
\* the parameter overrides it has.
SyncAttempted ==
  app.synced = [commit |-> git, overrides |-> app.source.overrides]

\* Automated sync comes to an end, also with resources that stay out of sync
\* after it, and not before its time: an automatic application is in sync, or its
\* most recent sync was to the commit it should be at with the parameter
\* overrides it has, and no operation is left.
AutoSyncSettles ==
  <>[](settled /\ app # None /\ app.auto /\ cluster =>
         /\ app.op = None
         /\ Truth(app) = "Synced" \/ SyncAttempted)

\* A copy says of the source, the policy and the syncs what is stored.
UpToDate(a) ==
  /\ a # None
  /\ a.source = app.source /\ a.auto = app.auto
  /\ a.op = app.op /\ a.synced = app.synced

\* The status is right, automated sync has nothing to start, and no pass under way
\* has decided from anything older.
AtRest ==
  /\ settled /\ app # None /\ app.op = None
  /\ app.status = Truth(app)
  /\ app.auto /\ app.status = "OutOfSync" => SyncAttempted
  /\ UpToDate(informer)
  /\ pc = "compare" => UpToDate(copy)
  /\ pc # "sync"
  /\ pc = "patch" => res.status \in {app.status, copy.status}

\* The controller does not leave such a state: no pass, whatever copy it has and
\* however often the comparison expires, is forced or is lost, takes the right
\* status away or syncs again.  What a stale patch can still do is what AtRest
\* excludes, a status compared before and different from the copy's.
RestIsKept == [][AtRest => AtRest']_vars
=============================================================================
