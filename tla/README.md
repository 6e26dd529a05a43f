# Argo CD in TLA+

Specifications of the parts of Argo CD (v0.11) that run concurrently, keep state
over restarts, or decide from copies that may be stale. They are translated from
the Go sources; `PROJECT.json` maps each definition to the lines it stands for,
lists what each run checks, and lists the hazards of the code with the
properties that cover them.

## The system

| part | state | operations | what is hard about it |
|---|---|---|---|
| Operation worker (`controller/appcontroller.go`) | `operation`, `status.operationState` and `status.history` of an `Application`, the informer's copy, `appOperationQueue` | start, resume, complete an operation; finalize a deletion | stale copies, merge patches, lost replies, restarts, terminations that come during a pass |
| Application service (`server/application`, `util/argo`) | the same object | Sync, Rollback, TerminateOperation, Delete, Create, Update, UpdateSpec, DeleteResource, List, Watch | reads and writes in separate calls, the project lock |
| Sync context (`controller/sync.go`, `sync_hooks.go`) | the operation state, hooks' objects, applied resources | repeated passes: dry run, apply, PreSync/Sync/PostSync hooks, terminate | progress is inferred from what was recorded; a lost pass |
| Apply (`doApplySync`, `kindSorter`) | the sync tasks and resource details | sort, prune, apply in groups | goroutines, the order of kinds |
| Refresh worker (`controller/appcontroller.go`) | conditions, health and comparison result, `forceRefreshApps` | needRefreshAppStatus, refreshAppConditions, autoSync | attempts repeated from stale copies, refresh flags lost |
| Comparison (`controller/state.go`) | none | CompareAppState, groupLiveObjects | which live objects are children, which are pruned |
| Cluster watches (`controller`, `util/db/cluster.go`) | one watch per cluster, a map of them | start, stop, retry | a map shared by goroutines, a watch that ends silently |
| Project service (`server/project`, `util/project`) | `AppProject` objects, `projectLock` | Create, Update, Delete, tokens | checks against applications that move between projects |
| Repository server (`reposerver`, `util/git`, `util/cache`) | a working copy per repository, a cache | GenerateManifest, ListDir, GetFile | one working copy for all requests |
| Credentials (`util/db`) | secrets and a config map | create, update, delete of repositories and clusters | two writes, one of which may fail |
| Settings (`util/settings`), server process (`server/server.go`) | a config map, a secret, subscribers | load, save, notify, restart of servers | sends under a lock |
| Health, diff, manifest generators, RBAC, sessions, webhooks, CLI | little or none | | algorithms on documents, libraries and external programs |

The API server writes the `operation` field of an `Application` and the
controller's informer sees the change some time later. The operation worker
takes the application from its queue, stores `operationState` as Running, and
calls `SyncAppState`. One call is one pass. A pass that leaves the operation
Running is followed by another one when the informer brings the change it
stored, so an operation is a sequence of passes with the stored operation state
between them. The pass that completes it also clears the `operation` field.

What makes the system correct: operations of an application are performed one at
a time and once; none is forgotten; an operation that succeeded did its work, in
the order of its stages, and is in the deployment history; a termination stops
what was started; a cascaded deletion leaves no resource behind; operations and
deletions come to an end.

The refresh worker has a queue of its own. The informer's events and resyncs, and
the watches of the resources on the clusters, put an application into it; the
watches and the operation worker also set a flag that makes the next pass compare
in any case. A pass asks the repository server for manifests, compares them with
the live objects, patches the status, and may request an operation (`autoSync`),
which the operation worker then performs. The API server asks for a refresh by
removing the time of the comparison, and waits for a new one. Correct means: a
change on a watched cluster is noticed at once; the status becomes true in the
end, whatever was lost; who waits for a refresh returns; automated sync stops.

The repository server answers from a cache, or from a working copy that all
requests for a repository share. Correct means: callers cannot tell that there
are a cache, a shared directory and other callers.

The API server's project and application services check one kind of object and
write the other, under a lock per project. Correct means: an application's
project exists and grants what the application uses, and a token is listed as
long as it is valid.

## Modules

### `AppOperation`: an operation from request to completion

One application. Applications do not share state here, and the work queue never
gives one key to two workers.

| variable | code |
|---|---|
| `app` | the `Application` in Kubernetes: existence, deletion timestamp, finalizer, `operation`, `status.operationState`, `status.history` |
| `watch`, `informer` | changes not yet delivered, and the informer's copy |
| `dirty` | the key is in `appOperationQueue` |
| `pc`, `wapp`, `state` | the worker's place in `processAppOperationQueueItem`, its copy of the application, its local `*OperationState` |
| `forced` | the application is in `forceRefreshApps` |
| `live` | the labelled resources: none, present, or in deletion |
| `call`, `del` | a `SetAppOperation` between its read and its write; how many `Delete` calls have yet to set the finalizer, to take it away, to delete |

Each call of the Kubernetes API is one step. `Sync`, `Rollback` and `autoSync`
check a copy and then `SetAppOperation` reads, checks and updates the object
(the update is conditional on the version read and is retried, hence one step).
`DeleteGet`, `DeletePatchFinalizer` and `Delete` are the three calls of the `Delete`
handler, which decides on the patch from what it has read. It takes `projectLock`
only after the read, and each server instance has one of its own, so the calls of
several handlers come in any order.
`processAppOperationQueueItem` decides from the informer's copy;
`ResumeOperation` is the re-read of an operation shown in progress,
`InitializeOperation` the first patch, `SyncAppState` a pass by its outcomes,
`persistDeploymentInfo`, `CheckTerminating` and `SetOperationState` what follows.
`DeleteResourcesWithLabel`, `GetResourcesWithLabel` and `RemoveFinalizer` are the
three calls of `finalizeApplicationDeletion`; resources in deletion go in a step of
their own, any time later. A JSON merge patch (`MergePatch`)
keeps what it omits. Kubernetes itself (removal of a deleted object without
finalizers, watch events, relists) is external.

`OperationLifecycle` is the abstract specification: accept, start, terminate,
end, remove. `AppOperation` refines it with the mapping `Lifecycle`.

### `SyncContext`: the passes of one sync

`saved` is the stored operation state, `cur` the copy of a pass; `pc`, `stage`,
`next`, `cont` and `fresh` are where the pass is in `sync`, `doHookSync` and
`runHooks`; `obj` and `applied` are the cluster; `seen` is the health the pass
compared. Steps are the calls `sync` makes: the comparison, the dry run, the
apply, one `runHook`, the end of `runHooks`, the health check, `terminate` and
the storing of the result. Between any two of them a hook's object can end, the
operation can be terminated and the controller can restart, which loses `cur`.
The history variables count what was made in the cluster, so that the
properties speak of the cluster and not of the recorded status.

Data: `targets` are the objects of the manifests that are no hooks, by two
representatives (one to apply, one annotated with Skip); a hook has types, a deletion
policy, a generated or a fixed name, and is a kind that runs or not. Objects with
a fixed name may be left by earlier operations.

Every pass compares anew and makes its own tasks (`generateSyncTasks`, variable
`tasks`): the objects of the manifests and, or not, live objects to prune. These
come and go freely between passes: pruned by this operation or somebody else, still
there because their deletion takes time, or new. A pass can find no task at
all, and then succeeds at once. The manifests themselves stay the same, since the
revision that the first pass recorded and the parameter overrides of the operation
are used again. Two cases are left out here: the first pass is lost
before it is stored and the revision is resolved anew, or the source in the spec is
changed while the operation runs (its path, or overrides the operation itself lacks).

`Store` leaves open whether a termination that came during the pass is kept,
because `AppOperation` shows that both happen.

### `ApplySync`: one `doApplySync`

`Less` is `kindSorter.Less` including the lookup of an unknown kind in a map of
indices, and `generateSyncTasks` one round of the insertion sort that `sort.Sort`
does on few elements; the rounds are steps so that the sort can be reasoned about
with an invariant. Prunes run in parallel and end before the first apply; the objects of
one kind are applied in parallel and end before those of the next. A custom kind
that the tasks themselves define may be unknown to the API server.

### `KeyLock`, `RepoServer`, `RepoContract`: the repository server

`KeyLock` is `util.KeyLock`: the map of mutexes with the lookup under the read
lock, the second lookup with the creation under the write lock, and the mutex
itself. `RepoServer` extends it.

| variable | code |
|---|---|
| `locks`, `holder`, `want` | the map of `repoLock`, who holds each mutex, which mutex `getLock` returned to a call |
| `refs` | the remote repositories (external): branch head and reachable commits |
| `copy` | the working copies: remote, fetched commits, `HEAD`, edited and added files |
| `cache` | the in-memory cache, by the keys of the three handlers |
| `pc`, `query`, `sha`, `result` | a call of `ListDir`, `GetFile` or `GenerateManifest`: step, request, `commitSHA`, `res` |

The three handlers have the same steps: `ResolveRevision` (`LsRemote`),
`CacheGet`, the three steps of the lock, `InitCopy`, `Fetch`, `Checkout`
(`git checkout --force` and `git clean`), `CommitSHA`, `Work`, `CacheSet`. Each
may fail, some halfway: a copy without a remote, a checkout that was not cleaned,
a tool that edited files and then failed. Beside them commits are pushed, also by
force, entries expire and the server restarts. `tempRepoPath` replaces slashes as
the code does, so two repositories may share a directory. The content of a tree is
its commit and the marks of the tools that ran in it.

`RepoContract` is the abstract specification: a call asks, its revision is
resolved at one moment, and it is answered with the content of that commit or
fails. The mapping is `callBar`.

### `Projects`: the project and application services

`projects` and `apps` are the stored objects. A handler in flight has its request
(`call`), its step (`pc`), the object it has read and will write back (`obj`),
and whether that copy still has the stored resourceVersion (`fresh`). `instance`
and `inst` are server instances: a restart on changed settings makes new services
with a new `projectLock` while handlers of the old ones go on.

Each Kubernetes call is a step: `Get` before the lock, `Lock`, `CheckProject`,
`ListApps`, `ReplaceProject`, `RemoveProject`, `PostProject`, `WriteToken` for the
project service; `validateApp`, `CreateApp`, `AlreadyExists`, `GetApp`,
`UpdateApp`, `Conflict`, `PatchFinalizer`, `DeleteApp` for the application
service. Any of them may fail instead (`GiveUp`). The controller's patches change
resourceVersions at any time. What a project grants, and how `Update` looks for
what it removes, are operators (`IsSourcePermitted`, `IsDestinationPermitted`,
`ValidateProject`, `RemovedUsed`). Here taking the lock is one step; its map is
the subject of `KeyLock`.

### `AppRefresh`: refresh, automated sync, watches

One application, one repository, one cluster. `app` and `informer` are the stored
object and the controller's copy; `queued` and `forced` are `appRefreshQueue` and
`forceRefreshApps`; `pc`, `copy` and `res` the worker between its calls; `rw` the
watch of the cluster's resources, whose channel closes only when the watches of
all kinds have ended; `clusterWatch` and `clusterEvents` are `WatchClusters`;
`second`, `answered` and `waiting` a request of the API server.

A source is a path and parameter overrides; an operation asks for a commit with the
overrides of the copy it was decided from. `synced` is what the last operation was
asked for.

`processAppRefreshQueueItem` takes the flag and decides
(`needRefreshAppStatus`); `refreshAppConditions` or `CompareAppState` computes the
result; `autoSync` is `SetAppOperation`, unless the last sync was to that commit with
the overrides the application has (`alreadyAttemptedSync`); `updateAppStatus` patches what differs
from the worker's copy (`Patched`). An operation is what it leaves behind: it
applies, it ends, its worker sets the flag. `clusterEventCallback`,
`onAppModified`, `ResourceEvent` and `AddAfterEvent` are the watches, and
`RefreshApp` and `WaitForRefresh` the API server's side. Time is what the code
compares: whether a comparison has expired, and whether it is from after the
second of the last request, since times are kept in seconds.

What happens around the controller is in `world`, chosen at the start: edits of
resources, pushes, changed specs, recreated applications, clusters that come and
go, broken watches, lost patches, errors, restarts. `Settle` ends it.

## Runs

| run | module | bounds | shows |
|---|---|---|---|
| `operation_prompt` | `AppOperation` | 2 operations, 1 deletion, history of 2, 1 restart, informer at most 1 event behind when the worker takes the key | the invariants and action properties below, and the refinement of `OperationLifecycle` |
| `operation_stale` | `AppOperation` | 1 operation, 2 Delete calls with either choice, informer up to 2 events behind, 1 lost reply (restarts: proved) | `PendingNotCompleted` and `NoOrphanedResources` do not depend on a prompt informer |
| `operation_live` | `AppOperation` | 1 operation, 1 deletion, 1 restart | operations and deletions end |
| `operation_rerun` | `AppOperation` | informer 2 events behind | **violated**: a completed operation is started again |
| `operation_clobber` | `AppOperation` | 1 operation | **violated**: Terminating is overwritten with Running |
| `sync_passes` | `MCSyncContext` | 6 pairs of hooks, 3 sets of manifests, tasks with and without a prune in every pass, 4 operations, 1 restart | order of the stages, success means done, nothing done twice, the operation ends |
| `sync_hooks_only` | `MCSyncContext` | the same | **violated**: an operation can succeed without creating its hooks |
| `apply_tasks` | `MCApplySync` | up to 3 tasks of 5 kinds and 2 names, in any order | order of the applies, faithful result, sorting |
| `apply_order` | `MCApplySync` | the same | **violated**: known kinds out of order |
| `repo_server` | `MCRepoServer` | 2 concurrent calls of 4 queries, 2 repositories in one directory, 3 commits; pushes, expiries and restarts without bound | cache entries are what their commit gives, no mutex is kept, the refinement of `RepoContract`, calls end |
| `projects` | `MCProjects` | 2 handlers, 1 application, 2 projects, 1 token, 12 requests repeated without bound, 2 server instances | applications have a project that grants what they use, tokens are kept |
| `app_refresh` | `MCAppRefresh` | 2 paths, overrides or none, 2 commits, 10 worlds, 2 cluster events under way | drift is noticed, the status converges and stays, waits return, automated sync stops |

Properties of `AppOperation`:

- `PendingNotCompleted`: no waiting or running operation beside a completed result.
- `StartedOnce`, `ImplementsLifecycle`: one operation at a time, each started once.
- `InProgressIsRequested`: a running state belongs to the operation field.
- `ResultOfOperation`: merge patches never leave one operation's result in another's state.
- `OperationKept`: an operation leaves its field only by its own completion.
- `HistoryKept`, `SucceededIsRecorded`: the history loses only its oldest entry
  and has each success of a whole sync.
- `NoOrphanedResources`: an application with the finalizer is removed only when no
  resource of it is left, or by a `Delete` that asked to keep them.
- `OperationCompletes`, `DeletionCompletes`: liveness.

Properties of `SyncContext`: `PreSyncFirst` and `PostSyncLast` (stages in order,
judged by what ran in the cluster; a hook whose object has one name and runs again
at the later stage is left out, because its latest run may be the later one),
`SucceededMeansDone` (all objects of the manifests are applied and what the result
lists as pruned is; the hooks succeeded, unless the manifests have only hooks), `DryRunIsDry`,
`AppliedOnce`, `HookRunOnce` (one more run for each restart at most),
`TerminateStopsHooks` and `OperationEnds`. Properties of `ApplySync`: `InTurn`,
`ResultFaithful`, `SortedByKind`.

Properties of `RepoServer`:

- `CacheFaithful`: an entry is the content of the commit in its key; nothing a
  tool left behind gets into it.
- `ServerKeepsContract`: the refinement of `RepoContract`.
- `LocksGivenBack`: a mutex is held only by a call that works in its directory,
  so no error path keeps it.
- `CallsEnd`: every call is answered or fails.

Properties of `Projects`:

- `AppHasProject`: the project of an application exists.
- `AppWithinGrants`: it grants the application's destination and source.
- `TokensKept`: the tokens stored are those that a write of `CreateToken` added and no
  write of `DeleteToken` took, though three handlers write the project back from a copy
  read outside the lock. It speaks of writes, not of replies: a write whose reply is
  lost adds its token, which then nobody was handed.

Properties of `AppRefresh`:

- `DriftNoticed`: when everything queued is done, a pass has begun after the last
  change of the live resources; no event falls between flag, queue and pass.
- `RestIsKept`: a state in which the status is true, automated sync has nothing to
  start and no pass has decided from anything older (`AtRest`) is not left.
- `StatusConverges`: once nothing happens any more the stored status becomes and
  stays true.
- `RefreshReturns`: a Get that waits for a refresh returns.
- `AutoSyncSettles`: automated sync comes to an end, in sync or having tried the commit
  with the parameter overrides the application has.

Every module also has one type invariant. `PendingNotCompleted` and
`NoOrphanedResources` are checked with the late informer only; both are proved for every
bound. `DeletionCompletes` is checked with one `Delete`.

### Why the bounds are enough

Two operations let the result of one meet the next. A history of two is full after
both, and a pass that a restart repeats after it recorded its deployment trims it
while an entry has to be kept. `MaxProgress = 0` in all runs: a pass that changes
nothing is the skipped patch, and one that stores a second, different Running state is
left to the proofs, which are for every bound. Two Delete calls are enough for one to
patch the finalizer from a copy that the other has made old. `MaxStale` is the interesting bound: with 1
the worker may act on a copy that lacks the latest change, which is the case the
code handles by reading again; with 2 the copy can precede the start of an
operation that has completed, which it does not handle. More undelivered events
than `MaxLag` are merged, as a slow informer's are by a relist. Two hooks show
the order between hooks and one hook that has two types; three tasks are the
fewest on which `Less` has a cycle. Manifests with hooks only, with a skipped object and with
both objects are the cases that `sync` tells apart; each pass has them with or without
an object to prune. A hook sync that does not prune is left to the proofs.

`repo_server`: two calls make the race for a mutex that does not exist yet, and
one call can find what the other left. The queries of one repository have a tool
that edits files, one that adds files, and a reader of files; a branch, a short
hash and a full hash are resolved differently. The proofs cover more calls.

`projects`: two handlers suffice for each pair of requests, and every request may
come again, so sequences are not bounded. The two URLs have one normal form, and
the requests give, narrow and take grants with and without wildcards. With one
token, `CreateToken` and `DeleteToken` race for it. The constraint `Relevant`
drops, from the workload without tokens, states in which handlers of two
instances have met, of which no property there speaks. The proofs cover more of
everything.

`app_refresh`: each world has the events that act on the same state, any number
of times. Two commits let a pass compare the older one while the newer is
pushed; two cluster events are a removal and a registration under way together.
The worlds about the status and about automated sync are `unwatched`: there the controller
has listed its objects, its watches come to nothing, and only expiry and the
informer start passes. With automated sync the path or the overrides change from those
at the start; changing them back as well is checked without automated sync.
All events in one world are too many states; what is left out is the combination
of, for example, a restart with a lost patch.

### Fairness

`AppOperation`: the informer delivers, resyncs every `statusRefreshTimeout`, and
the queue's workers run (weak fairness). `setOperationState` retries without end.
Strong fairness stands for an environment that does not fail for ever: a pass
that could complete, a re-read that could succeed, and calls of the deletion that
could succeed, do so when tried again and again. Users are not fair: nobody has
to call anything. `SyncContext`: the worker continues (weak fairness on the pass)
and jobs, workflows and pods end; `OperationEnds` further assumes that the
application eventually compares as healthy.

`RepoServer`: a goroutine that can run does (weak fairness on the steps of each
call). A call is made once in a behaviour, so a mutex is taken from a waiting call
finitely often and weak fairness is enough; Go's mutexes also hand over to a
starving waiter. It includes that every call of `git` and of a manifest tool returns: the
code sets no time limit for them (`util/git/client.go`), and one that hangs keeps the
mutex of its repository. Callers, pushes, expiries and restarts are free. `Projects` is
checked for safety only.

`AppRefresh`: time passes, the informer delivers and resyncs, the worker, an
operation and a waiting Get go on (weak fairness on each). Nothing is assumed of
the watches of clusters and resources, so `StatusConverges` does not rest on
them; `DriftNoticed` is an invariant and needs no fairness. The liveness
properties have the form "from some time on, if nothing happens any more then
...", because the environment need not settle.

Deadlock is checked for `ApplySync`, which has to return, and for `Projects`, where
a request can always come. The other modules may stop when there is nothing to do.

## Findings

1. `operation_rerun`: `processRequestedAppOperation` re-reads the application only
   if the informer's copy shows the operation in progress. A copy from before the
   start makes the worker initialise it again although it has completed. The
   comment at `src/controller/appcontroller.go:567` says this is not wanted.
2. `operation_clobber`: the re-read before Running is stored can fail, and a
   termination can come after it. The termination is then lost
   (`src/controller/appcontroller.go:590`).
3. `sync_hooks_only`: without tasks `sync` succeeds before it looks at the hooks,
   and hooks are not tasks (`src/docs/resource_hooks.md:25`). With objects to prune it
   begins, and the pass after the prune finds no task and succeeds.
4. `apply_order`: an unknown kind has the map's zero value, the index of
   Namespace, so `Less` compares it with a namespace by name and has cycles
   (`src/controller/sync.go:567` and `:577`).

The same case is excepted in `SucceededMeansDone` (`targets # {}`). A further one is
named in `OperationEnds` and excluded there (`OnlySkipped`): if all objects are annotated
with Skip, there is no Sync hook and no object to prune, a hook sync records nothing and
never ends.

Cases named and excluded in the properties of the other modules. Without each
exclusion TLC shows a counterexample, for two of them only once the workloads of
`MCProjects` are extended: with updates of the default project, and with an
application whose source is not in normal form.

- `AppHasProject` and `AppWithinGrants` hold as long as the handlers in flight are
  of one server instance (`~mixed`). Two instances have two `projectLock`s.
- `AppWithinGrants` excepts the default project: an application created with an
  empty project name is checked under the lock of the key `""`, a change of the
  default project under that of `"default"`.
- It excepts applications whose project lost a wildcard since they were last
  written (`dropped`): `Update` looks for applications that use a removed entry
  literally, and no application's destination is `*`. For the same reason it
  speaks of sources in normal form only.
- `DriftNoticed` needs the watch of clusters, which ends without an error and is
  then not started again, and a watch of resources that has not broken.
- `StatusConverges` holds by expiry alone in one case: a patch computed against a
  stale copy leaves out what is equal in it, so the stored status can be wrong
  until the comparison is made again.

`docs/auto_sync.md:46` says "Automated sync will only attempt one synchronization per
unique combination of commit SHA1 and application parameters". A pass that decides from a copy older than the end of the first attempt can request a
second one, and TLC shows such a behaviour of `AppRefresh` when asked;
`AutoSyncSettles` therefore says only that it comes to an end.

## Proofs

`AppOperationProofs` proves, for every value of the constants (any number of
operations, deletions, restarts and lost replies, any history limit, any lag of
the informer):

- `TypeCorrect`: `Spec => []TypeOK`. `TypeOK` alone is not inductive: a patch
  needs the worker to hold a state. The invariant is `TypeInv`, which adds
  `StateHeld` (from the initialisation to the last patch, `state` is not nil).
  `DeployedType` shows that trimming keeps the history within its limit,
  `WriteType` that a write keeps the object and the watch in their types.
- `PendingCorrect`: `Spec => []PendingNotCompleted`. Inductive relative to
  `TypeInv`; the argument is that each writer changes the operation field and
  the completion in one write (`PatchPending` for the patch, the rest by case).
- `NoOrphans`: `Spec => NoOrphanedResources`, for any number of `Delete` calls at any of
  their steps. Uses `RemoveWhenGone`: between the
  empty list and the patch of the finalizer no resource appears, since only the
  worker makes resources and it is busy with the deletion.

The theorems about the other properties of `AppOperation` have the hypothesis
`Prompt`: when the worker takes the key the informer is at most one event behind
(`MaxStale <= 1`, with a watch long enough for that), and no reply of a patch is
lost. Both parts are needed. With two events `operation_rerun` starts an operation twice. With a lost
reply `OperationKept` fails: the patch of the completed state was applied, the
next request is accepted, and the retry of the patch clears the new operation.
Under `Prompt`, for any number of operations, deletions and restarts and any
history limit:

- `StartedOnceCorrect`, `InProgressCorrect`, `ResultCorrect`, `SucceededCorrect`:
  the four invariants.
- `OperationStays`, `HistoryStays`: the two action properties.
- `LifecycleImplemented`: the refinement of `OperationLifecycle`.

The invariant is `PromptInv`. `AppOK` relates the stored fields to each other and
`WorkerOK` relates the worker's state to them at each of its steps. `IdOK` says
that what waits was never started. `Chain` is the part about staleness: a copy at
most one write behind shows a waiting operation only if it still waits, or if the
worker itself has just started it. Nothing inductive about the copy can be said
without looking at the write that is under way, hence `Prev`. For the action
properties and the refinement each step is first shown to be one of six kinds
(`Quiet`, `Accepts`, `Terminates`, `Starts`, `Records`, `Reports`, each of which may
also remove the application), which are then mapped to steps of the abstract
specification.

All of these rest on `BoundsAssumption` (the bounds are natural numbers; the
history, the number of operations and the watch are not zero) and `NilAssumption`
(nil is none of the records).

`SyncContextInv`, `SyncContextCount` and `SyncContextProofs` prove every safety property
of `SyncContext`, for any number of hooks, any types, policies and names of them, any
manifests of the two representative objects, any operations, any tasks to prune in each
pass, and any number of restarts:

- `TypeCorrect`: `Spec => []TypeOK`.
- `SucceededCorrect`: `Spec => []SucceededMeansDone`.
- `PreSyncCorrect`, `PostSyncCorrect`: `Spec => PreSyncFirst`, `Spec => PostSyncLast`.
- `DryRunCorrect`, `AppliedOnceCorrect`, `HookRunOnceCorrect`, `TerminateCorrect`:
  `[]DryRunIsDry`, `[]AppliedOnce`, `[]HookRunOnce`, `[]TerminateStopsHooks`.
- `RecordCorrect`: `Spec => RecordIsKept`. What is stored of an operation is never
  taken back: resources and the statuses of completed hooks stay, through lost
  passes and terminations, and a completed operation is final. Every pass infers
  from this record alone what was done. It follows from `Follows`, and is not part
  of a run; TLC found no violation with the constants of `sync_passes`.
- `OutcomesCorrect`: `Spec => PassOutcomes`. A pass leaves a phase that
  `SyncOutcomes` of `AppOperation` allows, and that of a terminating operation
  ends Failed or in Error, applies nothing and makes no hook. This is the
  assumption about phases under which the two modules were separated. It follows from
  `Path`.

Only `TypeOK` is inductive: the others speak of the cluster, and a pass decides from its
copy of what earlier passes recorded. `SyncContextInv` first replaces each
action by its shape, the facts about the next state that matter (`NextDoes`).
The invariant `Inv` has these parts.

- `Path`, `Dry`: which operation and phase a step of the pass can have.
- `Follows`: the copy goes on from what is stored. A hook that was recorded stays
  recorded, one that completed keeps its status, and until the pass ends a status
  differs only for hooks this call of `runHooks` has been through.
- `InTurn`, `Gone`: a hook is recorded only when the stages before its own are
  done, in what is stored and in the copy; and the stages a pass has behind it are
  done.
- `HasTargets`: until a pass has applied its tasks they contain every object of the
  manifests, though each pass makes its own.
- `AppliedInv`: an operation that has started the Sync stage has applied its manifests
  and what its state lists (`Done`), unless it failed. Later passes find other tasks to prune
  and do not apply them, so this cannot be said of the tasks of a pass. `ApplyInv` counts the applies: a restart is the only way back
  to a copy that has not started it.
- `LatestInv`: a hook recorded as succeeded has an object whose latest run
  succeeded, or one that has since run at a later stage under the same name.
- `MadeInv`, `RunnableInv`, `IdleInv`, `CountInv`: an object was made at most once
  for each stage it is recorded at and once for each restart, and strictly less
  often if it is recorded as running and is gone. This slack pays for the run that
  replaces it.
- `TermInv`: a running object is known to the copy, or left by a lost pass or an
  earlier operation; so `terminate` finds it.

The assumption is `ConstantsAssumption`: the constants have their types.

`ApplySyncProofs` proves, for every list `Ordering` of kinds without repetition
and any number of tasks:

- `LessIsOrder`: for tasks that apply no namespace `Less` is a strict weak order.
- `TypeCorrect`, `InTurnCorrect`, `ResultCorrect`, `SortCorrect`: `[]TypeOK`,
  `[]InTurn`, `[]ResultFaithful`, `[]SortedByKind`.

The invariant `Inv` says that the part sorted so far is sorted (`SortedPart`), that
no two tasks have the same kind and name (`Distinct`), what the goroutines have begun
and ended at each step (`Control`), and that result and details are those of the
tasks so far (`Faithful`). A round of the sort is `IsInsert`, and it keeps the
part in front sorted because `Less` is an order. On longer lists `sort.Sort` uses
other algorithms. They sort by any strict weak order, so for them `LessIsOrder` is
what carries over. With a namespace to apply `Less` has cycles (`apply_order`),
and `SortedByKind` says nothing.

`RepoServerProofs` proves, for any number of concurrent calls, repositories,
commits and queries:

- `RepoTypeCorrect`: `Spec => []TypeOK`.
- `CacheCorrect`: `Spec => []CacheFaithful`.
- `CopyExclusion`: `Spec => []CopyExclusive`, two calls never work in the same
  directory.
- `ContractKept`: `Spec => ServerKeepsContract`, the refinement.
- `LocksReturned`: `Spec => []LocksGivenBack`.

`CacheFaithful` is not inductive: what is stored was read many steps before. The
invariant `Inv` adds, for each call, that its `commitSHA` is the
commit `LsRemote` found (`CallOK`), that the mutex it waits for or holds is the
one in the map (`LockOK`), that between checkout and work the directory is that
commit and nothing else (`CopyOK`), and that its result is the content of it
(`ResultOK`). `LockOK` is where the second lookup of `KeyLock` is needed. It gives
`Exclusion`, and with it the step of one call leaves `CopyOK` of the others alone
(`OtherCopy`). The refinement is a case split over the steps: `BeginSeen` and
`AnswerSeen` map to steps of the contract, `FailSeen` to failures, the rest
stutters (`Unseen`). For `LocksGivenBack` it is not enough to know where the holder
is: `Unlock` looks the mutex up again, so `HolderOK` adds that the map still has
the mutex that was locked, under the key of the call. `StepShape` says that a step
keeps the mutexes, takes one, or returns and unlocks. This is the safety half of
`CallsEnd`: what a call waits for is in the hands of one that goes on.
The assumptions are `NoneAssumption` and `RepoAssumption`
(queries are well formed, directories are keys).

`ProjectsProofs` proves, for any number of handlers, projects, applications,
requests and server instances:

- `ProjectsTypeCorrect`: `Spec => []TypeOK`.
- `TokensNeverLost`: `Spec => []TokensKept`.
- `AppsHaveProjects`: `Spec => []AppHasProject`.
- `GrantsCoverApps`: `Spec => []AppWithinGrants`.

The first two use `Inv`, which does not speak of locks: a copy
with the stored resourceVersion has the stored tokens (`FreshOK`), and a write
from any other copy is refused. The last two use `LockedInv`.
Handlers inside their lock exclude each other per key (`Exclusive`), so while a
handler holds a project nobody else changes it or puts an application into it
(`HandlerRely`). Hence what the handler has checked is still true when it writes
(`StageOK`, kept by `OtherStage` and `OwnStage`). `CopyInv` says what grants the
copies hold. The assumption is `ProjectsAssumption`: the default project is among
the names, requests are well formed, and `NormalizeGitURL` is idempotent. The
last is true of URLs that parse; for others the function returns the empty
string.

`AppRefreshProofs` proves, for any paths, overrides, commits and worlds and any number of
cluster events, restarts and passes:

- `RefreshTypeCorrect`: `Spec => []TypeOK`.
- `DriftCorrect`: `Spec => []DriftNoticed`.
- `RestCorrect`: `Spec => RestIsKept`.

`TypeOK` is inductive; that a pass has a copy, a result and a commit where it uses
them is part of it. `DriftNoticed` speaks of the moment when all queues are
empty, so its invariant `WatchInv` has to follow a change through them.
`NoticedOK`: from a change of watched resources to the next pass there is an
event to deliver, or the flag is set and the key is queued, about to be, or will
be when the application is delivered. The step that needs care is the worker's:
it may find the flag set and the application gone, and then leaves the flag.
`WatchedOK`: an application on a registered cluster without a watch has a call of
`clusterEventCallback` to come. `EventsOK`: the last event of `WatchClusters` tells
whether the cluster is registered, without which a Deleted event delivered late
could take away a watch for good.

`AtRest` is inductive by itself, given the types: with the environment settled
every pass that begins has an up-to-date copy, so it computes the status there is,
does not sync, because the copy shows the last attempt and the overrides it was made
with, and its patch changes no status. The conjunct about `patch` is needed for the
pass that was under way before: its result must be the stored status, or equal to
its copy's, so that the patch leaves it out. `StatusConverges` and `AutoSyncSettles`
say "becomes and stays" for such states; the proof is the part about staying. That
such a state is reached is checked by TLC. The assumption is `RefreshAssumption`:
there is a path and a first commit, and `None` is none of the values.

Only model-checked: the liveness properties `OperationCompletes`,
`DeletionCompletes`, `OperationEnds`, `CallsEnd`, `StatusConverges`, `RefreshReturns`
and `AutoSyncSettles`, since liveness under fairness is outside of what the prover
handles. Every invariant, action property and refinement of a passing run is
proved; those of `AppOperation` named above under the hypothesis `Prompt`, which
`operation_prompt` instantiates.

## Not modelled

Permissions and the resolution of revisions in the handlers are taken as passed.
The content of manifests, messages and formatting is left out, and a panic
during a sync is one of the errors of a pass. `ApplySync` excludes two objects of
the same kind and name in different API groups, whose displayed results overwrite
each other.

Abstractions of the other modules:

- `SyncContext`: deletions are foreground ones, which end some time after they are
  accepted. Pruned objects may therefore be seen by later passes, as said above. A
  hook's object that its policy or `terminate` deletes is gone at once in the model, so
  `TerminateStopsHooks` says that every such object is told to go, not that its pods
  have stopped when the operation has.
- `RepoServer`: cache keys are records, so that two keys with the same FNV hash
  are apart.
- `Projects`: issue times of the tokens of a project are distinct, while two
  tokens created in the same second share theirs; nobody edits projects and
  applications with `kubectl`; URLs parse.
- `AppRefresh`: `CompareAppState` is one step, and so is `clusterEventCallback`,
  which the code may run twice at a time on a map without a lock; the informer
  may skip versions; parameter overrides are equal or not, as `reflect.DeepEqual` finds
  them, and a manual sync that asks for overrides of its own is not among the events;
  `setAppResources` and the health status are left out; the destination of an
  application does not change, and other applications do not share its cluster.

Parts without a module: the settings manager and the restart handshake of the API
server, credentials (`util/db`), health, the diff, the manifest generators and the
Git client's own work, RBAC (casbin), sessions and single sign-on, webhooks, the
command line programs. They are algorithms on documents, calls of libraries and
external programs, or I/O; settings and credentials have state and are in the plan.
More than half of the lines of the repository are generated (protocol buffers,
gRPC gateways, Kubernetes clients and informers) and have no behaviour of their
own to state. The map therefore covers a small share of all lines, and a
larger one of the code in `controller`, `server/application`, `server/project`
and `reposerver` that keeps state.

## Plan

In this order.

1. `Settings`: load, save and notification of subscribers, and the restart of the
   API server (`Shutdown` closes a channel that `Run` makes only after it has
   started the watch of settings). `Credentials`: partial failure of two writes.
2. `Comparison` and `Health` as operators checked against reference definitions
   (recursion, if any, in a module without theorems).
3. Composition of `SyncContext` with `ApplySync`: `doApplySync` as one step of the
   former against the steps of the latter. Composition of `AppRefresh` with
   `AppOperation`, for two applications on a cluster.
4. Proofs: a version of `OperationKept` that names what a lost reply can do, in
   place of the hypothesis that none is lost.
