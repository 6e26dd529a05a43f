------------------------------ MODULE ApplySync ------------------------------
(***************************************************************************)
(* generateSyncTasks and one doApplySync of syncContext: the tasks sorted  *)
(* by kindSorter, a goroutine for each object to prune, and then for each  *)
(* object of one kind after the other. Kinds and names are numbers in      *)
(* alphabetical order. The objects of an operation have different kinds or *)
(* names (setResourceDetails keeps one result for each kind and name).     *)
(***************************************************************************)
EXTENDS Integers, Sequences, FiniteSetsExt, Functions

CONSTANTS
    Names,
    Ordering,       \* the kinds of resourceOrder, in that order
    Unknown,        \* other kinds
    Custom,         \* the kind that custom resource definitions define
    MaxTasks        \* bound: tasks

CRD == Ordering[Len(Ordering)]      \* CustomResourceDefinition
Namespace == Ordering[1]
Kinds == Range(Ordering) \union Unknown

\* syncTask: an object to prune has no target.
SyncTask == [kind : Kinds, name : Names, prune : BOOLEAN]

ASSUME ConstantsAssumption ==
    /\ Names \subseteq Nat /\ Kinds \subseteq Nat /\ MaxTasks \in Nat
    /\ Ordering \in Seq(Nat) /\ Ordering # << >> /\ IsInjective(Ordering)
    /\ Range(Ordering) \intersect Unknown = {} /\ Custom \in Unknown

VARIABLES
    tasks,          \* the tasks
    sorted,         \* the number of those in front that are sorted
    dryRun, update, prune,      \* arguments, and the operation's prune
    pc,
    group,          \* the tasks whose goroutines were started last
    running,        \* those of them that have not ended
    registered,     \* the cluster knows the custom kind
    outcome,        \* what became of each task
    details,        \* the resource details, for each task
    syncSuccessful

args == <<tasks, sorted, dryRun, update, prune>>
vars == <<args, pc, group, running, registered, outcome, details, syncSuccessful>>
-----------------------------------------------------------------------------
(* generateSyncTasks and kindSorter.                                       *)

isKnown(k) == k \in Range(Ordering)

\* The value of a map of indices: an unknown kind has the index of the first.
Index(k) == IF isKnown(k) THEN CHOOSE i \in DOMAIN Ordering : Ordering[i] = k ELSE 1

\* Fault: the test for unknown kinds is missing.
Less_NoUnknown(a, b) ==
    /\ ~a.prune
    /\ \/ b.prune
       \/ IF Index(a.kind) = Index(b.kind)
          THEN IF ~isKnown(a.kind) /\ ~isKnown(b.kind) /\ a.kind # b.kind
               THEN a.kind < b.kind
               ELSE a.name < b.name
          ELSE Index(a.kind) < Index(b.kind)

Less(a, b) ==
    /\ ~a.prune
    /\ \/ b.prune
       \/ IF Index(a.kind) = Index(b.kind)
          THEN IF ~isKnown(a.kind) /\ ~isKnown(b.kind) /\ a.kind # b.kind
               THEN a.kind < b.kind
               ELSE a.name < b.name
          ELSE isKnown(a.kind) /\ (isKnown(b.kind) => Index(a.kind) < Index(b.kind))

\* The task s[n] goes before those of s[1], ..., s[n - 1] that it is less than
\* to its left, up to the first that it is not.
Insert(s, n) ==
    LET p == Max({0} \union {i \in 1 .. n - 1 : ~Less(s[n], s[i])})
    IN  [i \in DOMAIN s |-> IF i <= p \/ i > n THEN s[i]
                            ELSE IF i = p + 1 THEN s[n] ELSE s[i - 1]]

\* A round of the sort.  sort.Sort of a few elements is an insertion sort, from
\* the right.
generateSyncTasks ==
    /\ pc = "sort" /\ sorted < Len(tasks)
    /\ tasks' = Insert(tasks, sorted + 1)
    /\ sorted' = sorted + 1
    /\ UNCHANGED <<dryRun, update, prune, pc, group, running, registered,
                   outcome, details, syncSuccessful>>
-----------------------------------------------------------------------------
(* doApplySync.                                                            *)

pruneTasks == {i \in DOMAIN tasks : tasks[i].prune}
createTasks == DOMAIN tasks \ pruneTasks

\* Fault: the results of a dry run are recorded.
setResourceDetails_Always(is, status) ==
    details' = [i \in DOMAIN tasks |-> IF i \in is THEN status ELSE details[i]]

\* The result of the tasks is, recorded if asked for or failed.
setResourceDetails(is, status) ==
    IF update \/ status = "SyncFailed"
    THEN details' = [i \in DOMAIN tasks |-> IF i \in is THEN status ELSE details[i]]
    ELSE UNCHANGED details

\* The tasks is end with status.
Finish(is, status) ==
    /\ outcome' = [i \in DOMAIN tasks |-> IF i \in is THEN status ELSE outcome[i]]
    /\ setResourceDetails(is, status)
    /\ syncSuccessful' = (syncSuccessful /\ status # "SyncFailed")

PruneTasks ==
    /\ pc = "sort" /\ sorted = Len(tasks)
    /\ pc' = "prune"
    /\ group' = pruneTasks /\ running' = pruneTasks
    /\ UNCHANGED <<args, registered, outcome, details, syncSuccessful>>

pruneObject(i) ==
    /\ pc = "prune" /\ i \in running
    /\ running' = running \ {i}
    /\ \/ ~prune /\ Finish({i}, "PruningRequired")
       \/ prune /\ Finish({i}, "SyncedAndPruned")
       \/ prune /\ ~dryRun /\ Finish({i}, "SyncFailed")
    /\ UNCHANGED <<args, pc, group, registered>>

\* Fault: the goroutines are not waited for.
Waited_Not == TRUE

\* The goroutines have ended.
Waited == running = {}

\* The next tasks of one kind.
nextGroup ==
    LET rest == {i \in createTasks : outcome[i] = "none"} IN
    {i \in rest : \A j \in rest : j <= i => tasks[j].kind = tasks[Min(rest)].kind}

hasCRDOfGroupKind(k) == k = Custom /\ \E i \in createTasks : tasks[i].kind = CRD

\* The discovery of the kind, and the project's permission, for the next
\* tasks.  A kind that is not found is left out of a dry run if the tasks
\* define it; any other failure is one of all its tasks.
processCreateTasks ==
    /\ pc \in {"prune", "create"} /\ Waited /\ nextGroup # {}
    /\ pc' = "create" /\ group' = nextGroup
    /\ LET k == tasks[Min(nextGroup)].kind
           found == k = Custom => registered
       IN  \/ /\ ~found /\ dryRun /\ hasCRDOfGroupKind(k)
              /\ outcome' = [i \in DOMAIN tasks |->
                               IF i \in nextGroup THEN "unverified" ELSE outcome[i]]
              /\ UNCHANGED <<running, details, syncSuccessful>>
           \/ /\ Finish(nextGroup, "SyncFailed")
              /\ UNCHANGED running
           \/ /\ found
              /\ running' = nextGroup
              /\ UNCHANGED <<outcome, details, syncSuccessful>>
    /\ UNCHANGED <<args, registered>>

\* Fault: the status of an applied object is not set.
applyObject_NoStatus(i) ==
    /\ pc = "create" /\ i \in running
    /\ running' = running \ {i}
    /\ \E status \in {"", "SyncFailed"} : Finish({i}, status)
    /\ UNCHANGED <<args, pc, group, registered>>

applyObject(i) ==
    /\ pc = "create" /\ i \in running
    /\ running' = running \ {i}
    /\ \E status \in {"Synced", "SyncFailed"} : Finish({i}, status)
    /\ UNCHANGED <<args, pc, group, registered>>

\* The API server serves the custom kind, some time after its definition.
Register ==
    /\ ~registered /\ ~dryRun
    /\ \E i \in createTasks : tasks[i].kind = CRD /\ outcome[i] = "Synced"
    /\ registered' = TRUE
    /\ UNCHANGED <<args, pc, group, running, outcome, details, syncSuccessful>>

Return ==
    /\ pc \in {"prune", "create"} /\ Waited /\ nextGroup = {}
    /\ pc' = "done"
    /\ UNCHANGED <<args, group, running, registered, outcome, details, syncSuccessful>>

Returned == pc = "done" /\ UNCHANGED vars
-----------------------------------------------------------------------------
\* The resources of a comparison, in any order; the calls of sync and of
\* syncNonHookTasks.
Init ==
    /\ tasks \in UNION {[1 .. n -> SyncTask] : n \in 0 .. MaxTasks}
    /\ \A i, j \in DOMAIN tasks :
          i # j => <<tasks[i].kind, tasks[i].name>> # <<tasks[j].kind, tasks[j].name>>
    /\ sorted = 0
    /\ dryRun \in BOOLEAN /\ update \in BOOLEAN /\ (update \/ dryRun)
    /\ prune \in BOOLEAN /\ registered \in BOOLEAN
    /\ pc = "sort" /\ group = {} /\ running = {}
    /\ outcome = [i \in DOMAIN tasks |-> "none"]
    /\ details = outcome
    /\ syncSuccessful = TRUE

Next ==
    \/ generateSyncTasks \/ PruneTasks \/ processCreateTasks
    \/ Register \/ Return \/ Returned
    \/ \E i \in DOMAIN tasks : pruneObject(i) \/ applyObject(i)

Spec == Init /\ [][Next]_vars
-----------------------------------------------------------------------------
(* Properties.                                                             *)

Results == {"none", "Synced", "SyncedAndPruned", "PruningRequired", "SyncFailed"}

\* The tasks, the goroutines and the results keep their types.
TypeOK ==
    /\ tasks \in Seq(SyncTask) /\ sorted \in 0 .. Len(tasks)
    /\ {dryRun, update, prune} \subseteq BOOLEAN
    /\ pc \in {"sort", "prune", "create", "done"}
    /\ running \subseteq group /\ group \subseteq DOMAIN tasks
    /\ {registered, syncSuccessful} \subseteq BOOLEAN
    /\ outcome \in [DOMAIN tasks -> Results \union {"unverified"}]
    /\ details \in [DOMAIN tasks -> Results]

Begun(i) == i \in running \/ outcome[i] # "none"

\* doApplySync: no object is applied before every prune has ended, nor before
\* every object of another kind that comes before it.
InTurn ==
    \A i \in createTasks : Begun(i) =>
        /\ \A j \in pruneTasks : outcome[j] # "none"
        /\ \A j \in createTasks :
              j < i /\ tasks[j].kind # tasks[i].kind => outcome[j] # "none"

\* doApplySync: it returns true exactly if no task failed, after an attempt at
\* every task, and the details show what was asked for and every failure: a
\* dry run that succeeds leaves none, so that sync does not mistake it for
\* an apply.
ResultFaithful ==
    pc = "done" =>
        /\ syncSuccessful = (\A i \in DOMAIN tasks : outcome[i] # "SyncFailed")
        /\ \A i \in DOMAIN tasks :
              /\ outcome[i] # "none"
              /\ details[i] =
                    IF outcome[i] = "SyncFailed" \/ (update /\ outcome[i] # "unverified")
                    THEN outcome[i] ELSE "none"

\* The order resourceOrder asks for: known kinds by it, other kinds after
\* them, objects to prune last.
Rank(t) ==
    IF t.prune THEN Len(Ordering) + 2
    ELSE IF isKnown(t.kind) THEN Index(t.kind) ELSE Len(Ordering) + 1

Ordered(s) == \A i, j \in DOMAIN s : i <= j => Rank(s[i]) <= Rank(s[j])

\* kindSorter: without a namespace among them, tasks in any order are sorted by
\* resourceOrder, and those of a kind by name.
SortedByKind ==
    pc # "sort" /\ (\A i \in createTasks : tasks[i].kind # Namespace) =>
        /\ Ordered(tasks)
        /\ \A i, j \in createTasks :
              i < j /\ tasks[i].kind = tasks[j].kind => tasks[i].name < tasks[j].name

\* "resourceOrder represents the correct order of Kubernetes resources": an
\* object of a known kind is applied after those of the kinds before it.  With
\* a namespace and an unknown kind, Less has cycles and it is not.
KnownInOrder ==
    \A i, j \in createTasks :
        /\ Begun(i) /\ isKnown(tasks[i].kind) /\ isKnown(tasks[j].kind)
        /\ Index(tasks[j].kind) < Index(tasks[i].kind)
        => outcome[j] # "none"
=============================================================================
