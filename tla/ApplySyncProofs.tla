--------------------------- MODULE ApplySyncProofs ---------------------------
(***************************************************************************)
(* The properties of ApplySync for every ordering of kinds and any number  *)
(* of tasks.  First the comparison of kindSorter: without a namespace it   *)
(* is the lexicographic order of rank, kind and name.  Then the inductive  *)
(* invariant: the part sorted so far, the groups of tasks that were begun, *)
(* and the result and the details that follow from what became of each     *)
(* task.                                                                   *)
(***************************************************************************)
EXTENDS ApplySync, WellFoundedInduction, TLAPS

-----------------------------------------------------------------------------
(* Least and greatest elements.                                            *)

\* A set of natural numbers that is not empty has a least element, and Min is
\* it.
LEMMA MinIsLeast ==
    ASSUME NEW S \in SUBSET Nat, S # {}
    PROVE  Min(S) \in S /\ \A y \in S : Min(S) <= y
<1>1. \E x \in S : \A y \in S : ~(<<y, x>> \in OpToRel(<, Nat))
  BY NatLessThanWellFounded, WFMin, Zenon
<1>2. PICK x \in S : \A y \in S : ~(<<y, x>> \in OpToRel(<, Nat))
  BY <1>1, Zenon
<1>3. ASSUME NEW y \in S PROVE x <= y
  <2>1. <<y, x>> \in OpToRel(<, Nat) <=> y < x
    BY SMT DEF OpToRel
  <2>2. ~(y < x)
    BY <1>2, <2>1, Zenon
  <2> QED BY <2>2, SMT
<1>4. \E z \in S : \A y \in S : z =< y
  BY <1>3, Zenon
<1> QED BY <1>4, Zenon DEF Min

\* A set of numbers from 0 to n that is not empty has a greatest element, and
\* Max is it.
LEMMA MaxIsGreatest ==
    ASSUME NEW n \in Nat, NEW S \in SUBSET (0 .. n), S # {}
    PROVE  Max(S) \in S /\ \A y \in S : y <= Max(S)
<1> DEFINE T == {n - x : x \in S}
<1>1. T \in SUBSET Nat /\ T # {}
  <2>1. \A x \in S : n - x \in Nat
    OBVIOUS
  <2>2. T # {}
    BY Zenon
  <2> QED BY <2>1, <2>2, Zenon
<1>2. Min(T) \in T /\ \A y \in T : Min(T) <= y
  <2> HIDE DEF T
  <2> QED BY <1>1, MinIsLeast, Zenon
<1>3. PICK x \in S : Min(T) = n - x
  BY <1>2, Zenon
<1>4. ASSUME NEW y \in S PROVE x >= y
  <2>1. n - y \in T
    OBVIOUS
  <2>2. n - x <= n - y
    BY <2>1, <1>2, <1>3, Zenon
  <2> QED BY <2>2, SMT
<1>5. \E z \in S : \A y \in S : z >= y
  BY <1>4, Zenon
<1>6. Max(S) \in S /\ \A y \in S : Max(S) >= y
  BY <1>5, Zenon DEF Max
<1> QED BY <1>6, SMT
-----------------------------------------------------------------------------
(* kindSorter.                                                             *)

\* A task the order of which does not depend on that of its neighbours: not of
\* a namespace to apply, which has the index of an unknown kind.
Plain(t) == t \in SyncTask /\ (t.prune \/ t.kind # Namespace)

\* The ordering has a length, and its positions.
LEMMA OrderingType ==
    Len(Ordering) \in Nat /\ Len(Ordering) # 0 /\ DOMAIN Ordering = 1 .. Len(Ordering)
<1>1. Ordering \in Seq(Nat) /\ Ordering # << >>
  BY ConstantsAssumption, Zenon
<1> QED BY <1>1, SMT

\* The index of a kind is a position of the ordering, that of a known kind its
\* own, and the first only that of a namespace or an unknown kind.
LEMMA IndexType ==
    ASSUME NEW k \in Kinds
    PROVE  /\ Index(k) \in 1 .. Len(Ordering)
           /\ isKnown(k) => Ordering[Index(k)] = k
           /\ ~isKnown(k) => Index(k) = 1
<1>1. Len(Ordering) \in Nat /\ Len(Ordering) # 0 /\ DOMAIN Ordering = 1 .. Len(Ordering)
  BY OrderingType, Zenon
<1>2. CASE ~isKnown(k)
  BY <1>1, <1>2, SMT DEF Index
<1>3. CASE isKnown(k)
  <2>1. \E i \in DOMAIN Ordering : Ordering[i] = k
    BY <1>3, Zenon DEF isKnown, Range
  <2>2. Index(k) \in DOMAIN Ordering /\ Ordering[Index(k)] = k
    BY <1>3, <2>1, Zenon DEF Index
  <2> QED BY <1>1, <1>3, <2>2, Zenon
<1> QED BY <1>2, <1>3, Zenon

\* What Less compares, for tasks without a namespace among them: first the rank
\* of their kinds, then the kinds, then the names; objects to prune are last
\* and equivalent.
Before(a, b) ==
    /\ ~a.prune
    /\ \/ Rank(a) < Rank(b)
       \/ /\ Rank(a) = Rank(b)
          /\ IF a.kind = b.kind THEN a.name < b.name ELSE a.kind < b.kind

\* The rank of a task is a number; that of tasks to prune is the greatest.
LEMMA RankType ==
    ASSUME NEW a \in SyncTask
    PROVE  /\ Rank(a) \in Nat
           /\ a.kind \in Nat /\ a.name \in Nat /\ a.prune \in BOOLEAN /\ a.kind \in Kinds
           /\ IF a.prune THEN Rank(a) = Len(Ordering) + 2
              ELSE /\ Rank(a) < Len(Ordering) + 2
                   /\ isKnown(a.kind) => Rank(a) = Index(a.kind) /\ Rank(a) <= Len(Ordering)
                   /\ ~isKnown(a.kind) => Rank(a) = Len(Ordering) + 1
<1>1. a.kind \in Kinds /\ a.name \in Names /\ a.prune \in BOOLEAN
  BY Zenon DEF SyncTask
<1>2. a.kind \in Nat /\ a.name \in Nat
  BY <1>1, ConstantsAssumption, Zenon
<1>3. Index(a.kind) \in 1 .. Len(Ordering) /\ Len(Ordering) \in Nat
  BY <1>1, IndexType, OrderingType, Zenon
<1> QED BY <1>1, <1>2, <1>3, SMT DEF Rank

\* Less: without a namespace to apply it is the lexicographic order.
LEMMA LessIsBefore ==
    ASSUME NEW a, NEW b, Plain(a), Plain(b)
    PROVE  Less(a, b) <=> Before(a, b)
<1>1. a \in SyncTask /\ b \in SyncTask
  BY Zenon DEF Plain
<1>2. CASE a.prune
  BY <1>2, Zenon DEF Less, Before
<1>3. CASE ~a.prune /\ b.prune
  BY <1>1, <1>3, RankType, SMT DEF Less, Before
<1>4. CASE ~a.prune /\ ~b.prune
  <2>1. a.kind # Namespace /\ b.kind # Namespace
    BY <1>4, Zenon DEF Plain
  <2>2. ASSUME NEW k \in Kinds, isKnown(k), k # Namespace PROVE Index(k) > 1
    BY <2>2, IndexType, SMT DEF Namespace
  <2>3. a.kind \in Kinds /\ b.kind \in Kinds
    BY <1>1, RankType, Zenon
  <2>4. isKnown(a.kind) => Index(a.kind) > 1
    BY <2>1, <2>2, <2>3, Zenon
  <2>5. isKnown(b.kind) => Index(b.kind) > 1
    BY <2>1, <2>2, <2>3, Zenon
  <2>6. isKnown(a.kind) /\ isKnown(b.kind) /\ Index(a.kind) = Index(b.kind) => a.kind = b.kind
    BY <2>3, IndexType, Zenon
  <2>7. (~isKnown(a.kind) => Index(a.kind) = 1) /\ (~isKnown(b.kind) => Index(b.kind) = 1)
    BY <2>3, IndexType, Zenon
  <2>8. /\ isKnown(a.kind) => Rank(a) = Index(a.kind) /\ Rank(a) <= Len(Ordering)
        /\ ~isKnown(a.kind) => Rank(a) = Len(Ordering) + 1
        /\ isKnown(b.kind) => Rank(b) = Index(b.kind) /\ Rank(b) <= Len(Ordering)
        /\ ~isKnown(b.kind) => Rank(b) = Len(Ordering) + 1
        /\ Rank(a) \in Nat /\ Rank(b) \in Nat
    BY <1>1, <1>4, RankType, Zenon
  <2>9. /\ Index(a.kind) \in 1 .. Len(Ordering) /\ Index(b.kind) \in 1 .. Len(Ordering)
        /\ Len(Ordering) \in Nat
    BY <2>3, IndexType, OrderingType, Zenon
  <2>10. a.kind = b.kind => (isKnown(a.kind) <=> isKnown(b.kind))
    OBVIOUS
  <2> QED BY <1>4, <2>4, <2>5, <2>6, <2>7, <2>8, <2>9, <2>10, SMT DEF Less, Before
<1>5. a.prune \in BOOLEAN /\ b.prune \in BOOLEAN
  BY <1>1, RankType, Zenon
<1> QED BY <1>2, <1>3, <1>4, <1>5, Zenon

\* kindSorter: without a namespace to apply, Less is what sort.Sort requires of
\* it, a strict weak order: never both ways, and what is not less than a task
\* that is not less than a third is not less than the third.
THEOREM LessIsOrder ==
    ASSUME NEW a, NEW b, NEW c, Plain(a), Plain(b), Plain(c)
    PROVE  /\ Less(a, b) => ~Less(b, a)
           /\ ~Less(a, b) /\ ~Less(b, c) => ~Less(a, c)
<1>1. a \in SyncTask /\ b \in SyncTask /\ c \in SyncTask
  BY Zenon DEF Plain
<1>2. /\ Less(a, b) <=> Before(a, b)
      /\ Less(b, a) <=> Before(b, a)
      /\ Less(b, c) <=> Before(b, c)
      /\ Less(a, c) <=> Before(a, c)
  BY LessIsBefore, Zenon
<1>3. /\ Rank(a) \in Nat /\ a.kind \in Nat /\ a.name \in Nat /\ a.prune \in BOOLEAN
      /\ Rank(b) \in Nat /\ b.kind \in Nat /\ b.name \in Nat /\ b.prune \in BOOLEAN
      /\ Rank(c) \in Nat /\ c.kind \in Nat /\ c.name \in Nat /\ c.prune \in BOOLEAN
  BY <1>1, RankType, Zenon
<1>4. /\ b.prune => Rank(a) < Rank(b) \/ a.prune
      /\ c.prune => Rank(b) < Rank(c) \/ b.prune
      /\ a.prune => Rank(b) < Rank(a) \/ b.prune
  BY <1>1, RankType, SMT
<1>5. Before(a, b) => ~Before(b, a)
  BY <1>3, SMT DEF Before
<1>6. ~Before(a, b) /\ ~Before(b, c) => ~Before(a, c)
  BY <1>3, <1>4, SMT DEF Before
<1> QED BY <1>2, <1>5, <1>6, Zenon
-----------------------------------------------------------------------------
(* The inductive invariant.                                                *)

\* No two tasks have both the kind and the name in common.
Distinct ==
    \A i, j \in DOMAIN tasks :
        i # j => <<tasks[i].kind, tasks[i].name>> # <<tasks[j].kind, tasks[j].name>>

\* No task applies a namespace.
AllPlain == \A i \in createTasks : tasks[i].kind # Namespace

\* The sort: of the tasks in front none is less than one before it.
SortedPart ==
    AllPlain => \A i, j \in 1 .. sorted : i < j => ~Less(tasks[j], tasks[i])

\* The goroutines: nothing begins before the tasks are sorted; while objects
\* are pruned those not yet done are running; after that they are all done,
\* and in the end everything is.
Control ==
    /\ \A i \in running : outcome[i] = "none"
    /\ pc = "sort" => running = {} /\ \A i \in DOMAIN tasks : outcome[i] = "none"
    /\ pc # "sort" => sorted = Len(tasks)
    /\ pc = "prune" => /\ running = {i \in pruneTasks : outcome[i] = "none"}
                       /\ \A i \in createTasks : outcome[i] = "none"
    /\ pc \in {"create", "done"} => /\ running \subseteq createTasks
                                    /\ \A i \in pruneTasks : outcome[i] # "none"
    /\ pc = "done" => \A i \in DOMAIN tasks : outcome[i] # "none"

\* The details of a task that ended with status o.
Detail(o) == IF o = "SyncFailed" \/ (update /\ o # "unverified") THEN o ELSE "none"

\* The result and the details are those of what became of the tasks so far.
Faithful ==
    /\ syncSuccessful = (\A i \in DOMAIN tasks : outcome[i] # "SyncFailed")
    /\ \A i \in DOMAIN tasks : details[i] = Detail(outcome[i])

Inv == TypeOK /\ Distinct /\ SortedPart /\ Control /\ InTurn /\ Faithful
-----------------------------------------------------------------------------
(* The sort.                                                               *)

\* r is s with the task s[n] moved to the place after the p-th; p is the last
\* before n that it is not less than.
IsInsert(r, s, n, p) ==
    /\ r \in Seq(SyncTask) /\ Len(r) = Len(s) /\ DOMAIN r = DOMAIN s
    /\ \A i \in DOMAIN s : r[i] = IF i <= p \/ i > n THEN s[i]
                                  ELSE IF i = p + 1 THEN s[n] ELSE s[i - 1]
    /\ p # 0 => ~Less(s[n], s[p])
    /\ \A i \in 1 .. n - 1 : p < i => Less(s[n], s[i])

\* Insert finds such a place.
LEMMA Inserted ==
    ASSUME NEW s \in Seq(SyncTask), NEW n \in 1 .. Len(s)
    PROVE  \E p \in 0 .. n - 1 : IsInsert(Insert(s, n), s, n, p)
<1> DEFINE S == {0} \union {i \in 1 .. n - 1 : ~Less(s[n], s[i])}
           p == Max(S)
           r == [i \in DOMAIN s |-> IF i <= p \/ i > n THEN s[i]
                                    ELSE IF i = p + 1 THEN s[n] ELSE s[i - 1]]
<1>1. n - 1 \in Nat /\ S \in SUBSET (0 .. n - 1) /\ S # {}
  OBVIOUS
<1>2. p \in S /\ \A i \in S : i <= p
  <2> HIDE DEF S
  <2> QED BY <1>1, MaxIsGreatest, Zenon
<1>3. p \in 0 .. n - 1
  BY <1>1, <1>2, Zenon
<1>4. p # 0 => ~Less(s[n], s[p])
  BY <1>2, Zenon
<1>5. ASSUME NEW i \in 1 .. n - 1, p < i PROVE Less(s[n], s[i])
  <2>1. CASE ~Less(s[n], s[i])
    <3>1. i \in S
      BY <2>1, Zenon
    <3>2. i <= p
      BY <3>1, <1>2, Zenon
    <3> HIDE DEF p
    <3> QED BY <3>2, <1>3, <1>5, SMT
  <2> QED BY <2>1, Zenon
<1>6. DOMAIN s = 1 .. Len(s) /\ Len(s) \in Nat /\ \A i \in 1 .. Len(s) : s[i] \in SyncTask
  BY SMT
<1>7. r \in [1 .. Len(s) -> SyncTask]
  <2> HIDE DEF p
  <2>1. ASSUME NEW i \in 1 .. Len(s)
        PROVE  (IF i <= p \/ i > n THEN s[i]
                ELSE IF i = p + 1 THEN s[n] ELSE s[i - 1]) \in SyncTask
    <3>1. ~(i <= p \/ i > n) /\ i # p + 1 => i - 1 \in 1 .. Len(s)
      BY <1>3, <1>6, SMT
    <3> QED BY <3>1, <1>6, Zenon
  <2> QED BY <2>1, <1>6, Zenon
<1>8. r \in Seq(SyncTask) /\ Len(r) = Len(s) /\ DOMAIN r = DOMAIN s
  <2> HIDE DEF r
  <2> QED BY <1>6, <1>7, SMT
<1>9. Insert(s, n) = r
  BY Zenon DEF Insert
<1>10. \A i \in DOMAIN s : r[i] = IF i <= p \/ i > n THEN s[i]
                                  ELSE IF i = p + 1 THEN s[n] ELSE s[i - 1]
  BY Zenon
<1> HIDE DEF r, p
<1> QED BY <1>3, <1>4, <1>5, <1>8, <1>9, <1>10, Zenon DEF IsInsert

\* f tells where in s the tasks of r are: each at a place of its own.
IsPermutation(r, s, f) ==
    /\ f \in [DOMAIN s -> DOMAIN s]
    /\ \A i \in DOMAIN s : r[i] = s[f[i]]
    /\ \A i, j \in DOMAIN s : i # j => f[i] # f[j]
    /\ \A k \in DOMAIN s : \E i \in DOMAIN s : f[i] = k

\* Insert only moves tasks.
LEMMA Permuted ==
    ASSUME NEW s \in Seq(SyncTask), NEW n \in 1 .. Len(s), NEW p \in 0 .. n - 1, NEW r,
           IsInsert(r, s, n, p)
    PROVE  \E f : IsPermutation(r, s, f)
<1> DEFINE g(i) == IF i <= p \/ i > n THEN i ELSE IF i = p + 1 THEN n ELSE i - 1
           f == [i \in DOMAIN s |-> g(i)]
<1>1. DOMAIN s = 1 .. Len(s) /\ Len(s) \in Nat
  BY SMT
<1>2. \A i \in 1 .. Len(s) : g(i) \in 1 .. Len(s)
  BY <1>1, SMT
<1>3. \A i, j \in 1 .. Len(s) : i # j => g(i) # g(j)
  BY <1>1, SMT
<1>4. \A k \in 1 .. Len(s) : \E i \in 1 .. Len(s) : g(i) = k
  <2> SUFFICES ASSUME NEW k \in 1 .. Len(s) PROVE \E i \in 1 .. Len(s) : g(i) = k
    OBVIOUS
  <2> DEFINE i == IF k <= p \/ k > n THEN k ELSE IF k = n THEN p + 1 ELSE k + 1
  <2>1. i \in 1 .. Len(s) /\ g(i) = k
    BY <1>1, SMT
  <2> QED BY <2>1, Zenon
<1>5. \A i \in DOMAIN s : r[i] = s[g(i)]
  BY Zenon DEF IsInsert
<1> HIDE DEF g
<1>6. f \in [DOMAIN s -> DOMAIN s] /\ \A i \in DOMAIN s : f[i] = g(i)
  BY <1>1, <1>2, Zenon
<1> HIDE DEF f
<1>7. \A i \in DOMAIN s : r[i] = s[f[i]]
  BY <1>5, <1>6, Zenon
<1>8. \A i, j \in DOMAIN s : i # j => f[i] # f[j]
  BY <1>1, <1>3, <1>6, Zenon
<1>9. \A k \in DOMAIN s : \E i \in DOMAIN s : f[i] = k
  <2>1. ASSUME NEW k \in DOMAIN s PROVE \E i \in DOMAIN s : f[i] = k
    <3>1. PICK i \in 1 .. Len(s) : g(i) = k
      BY <1>1, <1>4, Zenon
    <3>2. i \in DOMAIN s /\ f[i] = k
      BY <1>1, <1>6, <3>1, Zenon
    <3> QED BY <3>2, Zenon
  <2> QED BY <2>1, Zenon
<1> QED BY <1>6, <1>7, <1>8, <1>9, Zenon DEF IsPermutation

\* A step that keeps the tasks and the part that is sorted keeps what is said
\* of them.
LEMMA ArgsKept ==
    ASSUME Inv, UNCHANGED args
    PROVE  /\ tasks' = tasks /\ sorted' = sorted /\ dryRun' = dryRun
           /\ update' = update /\ prune' = prune
           /\ createTasks' = createTasks /\ pruneTasks' = pruneTasks
           /\ Distinct' /\ SortedPart'
<1>1. tasks' = tasks /\ sorted' = sorted /\ dryRun' = dryRun /\ update' = update /\ prune' = prune
  BY Zenon DEF args
<1>2. createTasks' = createTasks /\ pruneTasks' = pruneTasks
  BY <1>1, Zenon DEF createTasks, pruneTasks
<1>3. Distinct'
  BY <1>1, Zenon DEF Inv, Distinct
<1>4. SortedPart'
  BY <1>1, <1>2, Zenon DEF Inv, SortedPart, AllPlain
<1> QED BY <1>1, <1>2, <1>3, <1>4, Zenon

\* A round of the sort keeps the tasks in front sorted.
LEMMA SortInv ==
    ASSUME Inv, generateSyncTasks
    PROVE  Inv'
<1>1. /\ tasks \in Seq(SyncTask) /\ sorted \in 0 .. Len(tasks) /\ pc = "sort"
      /\ sorted < Len(tasks) /\ running = {} /\ group \subseteq DOMAIN tasks
      /\ tasks' = Insert(tasks, sorted + 1) /\ sorted' = sorted + 1
      /\ \A i \in DOMAIN tasks : outcome[i] = "none"
  BY Zenon DEF Inv, TypeOK, Control, generateSyncTasks
<1>2. /\ dryRun' = dryRun /\ update' = update /\ prune' = prune /\ pc' = pc /\ group' = group
      /\ running' = running /\ registered' = registered /\ outcome' = outcome
      /\ details' = details /\ syncSuccessful' = syncSuccessful
  BY Zenon DEF generateSyncTasks
<1> DEFINE n == sorted + 1
<1>3. n \in 1 .. Len(tasks) /\ Len(tasks) \in Nat /\ sorted \in Nat /\ DOMAIN tasks = 1 .. Len(tasks)
  BY <1>1, SMT
<1>4. PICK p \in 0 .. n - 1 : IsInsert(tasks', tasks, n, p)
  <2> HIDE DEF n
  <2>1. tasks' = Insert(tasks, n)
    BY <1>1, Zenon DEF n
  <2>2. \E p \in 0 .. n - 1 : IsInsert(Insert(tasks, n), tasks, n, p)
    BY <1>1, <1>3, Inserted, Zenon
  <2> QED BY <2>1, <2>2, Zenon
<1>5. PICK f : IsPermutation(tasks', tasks, f)
  <2> HIDE DEF n
  <2> QED BY <1>1, <1>3, <1>4, Permuted, Zenon
<1>6. /\ tasks' \in Seq(SyncTask) /\ Len(tasks') = Len(tasks) /\ DOMAIN tasks' = DOMAIN tasks
      /\ \A i \in DOMAIN tasks : tasks'[i] = IF i <= p \/ i > n THEN tasks[i]
                                  ELSE IF i = p + 1 THEN tasks[n] ELSE tasks[i - 1]
      /\ p # 0 => ~Less(tasks[n], tasks[p])
      /\ \A i \in 1 .. n - 1 : p < i => Less(tasks[n], tasks[i])
  <2> HIDE DEF n
  <2> QED BY <1>4, Zenon DEF IsInsert
<1>7. TypeOK'
  <2>1. sorted' \in 0 .. Len(tasks')
    BY <1>1, <1>3, <1>6, SMT
  <2> QED BY <1>2, <1>6, <2>1, Zenon DEF Inv, TypeOK
<1>8. Distinct'
  <2> SUFFICES ASSUME NEW i \in DOMAIN tasks, NEW j \in DOMAIN tasks, i # j
               PROVE  <<tasks'[i].kind, tasks'[i].name>> # <<tasks'[j].kind, tasks'[j].name>>
    BY <1>6, Zenon DEF Distinct
  <2>1. f[i] \in DOMAIN tasks /\ f[j] \in DOMAIN tasks /\ f[i] # f[j]
    BY <1>5, Zenon DEF IsPermutation
  <2>2. tasks'[i] = tasks[f[i]] /\ tasks'[j] = tasks[f[j]]
    BY <1>5, Zenon DEF IsPermutation
  <2> QED BY <2>1, <2>2, Zenon DEF Inv, Distinct
<1>9. SortedPart'
  <2> SUFFICES ASSUME AllPlain', NEW i \in 1 .. n, NEW j \in 1 .. n, i < j
               PROVE  ~Less(tasks'[j], tasks'[i])
    BY <1>1, Zenon DEF SortedPart, Less, Index, isKnown
  <2>1. \A k \in DOMAIN tasks : tasks[k].prune \/ tasks[k].kind # Namespace
    <3> SUFFICES ASSUME NEW k \in DOMAIN tasks, ~tasks[k].prune PROVE tasks[k].kind # Namespace
      BY Zenon
    <3>1. PICK l \in DOMAIN tasks : f[l] = k
      BY <1>5, Zenon DEF IsPermutation
    <3>2. tasks'[l] = tasks[k]
      BY <1>5, <3>1, Zenon DEF IsPermutation
    <3>3. l \in createTasks'
      BY <1>6, <3>2, Zenon DEF createTasks, pruneTasks
    <3> QED BY <3>2, <3>3, Zenon DEF AllPlain, Namespace
  <2>2. \A k \in DOMAIN tasks : Plain(tasks[k])
    <3>1. \A k \in DOMAIN tasks : tasks[k] \in SyncTask
      BY <1>1, SMT
    <3> QED BY <2>1, <3>1, Zenon DEF Plain
  <2>3. \A k, l \in 1 .. sorted : k < l => ~Less(tasks[l], tasks[k])
    BY <2>1, Zenon DEF Inv, SortedPart, AllPlain, createTasks, pruneTasks
  <2>4. n \in DOMAIN tasks /\ i \in DOMAIN tasks /\ j \in DOMAIN tasks
    BY <1>3, SMT
  <2>5. CASE j <= p
    <3>1. i <= p /\ i \in 1 .. sorted /\ j \in 1 .. sorted
      BY <1>3, <2>5, SMT
    <3> QED BY <1>6, <2>3, <2>4, <2>5, <3>1, Zenon
  <2>6. CASE j = p + 1
    <3>1. tasks'[j] = tasks[n]
      BY <1>6, <2>4, <2>6, SMT
    <3>2. i <= p /\ i \in 1 .. sorted /\ p \in 1 .. sorted /\ p # 0 /\ p \in DOMAIN tasks
      BY <1>3, <2>6, SMT
    <3>3. tasks'[i] = tasks[i]
      BY <1>6, <2>4, <3>2, Zenon
    <3>4. ~Less(tasks[n], tasks[p])
      BY <1>6, <3>2, Zenon
    <3>5. i = p \/ ~Less(tasks[p], tasks[i])
      <4>1. i = p \/ i < p
        BY <3>2, SMT
      <4> QED BY <2>3, <3>2, <4>1, Zenon
    <3>6. ~Less(tasks[n], tasks[i])
      <4>1. Plain(tasks[n]) /\ Plain(tasks[p]) /\ Plain(tasks[i])
        BY <2>2, <2>4, <3>2, Zenon
      <4> QED BY <3>4, <3>5, <4>1, LessIsOrder, Zenon
    <3> QED BY <3>1, <3>3, <3>6, Zenon
  <2>7. CASE j > p + 1
    <3>1. /\ ~(j <= p \/ j > n) /\ j # p + 1 /\ j - 1 \in 1 .. sorted
          /\ j - 1 \in DOMAIN tasks /\ j - 1 \in 1 .. n - 1 /\ p < j - 1
      BY <1>3, <2>7, SMT
    <3>2. tasks'[j] = tasks[j - 1]
      BY <1>6, <2>4, <3>1, Zenon
    <3>3. CASE i <= p
      <4>1. i \in 1 .. sorted /\ i < j - 1
        BY <1>3, <2>7, <3>3, SMT
      <4>2. tasks'[i] = tasks[i]
        BY <1>6, <2>4, <3>3, Zenon
      <4> QED BY <2>3, <3>1, <3>2, <4>1, <4>2, Zenon
    <3>4. CASE i = p + 1
      <4>1. tasks'[i] = tasks[n]
        BY <1>6, <2>4, <3>4, SMT
      <4>2. Less(tasks[n], tasks[j - 1])
        BY <1>6, <3>1, Zenon
      <4>3. Plain(tasks[n]) /\ Plain(tasks[j - 1])
        BY <2>2, <2>4, <3>1, Zenon
      <4> QED BY <3>2, <4>1, <4>2, <4>3, LessIsOrder, Zenon
    <3>5. CASE i > p + 1
      <4>1. ~(i <= p \/ i > n) /\ i # p + 1 /\ i - 1 \in 1 .. sorted /\ i - 1 < j - 1
        BY <1>3, <3>5, SMT
      <4>2. tasks'[i] = tasks[i - 1]
        BY <1>6, <2>4, <4>1, Zenon
      <4> QED BY <2>3, <3>1, <3>2, <4>1, <4>2, Zenon
    <3>6. i <= p \/ i = p + 1 \/ i > p + 1
      OBVIOUS
    <3> QED BY <3>3, <3>4, <3>5, <3>6, Zenon
  <2>8. j <= p \/ j = p + 1 \/ j > p + 1
    OBVIOUS
  <2> QED BY <2>5, <2>6, <2>7, <2>8, Zenon
<1>10. Control'
  BY <1>1, <1>2, <1>6, Zenon DEF Control
<1>11. InTurn'
  BY <1>1, <1>2, <1>6, Zenon DEF InTurn, Begun, createTasks
<1>12. Faithful'
  BY <1>2, <1>6, Zenon DEF Inv, Faithful, Detail
<1> QED BY <1>7, <1>8, <1>9, <1>10, <1>11, <1>12, Zenon DEF Inv
-----------------------------------------------------------------------------
(* doApplySync.                                                            *)

\* The next group: tasks to apply that have not ended, all of one kind with
\* those before them; it is empty only if every task to apply has ended.
LEMMA NextGroup ==
    ASSUME TypeOK
    PROVE  /\ nextGroup \subseteq createTasks
           /\ \A i \in nextGroup : outcome[i] = "none"
           /\ \A i \in nextGroup : \A j \in createTasks :
                 j < i /\ tasks[j].kind # tasks[i].kind => outcome[j] # "none"
           /\ nextGroup = {} => \A i \in createTasks : outcome[i] # "none"
<1> DEFINE rest == {i \in createTasks : outcome[i] = "none"}
<1>1. createTasks \subseteq DOMAIN tasks /\ DOMAIN tasks \subseteq Nat
  <2>1. tasks \in Seq(SyncTask)
    BY Zenon DEF TypeOK
  <2>2. DOMAIN tasks \subseteq Nat
    BY <2>1, SMT
  <2> QED BY <2>2, Zenon DEF createTasks
<1>2. \A i \in nextGroup : i \in rest /\ \A j \in rest : j <= i => tasks[j].kind = tasks[Min(rest)].kind
  BY Zenon DEF nextGroup
<1>3. ASSUME NEW i \in nextGroup, NEW j \in createTasks,
             j < i, tasks[j].kind # tasks[i].kind
      PROVE  outcome[j] # "none"
  <2>1. i \in rest /\ i \in Nat /\ j \in Nat
    BY <1>1, <1>2, Zenon
  <2>2. j <= i /\ i <= i
    BY <1>3, <2>1, SMT
  <2>3. tasks[i].kind = tasks[Min(rest)].kind
    BY <1>2, <2>1, <2>2, Zenon
  <2>4. CASE j \in rest
    BY <1>2, <1>3, <2>2, <2>3, <2>4, Zenon
  <2> QED BY <2>4, Zenon
<1>4. ASSUME nextGroup = {} PROVE rest = {}
  <2>1. CASE rest # {}
    <3>1. rest \in SUBSET Nat
      BY <1>1, Zenon
    <3>2. Min(rest) \in rest /\ \A j \in rest : Min(rest) <= j
      <4> HIDE DEF rest
      <4> QED BY <2>1, <3>1, MinIsLeast, Zenon
    <3>3. ASSUME NEW j \in rest, j <= Min(rest) PROVE j = Min(rest)
      <4>1. j \in Nat /\ Min(rest) \in Nat /\ Min(rest) <= j
        BY <3>1, <3>2, Zenon
      <4> HIDE DEF rest
      <4> QED BY <3>3, <4>1, SMT
    <3>4. Min(rest) \in nextGroup
      BY <3>2, <3>3, Zenon DEF nextGroup
    <3> QED BY <1>4, <3>4, Zenon
  <2> QED BY <2>1, Zenon
<1> QED BY <1>2, <1>3, <1>4, Zenon

\* The ways tasks end: with a status that is recorded as setResourceDetails
\* does, or left out of a dry run.
Ends(is, status) ==
    /\ is # {} /\ is \subseteq DOMAIN tasks /\ \A i \in is : outcome[i] = "none"
    /\ outcome' = [i \in DOMAIN tasks |-> IF i \in is THEN status ELSE outcome[i]]
    /\ \/ /\ status \in Results \ {"none"}
          /\ setResourceDetails(is, status)
          /\ syncSuccessful' = (syncSuccessful /\ status # "SyncFailed")
       \/ status = "unverified" /\ UNCHANGED <<details, syncSuccessful>>

\* When tasks end, the result and the details follow.
LEMMA EndsFaithful ==
    ASSUME Inv, UNCHANGED args, NEW is, NEW status, Ends(is, status)
    PROVE  /\ outcome' \in [DOMAIN tasks -> Results \union {"unverified"}]
           /\ details' \in [DOMAIN tasks -> Results]
           /\ syncSuccessful' \in BOOLEAN
           /\ \A i \in DOMAIN tasks : outcome'[i] = IF i \in is THEN status ELSE outcome[i]
           /\ \A i \in is : outcome'[i] = status
           /\ status # "none"
           /\ Faithful'
<1>1. /\ outcome \in [DOMAIN tasks -> Results \union {"unverified"}]
      /\ details \in [DOMAIN tasks -> Results]
      /\ update \in BOOLEAN /\ syncSuccessful \in BOOLEAN
      /\ syncSuccessful = (\A i \in DOMAIN tasks : outcome[i] # "SyncFailed")
      /\ \A i \in DOMAIN tasks : details[i] = Detail(outcome[i])
  BY Zenon DEF Inv, TypeOK, Faithful
<1>2. tasks' = tasks /\ update' = update
  BY ArgsKept, Zenon
<1>3. status # "none" /\ status \in Results \union {"unverified"}
  BY Zenon DEF Ends, Results
<1>4. outcome' \in [DOMAIN tasks -> Results \union {"unverified"}]
  BY <1>1, <1>3, Zenon DEF Ends
<1>5. \A i \in DOMAIN tasks : outcome'[i] = IF i \in is THEN status ELSE outcome[i]
  BY Zenon DEF Ends
<1>6. /\ details' \in [DOMAIN tasks -> Results]
      /\ \A i \in DOMAIN tasks : details'[i] = Detail(outcome'[i])
      /\ syncSuccessful' \in BOOLEAN
      /\ syncSuccessful' = (\A i \in DOMAIN tasks : outcome'[i] # "SyncFailed")
  <2>1. is # {} /\ is \subseteq DOMAIN tasks /\ \A i \in is : outcome[i] = "none"
    BY Zenon DEF Ends
  <2>2. CASE /\ status \in Results \ {"none"} /\ status # "unverified"
             /\ setResourceDetails(is, status)
             /\ syncSuccessful' = (syncSuccessful /\ status # "SyncFailed")
    <3>1. CASE update \/ status = "SyncFailed"
      <4>1. details' = [i \in DOMAIN tasks |-> IF i \in is THEN status ELSE details[i]]
        BY <2>2, <3>1, Zenon DEF setResourceDetails
      <4>2. details' \in [DOMAIN tasks -> Results]
        BY <1>1, <2>2, <4>1, Zenon
      <4>3. ASSUME NEW i \in DOMAIN tasks PROVE details'[i] = Detail(outcome'[i])
        <5>1. CASE i \in is
          <6>1. details'[i] = status /\ outcome'[i] = status
            BY <1>5, <4>1, <5>1, Zenon
          <6> QED BY <2>2, <3>1, <6>1, Zenon DEF Detail
        <5>2. CASE i \notin is
          <6>1. details'[i] = details[i] /\ outcome'[i] = outcome[i]
            BY <1>5, <4>1, <5>2, Zenon
          <6> QED BY <1>1, <6>1, Zenon
        <5> QED BY <5>1, <5>2, Zenon
      <4> QED BY <1>1, <1>5, <2>1, <2>2, <4>2, <4>3, Zenon
    <3>2. CASE ~(update \/ status = "SyncFailed")
      <4>1. details' = details
        BY <2>2, <3>2, Zenon DEF setResourceDetails
      <4>2. ASSUME NEW i \in DOMAIN tasks PROVE details'[i] = Detail(outcome'[i])
        <5>1. CASE i \in is
          <6>1. outcome'[i] = status /\ outcome[i] = "none" /\ Detail("none") = "none" /\ Detail(status) = "none"
            BY <1>5, <2>1, <2>2, <3>2, <5>1, Zenon DEF Detail
          <6> QED BY <1>1, <4>1, <6>1, Zenon
        <5>2. CASE i \notin is
          BY <1>1, <1>5, <4>1, <5>2, Zenon
        <5> QED BY <5>1, <5>2, Zenon
      <4> QED BY <1>1, <1>5, <2>1, <2>2, <3>2, <4>1, <4>2, Zenon
    <3> QED BY <3>1, <3>2, Zenon
  <2>3. CASE status = "unverified" /\ UNCHANGED <<details, syncSuccessful>>
    <3>1. details' = details /\ syncSuccessful' = syncSuccessful
      BY <2>3, Zenon
    <3>2. ASSUME NEW i \in DOMAIN tasks PROVE details'[i] = Detail(outcome'[i])
      <4>1. CASE i \in is
        <5>1. outcome'[i] = status /\ outcome[i] = "none" /\ Detail("none") = "none" /\ Detail(status) = "none"
          BY <1>5, <2>1, <2>3, <4>1, Zenon DEF Detail
        <5> QED BY <1>1, <3>1, <5>1, Zenon
      <4>2. CASE i \notin is
        BY <1>1, <1>5, <3>1, <4>2, Zenon
      <4> QED BY <4>1, <4>2, Zenon
    <3>3. \A i \in DOMAIN tasks : outcome'[i] = "SyncFailed" <=> outcome[i] = "SyncFailed"
      BY <1>5, <2>1, <2>3, Zenon
    <3> QED BY <1>1, <3>1, <3>2, <3>3, Zenon
  <2> QED BY <2>2, <2>3, Zenon DEF Ends, Results
<1>7. Faithful'
  BY <1>2, <1>6, Zenon DEF Faithful, Detail
<1>8. \A i \in is : outcome'[i] = status
  BY <1>5, Zenon DEF Ends
<1> QED BY <1>3, <1>4, <1>5, <1>6, <1>7, <1>8, Zenon

\* What every step of doApplySync starts from.
LEMMA Facts ==
    ASSUME Inv
    PROVE  /\ running \subseteq group /\ group \subseteq DOMAIN tasks
           /\ \A i \in running : outcome[i] = "none"
           /\ pruneTasks \subseteq DOMAIN tasks /\ createTasks \subseteq DOMAIN tasks
           /\ \A i \in DOMAIN tasks : i \in createTasks \/ i \in pruneTasks
           /\ \A i \in createTasks : i \notin pruneTasks
           /\ {dryRun, update, prune} \subseteq BOOLEAN
           /\ {registered, syncSuccessful} \subseteq BOOLEAN
           /\ tasks \in Seq(SyncTask) /\ sorted \in 0 .. Len(tasks)
BY Zenon DEF Inv, TypeOK, Control, pruneTasks, createTasks

\* The first group: the objects to prune.
LEMMA PruneTasksInv ==
    ASSUME Inv, PruneTasks
    PROVE  Inv'
<1>1. /\ pc = "sort" /\ sorted = Len(tasks) /\ pc' = "prune" /\ UNCHANGED args
      /\ group' = pruneTasks /\ running' = pruneTasks /\ registered' = registered
      /\ outcome' = outcome /\ details' = details /\ syncSuccessful' = syncSuccessful
  BY Zenon DEF PruneTasks
<1>2. /\ tasks' = tasks /\ sorted' = sorted /\ dryRun' = dryRun
      /\ update' = update /\ prune' = prune
      /\ createTasks' = createTasks /\ pruneTasks' = pruneTasks
      /\ Distinct' /\ SortedPart'
  BY <1>1, ArgsKept, Zenon
<1>3. running = {} /\ \A i \in DOMAIN tasks : outcome[i] = "none"
  BY <1>1, Zenon DEF Inv, Control
<1>4. TypeOK'
  BY <1>1, <1>2, Zenon DEF Inv, TypeOK, pruneTasks
<1>5. Control'
  <2>1. running' = {i \in pruneTasks : outcome[i] = "none"}
    BY <1>1, <1>3, Facts, Zenon
  <2> QED BY <1>1, <1>2, <1>3, <2>1, Facts, Zenon DEF Control
<1>6. InTurn'
  BY <1>1, <1>2, <1>3, Facts, Zenon DEF InTurn, Begun
<1>7. Faithful'
  BY <1>1, <1>2, Zenon DEF Inv, Faithful, Detail
<1> QED BY <1>2, <1>4, <1>5, <1>6, <1>7, Zenon DEF Inv

\* A goroutine that prunes an object ends.
LEMMA pruneObjectInv ==
    ASSUME Inv, NEW i \in DOMAIN tasks, pruneObject(i)
    PROVE  Inv'
<1>1. /\ pc = "prune" /\ i \in running /\ running' = running \ {i} /\ UNCHANGED args
      /\ pc' = pc /\ group' = group /\ registered' = registered
  BY Zenon DEF pruneObject
<1>2. /\ tasks' = tasks /\ sorted' = sorted /\ dryRun' = dryRun
      /\ update' = update /\ prune' = prune
      /\ createTasks' = createTasks /\ pruneTasks' = pruneTasks
      /\ Distinct' /\ SortedPart'
  BY <1>1, ArgsKept, Zenon
<1>3. PICK status \in {"PruningRequired", "SyncedAndPruned", "SyncFailed"} : Finish({i}, status)
  BY Zenon DEF pruneObject
<1>4. Ends({i}, status)
  <2>1. {i} # {} /\ {i} \subseteq DOMAIN tasks /\ \A j \in {i} : outcome[j] = "none"
    BY <1>1, Facts, Zenon
  <2>2. status \in Results \ {"none"}
    BY Zenon DEF Results
  <2> QED BY <1>3, <2>1, <2>2, Zenon DEF Ends, Finish
<1>5. /\ outcome' \in [DOMAIN tasks -> Results \union {"unverified"}]
      /\ details' \in [DOMAIN tasks -> Results]
      /\ syncSuccessful' \in BOOLEAN
      /\ \A j \in DOMAIN tasks : outcome'[j] = IF j \in {i} THEN status ELSE outcome[j]
      /\ status # "none"
      /\ Faithful'
  BY <1>1, <1>4, EndsFaithful, Zenon
<1>6. TypeOK'
  BY <1>1, <1>2, <1>5, Facts, Zenon DEF TypeOK
<1>7. running = {j \in pruneTasks : outcome[j] = "none"} /\ \A j \in createTasks : outcome[j] = "none"
  BY <1>1, Zenon DEF Inv, Control
<1>8. i \in pruneTasks /\ \A j \in createTasks : outcome'[j] = "none"
  BY <1>1, <1>5, <1>7, Facts, Zenon
<1>9. Control'
  <2>1. running' = {j \in pruneTasks : outcome'[j] = "none"}
    BY <1>1, <1>5, <1>7, Facts, Zenon
  <2>2. \A j \in running' : outcome'[j] = "none"
    BY <2>1, Zenon
  <2>3. sorted = Len(tasks)
    BY <1>1, Zenon DEF Inv, Control
  <2> QED BY <1>1, <1>2, <1>8, <2>1, <2>2, <2>3, Zenon DEF Control
<1>10. InTurn'
  BY <1>1, <1>2, <1>7, <1>8, Facts, Zenon DEF InTurn, Begun
<1> QED BY <1>2, <1>5, <1>6, <1>9, <1>10, Zenon DEF Inv

\* A goroutine that applies an object ends.
LEMMA applyObjectInv ==
    ASSUME Inv, NEW i \in DOMAIN tasks, applyObject(i)
    PROVE  Inv'
<1>1. /\ pc = "create" /\ i \in running /\ running' = running \ {i} /\ UNCHANGED args
      /\ pc' = pc /\ group' = group /\ registered' = registered
  BY Zenon DEF applyObject
<1>2. /\ tasks' = tasks /\ sorted' = sorted /\ dryRun' = dryRun
      /\ update' = update /\ prune' = prune
      /\ createTasks' = createTasks /\ pruneTasks' = pruneTasks
      /\ Distinct' /\ SortedPart'
  BY <1>1, ArgsKept, Zenon
<1>3. PICK status \in {"Synced", "SyncFailed"} : Finish({i}, status)
  BY Zenon DEF applyObject
<1>4. Ends({i}, status)
  <2>1. {i} # {} /\ {i} \subseteq DOMAIN tasks /\ \A j \in {i} : outcome[j] = "none"
    BY <1>1, Facts, Zenon
  <2>2. status \in Results \ {"none"}
    BY Zenon DEF Results
  <2> QED BY <1>3, <2>1, <2>2, Zenon DEF Ends, Finish
<1>5. /\ outcome' \in [DOMAIN tasks -> Results \union {"unverified"}]
      /\ details' \in [DOMAIN tasks -> Results]
      /\ syncSuccessful' \in BOOLEAN
      /\ \A j \in DOMAIN tasks : outcome'[j] = IF j \in {i} THEN status ELSE outcome[j]
      /\ status # "none"
      /\ Faithful'
  BY <1>1, <1>4, EndsFaithful, Zenon
<1>6. TypeOK'
  BY <1>1, <1>2, <1>5, Facts, Zenon DEF TypeOK
<1>7. running \subseteq createTasks /\ (\A j \in pruneTasks : outcome[j] # "none") /\ sorted = Len(tasks)
  BY <1>1, Zenon DEF Inv, Control
<1>8. \A j \in DOMAIN tasks : outcome[j] # "none" => outcome'[j] # "none"
  BY <1>5, Zenon
<1>9. Control'
  <2>1. \A j \in running' : outcome'[j] = "none"
    BY <1>1, <1>5, Facts, Zenon
  <2>2. running' \subseteq createTasks /\ \A j \in pruneTasks : outcome'[j] # "none"
    BY <1>1, <1>7, <1>8, Facts, Zenon
  <2> QED BY <1>1, <1>2, <1>7, <2>1, <2>2, Zenon DEF Control
<1>10. InTurn'
  <2>1. \A j \in createTasks : Begun(j)' => Begun(j)
    BY <1>1, <1>5, Facts, Zenon DEF Begun
  <2>2. ASSUME NEW k \in createTasks, Begun(k)
        PROVE  /\ \A j \in pruneTasks : outcome[j] # "none"
               /\ \A j \in createTasks :
                     j < k /\ tasks[j].kind # tasks[k].kind => outcome[j] # "none"
    BY <2>2, Zenon DEF Inv, InTurn
  <2> QED BY <1>2, <1>8, <2>1, <2>2, Facts, Zenon DEF InTurn
<1> QED BY <1>2, <1>5, <1>6, <1>9, <1>10, Zenon DEF Inv

\* The next group is begun, left out or failed: those before it, of other
\* kinds, and the objects to prune have ended.
LEMMA processCreateTasksInv ==
    ASSUME Inv, processCreateTasks
    PROVE  Inv'
<1>1. /\ pc \in {"prune", "create"} /\ running = {} /\ nextGroup # {} /\ pc' = "create"
      /\ group' = nextGroup /\ UNCHANGED args /\ registered' = registered
  BY Zenon DEF processCreateTasks, Waited
<1>2. /\ tasks' = tasks /\ sorted' = sorted /\ dryRun' = dryRun
      /\ update' = update /\ prune' = prune
      /\ createTasks' = createTasks /\ pruneTasks' = pruneTasks
      /\ Distinct' /\ SortedPart'
  BY <1>1, ArgsKept, Zenon
<1>3. /\ nextGroup \subseteq createTasks /\ \A i \in nextGroup : outcome[i] = "none"
      /\ \A i \in nextGroup : \A j \in createTasks :
            j < i /\ tasks[j].kind # tasks[i].kind => outcome[j] # "none"
  BY NextGroup, Zenon DEF Inv
<1>4. (\A i \in pruneTasks : outcome[i] # "none") /\ sorted = Len(tasks)
  BY <1>1, Zenon DEF Inv, Control
<1>5. \/ running' = running /\ \E status : Ends(nextGroup, status)
      \/ running' = nextGroup /\ UNCHANGED <<outcome, details, syncSuccessful>>
  <2>1. nextGroup \subseteq DOMAIN tasks
    BY <1>3, Facts, Zenon
  <2>2. "SyncFailed" \in Results \ {"none"}
    BY Zenon DEF Results
  <2>3. ASSUME Finish(nextGroup, "SyncFailed") PROVE Ends(nextGroup, "SyncFailed")
    BY <1>1, <1>3, <2>1, <2>2, <2>3, Zenon DEF Ends, Finish
  <2>4. ASSUME outcome' = [i \in DOMAIN tasks |->
                             IF i \in nextGroup THEN "unverified" ELSE outcome[i]],
               UNCHANGED <<running, details, syncSuccessful>>
        PROVE  Ends(nextGroup, "unverified")
    BY <1>1, <1>3, <2>1, <2>4, Zenon DEF Ends
  <2> QED BY <2>3, <2>4, Zenon DEF processCreateTasks
<1>6. /\ outcome' \in [DOMAIN tasks -> Results \union {"unverified"}]
      /\ details' \in [DOMAIN tasks -> Results]
      /\ syncSuccessful' \in BOOLEAN
      /\ \A i \in DOMAIN tasks : outcome'[i] # outcome[i] => outcome'[i] # "none" /\ i \in nextGroup
      /\ \A i \in running' : outcome'[i] = "none" /\ i \in nextGroup
      /\ Faithful'
  <2>1. CASE running' = running /\ \E status : Ends(nextGroup, status)
    <3>1. PICK status : Ends(nextGroup, status)
      BY <2>1, Zenon
    <3>2. /\ outcome' \in [DOMAIN tasks -> Results \union {"unverified"}]
          /\ details' \in [DOMAIN tasks -> Results]
          /\ syncSuccessful' \in BOOLEAN
          /\ \A j \in DOMAIN tasks : outcome'[j] = IF j \in nextGroup THEN status ELSE outcome[j]
          /\ status # "none"
          /\ Faithful'
      BY <1>1, <3>1, EndsFaithful, Zenon
    <3> QED BY <1>1, <2>1, <3>2, Zenon
  <2>2. CASE running' = nextGroup /\ UNCHANGED <<outcome, details, syncSuccessful>>
    <3>1. Faithful'
      BY <1>2, <2>2, Zenon DEF Inv, Faithful, Detail
    <3> QED BY <1>3, <2>2, <3>1, Facts, Zenon DEF Inv, TypeOK
  <2> QED BY <1>5, <2>1, <2>2, Zenon
<1>7. running' \subseteq nextGroup
  BY <1>6, Zenon
<1>8. TypeOK'
  BY <1>1, <1>2, <1>3, <1>6, <1>7, Facts, Zenon DEF TypeOK
<1>9. \A i \in DOMAIN tasks : outcome[i] # "none" => outcome'[i] # "none"
  BY <1>6, Zenon
<1>10. Control'
  <2>1. running' \subseteq createTasks /\ \A i \in pruneTasks : outcome'[i] # "none"
    BY <1>3, <1>4, <1>7, <1>9, Facts, Zenon
  <2> QED BY <1>1, <1>2, <1>4, <1>6, <2>1, Zenon DEF Control
<1>11. InTurn'
  <2>1. \A i \in createTasks : Begun(i)' => Begun(i) \/ i \in nextGroup
    BY <1>6, Facts, Zenon DEF Begun
  <2>2. ASSUME NEW i \in createTasks, Begun(i)
        PROVE  \A j \in createTasks :
                  j < i /\ tasks[j].kind # tasks[i].kind => outcome[j] # "none"
    BY <2>2, Zenon DEF Inv, InTurn
  <2>3. ASSUME NEW i \in createTasks, Begun(i)', NEW j \in createTasks,
               j < i, tasks[j].kind # tasks[i].kind
        PROVE  outcome'[j] # "none"
    BY <1>3, <1>9, <2>1, <2>2, <2>3, Facts, Zenon
  <2>4. \A j \in pruneTasks : outcome'[j] # "none"
    BY <1>4, <1>9, Facts, Zenon
  <2> QED BY <1>2, <2>3, <2>4, Zenon DEF InTurn
<1> QED BY <1>2, <1>6, <1>8, <1>10, <1>11, Zenon DEF Inv

\* The other steps change nothing that the invariant is about, but for the end.
LEMMA OthersInv ==
    ASSUME Inv, Register \/ Return \/ UNCHANGED vars
    PROVE  Inv'
<1>1. /\ UNCHANGED args /\ group' = group /\ running' = running /\ outcome' = outcome
      /\ details' = details /\ syncSuccessful' = syncSuccessful /\ registered' \in BOOLEAN
  BY Facts, Zenon DEF Register, Return, vars
<1>2. \/ pc' = pc
      \/ pc \in {"prune", "create"} /\ pc' = "done" /\ running = {} /\ nextGroup = {}
  BY Zenon DEF Register, Return, Waited, vars
<1>3. /\ tasks' = tasks /\ sorted' = sorted /\ dryRun' = dryRun
      /\ update' = update /\ prune' = prune
      /\ createTasks' = createTasks /\ pruneTasks' = pruneTasks
      /\ Distinct' /\ SortedPart'
  BY <1>1, ArgsKept, Zenon
<1>4. TypeOK'
  BY <1>1, <1>2, <1>3, Zenon DEF Inv, TypeOK
<1>5. Control'
  <2>1. CASE pc' = pc
    BY <1>1, <1>3, <2>1, Zenon DEF Inv, Control
  <2>2. CASE pc \in {"prune", "create"} /\ pc' = "done" /\ running = {} /\ nextGroup = {}
    <3>1. \A i \in createTasks : outcome[i] # "none"
      BY <2>2, NextGroup, Zenon DEF Inv
    <3>2. (\A i \in pruneTasks : outcome[i] # "none") /\ sorted = Len(tasks)
      BY <2>2, Zenon DEF Inv, Control
    <3>3. \A i \in DOMAIN tasks : outcome[i] # "none"
      BY <3>1, <3>2, Facts, Zenon
    <3> QED BY <1>1, <1>3, <2>2, <3>2, <3>3, Zenon DEF Control
  <2> QED BY <1>2, <2>1, <2>2, Zenon
<1>6. InTurn'
  BY <1>1, <1>3, Zenon DEF Inv, InTurn, Begun
<1>7. Faithful'
  BY <1>1, <1>3, Zenon DEF Inv, Faithful, Detail
<1> QED BY <1>3, <1>4, <1>5, <1>6, <1>7, Zenon DEF Inv

\* The invariant holds at first.
LEMMA InitInv == Init => Inv
<1> SUFFICES ASSUME Init PROVE Inv
  OBVIOUS
<1>1. PICK n \in 0 .. MaxTasks : tasks \in [1 .. n -> SyncTask]
  BY Zenon DEF Init
<1>2. tasks \in Seq(SyncTask) /\ sorted \in 0 .. Len(tasks)
  <2>1. n \in Nat /\ sorted = 0
    BY ConstantsAssumption, SMT DEF Init
  <2> QED BY <1>1, <2>1, SMT
<1>3. /\ outcome = [i \in DOMAIN tasks |-> "none"] /\ details = outcome /\ syncSuccessful = TRUE
      /\ pc = "sort" /\ group = {} /\ running = {} /\ sorted = 0
      /\ dryRun \in BOOLEAN /\ update \in BOOLEAN /\ prune \in BOOLEAN /\ registered \in BOOLEAN
  BY Zenon DEF Init
<1>4. \A i \in DOMAIN tasks : outcome[i] = "none" /\ details[i] = "none"
  BY <1>3, Zenon
<1>5. TypeOK
  <2>1. "none" \in Results
    BY Zenon DEF Results
  <2> QED BY <1>2, <1>3, <2>1, Zenon DEF TypeOK
<1>6. Distinct
  BY Zenon DEF Init, Distinct
<1>7. SortedPart
  <2>1. 1 .. sorted = {}
    BY <1>3, SMT
  <2> QED BY <2>1, Zenon DEF SortedPart
<1>8. Control
  BY <1>3, <1>4, Zenon DEF Control
<1>9. InTurn
  BY <1>3, <1>4, Zenon DEF InTurn, Begun, createTasks
<1>10. Faithful
  BY <1>3, <1>4, Zenon DEF Faithful, Detail
<1> QED BY <1>5, <1>6, <1>7, <1>8, <1>9, <1>10, Zenon DEF Inv

\* Every reachable state of generateSyncTasks and doApplySync satisfies the
\* inductive invariant.
THEOREM Invariant == Spec => []Inv
<1>1. Inv /\ [Next]_vars => Inv'
  <2> SUFFICES ASSUME Inv, [Next]_vars PROVE Inv'
    OBVIOUS
  <2>1. CASE generateSyncTasks
    BY <2>1, SortInv, Zenon
  <2>2. CASE PruneTasks
    BY <2>2, PruneTasksInv, Zenon
  <2>3. CASE processCreateTasks
    BY <2>3, processCreateTasksInv, Zenon
  <2>4. CASE Register \/ Return \/ UNCHANGED vars
    BY <2>4, OthersInv, Zenon
  <2>5. ASSUME NEW i \in DOMAIN tasks, pruneObject(i) \/ applyObject(i) PROVE Inv'
    BY <2>5, pruneObjectInv, applyObjectInv, Zenon
  <2> QED BY <2>1, <2>2, <2>3, <2>4, <2>5, Zenon DEF Next, Returned
<1> QED BY <1>1, InitInv, PTL DEF Spec
-----------------------------------------------------------------------------
(* The properties.                                                         *)

\* The tasks, the goroutines and the results keep their types.
THEOREM TypeCorrect == Spec => []TypeOK
<1>1. Inv => TypeOK
  BY Zenon DEF Inv
<1> QED BY <1>1, Invariant, PTL

\* doApplySync: no object is applied before every prune has ended, nor before
\* every object of another kind that comes before it.
THEOREM InTurnCorrect == Spec => []InTurn
<1>1. Inv => InTurn
  BY Zenon DEF Inv
<1> QED BY <1>1, Invariant, PTL

\* doApplySync: its result and the details tell what became of each task.
THEOREM ResultCorrect == Spec => []ResultFaithful
<1>1. Inv => ResultFaithful
  BY Zenon DEF Inv, Control, Faithful, Detail, ResultFaithful
<1> QED BY <1>1, Invariant, PTL

\* generateSyncTasks: without a namespace to apply, any number of tasks in any
\* order are sorted by resourceOrder, and those of a kind by name.
THEOREM SortCorrect == Spec => []SortedByKind
<1>1. ASSUME Inv PROVE SortedByKind
  <2> SUFFICES ASSUME pc # "sort", AllPlain
               PROVE  /\ Ordered(tasks)
                      /\ \A i, j \in createTasks :
                            i < j /\ tasks[i].kind = tasks[j].kind => tasks[i].name < tasks[j].name
    BY Zenon DEF SortedByKind, AllPlain
  <2>1. tasks \in Seq(SyncTask) /\ sorted = Len(tasks)
    BY <1>1, Zenon DEF Inv, TypeOK, Control
  <2>2. DOMAIN tasks = 1 .. sorted /\ Len(tasks) \in Nat /\ \A i \in DOMAIN tasks : tasks[i] \in SyncTask
    BY <2>1, SMT
  <2>3. \A i \in DOMAIN tasks : Plain(tasks[i])
    BY <2>2, Zenon DEF AllPlain, Plain, createTasks, pruneTasks
  <2>4. \A i, j \in DOMAIN tasks : i < j => ~Before(tasks[j], tasks[i])
    BY <1>1, <2>2, <2>3, LessIsBefore, Zenon DEF Inv, SortedPart
  <2>5. ASSUME NEW i \in DOMAIN tasks, NEW j \in DOMAIN tasks, i <= j
        PROVE  Rank(tasks[i]) <= Rank(tasks[j])
    <3>1. Rank(tasks[i]) \in Nat /\ Rank(tasks[j]) \in Nat
      BY <2>2, RankType, Zenon
    <3>2. i = j \/ i < j
      BY <2>1, <2>2, <2>5, SMT
    <3>3. CASE i < j
      <4>1. ~Before(tasks[j], tasks[i])
        BY <2>4, <3>3, Zenon
      <4>2. tasks[j].prune => Rank(tasks[i]) <= Rank(tasks[j])
        BY <2>2, RankType, OrderingType, SMT
      <4> QED BY <3>1, <4>1, <4>2, SMT DEF Before
    <3> QED BY <3>1, <3>2, <3>3, SMT
  <2>6. ASSUME NEW i \in createTasks, NEW j \in createTasks, i < j, tasks[i].kind = tasks[j].kind
        PROVE  tasks[i].name < tasks[j].name
    <3>1. i \in DOMAIN tasks /\ j \in DOMAIN tasks /\ ~tasks[i].prune /\ ~tasks[j].prune /\ i # j
      BY <2>2, <2>6, SMT DEF createTasks, pruneTasks
    <3>2. ~Before(tasks[j], tasks[i])
      BY <2>4, <2>6, <3>1, Zenon
    <3>3. Rank(tasks[i]) = Rank(tasks[j])
      BY <2>6, <3>1, Zenon DEF Rank
    <3>4. tasks[i].name # tasks[j].name
      BY <1>1, <2>6, <3>1, Zenon DEF Inv, Distinct
    <3>5. tasks[i].name \in Nat /\ tasks[j].name \in Nat
      BY <2>2, <3>1, RankType, Zenon
    <3>6. ~(tasks[j].name < tasks[i].name)
      BY <2>6, <3>1, <3>2, <3>3, Zenon DEF Before
    <3> QED BY <3>4, <3>5, <3>6, SMT
  <2>7. Ordered(tasks)
    BY <2>5, Zenon DEF Ordered
  <2> QED BY <2>6, <2>7, Zenon
<1> QED BY <1>1, Invariant, PTL
=============================================================================
