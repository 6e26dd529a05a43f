-------------------------- MODULE RepoServerProofs --------------------------
(***************************************************************************)
(* The inductive invariant of RepoServer, for every value of its           *)
(* constants: any number of concurrent calls, repositories, commits and    *)
(* queries, and any pushes, expiries and restarts; and what follows from   *)
(* it.                                                                     *)
(***************************************************************************)
EXTENDS RepoServer, TLAPS

Args == {q.arg : q \in Queries}

\* A call has its query, and between LsRemote and its end its commitSHA is
\* the commit LsRemote found.
CallOK(r) ==
    /\ pc[r] # "idle" => query[r] \in Queries
    /\ pc[r] \notin {"idle", "newClient", "failed"} => asked[r] \in Commits
    /\ pc[r] \in Busy \ {"newClient"} =>
          /\ sha[r] \in [commit : Commits, full : BOOLEAN]
          /\ sha[r].commit = asked[r]

\* The mutex a call waits for, or has, is the one the key lock names; a call
\* that works in a directory has it.
LockOK(r) ==
    /\ pc[r] \in {"lock"} \union Locked =>
          want[r] \in Procs /\ want[r] = locks[Root(r)]
    /\ pc[r] \in Locked => holder[<<Root(r), want[r]>>] = r

\* Between the checkout and the work the directory is the commit and nothing
\* else.
CopyOK(r) ==
    pc[r] \in {"commitSHA", "work"} =>
        /\ copy[Root(r)].head = asked[r]
        /\ copy[Root(r)].modified = {}
        /\ copy[Root(r)].untracked = {}

ContentOf(r) == [op |-> query[r].op, arg |-> query[r].arg,
                 tree |-> asked[r], extra |-> {}]

\* The result of a call is what its commit gives.
ResultOK(r) == pc[r] \in {"cacheSet", "answered"} => result[r] = ContentOf(r)

\* The inductive invariant.
Inv ==
    /\ TypeOK
    /\ CacheFaithful
    /\ \A r \in Procs : CallOK(r) /\ LockOK(r) /\ CopyOK(r) /\ ResultOK(r)

\* Two handlers never work in the same directory (repoLock, util.KeyLock).
CopyExclusive ==
    \A r, s \in Procs :
        pc[r] \in Locked /\ pc[s] \in Locked /\ Root(r) = Root(s) => r = s

\* The lock of a directory excludes: the holder of its one mutex is one call.
LEMMA Exclusion ==
    ASSUME Inv
    PROVE  CopyExclusive
<1> SUFFICES ASSUME NEW r \in Procs, NEW s \in Procs,
                    pc[r] \in Locked, pc[s] \in Locked, Root(r) = Root(s)
             PROVE  r = s
  BY Zenon DEF CopyExclusive
<1>1. LockOK(r) /\ LockOK(s)
  BY Zenon DEF Inv
<1>2. want[r] = want[s]
  BY <1>1, Zenon DEF LockOK
<1> QED
  BY <1>1, <1>2, Zenon DEF LockOK

\* The directory of a call is one of the keys.
LEMMA RootType ==
    ASSUME NEW r \in Procs, query[r] \in Queries
    PROVE  Root(r) \in Keys
BY RepoAssumption, Zenon DEF Root

\* The initial states satisfy the invariant.
LEMMA InitInv == Init => Inv
<1> SUFFICES ASSUME Init PROVE Inv
  OBVIOUS
<1>1. TypeOK
  <2>1. LockTypeOK
    BY Zenon DEF Init, NewKeyLock, LockTypeOK
  <2>2. copy \in [Keys -> CopyType]
    BY Zenon DEF Init, NoCopy, CopyType
  <2>3. \A key \in DOMAIN cache : cache[key] \in Results
    BY Zenon DEF Init, NoCache
  <2> QED
    BY <2>1, <2>2, <2>3, Zenon DEF Init, TypeOK
<1>2. CacheFaithful
  BY Zenon DEF Init, NoCache, CacheFaithful
<1>3. \A r \in Procs : CallOK(r) /\ LockOK(r) /\ CopyOK(r) /\ ResultOK(r)
  BY Zenon DEF Init, CallOK, LockOK, CopyOK, ResultOK, Busy, Locked
<1> QED
  BY <1>1, <1>2, <1>3, Zenon DEF Inv

-----------------------------------------------------------------------------
(* Steps of the key lock.                                                  *)

\* A call that returns gives up its mutex and disturbs no other.
LEMMA ReturnKeeps ==
    ASSUME Inv, NEW r \in Procs, NEW l \in {"answered", "failed"},
           pc[r] \in Locked, Return(r, l), query' = query
    PROVE  /\ LockTypeOK'
           /\ pc' \in [Procs -> Busy \union {"idle", "answered", "failed"}]
           /\ pc'[r] = l
           /\ \A s \in Procs \ {r} : pc'[s] = pc[s]
           /\ \A s \in Procs : LockOK(s)'
<1>1. /\ query[r] \in Queries
      /\ want[r] \in Procs /\ locks[Root(r)] = want[r]
      /\ holder[<<Root(r), want[r]>>] = r
  BY Zenon DEF Inv, CallOK, LockOK, Locked
<1>2. Root(r) \in Keys
  BY <1>1, RootType, Zenon
<1>3. /\ pc \in [Procs -> Busy \union {"idle", "answered", "failed"}]
      /\ LockTypeOK
  BY Zenon DEF Inv, TypeOK
<1>4. /\ holder' = [holder EXCEPT ![<<Root(r), want[r]>>] = None]
      /\ want' = [want EXCEPT ![r] = None]
      /\ locks' = locks
      /\ pc' = [pc EXCEPT ![r] = l]
  BY <1>1, Zenon DEF Return, Unlock, Goto
<1>5. LockTypeOK'
  BY <1>1, <1>2, <1>3, <1>4, Zenon DEF LockTypeOK
<1>6. pc'[r] = l /\ \A s \in Procs \ {r} : pc'[s] = pc[s]
  BY <1>3, <1>4, Zenon
<1>7. ASSUME NEW s \in Procs
      PROVE  LockOK(s)'
  <2>1. Root(s)' = Root(s)
    BY Zenon DEF Root
  <2>2. CASE s = r
    BY <2>2, <1>6, Zenon DEF LockOK, Locked
  <2>3. CASE s # r
    <3>1. pc'[s] = pc[s] /\ want'[s] = want[s]
      BY <2>3, <1>3, <1>4, Zenon DEF LockTypeOK
    <3>2. LockOK(s)
      BY Zenon DEF Inv
    <3>3. CASE pc[s] \in Locked
      <4>1. Root(s) # Root(r)
        BY <2>3, <3>3, Exclusion, Zenon DEF CopyExclusive
      <4>2. holder'[<<Root(s), want[s]>>] = holder[<<Root(s), want[s]>>]
        <5>1. query[s] \in Queries /\ want[s] \in Procs
          BY <3>2, <3>3, Zenon DEF LockOK, Inv, CallOK, Locked
        <5>2. <<Root(s), want[s]>> \in Keys \X Procs
          BY <5>1, RootType, Zenon
        <5> QED
          BY <4>1, <5>2, <1>3, <1>4, Zenon DEF LockTypeOK
      <4> QED
        BY <2>1, <3>1, <3>2, <3>3, <4>2, <1>4, Zenon DEF LockOK
    <3>4. CASE pc[s] \notin Locked
      BY <2>1, <3>1, <3>2, <3>4, <1>4, Zenon DEF LockOK
    <3> QED
      BY <3>3, <3>4, Zenon
  <2> QED
    BY <2>2, <2>3, Zenon
<1>8. pc' \in [Procs -> Busy \union {"idle", "answered", "failed"}]
  BY <1>3, <1>4, Zenon
<1> QED
  BY <1>5, <1>6, <1>7, <1>8, Zenon

\* A step that leaves the locks alone and moves call r between two stages
\* that hold the same lock, or to or from stages before the lock, keeps the
\* lock part of the invariant.
LEMMA LocksKept ==
    ASSUME Inv, NEW r \in Procs, NEW l, UNCHANGED lockVars,
           pc' = [pc EXCEPT ![r] = l],
           \A s \in Procs : s # r \/ l \in Locked => query'[s] = query[s],
           l \in Locked => pc[r] \in Locked,
           l # "lock"
    PROVE  LockTypeOK' /\ \A s \in Procs : LockOK(s)'
<1>1. /\ LockTypeOK
      /\ pc \in [Procs -> Busy \union {"idle", "answered", "failed"}]
  BY Zenon DEF Inv, TypeOK
<1>2. LockTypeOK'
  BY <1>1, Zenon DEF LockTypeOK, lockVars
<1>3. ASSUME NEW s \in Procs
      PROVE  LockOK(s)'
  <2>1. LockOK(s) /\ UNCHANGED <<locks, holder, want>>
    BY Zenon DEF Inv, lockVars
  <2>2. CASE s # r \/ l \in Locked
    <3>1. Root(s)' = Root(s)
      BY <2>2, Zenon DEF Root
    <3>2. pc'[s] = pc[s] \/ (pc'[s] \in Locked /\ pc[s] \in Locked)
      BY <1>1, <2>2, Zenon
    <3> QED
      BY <2>1, <3>1, <3>2, Zenon DEF LockOK
  <2>3. CASE s = r /\ l \notin Locked
    BY <1>1, <2>3, Zenon DEF LockOK
  <2> QED
    BY <2>2, <2>3, Zenon
<1> QED
  BY <1>2, <1>3, Zenon

-----------------------------------------------------------------------------
(* What a step of call r leaves to the other calls.                        *)

\* A call whose own variables and directory do not change keeps its part of
\* the invariant.
LEMMA OtherKept ==
    ASSUME Inv, NEW s \in Procs,
           pc'[s] = pc[s], query'[s] = query[s], sha'[s] = sha[s],
           asked'[s] = asked[s], result'[s] = result[s],
           pc[s] \in Locked => copy'[Root(s)] = copy[Root(s)]
    PROVE  CallOK(s)' /\ CopyOK(s)' /\ ResultOK(s)'
<1>1. CallOK(s) /\ CopyOK(s) /\ ResultOK(s)
  BY Zenon DEF Inv
<1>2. Root(s)' = Root(s) /\ ContentOf(s)' = ContentOf(s)
  BY Zenon DEF Root, ContentOf
<1>3. CallOK(s)'
  BY <1>1, Zenon DEF CallOK
<1>4. CopyOK(s)'
  BY <1>1, <1>2, Zenon DEF CopyOK, Locked
<1>5. ResultOK(s)'
  BY <1>1, <1>2, Zenon DEF ResultOK
<1> QED
  BY <1>3, <1>4, <1>5, Zenon

\* Work in the directory of call r does not reach the directory of another
\* call that works.
LEMMA OtherCopy ==
    ASSUME Inv, NEW r \in Procs, NEW s \in Procs, s # r, pc[r] \in Locked,
           NEW w, copy' = [copy EXCEPT ![Root(r)] = w], pc[s] \in Locked
    PROVE  copy'[Root(s)] = copy[Root(s)]
<1>1. Root(s) # Root(r)
  BY Exclusion, Zenon DEF CopyExclusive
<1>2. Root(s) \in Keys
  BY RootType, Zenon DEF Inv, CallOK, Locked
<1> QED
  BY <1>1, <1>2, Zenon DEF Inv, TypeOK

\* A call that works has a typed directory and a typed commit.
LEMMA WorkerType ==
    ASSUME Inv, NEW r \in Procs, pc[r] \in Locked
    PROVE  /\ query[r] \in Queries
           /\ Root(r) \in Keys
           /\ copy[Root(r)] \in CopyType
           /\ asked[r] \in Commits
           /\ sha[r] \in [commit : Commits, full : BOOLEAN]
           /\ sha[r].commit = asked[r]
<1>1. pc[r] \notin {"idle", "newClient", "failed"}
  BY Zenon DEF Locked
<1>2. pc[r] \in Busy \ {"newClient"}
  BY Zenon DEF Locked, Busy
<1>3. CallOK(r)
  BY Zenon DEF Inv
<1>4. query[r] \in Queries /\ asked[r] \in Commits
  BY <1>1, <1>3, Zenon DEF CallOK
<1>5. Root(r) \in Keys
  BY <1>4, RootType, Zenon
<1> QED
  BY <1>2, <1>3, <1>4, <1>5, Zenon DEF CallOK, Inv, TypeOK

-----------------------------------------------------------------------------
(* One lemma for each group of actions.                                    *)

\* The steps before the lock.
LEMMA BeforeLock ==
    ASSUME Inv, NEW r \in Procs,
           Ask(r) \/ ResolveRevision(r) \/ ResolveFails(r) \/ CacheGet(r)
    PROVE  Inv'
<1> USE DEF Goto
<1>1. /\ TypeOK /\ CacheFaithful
      /\ CallOK(r) /\ CopyOK(r) /\ ResultOK(r)
  BY Zenon DEF Inv
<1>2. CASE Ask(r)
  <2>1. PICK q \in Queries : query' = [query EXCEPT ![r] = q]
    BY <1>2, ZenonT(30) DEF Ask
  <2>2. /\ pc[r] = "idle" /\ pc' = [pc EXCEPT ![r] = "newClient"]
        /\ UNCHANGED <<lockVars, refs, copy, cache, sha, result, asked>>
    BY <1>2, Zenon DEF Ask
  <2>3. /\ pc'[r] = "newClient" /\ query'[r] = q
        /\ \A s \in Procs \ {r} : pc'[s] = pc[s] /\ query'[s] = query[s]
    BY <1>1, <2>1, <2>2, Zenon DEF TypeOK
  <2>4. LockTypeOK' /\ \A s \in Procs : LockOK(s)'
    <3>1. "newClient" \notin Locked
      BY Zenon DEF Locked
    <3> QED
      BY <2>2, <2>3, <3>1, LocksKept, ZenonT(30)
  <2>5. TypeOK'
    BY <1>1, <2>1, <2>2, <2>4, Zenon DEF TypeOK, Busy
  <2>6. CallOK(r)' /\ CopyOK(r)' /\ ResultOK(r)'
    BY <2>3, Zenon DEF CallOK, CopyOK, ResultOK
  <2>7. \A s \in Procs \ {r} : CallOK(s)' /\ CopyOK(s)' /\ ResultOK(s)'
    BY <2>2, <2>3, OtherKept, Zenon
  <2>8. CacheFaithful'
    BY <1>1, <2>2, Zenon DEF CacheFaithful
  <2> QED
    BY <2>4, <2>5, <2>6, <2>7, <2>8, Zenon DEF Inv
<1>3. CASE ResolveRevision(r)
  <2> DEFINE rev == query[r].rev
             c == IF rev.type = "branch" THEN refs[query[r].repo].head
                                         ELSE rev.commit
             h == [commit |-> c, full |-> rev.type # "short"]
  <2>1. /\ pc[r] = "newClient" /\ pc' = [pc EXCEPT ![r] = "cacheGet"]
        /\ sha' = [sha EXCEPT ![r] = h]
        /\ asked' = [asked EXCEPT ![r] = c]
        /\ UNCHANGED <<lockVars, refs, copy, cache, query, result>>
    BY <1>3, Zenon DEF ResolveRevision
  <2>2. query[r] \in Queries
    BY <1>1, <2>1, SMTT(20) DEF CallOK
  <2>3. c \in Commits /\ h \in [commit : Commits, full : BOOLEAN]
    BY <1>1, <2>2, RepoAssumption, Zenon DEF TypeOK, Remotes
  <2> HIDE DEF h, c, rev
  <2>4. /\ pc'[r] = "cacheGet" /\ sha'[r] = h /\ asked'[r] = c
        /\ \A s \in Procs \ {r} :
              pc'[s] = pc[s] /\ sha'[s] = sha[s] /\ asked'[s] = asked[s]
    BY <1>1, <2>1, Zenon DEF TypeOK
  <2>5. LockTypeOK' /\ \A s \in Procs : LockOK(s)'
    <3>1. "cacheGet" \notin Locked
      BY SMTT(20) DEF Locked
    <3> QED
      BY <2>1, <3>1, LocksKept, ZenonT(30)
  <2>6. TypeOK'
    BY <1>1, <2>1, <2>3, <2>5, Zenon DEF TypeOK, Busy
  <2>7. CallOK(r)' /\ CopyOK(r)' /\ ResultOK(r)'
    <3>1. h.commit = c
      BY Zenon DEF h
    <3> QED
      BY <2>1, <2>2, <2>3, <2>4, <3>1, Zenon DEF CallOK, CopyOK, ResultOK
  <2>8. \A s \in Procs \ {r} : CallOK(s)' /\ CopyOK(s)' /\ ResultOK(s)'
    BY <2>1, <2>4, OtherKept, Zenon
  <2>9. CacheFaithful'
    BY <1>1, <2>1, Zenon DEF CacheFaithful
  <2> QED
    BY <2>5, <2>6, <2>7, <2>8, <2>9, Zenon DEF Inv
<1>4. CASE ResolveFails(r)
  <2>1. /\ pc[r] = "newClient" /\ pc' = [pc EXCEPT ![r] = "failed"]
        /\ UNCHANGED <<lockVars, refs, copy, cache, query, sha, result, asked>>
    BY <1>4, Zenon DEF ResolveFails
  <2>2. pc'[r] = "failed" /\ \A s \in Procs \ {r} : pc'[s] = pc[s]
    BY <1>1, <2>1, Zenon DEF TypeOK
  <2>3. LockTypeOK' /\ \A s \in Procs : LockOK(s)'
    <3>1. "failed" \notin Locked
      BY SMTT(20) DEF Locked
    <3> QED
      BY <2>1, <3>1, LocksKept, ZenonT(30)
  <2>4. TypeOK'
    BY <1>1, <2>1, <2>3, Zenon DEF TypeOK, Busy
  <2>5. CallOK(r)' /\ CopyOK(r)' /\ ResultOK(r)'
    BY <1>1, <2>1, <2>2, Zenon DEF CallOK, CopyOK, ResultOK, Busy
  <2>6. \A s \in Procs \ {r} : CallOK(s)' /\ CopyOK(s)' /\ ResultOK(s)'
    BY <2>1, <2>2, OtherKept, Zenon
  <2>7. CacheFaithful'
    BY <1>1, <2>1, Zenon DEF CacheFaithful
  <2> QED
    BY <2>3, <2>4, <2>5, <2>6, <2>7 DEF Inv
<1>5. CASE CacheGet(r)
  <2> DEFINE key == CacheKey(sha[r], query[r])
  <2>1. /\ pc[r] = "cacheGet"
        /\ UNCHANGED <<lockVars, refs, copy, cache, query, sha, asked>>
        /\ IF key \in DOMAIN cache
             THEN /\ result' = [result EXCEPT ![r] = cache[key]]
                  /\ pc' = [pc EXCEPT ![r] = "answered"]
             ELSE pc' = [pc EXCEPT ![r] = "getLock"] /\ UNCHANGED result
    BY <1>5, Zenon DEF CacheGet
  <2>2. PICK l \in {"answered", "getLock"} : pc' = [pc EXCEPT ![r] = l]
    BY <2>1, Zenon
  <2>3. /\ query[r] \in Queries /\ asked[r] \in Commits
        /\ sha[r] \in [commit : Commits, full : BOOLEAN]
        /\ sha[r].commit = asked[r]
    BY <1>1, <2>1, Zenon DEF CallOK, Busy
  <2>4. pc'[r] = l /\ \A s \in Procs \ {r} : pc'[s] = pc[s]
    BY <1>1, <2>2, Zenon DEF TypeOK
  <2>5. LockTypeOK' /\ \A s \in Procs : LockOK(s)'
    <3>1. l \notin Locked /\ l # "lock"
      BY Zenon DEF Locked
    <3> QED
      BY <2>1, <2>2, <3>1, LocksKept, ZenonT(30)
  <2>6. key \in DOMAIN cache => cache[key] = ContentOf(r)
    BY <1>1, <2>3, ZenonT(30) DEF CacheFaithful, CacheKey, ContentOf
  <2>7. /\ key \in DOMAIN cache => cache[key] \in Results
        /\ l = "answered" <=> key \in DOMAIN cache
    BY <1>1, <2>1, <2>2, <2>4, SMTT(20) DEF TypeOK
  <2> HIDE DEF key
  <2>8. /\ result' \in [Procs -> Results \union {None}]
        /\ l = "answered" => result'[r] = ContentOf(r)
        /\ \A s \in Procs \ {r} : result'[s] = result[s]
    BY <1>1, <2>1, <2>6, <2>7 DEF TypeOK
  <2>9. TypeOK'
    BY <1>1, <2>1, <2>2, <2>5, <2>8, ZenonT(30) DEF TypeOK, Busy
  <2>10. CallOK(r)' /\ CopyOK(r)' /\ ResultOK(r)'
    <3>1. ContentOf(r)' = ContentOf(r)
      BY <2>1, Zenon DEF ContentOf
    <3> QED
      BY <2>1, <2>3, <2>4, <2>8, <3>1, Zenon DEF CallOK, CopyOK, ResultOK
  <2>11. \A s \in Procs \ {r} : CallOK(s)' /\ CopyOK(s)' /\ ResultOK(s)'
    BY <2>1, <2>4, <2>8, OtherKept, SMTT(20)
  <2>12. CacheFaithful'
    BY <1>1, <2>1, Zenon DEF CacheFaithful
  <2> QED
    BY <2>5, <2>9, <2>10, <2>11, <2>12, Zenon DEF Inv
<1> QED
  BY <1>2, <1>3, <1>4, <1>5, Zenon

\* The steps of the key lock.
LEMMA LockSteps ==
    ASSUME Inv, NEW r \in Procs,
           LookUpLock(r) \/ CreateLock(r) \/ TakeLock(r)
    PROVE  Inv'
<1> USE DEF Goto
<1>1. /\ TypeOK /\ CacheFaithful /\ LockTypeOK
      /\ CallOK(r) /\ LockOK(r)
  BY Zenon DEF Inv, TypeOK
<1>2. UNCHANGED <<refs, copy, cache, query, sha, result, asked>>
  BY Zenon DEF LookUpLock, CreateLock, TakeLock
<1>3. PICK l \in {"lock", "makeLock", "init"} : pc' = [pc EXCEPT ![r] = l]
  BY Zenon DEF LookUpLock, CreateLock, TakeLock
<1>4. pc[r] \in {"getLock", "makeLock", "lock"}
  BY Zenon DEF LookUpLock, CreateLock, TakeLock
<1>5. pc'[r] = l /\ \A s \in Procs \ {r} : pc'[s] = pc[s]
  BY <1>1, <1>3, Zenon DEF TypeOK
<1>6. query[r] \in Queries /\ Root(r) \in Keys
  BY <1>1, <1>4, RootType, Zenon DEF CallOK
<1>7. \A s \in Procs : Root(s)' = Root(s)
  BY <1>2, Zenon DEF Root
<1>8. LockTypeOK' /\ \A s \in Procs : LockOK(s)'
  <2>1. CASE pc[r] = "getLock" /\ locks[Root(r)] # None
    <3>1. /\ want' = [want EXCEPT ![r] = locks[Root(r)]]
          /\ UNCHANGED <<locks, holder>> /\ pc' = [pc EXCEPT ![r] = "lock"]
      BY <2>1, Zenon DEF LookUpLock, CreateLock, TakeLock, GetLock, LockMissing
    <3>2. locks[Root(r)] \in Procs
      BY <1>1, <1>6, <2>1, Zenon DEF LockTypeOK
    <3>3. LockTypeOK'
      BY <1>1, <3>1, <3>2, Zenon DEF LockTypeOK
    <3>4. pc'[r] = "lock"
      BY <1>1, <3>1, Zenon DEF TypeOK
    <3>5. LockOK(r)'
      BY <1>1, <1>7, <3>1, <3>2, <3>4, SMTT(20) DEF LockOK, Locked, LockTypeOK
    <3>6. ASSUME NEW s \in Procs \ {r} PROVE LockOK(s)'
      <4>1. want'[s] = want[s] /\ LockOK(s)
        BY <1>1, <3>1, Zenon DEF LockTypeOK, Inv
      <4> QED
        BY <1>5, <1>7, <3>1, <4>1, Zenon DEF LockOK
    <3> QED
      BY <3>3, <3>5, <3>6, Zenon
  <2>2. CASE pc[r] = "getLock" /\ locks[Root(r)] = None
    <3>1. UNCHANGED lockVars /\ pc' = [pc EXCEPT ![r] = "makeLock"]
      BY <2>2, Zenon DEF LookUpLock, CreateLock, TakeLock, GetLock, LockMissing
    <3>2. "makeLock" \notin Locked /\ "makeLock" # "lock"
      BY Zenon DEF Locked
    <3> QED
      BY <1>2, <3>1, <3>2, LocksKept, ZenonT(30)
  <2>3. CASE pc[r] = "makeLock"
    <3> DEFINE m == IF locks[Root(r)] = None THEN r ELSE locks[Root(r)]
    <3>1. /\ want' = [want EXCEPT ![r] = m]
          /\ locks' = [locks EXCEPT ![Root(r)] = m]
          /\ holder' = holder /\ pc' = [pc EXCEPT ![r] = "lock"]
      BY <2>3, Zenon DEF LookUpLock, CreateLock, TakeLock, MakeLock
    <3>2. m \in Procs
      BY <1>1, <1>6, Zenon DEF LockTypeOK
    <3>3. \A s \in Procs : locks[Root(s)] \in Procs /\ query[s] \in Queries =>
              locks'[Root(s)] = locks[Root(s)]
      <4>1. \A s \in Procs : query[s] \in Queries => Root(s) \in Keys
        BY RootType, Zenon
      <4> QED
        BY <1>1, <3>1, <4>1, NoneAssumption, Zenon DEF LockTypeOK
    <3>4. LockTypeOK' /\ want'[r] = m /\ locks'[Root(r)] = m
      BY <1>1, <1>6, <3>1, <3>2, Zenon DEF LockTypeOK
    <3> HIDE DEF m
    <3>5. pc'[r] = "lock"
      BY <1>1, <3>1, Zenon DEF TypeOK
    <3>6. LockOK(r)'
      BY <1>7, <3>2, <3>4, <3>5, Zenon DEF LockOK, Locked
    <3>7. ASSUME NEW s \in Procs \ {r} PROVE LockOK(s)'
      <4>1. want'[s] = want[s] /\ LockOK(s) /\ CallOK(s)
        BY <1>1, <3>1, SMTT(20) DEF LockTypeOK, Inv
      <4>2. CASE pc[s] \in {"lock"} \union Locked
        <5>1. locks'[Root(s)] = locks[Root(s)]
          BY <3>3, <4>1, <4>2, Zenon DEF LockOK, CallOK, Locked
        <5> QED
          BY <1>5, <1>7, <3>1, <4>1, <5>1, SMTT(20) DEF LockOK
      <4>3. CASE pc[s] \notin {"lock"} \union Locked
        BY <1>5, <4>3, Zenon DEF LockOK
      <4> QED
        BY <4>2, <4>3, Zenon
    <3> QED
      BY <3>4, <3>6, <3>7, Zenon
  <2>4. CASE pc[r] = "lock"
    <3>1. /\ holder[<<Root(r), want[r]>>] = None
          /\ holder' = [holder EXCEPT ![<<Root(r), want[r]>>] = r]
          /\ UNCHANGED <<locks, want>> /\ pc' = [pc EXCEPT ![r] = "init"]
      BY <2>4, Zenon DEF LookUpLock, CreateLock, TakeLock, Lock
    <3>2. want[r] \in Procs /\ want[r] = locks[Root(r)]
      BY <1>1, <2>4, Zenon DEF LockOK
    <3>3. <<Root(r), want[r]>> \in Keys \X Procs
      BY <1>6, <3>2, Zenon
    <3>4. LockTypeOK' /\ holder'[<<Root(r), want[r]>>] = r
      BY <1>1, <3>1, <3>3, SMTT(20) DEF LockTypeOK
    <3>5. pc'[r] = "init"
      BY <1>1, <3>1, SMTT(20) DEF TypeOK
    <3>6. LockOK(r)'
      BY <1>7, <3>1, <3>2, <3>4, <3>5, Zenon DEF LockOK
    <3>7. ASSUME NEW s \in Procs \ {r} PROVE LockOK(s)'
      <4>1. LockOK(s) /\ CallOK(s)
        BY SMTT(20) DEF Inv
      <4>2. CASE pc[s] \in Locked
        <5>1. /\ holder[<<Root(s), want[s]>>] = s /\ want[s] \in Procs
              /\ Root(s) \in Keys
          BY <4>1, <4>2, RootType, Zenon DEF LockOK, CallOK, Locked
        <5>2. <<Root(s), want[s]>> # <<Root(r), want[r]>>
          BY <3>1, <5>1, NoneAssumption, Zenon
        <5>3. holder'[<<Root(s), want[s]>>] = s
          BY <1>1, <3>1, <5>1, <5>2, SMTT(20) DEF LockTypeOK
        <5> QED
          BY <1>5, <1>7, <3>1, <4>1, <5>3, SMTT(20) DEF LockOK
      <4>3. CASE pc[s] \notin Locked
        BY <1>5, <1>7, <3>1, <4>1, <4>3, SMTT(20) DEF LockOK
      <4> QED
        BY <4>2, <4>3, Zenon
    <3> QED
      BY <3>4, <3>6, <3>7, Zenon
  <2> QED
    BY <1>4, <2>1, <2>2, <2>3, <2>4, Zenon
<1>9. TypeOK'
  BY <1>1, <1>2, <1>3, <1>8, Zenon DEF TypeOK, Busy
<1>10. CallOK(r)' /\ CopyOK(r)' /\ ResultOK(r)'
  BY <1>1, <1>2, <1>4, <1>5, SMTT(20) DEF CallOK, CopyOK, ResultOK, Busy
<1>11. \A s \in Procs \ {r} : CallOK(s)' /\ CopyOK(s)' /\ ResultOK(s)'
  BY <1>2, <1>5, OtherKept, Zenon
<1>12. CacheFaithful'
  BY <1>1, <1>2, Zenon DEF CacheFaithful
<1> QED
  BY <1>8, <1>9, <1>10, <1>11, <1>12, SMTT(20) DEF Inv

-----------------------------------------------------------------------------
\* The steps inside the lock of the working copy, and the environment.

\* A step with the directory locked that goes on: it moves call r to the
\* next stage, changes its own commitSHA, result and directory, and nothing
\* else.
LEMMA LockedStep ==
    ASSUME Inv, NEW r \in Procs, pc[r] \in Locked,
           NEW l \in Locked, pc' = [pc EXCEPT ![r] = l],
           UNCHANGED <<lockVars, refs, cache, query, asked>>,
           NEW w \in CopyType, copy' = [copy EXCEPT ![Root(r)] = w],
           NEW h \in [commit : Commits, full : BOOLEAN], h.commit = asked[r],
           sha' = [sha EXCEPT ![r] = h],
           NEW x \in Results \union {None}, result' = [result EXCEPT ![r] = x],
           l \in {"commitSHA", "work"} =>
               w.head = asked[r] /\ w.modified = {} /\ w.untracked = {},
           l = "cacheSet" => x = ContentOf(r)
    PROVE  Inv'
<1>1. /\ TypeOK /\ CacheFaithful
      /\ CallOK(r) /\ CopyOK(r) /\ ResultOK(r)
  BY Zenon DEF Inv
<1>2. /\ query[r] \in Queries /\ Root(r) \in Keys /\ asked[r] \in Commits
  BY WorkerType, Zenon
<1>3. /\ pc'[r] = l /\ sha'[r] = h /\ result'[r] = x /\ copy'[Root(r)] = w
      /\ \A s \in Procs \ {r} :
            pc'[s] = pc[s] /\ sha'[s] = sha[s] /\ result'[s] = result[s]
  BY <1>1, <1>2 DEF TypeOK
<1>4. LockTypeOK' /\ \A s \in Procs : LockOK(s)'
  <2>1. l # "lock"
    BY Zenon DEF Locked
  <2>2. query' = query
    OBVIOUS
  <2> QED
    BY <2>1, <2>2, LocksKept, ZenonT(30)
<1>5. /\ pc' \in [Procs -> Busy \union {"idle", "answered", "failed"}]
      /\ copy' \in [Keys -> CopyType]
      /\ sha' \in [Procs -> [commit : Commits \union {None}, full : BOOLEAN]
                               \union {None}]
      /\ result' \in [Procs -> Results \union {None}]
  <2>1. l \in Busy
    BY Zenon DEF Locked, Busy
  <2> QED
    BY <1>1, <1>2, <2>1, Zenon DEF TypeOK
<1>6. TypeOK'
  BY <1>1, <1>4, <1>5, ZenonT(30) DEF TypeOK
<1>7. CallOK(r)'
  BY <1>2, <1>3, Zenon DEF CallOK
<1>8. CopyOK(r)' /\ ResultOK(r)'
  <2>1. Root(r)' = Root(r) /\ ContentOf(r)' = ContentOf(r)
    BY Zenon DEF Root, ContentOf
  <2>2. l # "answered"
    BY Zenon DEF Locked
  <2> QED
    BY <1>3, <2>1, <2>2, Zenon DEF CopyOK, ResultOK
<1>9. ASSUME NEW s \in Procs \ {r}
      PROVE  CallOK(s)' /\ CopyOK(s)' /\ ResultOK(s)'
  <2>1. pc[s] \in Locked => copy'[Root(s)] = copy[Root(s)]
    BY OtherCopy, ZenonT(30)
  <2> QED
    BY <1>3, <2>1, OtherKept, Zenon
<1>10. CacheFaithful'
  BY <1>1, Zenon DEF CacheFaithful
<1> QED
  BY <1>4, <1>6, <1>7, <1>8, <1>9, <1>10, Zenon DEF Inv

\* A step with the directory locked after which the handler returns.
LEMMA ReturnStep ==
    ASSUME Inv, NEW r \in Procs, pc[r] \in Locked,
           NEW l \in {"answered", "failed"}, Return(r, l),
           UNCHANGED <<refs, query, sha, result, asked>>,
           NEW w \in CopyType, copy' = [copy EXCEPT ![Root(r)] = w],
           \A key \in DOMAIN cache' : cache'[key] \in Results,
           CacheFaithful',
           l = "answered" => result[r] = ContentOf(r)
    PROVE  Inv'
<1>1. TypeOK
  BY Zenon DEF Inv
<1>2. /\ query[r] \in Queries /\ Root(r) \in Keys /\ asked[r] \in Commits
  BY WorkerType, Zenon
<1>3. /\ LockTypeOK' /\ (\A s \in Procs : LockOK(s)')
      /\ pc' \in [Procs -> Busy \union {"idle", "answered", "failed"}]
      /\ pc'[r] = l
      /\ \A s \in Procs \ {r} : pc'[s] = pc[s]
  BY ReturnKeeps, ZenonT(30)
<1>4. copy' \in [Keys -> CopyType]
  BY <1>1, <1>2, Zenon DEF TypeOK
<1>5. TypeOK'
  BY <1>1, <1>3, <1>4, Zenon DEF TypeOK
<1>6. CallOK(r)'
  BY <1>2, <1>3, Zenon DEF CallOK, Busy
<1>7. CopyOK(r)' /\ ResultOK(r)'
  <2>1. ContentOf(r)' = ContentOf(r)
    BY Zenon DEF ContentOf
  <2> QED
    BY <1>3, <2>1, Zenon DEF CopyOK, ResultOK
<1>8. ASSUME NEW s \in Procs \ {r}
      PROVE  CallOK(s)' /\ CopyOK(s)' /\ ResultOK(s)'
  <2>1. pc[s] \in Locked => copy'[Root(s)] = copy[Root(s)]
    BY OtherCopy, ZenonT(30)
  <2> QED
    BY <1>3, <2>1, OtherKept, Zenon
<1> QED
  BY <1>3, <1>5, <1>6, <1>7, <1>8, Zenon DEF Inv

\* The steps of checkoutRevision and of the work.
LEMMA InsideLock ==
    ASSUME Inv, NEW r \in Procs,
           InitCopy(r) \/ Fetch(r) \/ Checkout(r) \/ CommitSHA(r) \/ Work(r)
             \/ StepFails(r)
    PROVE  Inv'
<1> USE DEF Goto
<1> DEFINE k == Root(r)
           w == copy[k]
<1>1. TypeOK /\ CacheFaithful /\ CopyOK(r)
  BY Zenon DEF Inv
<1>2. pc[r] \in Locked
  BY Zenon DEF InitCopy, Fetch, Checkout, CommitSHA, Work, StepFails, Locked
<1>3. /\ query[r] \in Queries /\ k \in Keys /\ w \in CopyType
      /\ asked[r] \in Commits
      /\ sha[r] \in [commit : Commits, full : BOOLEAN]
      /\ sha[r].commit = asked[r]
  BY <1>2, WorkerType, Zenon
<1>4. /\ copy = [copy EXCEPT ![k] = w]
      /\ sha = [sha EXCEPT ![r] = sha[r]]
      /\ result = [result EXCEPT ![r] = result[r]]
      /\ result[r] \in Results \union {None}
  BY <1>1, <1>3, SMTT(20) DEF TypeOK
<1>5. /\ \A key \in DOMAIN cache : cache[key] \in Results
      /\ cache' = cache
      /\ CacheFaithful'
  BY <1>1, Zenon DEF TypeOK, CacheFaithful, InitCopy, Fetch, Checkout, CommitSHA,
              Work, StepFails
<1>6. /\ query[r].repo \in Repos /\ query[r].arg \in Args
      /\ query[r].op \in Ops
  BY <1>3, RepoAssumption, Zenon DEF Args
<1>7. ASSUME NEW v \in CopyType, copy' = [copy EXCEPT ![k] = v],
             Return(r, "failed"),
             UNCHANGED <<refs, query, sha, result, asked>>
      PROVE  Inv'
  <2>1. "failed" \in {"answered", "failed"} /\ "failed" # "answered"
    OBVIOUS
  <2> QED
    BY <1>2, <1>5, <1>7, <2>1, ReturnStep, ZenonT(30)
<1>8. ASSUME NEW v \in CopyType, copy' = [copy EXCEPT ![k] = v],
             NEW l \in {"fetch", "checkout", "commitSHA"},
             pc' = [pc EXCEPT ![r] = l],
             l = "commitSHA" =>
               v.head = asked[r] /\ v.modified = {} /\ v.untracked = {},
             UNCHANGED <<lockVars, refs, cache, query, sha, result, asked>>
      PROVE  Inv'
  <2>1. l \in Locked /\ l # "work" /\ l # "cacheSet"
    BY Zenon DEF Locked
  <2>2. sha' = [sha EXCEPT ![r] = sha[r]]
    BY <1>4, <1>8, Zenon
  <2>3. result' = [result EXCEPT ![r] = result[r]]
    BY <1>4, <1>8, Zenon
  <2>4. l \in {"commitSHA", "work"} =>
           v.head = asked[r] /\ v.modified = {} /\ v.untracked = {}
    BY <1>8, <2>1, Zenon
  <2>5. UNCHANGED <<lockVars, refs, cache, query, asked>>
    BY <1>8, Zenon
  <2>6. l = "cacheSet" => result[r] = ContentOf(r)
    BY <2>1, Zenon
  <2>7. result[r] \in Results \union {None}
    BY <1>4, Zenon
  <2> HIDE DEF w
  <2> QED
    BY <1>2, <1>3, <1>8, <2>1, <2>2, <2>3, <2>4, <2>5, <2>6, <2>7,
       LockedStep, ZenonT(30)
<1>9. CASE InitCopy(r)
  <2> DEFINE v == [NoCopy EXCEPT !.exists = TRUE, !.remote = query[r].repo]
             u == [NoCopy EXCEPT !.exists = TRUE]
  <2>1. v \in CopyType /\ u \in CopyType
    BY <1>6, ZenonT(30) DEF NoCopy, CopyType
  <2>2. UNCHANGED <<refs, cache, query, sha, result, asked>>
    BY <1>9, Zenon DEF InitCopy
  <2>3. \/ /\ pc' = [pc EXCEPT ![r] = "fetch"]
           /\ UNCHANGED <<lockVars, copy>>
        \/ /\ pc' = [pc EXCEPT ![r] = "fetch"]
           /\ copy' = [copy EXCEPT ![k] = v]
           /\ UNCHANGED lockVars
        \/ /\ copy' = [copy EXCEPT ![k] = u]
           /\ Return(r, "failed")
    BY <1>9, Zenon DEF InitCopy
  <2> HIDE DEF v, u
  <2> QED
    BY <1>3, <1>4, <1>7, <1>8, <2>1, <2>2, <2>3, Zenon
<1>10. CASE Fetch(r)
  <2> DEFINE v == [w EXCEPT !.fetched = @ \union refs[w.remote].reach]
  <2>1. w.remote \in Repos
    BY <1>3, <1>10, Zenon DEF Fetch, CopyType
  <2>2. refs[w.remote].reach \subseteq Commits
    BY <1>1, <2>1, Zenon DEF TypeOK, Remotes
  <2>3. v \in CopyType
    BY <1>3, <2>2, Zenon DEF CopyType
  <2>4. copy' = [copy EXCEPT ![k] = v]
    BY <1>1, <1>3, <1>10, Zenon DEF Fetch, TypeOK
  <2>5. /\ pc' = [pc EXCEPT ![r] = "checkout"]
        /\ UNCHANGED <<lockVars, refs, cache, query, sha, result, asked>>
    BY <1>10, Zenon DEF Fetch
  <2> HIDE DEF v
  <2> QED
    BY <1>8, <2>3, <2>4, <2>5, ZenonT(30)
<1>11. CASE Checkout(r)
  <2> DEFINE v == [w EXCEPT !.head = sha[r].commit, !.modified = {},
                            !.untracked = {}]
             u == [w EXCEPT !.head = sha[r].commit, !.modified = {}]
  <2>1. /\ v \in CopyType /\ u \in CopyType
        /\ v.head = asked[r] /\ v.modified = {} /\ v.untracked = {}
    BY <1>3, ZenonT(30) DEF CopyType
  <2>2. UNCHANGED <<refs, cache, query, sha, result, asked>>
    BY <1>11, Zenon DEF Checkout
  <2>3. \/ /\ copy' = [copy EXCEPT ![k] = v]
           /\ pc' = [pc EXCEPT ![r] = "commitSHA"]
           /\ UNCHANGED lockVars
        \/ /\ copy' = [copy EXCEPT ![k] = u]
           /\ Return(r, "failed")
    BY <1>1, <1>3, <1>11, ZenonT(30) DEF Checkout, TypeOK
  <2> HIDE DEF v, u
  <2> QED
    BY <1>7, <1>8, <2>1, <2>2, <2>3, Zenon
<1>12. CASE CommitSHA(r)
  <2> DEFINE h == [commit |-> w.head, full |-> TRUE]
  <2>1. w.head = asked[r] /\ w.modified = {} /\ w.untracked = {}
    BY <1>1, <1>12, Zenon DEF CommitSHA, CopyOK
  <2>2. h \in [commit : Commits, full : BOOLEAN] /\ h.commit = asked[r]
    BY <1>3, <2>1, Zenon
  <2>3. /\ sha' = [sha EXCEPT ![r] = h]
        /\ pc' = [pc EXCEPT ![r] = "work"]
        /\ UNCHANGED <<lockVars, refs, copy, cache, query, result, asked>>
    BY <1>12, Zenon DEF CommitSHA
  <2> HIDE DEF h
  <2>4. "work" = "cacheSet" => result[r] = ContentOf(r)
    OBVIOUS
  <2>5. copy' = [copy EXCEPT ![k] = w]
    BY <1>4, <2>3, Zenon
  <2>6. result' = [result EXCEPT ![r] = result[r]]
    BY <1>4, <2>3, Zenon
  <2>7. result[r] \in Results \union {None}
    BY <1>4, Zenon
  <2>8. UNCHANGED <<lockVars, refs, cache, query, asked>>
    BY <2>3, Zenon
  <2>9. "work" \in Locked
    BY Zenon DEF Locked
  <2> QED
    BY <1>2, <1>3, <2>1, <2>2, <2>3, <2>4, <2>5, <2>6, <2>7, <2>8, <2>9,
       LockedStep, ZenonT(30)
<1>13. CASE Work(r)
  <2> DEFINE v == Generated(w, query[r])
             x == Read(w, query[r])
  <2>1. w.head = asked[r] /\ w.modified = {} /\ w.untracked = {}
    BY <1>1, <1>13, Zenon DEF Work, CopyOK
  <2>2. x = ContentOf(r)
    BY <2>1, Zenon DEF Read, ContentOf
  <2>3. ContentOf(r) \in Results
    BY <1>3, <1>6, Zenon DEF ContentOf, Results, Args
  <2>4. v \in CopyType
    BY <1>3, <1>6, RepoAssumption DEF Generated, CopyType, Args
  <2>5. /\ copy' = [copy EXCEPT ![k] = v]
        /\ UNCHANGED <<refs, cache, query, sha, asked>>
        /\ \/ /\ result' = [result EXCEPT ![r] = x]
              /\ pc' = [pc EXCEPT ![r] = "cacheSet"]
              /\ UNCHANGED lockVars
           \/ Return(r, "failed") /\ UNCHANGED result
    BY <1>13, Zenon DEF Work
  <2> HIDE DEF v, x
  <2>6. CASE Return(r, "failed") /\ UNCHANGED result
    BY <1>7, <2>4, <2>5, <2>6, ZenonT(30)
  <2>7. CASE /\ result' = [result EXCEPT ![r] = x]
             /\ pc' = [pc EXCEPT ![r] = "cacheSet"]
             /\ UNCHANGED lockVars
    <3>1. "cacheSet" \in Locked /\ "cacheSet" \notin {"commitSHA", "work"}
      BY Zenon DEF Locked
    <3>2. sha' = [sha EXCEPT ![r] = sha[r]]
      BY <1>4, <2>5, Zenon
    <3>3. x \in Results \union {None}
      BY <2>2, <2>3, Zenon
    <3>4. UNCHANGED <<lockVars, refs, cache, query, asked>>
      BY <2>5, <2>7, Zenon
    <3> QED
      BY <1>2, <1>3, <2>2, <2>4, <2>5, <2>7, <3>1, <3>2, <3>3, <3>4,
         LockedStep, ZenonT(30)
  <2> QED
    BY <2>5, <2>6, <2>7, Zenon
<1>14. CASE StepFails(r)
  <2>1. /\ Return(r, "failed")
        /\ UNCHANGED <<refs, copy, cache, query, sha, result, asked>>
    BY <1>14, Zenon DEF StepFails
  <2>2. copy' = [copy EXCEPT ![k] = w]
    BY <1>4, <2>1, Zenon
  <2> QED
    BY <1>3, <1>7, <2>1, <2>2, ZenonT(30)
<1> QED
  BY <1>9, <1>10, <1>11, <1>12, <1>13, <1>14, Zenon

\* The result goes into the cache and to the caller.
LEMMA StoreStep ==
    ASSUME Inv, NEW r \in Procs, CacheSet(r)
    PROVE  Inv'
<1> DEFINE key == CacheKey(sha[r], query[r])
<1>1. /\ pc[r] = "cacheSet" /\ Return(r, "answered")
      /\ UNCHANGED <<refs, copy, query, sha, result, asked>>
      /\ \/ cache' = [k \in DOMAIN cache \union {key} |->
                         IF k = key THEN result[r] ELSE cache[k]]
         \/ UNCHANGED cache
  BY Zenon DEF CacheSet
<1>2. pc[r] \in Locked
  BY <1>1, Zenon DEF Locked
<1>3. /\ Root(r) \in Keys /\ copy[Root(r)] \in CopyType
      /\ sha[r].commit = asked[r]
      /\ query[r] \in Queries /\ asked[r] \in Commits
  BY <1>2, WorkerType, Zenon
<1>4. result[r] = ContentOf(r) /\ TypeOK /\ CacheFaithful
  BY <1>1, Zenon DEF Inv, ResultOK
<1>5. /\ key.op = query[r].op /\ key.arg = query[r].arg
      /\ key.commit = asked[r]
  BY <1>3, Zenon DEF CacheKey
<1>6. ContentOf(r) \in Results
  BY <1>3, RepoAssumption, Zenon DEF ContentOf, Results
<1>7. ContentOf(r) = [op |-> key.op, arg |-> key.arg, tree |-> key.commit,
                      extra |-> {}]
  BY <1>5, Zenon DEF ContentOf
<1> HIDE DEF key
<1>8. \A k \in DOMAIN cache' :
         \/ k = key /\ cache'[k] = ContentOf(r)
         \/ k \in DOMAIN cache /\ cache'[k] = cache[k]
  BY <1>1, <1>4, Zenon
<1>9. \A k \in DOMAIN cache' : cache'[k] \in Results
  BY <1>4, <1>6, <1>8, Zenon DEF TypeOK
<1>10. CacheFaithful'
  BY <1>4, <1>7, <1>8, Zenon DEF CacheFaithful
<1>11. copy' = [copy EXCEPT ![Root(r)] = copy[Root(r)]]
  BY <1>1, <1>3, <1>4, Zenon DEF TypeOK
<1>12. "answered" \in {"answered", "failed"}
  OBVIOUS
<1> QED
  BY <1>1, <1>2, <1>3, <1>4, <1>9, <1>10, <1>11, <1>12, ReturnStep, ZenonT(30)

\* What happens outside the handlers.
LEMMA Outside ==
    ASSUME Inv, Restart \/ Expire \/ \E repo \in Repos : Push(repo)
    PROVE  Inv'
<1>1. TypeOK /\ CacheFaithful /\ LockTypeOK
  BY Zenon DEF Inv, TypeOK
<1>2. CASE Restart
  <2>1. /\ locks' = [k \in Keys |-> None]
        /\ holder' = [m \in Keys \X Procs |-> None]
        /\ want' = [p \in Procs |-> None]
        /\ copy' = [k \in Keys |-> NoCopy] /\ cache' = NoCache
        /\ pc' = [r \in Procs |-> IF pc[r] \in Busy THEN "failed" ELSE pc[r]]
        /\ UNCHANGED <<refs, query, sha, result, asked>>
    BY <1>2, Zenon DEF Restart
  <2>2. LockTypeOK' /\ copy' \in [Keys -> CopyType]
    BY <2>1, Zenon DEF LockTypeOK, NoCopy, CopyType
  <2>3. TypeOK'
    BY <1>1, <2>1, <2>2, Zenon DEF TypeOK, NoCache
  <2>4. CacheFaithful'
    BY <2>1, Zenon DEF CacheFaithful, NoCache
  <2>5. ASSUME NEW r \in Procs
        PROVE  CallOK(r)' /\ LockOK(r)' /\ CopyOK(r)' /\ ResultOK(r)'
    <3>1. CallOK(r) /\ ResultOK(r)
      BY Zenon DEF Inv
    <3>2. \/ pc[r] \in Busy /\ pc'[r] = "failed"
          \/ pc'[r] = pc[r] /\ pc[r] \in {"idle", "answered", "failed"}
      BY <1>1, <2>1, Zenon DEF TypeOK
    <3>3. ContentOf(r)' = ContentOf(r)
      BY <2>1, Zenon DEF ContentOf
    <3> QED
      BY <2>1, <3>1, <3>2, <3>3, Zenon
         DEF CallOK, LockOK, CopyOK, ResultOK, Busy, Locked
  <2> QED
    BY <2>3, <2>4, <2>5, Zenon DEF Inv
<1>3. CASE Expire
  <2>1. PICK key \in DOMAIN cache :
           cache' = [k \in DOMAIN cache \ {key} |-> cache[k]]
    BY <1>3, Zenon DEF Expire
  <2>2. UNCHANGED <<lockVars, refs, copy, callVars>>
    BY <1>3, SMTT(20) DEF Expire
  <2>3. TypeOK' /\ CacheFaithful'
    BY <1>1, <2>1, <2>2, SMTT(20)
       DEF TypeOK, CacheFaithful, LockTypeOK, lockVars, callVars
  <2>4. ASSUME NEW r \in Procs
        PROVE  CallOK(r)' /\ LockOK(r)' /\ CopyOK(r)' /\ ResultOK(r)'
    BY <2>2, SMTT(20) DEF Inv, CallOK, LockOK, CopyOK, ResultOK, ContentOf, Root,
                lockVars, callVars
  <2> QED
    BY <2>3, <2>4, Zenon DEF Inv
<1>4. ASSUME NEW repo \in Repos, Push(repo)
      PROVE  Inv'
  <2>1. PICK c \in CommitsOf[repo], keep \in {refs[repo].reach, {}} :
           refs' = [refs EXCEPT ![repo] = [head |-> c,
                                           reach |-> keep \union {c}]]
    BY <1>4, ZenonT(30) DEF Push
  <2>2. UNCHANGED <<lockVars, copy, cache, callVars>>
    BY <1>4, Zenon DEF Push
  <2>3. refs' \in [Repos -> Remotes]
    <3>1. c \in Commits /\ keep \subseteq Commits
      BY <1>1, RepoAssumption, Zenon DEF TypeOK, Remotes
    <3> QED
      BY <1>1, <2>1, <3>1, Zenon DEF TypeOK, Remotes
  <2>4. TypeOK' /\ CacheFaithful'
    BY <1>1, <2>2, <2>3, Zenon
       DEF TypeOK, CacheFaithful, LockTypeOK, lockVars, callVars
  <2>5. ASSUME NEW r \in Procs
        PROVE  CallOK(r)' /\ LockOK(r)' /\ CopyOK(r)' /\ ResultOK(r)'
    BY <2>2, ZenonT(30) DEF Inv, CallOK, LockOK, CopyOK, ResultOK, ContentOf, Root,
                lockVars, callVars
  <2> QED
    BY <2>4, <2>5, Zenon DEF Inv
<1> QED
  BY <1>2, <1>3, <1>4, Zenon

\* Every step keeps the invariant.
LEMMA NextInv == Inv /\ [Next]_vars => Inv'
<1> SUFFICES ASSUME Inv, [Next]_vars PROVE Inv'
  OBVIOUS
<1>1. CASE UNCHANGED vars
  BY <1>1, ZenonT(30) DEF Inv, TypeOK, CacheFaithful, CallOK, LockOK, CopyOK, ResultOK,
              ContentOf, Root, LockTypeOK, vars, lockVars, callVars
<1>2. ASSUME NEW r \in Procs, Ask(r) \/ Step(r) PROVE Inv'
  BY <1>2, BeforeLock, LockSteps, InsideLock, StoreStep, ZenonT(30) DEF Step
<1>3. CASE Restart \/ Expire \/ \E repo \in Repos : Push(repo)
  BY <1>3, Outside, ZenonT(30)
<1> QED
  BY <1>1, <1>2, <1>3, ZenonT(30) DEF Next

\* The invariant holds in every behaviour.
THEOREM InvHolds == Spec => []Inv
<1>1. Init => Inv
  BY InitInv, Zenon
<1>2. Inv /\ [Next]_vars => Inv'
  BY NextInv, Zenon
<1> QED
  BY <1>1, <1>2, PTL DEF Spec

\* The state of the repository server is well typed.
THEOREM RepoTypeCorrect == Spec => []TypeOK
<1>1. Inv => TypeOK
  BY Zenon DEF Inv
<1> QED
  BY <1>1, InvHolds, PTL

\* For any calls, repositories and commits, what the cache holds is what the
\* commit in its key gives.
THEOREM CacheCorrect == Spec => []CacheFaithful
<1>1. Inv => CacheFaithful
  BY Zenon DEF Inv
<1> QED
  BY <1>1, InvHolds, PTL

\* For any calls, two handlers never work in the same directory.
THEOREM CopyExclusion == Spec => []CopyExclusive
<1>1. Inv => CopyExclusive
  BY Exclusion, Zenon
<1> QED
  BY <1>1, InvHolds, PTL
-----------------------------------------------------------------------------
(* No mutex is kept.                                                       *)

\* Who has a mutex works in the directory of its key, and the mutex is the one
\* that Unlock will look up.
HolderOK ==
    \A k \in Keys, m, p \in Procs :
        holder[<<k, m>>] = p => pc[p] \in Locked /\ Root(p) = k /\ locks[k] = m

\* A step of call r that leaves the mutexes as they are: it does not leave the
\* steps with the directory locked.
KeepsMutexes(r) ==
    /\ UNCHANGED holder
    /\ \A k \in Keys : locks[k] # None => locks'[k] = locks[k]
    /\ \A s \in Procs \ {r} : pc'[s] = pc[s] /\ query'[s] = query[s]
    /\ pc[r] \in Locked => pc'[r] \in Locked /\ query'[r] = query[r]

Returns(r) ==
    /\ pc[r] \in Locked /\ UNCHANGED query
    /\ \E l \in {"answered", "failed"} : Return(r, l)

\* Every step of a call keeps the mutexes, takes one, or returns and unlocks.
LEMMA StepShape ==
    ASSUME Inv, NEW r \in Procs, Ask(r) \/ Step(r)
    PROVE  KeepsMutexes(r) \/ TakeLock(r) \/ Returns(r)
<1>1. /\ pc \in [Procs -> Busy \union {"idle", "answered", "failed"}]
      /\ query \in [Procs -> Queries \union {None}] /\ LockTypeOK
      /\ pc[r] # "idle" => Root(r) \in Keys
  BY RootType, Zenon DEF Inv, TypeOK, CallOK
<1>2. CASE Ask(r)
  BY <1>1, <1>2, Zenon DEF Ask, Goto, KeepsMutexes, Locked, lockVars
<1>3. CASE ResolveRevision(r) \/ ResolveFails(r) \/ CacheGet(r)
  BY <1>1, <1>3, Zenon
     DEF ResolveRevision, ResolveFails, CacheGet, Goto, KeepsMutexes, Locked, lockVars
<1>4. CASE LookUpLock(r)
  BY <1>1, <1>4, Zenon
     DEF LookUpLock, GetLock, LockMissing, Goto, KeepsMutexes, Locked, lockVars
<1>5. CASE CreateLock(r)
  BY <1>1, <1>5, Zenon DEF CreateLock, MakeLock, Goto, KeepsMutexes, Locked, LockTypeOK
<1>6. CASE TakeLock(r) BY <1>6, Zenon
<1>7. CASE InitCopy(r)
  BY <1>1, <1>7, Zenon DEF InitCopy, Goto, KeepsMutexes, Returns, Locked, lockVars
<1>8. CASE Fetch(r) \/ CommitSHA(r)
  BY <1>1, <1>8, Zenon DEF Fetch, CommitSHA, Goto, KeepsMutexes, Locked, lockVars
<1>9. CASE Checkout(r)
  BY <1>1, <1>9, Zenon DEF Checkout, Goto, KeepsMutexes, Returns, Locked, lockVars
<1>10. CASE Work(r)
  BY <1>1, <1>10, Zenon DEF Work, Goto, KeepsMutexes, Returns, Locked, lockVars
<1>11. CASE StepFails(r) BY <1>11, Zenon DEF StepFails, Returns
<1>12. CASE CacheSet(r) BY <1>12, Zenon DEF CacheSet, Returns, Locked
<1> QED
  BY <1>2, <1>3, <1>4, <1>5, <1>6, <1>7, <1>8, <1>9, <1>10, <1>11, <1>12, Zenon DEF Step

\* A step of a call keeps the invariant.
LEMMA StepHolder ==
    ASSUME Inv, HolderOK, NEW r \in Procs, Ask(r) \/ Step(r)
    PROVE  HolderOK'
<1>1. /\ pc \in [Procs -> Busy \union {"idle", "answered", "failed"}] /\ LockTypeOK
  BY Zenon DEF Inv, TypeOK
<1> SUFFICES ASSUME NEW k \in Keys, NEW m \in Procs, NEW p \in Procs, holder'[<<k, m>>] = p
             PROVE  pc'[p] \in Locked /\ Root(p)' = k /\ locks'[k] = m
  BY Zenon DEF HolderOK
<1>2. <<k, m>> \in Keys \X Procs OBVIOUS
<1>3. holder[<<k, m>>] = p => pc[p] \in Locked /\ Root(p) = k /\ locks[k] = m
  BY Zenon DEF HolderOK
<1>4. CASE KeepsMutexes(r)
  <2>1. pc[p] \in Locked /\ Root(p) = k /\ locks[k] = m
    BY <1>3, <1>4, Zenon DEF KeepsMutexes
  <2>2. pc'[p] \in Locked /\ query'[p] = query[p]
    BY <1>4, <2>1, Zenon DEF KeepsMutexes
  <2>3. locks'[k] = m BY <1>4, <2>1, NoneAssumption, Zenon DEF KeepsMutexes
  <2> QED BY <2>1, <2>2, <2>3, Zenon DEF Root
<1>5. CASE TakeLock(r)
  <2>1. /\ holder' = [holder EXCEPT ![<<Root(r), want[r]>>] = r]
        /\ UNCHANGED <<locks, query>> /\ pc' = [pc EXCEPT ![r] = "init"]
        /\ pc[r] = "lock" /\ want[r] \in Procs /\ want[r] = locks[Root(r)]
    BY <1>5, Zenon DEF TakeLock, Lock, Goto, Inv, LockOK
  <2>2. Root(p)' = Root(p) BY <2>1, Zenon DEF Root
  <2>3. pc[p] \in Locked \/ p = r => pc'[p] \in Locked
    BY <1>1, <2>1, Zenon DEF Locked
  <2>4. CASE k = Root(r) /\ m = want[r]
    <3>1. p = r BY <1>1, <1>2, <2>1, <2>4, Zenon DEF LockTypeOK
    <3> QED BY <2>1, <2>2, <2>3, <2>4, <3>1, Zenon
  <2>5. CASE ~(k = Root(r) /\ m = want[r])
    <3>1. <<k, m>> # <<Root(r), want[r]>> BY <2>5, SMT
    <3>2. holder[<<k, m>>] = p BY <1>1, <1>2, <2>1, <3>1, Zenon DEF LockTypeOK
    <3> QED BY <1>3, <2>1, <2>2, <2>3, <3>2, Zenon
  <2> QED BY <2>4, <2>5, Zenon
<1>6. CASE Returns(r)
  <2>1. PICK l \in {"answered", "failed"} : Return(r, l) BY <1>6, Zenon DEF Returns
  <2>2. /\ holder' = [holder EXCEPT ![<<Root(r), locks[Root(r)]>>] = None]
        /\ UNCHANGED <<locks, query>> /\ pc' = [pc EXCEPT ![r] = l]
    BY <1>6, <2>1, Zenon DEF Returns, Return, Unlock, Goto
  <2>3. <<k, m>> # <<Root(r), locks[Root(r)]>> /\ holder[<<k, m>>] = p
    BY <1>1, <1>2, <2>2, NoneAssumption, Zenon DEF LockTypeOK
  <2>4. p # r BY <1>3, <2>3, Zenon
  <2>5. pc'[p] = pc[p] BY <1>1, <2>2, <2>4, Zenon
  <2> QED BY <1>3, <2>2, <2>3, <2>5, Zenon DEF Root
<1> QED BY <1>4, <1>5, <1>6, StepShape, Zenon

\* Every step does; a restart of the process frees all mutexes.
LEMMA NextHolder == Inv /\ HolderOK /\ [Next]_vars => HolderOK'
<1> SUFFICES ASSUME Inv, HolderOK, [Next]_vars PROVE HolderOK'
  OBVIOUS
<1>1. CASE Restart
  <2>1. holder' = [m \in Keys \X Procs |-> None] BY <1>1, Zenon DEF Restart
  <2> QED BY <2>1, NoneAssumption, Zenon DEF HolderOK
<1>2. CASE Expire \/ (\E repo \in Repos : Push(repo)) \/ UNCHANGED vars
  <2>1. UNCHANGED <<lockVars, callVars>> BY <1>2, Zenon DEF Expire, Push, vars
  <2> QED BY <2>1, Zenon DEF HolderOK, Root, lockVars, callVars
<1> QED BY <1>1, <1>2, StepHolder, Zenon DEF Next

\* For any number of calls and whichever of their steps fail, no mutex is kept by a
\* handler that has returned, and a call that waits for one waits for a call that
\* is at work: the calls cannot wait for each other.
THEOREM LocksReturned == Spec => []LocksGivenBack
<1>1. Init => HolderOK
  <2> SUFFICES ASSUME Init PROVE HolderOK OBVIOUS
  <2>1. holder = [m \in Keys \X Procs |-> None] BY Zenon DEF Init, NewKeyLock
  <2>2. \A k \in Keys, m \in Procs : holder[<<k, m>>] = None BY <2>1, Zenon
  <2> QED BY <2>2, NoneAssumption, Zenon DEF HolderOK
<1>2. Inv /\ HolderOK => LocksGivenBack
  <2> SUFFICES ASSUME Inv, HolderOK, NEW r \in Procs, pc[r] = "lock",
                      holder[<<Root(r), want[r]>>] # None
               PROVE  \E s \in Procs \ {r} : /\ holder[<<Root(r), want[r]>>] = s
                                             /\ pc[s] \in Locked /\ Root(s) = Root(r)
    BY Zenon DEF LocksGivenBack
  <2>1. want[r] \in Procs /\ Root(r) \in Keys
    BY RootType, Zenon DEF Inv, LockOK, CallOK
  <2>2. holder[<<Root(r), want[r]>>] \in Procs
    BY <2>1, Zenon DEF Inv, TypeOK, LockTypeOK
  <2>3. pc[r] \notin Locked BY Zenon DEF Locked
  <2>4. PICK k \in Keys, m \in Procs, s \in Procs :
           k = Root(r) /\ m = want[r] /\ s = holder[<<k, m>>]
    BY <2>1, <2>2, Zenon
  <2>5. pc[s] \in Locked /\ Root(s) = Root(r) BY <2>4, Zenon DEF HolderOK
  <2> QED BY <2>3, <2>4, <2>5, Zenon
<1> QED
  BY <1>1, <1>2, InvHolds, NextHolder, PTL DEF Spec

-----------------------------------------------------------------------------
(* RepoServer implements RepoContract.                                     *)

\* What the contract says of one call.
Rec(r) == [stage |-> Stage(r), q |-> query[r], commit |-> asked[r],
           answer |-> IF pc[r] = "answered" THEN result[r] ELSE None]

\* The refinement mapping, call by call.
LEMMA BarIsRec == callBar = [r \in Procs |-> Rec(r)]
BY Zenon DEF callBar, Rec

\* The refinement mapping is a function of the calls.
LEMMA BarFunction == callBar = [r \in Procs |-> callBar[r]]
BY BarIsRec, Zenon

\* Call r moves and the other calls do not.
OnlyCall(r) ==
    \A s \in Procs \ {r} :
        /\ pc'[s] = pc[s] /\ query'[s] = query[s]
        /\ asked'[s] = asked[s] /\ result'[s] = result[s]

\* A step of one call changes its record alone.
LEMMA BarStep ==
    ASSUME NEW r \in Procs, OnlyCall(r)
    PROVE  callBar' = [callBar EXCEPT ![r] = Rec(r)']
<1>1. \A s \in Procs \ {r} : Rec(s)' = Rec(s)
  BY ZenonT(30) DEF OnlyCall, Rec, Stage
<1>2. callBar = [s \in Procs |-> Rec(s)]
  BY BarIsRec, Zenon
<1>3. callBar' = [s \in Procs |-> Rec(s)']
  BY Zenon DEF callBar, Rec
<1> QED
  BY <1>1, <1>2, <1>3, Zenon

\* The stages of the contract.
LEMMA StageOf ==
    ASSUME NEW r \in Procs
    PROVE  /\ pc[r] = "idle" => Stage(r) = "idle"
           /\ pc[r] = "newClient" => Stage(r) = "asked"
           /\ pc[r] \in Busy \ {"newClient"} => Stage(r) = "resolved"
           /\ pc[r] = "answered" => Stage(r) = "answered"
           /\ pc[r] = "failed" => Stage(r) = "failed"
BY Zenon DEF Stage, Busy

\* The stage of a call in the next state.
LEMMA StageNext ==
    ASSUME NEW r \in Procs
    PROVE  /\ pc'[r] = "newClient" => Stage(r)' = "asked"
           /\ pc'[r] \in Busy \ {"newClient"} => Stage(r)' = "resolved"
           /\ pc'[r] = "answered" => Stage(r)' = "answered"
           /\ pc'[r] = "failed" => Stage(r)' = "failed"
BY Zenon DEF Stage, Busy

\* A step that stays between LsRemote and the answer is not seen.
LEMMA Unseen ==
    ASSUME NEW r \in Procs, OnlyCall(r),
           pc[r] \in Busy \ {"newClient"}, pc'[r] \in Busy \ {"newClient"},
           query'[r] = query[r], asked'[r] = asked[r]
    PROVE  callBar' = callBar
<1>1. Rec(r)' = Rec(r)
  <2>1. Stage(r) = "resolved" /\ Stage(r)' = "resolved"
    BY StageOf, StageNext, Zenon
  <2> QED
    BY <2>1, Zenon DEF Rec, Busy
<1>2. callBar[r] = Rec(r)
  BY BarIsRec, Zenon
<1>3. callBar' = [callBar EXCEPT ![r] = Rec(r)]
  BY <1>1, BarStep, Zenon
<1> QED
  BY <1>2, <1>3, ZenonT(30) DEF callBar

\* A call that fails is seen to fail.
LEMMA FailSeen ==
    ASSUME NEW r \in Procs, OnlyCall(r), refs' = refs,
           pc[r] \in Busy, pc'[r] = "failed",
           query'[r] = query[r], asked'[r] = asked[r]
    PROVE  Contract!Fail({r})
<1>1. /\ callBar[r] = Rec(r) /\ Rec(r).stage \in {"asked", "resolved"}
  BY BarIsRec, StageOf, Zenon DEF Rec
<1>2. Rec(r)' = [Rec(r) EXCEPT !.stage = "failed"]
  <2>1. Stage(r)' = "failed"
    BY StageNext, Zenon
  <2> QED
    BY <2>1 DEF Rec, Busy
<1>3. callBar' = [callBar EXCEPT ![r] = Rec(r)']
  BY BarStep, Zenon
<1>4. callBar' = [s \in Procs |->
                    IF s \in {r} THEN [callBar[s] EXCEPT !.stage = "failed"]
                                 ELSE callBar[s]]
  BY <1>1, <1>2, <1>3, BarFunction
<1> QED
  BY <1>1, <1>4, Zenon DEF Contract!Fail

\* A call that is answered is seen to be answered, and rightly.
LEMMA AnswerSeen ==
    ASSUME NEW r \in Procs, OnlyCall(r), refs' = refs,
           pc[r] \in Busy \ {"newClient"}, pc'[r] = "answered",
           query'[r] = query[r], asked'[r] = asked[r],
           result'[r] = ContentOf(r)
    PROVE  Contract!Answer(r)
<1>1. callBar[r] = Rec(r) /\ Rec(r).stage = "resolved"
  BY BarIsRec, StageOf, Zenon DEF Rec
<1>2. Rec(r)' = Contract!CallRecord("answered", query[r], asked[r],
                                    ContentOf(r))
  <2>1. Stage(r)' = "answered"
    BY StageNext, Zenon
  <2> QED
    BY <2>1, Zenon DEF Rec, Contract!CallRecord
<1>3. callBar' = [callBar EXCEPT ![r] = Rec(r)']
  BY BarStep, Zenon
<1>4. ContentOf(r) = Contract!Content(callBar[r].q, callBar[r].commit)
  BY <1>1 DEF ContentOf, Contract!Content, Rec
<1>5. callBar[r].q = query[r] /\ callBar[r].commit = asked[r]
  BY <1>1 DEF Rec
<1> QED
  BY <1>1, <1>2, <1>3, <1>4, <1>5, Zenon DEF Contract!Answer

\* The first steps of a call.
LEMMA BeginSeen ==
    ASSUME Inv, NEW r \in Procs, Ask(r) \/ ResolveRevision(r)
    PROVE  Contract!Ask(r) \/ Contract!Resolve(r)
<1> USE DEF Goto
<1>1. TypeOK /\ CallOK(r) /\ callBar[r] = Rec(r)
  BY BarIsRec, Zenon DEF Inv
<1>2. CASE Ask(r)
  <2>1. PICK q \in Queries : query' = [query EXCEPT ![r] = q]
    BY <1>2, ZenonT(30) DEF Ask
  <2>2. /\ pc[r] = "idle" /\ pc' = [pc EXCEPT ![r] = "newClient"]
        /\ refs' = refs /\ result' = result /\ asked' = asked
    BY <1>2, Zenon DEF Ask
  <2>3. pc'[r] = "newClient" /\ query'[r] = q /\ OnlyCall(r)
    BY <1>1, <2>1, <2>2, Zenon DEF TypeOK, OnlyCall
  <2>4. Stage(r) = "idle" /\ Stage(r)' = "asked"
    BY <2>2, <2>3, StageOf, StageNext, Zenon
  <2>5. /\ callBar[r].stage = "idle"
        /\ callBar[r].commit = asked[r] /\ callBar[r].answer = None
        /\ Rec(r)' = Contract!CallRecord("asked", q, asked[r], None)
    BY <1>1, <2>2, <2>3, <2>4 DEF Rec, Contract!CallRecord
  <2>6. callBar' = [callBar EXCEPT ![r] = Rec(r)']
    BY <2>3, BarStep, Zenon
  <2> QED
    BY <2>2, <2>5, <2>6, ZenonT(30) DEF Contract!Ask
<1>3. CASE ResolveRevision(r)
  <2> DEFINE rev == query[r].rev
             c == IF rev.type = "branch" THEN refs[query[r].repo].head
                                         ELSE rev.commit
  <2>1. /\ pc[r] = "newClient" /\ pc' = [pc EXCEPT ![r] = "cacheGet"]
        /\ asked' = [asked EXCEPT ![r] = c]
        /\ refs' = refs /\ query' = query /\ result' = result
    BY <1>3, Zenon DEF ResolveRevision
  <2>2. c = Contract!Named(query[r])
    BY Zenon DEF Contract!Named
  <2> HIDE DEF c
  <2>3. pc'[r] = "cacheGet" /\ asked'[r] = c /\ OnlyCall(r)
    BY <1>1, <2>1, Zenon DEF TypeOK, OnlyCall
  <2>4. Stage(r) = "asked" /\ Stage(r)' = "resolved"
    BY <2>1, <2>3, StageOf, StageNext, Zenon DEF Busy
  <2>5. /\ callBar[r].stage = "asked"
        /\ callBar[r].q = query[r] /\ callBar[r].answer = None
        /\ Rec(r)' = Contract!CallRecord("resolved", query[r], c, None)
    BY <1>1, <2>1, <2>3, <2>4 DEF Rec, Contract!CallRecord
  <2>6. callBar' = [callBar EXCEPT ![r] = Rec(r)']
    BY <2>3, BarStep, Zenon
  <2> QED
    BY <2>1, <2>2, <2>5, <2>6, Zenon DEF Contract!Resolve
<1> QED
  BY <1>2, <1>3, Zenon

\* The other steps of a call.
LEMMA StepSeen ==
    ASSUME Inv, NEW r \in Procs, Step(r)
    PROVE  Contract!Next \/ (callBar' = callBar /\ refs' = refs)
<1> USE DEF Goto
<1>1. /\ pc \in [Procs -> Busy \union {"idle", "answered", "failed"}]
      /\ result \in [Procs -> Results \union {None}]
      /\ CallOK(r) /\ ResultOK(r) /\ CacheFaithful
  BY Zenon DEF Inv, TypeOK
<1>2. CASE ResolveRevision(r)
  BY <1>2, BeginSeen, ZenonT(30) DEF Contract!Next
<1>3. ASSUME refs' = refs, query' = query, asked' = asked, result' = result,
             pc[r] \in Busy, pc' = [pc EXCEPT ![r] = "failed"]
      PROVE  Contract!Next
  <2>1. OnlyCall(r) /\ pc'[r] = "failed"
    BY <1>1, <1>3, Zenon DEF OnlyCall
  <2>2. Contract!Fail({r})
    BY <1>3, <2>1, FailSeen, Zenon
  <2>3. {r} \in SUBSET Procs
    OBVIOUS
  <2> QED
    BY <2>2, <2>3, ZenonT(30) DEF Contract!Next
<1>4. ASSUME refs' = refs, query' = query, asked' = asked,
             \A s \in Procs \ {r} : result'[s] = result[s],
             result'[r] = ContentOf(r),
             pc[r] \in Busy \ {"newClient"},
             pc' = [pc EXCEPT ![r] = "answered"]
      PROVE  Contract!Next
  <2>1. OnlyCall(r) /\ pc'[r] = "answered"
    BY <1>1, <1>4, Zenon DEF OnlyCall
  <2>2. Contract!Answer(r)
    BY <1>4, <2>1, AnswerSeen, Zenon
  <2> QED
    BY <2>2, ZenonT(30) DEF Contract!Next
<1>5. ASSUME refs' = refs, query' = query, asked' = asked,
             \A s \in Procs \ {r} : result'[s] = result[s],
             pc[r] \in Busy \ {"newClient"},
             NEW l \in Busy \ {"newClient"}, pc' = [pc EXCEPT ![r] = l]
      PROVE  callBar' = callBar /\ refs' = refs
  <2>1. OnlyCall(r) /\ pc'[r] = l
    BY <1>1, <1>5, Zenon DEF OnlyCall
  <2> QED
    BY <1>5, <2>1, Unseen, Zenon
<1>6. CASE ResolveFails(r)
  BY <1>3, <1>6, Zenon DEF ResolveFails, Busy
<1>7. CASE CacheGet(r)
  <2> DEFINE key == CacheKey(sha[r], query[r])
  <2>1. /\ pc[r] = "cacheGet"
        /\ refs' = refs /\ query' = query /\ asked' = asked
        /\ IF key \in DOMAIN cache
             THEN /\ result' = [result EXCEPT ![r] = cache[key]]
                  /\ pc' = [pc EXCEPT ![r] = "answered"]
             ELSE pc' = [pc EXCEPT ![r] = "getLock"] /\ UNCHANGED result
    BY <1>7, Zenon DEF CacheGet
  <2>2. sha[r].commit = asked[r]
    BY <1>1, <2>1, Zenon DEF CallOK, Busy
  <2>3. key \in DOMAIN cache => cache[key] = ContentOf(r)
    BY <1>1, <2>2, ZenonT(30) DEF CacheFaithful, CacheKey, ContentOf
  <2> HIDE DEF key
  <2>4. /\ "cacheGet" \in Busy \ {"newClient"}
        /\ "getLock" \in Busy \ {"newClient"}
    BY Zenon DEF Busy
  <2>5. CASE key \in DOMAIN cache
    <3>1. /\ result'[r] = ContentOf(r)
          /\ \A s \in Procs \ {r} : result'[s] = result[s]
      BY <1>1, <2>1, <2>3, <2>5, Zenon
    <3> QED
      BY <1>4, <2>1, <2>4, <2>5, <3>1, Zenon
  <2>6. CASE key \notin DOMAIN cache
    BY <1>5, <2>1, <2>4, <2>6, Zenon
  <2> QED
    BY <2>5, <2>6, Zenon
<1>8. CASE LookUpLock(r) \/ CreateLock(r) \/ TakeLock(r)
  BY <1>5, <1>8, SMTT(20) DEF LookUpLock, CreateLock, TakeLock, Busy
<1>9. CASE CacheSet(r)
  <2>1. /\ pc[r] = "cacheSet" /\ pc' = [pc EXCEPT ![r] = "answered"]
        /\ refs' = refs /\ query' = query /\ asked' = asked
        /\ result' = result
    BY <1>9, Zenon DEF CacheSet, Return
  <2>2. result[r] = ContentOf(r) /\ pc[r] \in Busy \ {"newClient"}
    BY <1>1, <2>1, Zenon DEF ResultOK, Busy
  <2> QED
    BY <1>4, <2>1, <2>2, Zenon
<1>10. CASE InitCopy(r) \/ Fetch(r) \/ Checkout(r) \/ CommitSHA(r) \/ Work(r)
              \/ StepFails(r)
  <2>1. pc[r] \in Busy \ {"newClient"}
    BY <1>10, Zenon DEF InitCopy, Fetch, Checkout, CommitSHA, Work, StepFails, Busy,
                 Locked
  <2>2. refs' = refs /\ query' = query /\ asked' = asked
    BY <1>10 DEF InitCopy, Fetch, Checkout, CommitSHA, Work, StepFails
  <2>3. \/ pc' = [pc EXCEPT ![r] = "failed"] /\ result' = result
        \/ /\ \A s \in Procs \ {r} : result'[s] = result[s]
           /\ \E l \in {"fetch", "checkout", "commitSHA", "work", "cacheSet"} :
                 pc' = [pc EXCEPT ![r] = l]
    BY <1>1, <1>10, SMTT(20)
       DEF InitCopy, Fetch, Checkout, CommitSHA, Work, StepFails, Return
  <2>4. {"fetch", "checkout", "commitSHA", "work", "cacheSet"}
          \subseteq Busy \ {"newClient"}
    BY Zenon DEF Busy
  <2> QED
    BY <1>3, <1>5, <2>1, <2>2, <2>3, <2>4, Zenon
<1> QED
  BY <1>2, <1>6, <1>7, <1>8, <1>9, <1>10, ZenonT(30) DEF Step

\* Every step of the server is a step of the contract, or not seen.
LEMMA NextSeen == Inv /\ [Next]_vars => [Contract!Next]_(Contract!vars)
<1> SUFFICES ASSUME Inv, [Next]_vars
             PROVE  Contract!Next \/ (callBar' = callBar /\ refs' = refs)
  BY Zenon DEF Contract!vars
<1>1. CASE UNCHANGED vars
  BY <1>1, Zenon DEF vars, callVars, callBar, Stage
<1>2. ASSUME NEW r \in Procs, Ask(r)
      PROVE  Contract!Next
  BY <1>2, BeginSeen, ZenonT(30) DEF Contract!Next
<1>3. ASSUME NEW r \in Procs, Step(r)
      PROVE  Contract!Next \/ (callBar' = callBar /\ refs' = refs)
  BY <1>3, StepSeen, Zenon
<1>4. ASSUME NEW repo \in Repos, Push(repo)
      PROVE  Contract!Next
  <2>1. callBar' = callBar
    BY <1>4, Zenon DEF Push, callVars, callBar, Stage
  <2> QED
    BY <2>1, Zenon DEF Contract!Next, Contract!Push
<1>5. CASE Expire
  BY <1>5, Zenon DEF Expire, callVars, callBar, Stage
<1>6. CASE Restart
  <2> DEFINE failed == {r \in Procs : pc[r] \in Busy}
  <2>1. /\ pc' = [r \in Procs |-> IF pc[r] \in Busy THEN "failed" ELSE pc[r]]
        /\ refs' = refs /\ query' = query /\ result' = result
        /\ asked' = asked
    BY <1>6, Zenon DEF Restart
  <2>2. ASSUME NEW r \in failed
        PROVE  /\ Rec(r)' = [Rec(r) EXCEPT !.stage = "failed"]
               /\ callBar[r] = Rec(r)
               /\ Rec(r).stage \in {"asked", "resolved"}
    <3>1. pc'[r] = "failed" /\ pc[r] \in Busy
      BY <2>1, <2>2, Zenon
    <3>2. Stage(r)' = "failed" /\ Stage(r) \in {"asked", "resolved"}
      BY <3>1, StageOf, StageNext, Zenon
    <3> QED
      BY <2>1, <3>1, <3>2, BarIsRec DEF Rec, Busy
  <2>3. ASSUME NEW r \in Procs \ failed
        PROVE  Rec(r)' = Rec(r) /\ callBar[r] = Rec(r)
    <3>1. pc'[r] = pc[r]
      BY <2>1, <2>3, Zenon
    <3> QED
      BY <2>1, <3>1, BarIsRec, ZenonT(30) DEF Rec, Stage
  <2>4. callBar' = [r \in Procs |-> Rec(r)']
    BY Zenon DEF callBar, Rec
  <2>5. callBar' = [r \in Procs |->
                      IF r \in failed THEN [callBar[r] EXCEPT !.stage = "failed"]
                                      ELSE callBar[r]]
    BY <2>2, <2>3, <2>4, Zenon
  <2>6. Contract!Fail(failed) /\ failed \in SUBSET Procs
    BY <2>1, <2>2, <2>5, Zenon DEF Contract!Fail
  <2> QED
    BY <2>6, ZenonT(30) DEF Contract!Next
<1> QED
  BY <1>1, <1>2, <1>3, <1>4, <1>5, <1>6, ZenonT(30) DEF Next

\* For any calls, repositories and commits the server keeps its contract:
\* cache, working copies and concurrency are not seen.
THEOREM ContractKept == Spec => ServerKeepsContract
<1>1. Init => Contract!Init
  <2> SUFFICES ASSUME Init
               PROVE  callBar = [r \in Procs |->
                                   [stage |-> "idle", q |-> None,
                                    commit |-> None, answer |-> None]]
    BY Zenon DEF Contract!Init, Contract!CallRecord
  <2>1. \A r \in Procs : Rec(r) = [stage |-> "idle", q |-> None,
                                   commit |-> None, answer |-> None]
    BY StageOf, Zenon DEF Init, Rec
  <2> QED
    BY <2>1, BarIsRec, Zenon
<1>2. Inv /\ [Next]_vars => [Contract!Next]_(Contract!vars)
  BY NextSeen, Zenon
<1> QED
  BY <1>1, <1>2, InvHolds, PTL DEF Spec, ServerKeepsContract, Contract!Spec
=============================================================================
