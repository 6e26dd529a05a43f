----------------------------- MODULE RepoServer -----------------------------
(***************************************************************************)
(* The repository server (reposerver/repository, util/git, util/cache):    *)
(* ListDir, GetFile and GenerateManifest resolve a revision, look for the  *)
(* result in the cache and, when it is not there, lock the working copy of *)
(* the repository, bring it to the commit, read it or run the manifest     *)
(* tool in it, and store the result.  Each call is one goroutine.  The     *)
(* three handlers differ in what they read, so they share their steps.     *)
(*                                                                         *)
(* A file tree is the commit it comes from and the marks of what tools     *)
(* left in it: changes of tracked files and new files, each named by the   *)
(* query whose tool made it.                                               *)
(***************************************************************************)
EXTENDS KeyLock

CONSTANTS
    Repos,          \* repository URLs, sequences of characters
    Commits,        \* commits of all repositories
    CommitsOf,      \* the commits of each repository
    Queries         \* the requests: op, repo, rev and arg

\* The arg of a query is the path and, for GenerateManifest, the parameters,
\* label and namespace of the request, and the tool of the directory.
Ops == {"ListDir", "GetFile", "GenerateManifest"}

\* A revision: a branch, the hash of a commit or the start of one.
Revisions == [type : {"branch", "sha", "short"}, commit : Commits \union {None}]

\* The name of the working copy.  Two URLs may have the same.
tempRepoPath(repo) ==
    [i \in DOMAIN repo |-> IF repo[i] = "/" THEN "_" ELSE repo[i]]

ASSUME RepoAssumption ==
    /\ None \notin Commits
    /\ CommitsOf \in [Repos -> SUBSET Commits]
    /\ \A q \in Queries :
          /\ q.op \in Ops
          /\ q.repo \in Repos
          /\ q.rev \in Revisions
          /\ q.rev.type # "branch" => q.rev.commit \in Commits
          /\ q.arg.tool \in {"Ksonnet", "Helm", "Kustomize", "Directory"}
    /\ \A repo \in Repos : tempRepoPath(repo) \in Keys

VARIABLES
    refs,       \* for each remote repository: its branch, its commits
    copy,       \* for each root: the working copy
    cache,      \* the results in memory, a function of their keys
    pc, query,  \* of each call: the next step, and the request
    sha,        \* commitSHA of the handler: hash, and whether it is full
    result,     \* res of the handler
    asked       \* history: the commit LsRemote found

callVars == <<pc, query, sha, result, asked>>
vars == <<lockVars, refs, copy, cache, callVars>>

NoCopy == [exists |-> FALSE, remote |-> None, fetched |-> {}, head |-> None,
           modified |-> {}, untracked |-> {}]

NoCache == [key \in {} |-> None]

Busy == {"newClient", "cacheGet", "getLock", "makeLock", "lock", "init",
         "fetch", "checkout", "commitSHA", "work", "cacheSet"}

\* The steps of a handler between Lock and the deferred Unlock.
Locked == {"init", "fetch", "checkout", "commitSHA", "work", "cacheSet"}

Root(r) == tempRepoPath(query[r].repo)

\* The three cache keys; the repository is not in them.
CacheKey(s, q) ==
    [op |-> q.op, arg |-> q.arg, commit |-> s.commit, full |-> s.full]

\* What a handler reads in working copy w.  LsFiles reads the index of the
\* checked out commit; the other two read the files on disk.
Read(w, q) ==
    [op |-> q.op, arg |-> q.arg, tree |-> w.head,
     extra |-> IF q.op = "ListDir" THEN {} ELSE w.modified \union w.untracked]

-----------------------------------------------------------------------------

Remotes == [head : Commits, reach : SUBSET Commits]

Init ==
    /\ NewKeyLock
    /\ refs \in [Repos -> Remotes]
    /\ \A repo \in Repos :
          /\ refs[repo].head \in refs[repo].reach
          /\ refs[repo].reach \subseteq CommitsOf[repo]
    /\ copy = [k \in Keys |-> NoCopy]
    /\ cache = NoCache
    /\ pc = [r \in Procs |-> "idle"]
    /\ query = [r \in Procs |-> None]
    /\ sha = [r \in Procs |-> None]
    /\ result = [r \in Procs |-> None]
    /\ asked = [r \in Procs |-> None]

Goto(r, l) == pc' = [pc EXCEPT ![r] = l]

\* A call arrives.
Ask(r) ==
    /\ pc[r] = "idle"
    /\ \E q \in Queries : query' = [query EXCEPT ![r] = q]
    /\ Goto(r, "newClient")
    /\ UNCHANGED <<lockVars, refs, copy, cache, sha, result, asked>>

\* newClientResolveRevision and LsRemote.  A full hash is not looked up, and
\* what looks like the start of one is returned as it is.
ResolveRevision(r) ==
    LET rev == query[r].rev
        c == IF rev.type = "branch" THEN refs[query[r].repo].head
                                    ELSE rev.commit
    IN  /\ pc[r] = "newClient"
        /\ sha' = [sha EXCEPT ![r] =
                     [commit |-> c, full |-> rev.type # "short"]]
        /\ asked' = [asked EXCEPT ![r] = c]
        /\ Goto(r, "cacheGet")
        /\ UNCHANGED <<lockVars, refs, copy, cache, query, result>>

\* The credentials, the remote or the revision may be wrong.
ResolveFails(r) ==
    /\ pc[r] = "newClient"
    /\ Goto(r, "failed")
    /\ UNCHANGED <<lockVars, refs, copy, cache, query, sha, result, asked>>

CacheGet(r) ==
    LET key == CacheKey(sha[r], query[r])
    IN  /\ pc[r] = "cacheGet"
        /\ IF key \in DOMAIN cache
             THEN /\ result' = [result EXCEPT ![r] = cache[key]]
                  /\ Goto(r, "answered")
             ELSE Goto(r, "getLock") /\ UNCHANGED result
        /\ UNCHANGED <<lockVars, refs, copy, cache, query, sha, asked>>

\* repoLock.Lock(gitClient.Root())
LookUpLock(r) ==
    /\ pc[r] = "getLock"
    /\ \/ GetLock(r, Root(r)) /\ Goto(r, "lock")
       \/ LockMissing(Root(r)) /\ Goto(r, "makeLock")
    /\ UNCHANGED <<refs, copy, cache, query, sha, result, asked>>

CreateLock(r) ==
    /\ pc[r] = "makeLock"
    /\ MakeLock(r, Root(r))
    /\ Goto(r, "lock")
    /\ UNCHANGED <<refs, copy, cache, query, sha, result, asked>>

TakeLock(r) ==
    /\ pc[r] = "lock"
    /\ Lock(r, Root(r))
    /\ Goto(r, "init")
    /\ UNCHANGED <<refs, copy, cache, query, sha, result, asked>>

\* Fault: an error path returns without the deferred Unlock.
Return_KeepsLock(r, l) ==
    /\ IF l = "failed" THEN UNCHANGED lockVars ELSE Unlock(r, Root(r))
    /\ Goto(r, l)

\* A handler that holds the lock returns: the deferred Unlock runs.
Return(r, l) == Unlock(r, Root(r)) /\ Goto(r, l)

-----------------------------------------------------------------------------
(* checkoutRevision, with the working copy locked.                         *)

\* nativeGitClient.Init: a directory that opens is taken as it is.  When the
\* remote cannot be written, what is left opens the next time.
InitCopy(r) ==
    LET w == copy[Root(r)]
    IN  /\ pc[r] = "init"
        /\ \/ /\ w.exists
              /\ Goto(r, "fetch")
              /\ UNCHANGED <<lockVars, copy>>
           \/ /\ ~w.exists
              /\ copy' = [copy EXCEPT ![Root(r)] =
                            [NoCopy EXCEPT !.exists = TRUE,
                                           !.remote = query[r].repo]]
              /\ Goto(r, "fetch")
              /\ UNCHANGED lockVars
           \/ /\ ~w.exists
              /\ copy' = [copy EXCEPT ![Root(r)] =
                            [NoCopy EXCEPT !.exists = TRUE]]
              /\ Return(r, "failed")
        /\ UNCHANGED <<refs, cache, query, sha, result, asked>>

\* Fetch brings every commit a branch or tag of the remote reaches now.
Fetch(r) ==
    LET w == copy[Root(r)]
    IN  /\ pc[r] = "fetch"
        /\ w.remote # None
        /\ copy' = [copy EXCEPT ![Root(r)].fetched =
                      @ \union refs[w.remote].reach]
        /\ Goto(r, "checkout")
        /\ UNCHANGED <<lockVars, refs, cache, query, sha, result, asked>>

\* Fault: the working copy is not cleaned after the checkout.
Checkout_NoClean(r) ==
    LET w == copy[Root(r)]
    IN  /\ pc[r] = "checkout"
        /\ sha[r].commit \in w.fetched
        /\ copy' = [copy EXCEPT ![Root(r)].head = sha[r].commit,
                                ![Root(r)].modified = {}]
        /\ Goto(r, "commitSHA")
        /\ UNCHANGED <<lockVars, refs, cache, query, sha, result, asked>>

\* git checkout --force, then git clean -fdx, which may fail.
Checkout(r) ==
    LET w == copy[Root(r)]
    IN  /\ pc[r] = "checkout"
        /\ sha[r].commit \in w.fetched
        /\ \/ /\ copy' = [copy EXCEPT ![Root(r)].head = sha[r].commit,
                                      ![Root(r)].modified = {},
                                      ![Root(r)].untracked = {}]
              /\ Goto(r, "commitSHA")
              /\ UNCHANGED lockVars
           \/ /\ copy' = [copy EXCEPT ![Root(r)].head = sha[r].commit,
                                      ![Root(r)].modified = {}]
              /\ Return(r, "failed")
        /\ UNCHANGED <<refs, cache, query, sha, result, asked>>

\* git rev-parse HEAD
CommitSHA(r) ==
    /\ pc[r] = "commitSHA"
    /\ sha' = [sha EXCEPT ![r] =
                 [commit |-> copy[Root(r)].head, full |-> TRUE]]
    /\ Goto(r, "work")
    /\ UNCHANGED <<lockVars, refs, copy, cache, query, result, asked>>

-----------------------------------------------------------------------------

\* What the tool of query q leaves in the working copy: ksonnet writes the
\* parameters into its files, kustomize edits kustomization.yaml, and helm
\* downloads the dependencies of the chart.
Generated(w, q) ==
    IF q.op # "GenerateManifest" THEN w
    ELSE CASE q.arg.tool \in {"Ksonnet", "Kustomize"} ->
                [w EXCEPT !.modified = @ \union {q.arg}]
           [] q.arg.tool = "Helm" ->
                [w EXCEPT !.untracked = @ \union {q.arg}]
           [] q.arg.tool = "Directory" -> w

\* Fault: the error of the tool is ignored, and the empty result kept.
Work_ErrorIgnored(r) ==
    LET w == copy[Root(r)]
        q == query[r]
    IN  /\ pc[r] = "work"
        /\ copy' = [copy EXCEPT ![Root(r)] = Generated(w, q)]
        /\ \/ result' = [result EXCEPT ![r] = Read(w, q)]
           \/ UNCHANGED result
        /\ Goto(r, "cacheSet")
        /\ UNCHANGED <<lockVars, refs, cache, query, sha, asked>>

\* LsFiles, ReadFile or generateManifests.  A tool that fails may have
\* changed the working copy before.
Work(r) ==
    LET w == copy[Root(r)]
        q == query[r]
    IN  /\ pc[r] = "work"
        /\ copy' = [copy EXCEPT ![Root(r)] = Generated(w, q)]
        /\ \/ /\ result' = [result EXCEPT ![r] = Read(w, q)]
              /\ Goto(r, "cacheSet")
              /\ UNCHANGED lockVars
           \/ Return(r, "failed") /\ UNCHANGED result
        /\ UNCHANGED <<refs, cache, query, sha, asked>>

\* Init, Fetch, Checkout, rev-parse or the work fails and changes nothing.
StepFails(r) ==
    /\ pc[r] \in Locked \ {"cacheSet"}
    /\ Return(r, "failed")
    /\ UNCHANGED <<refs, copy, cache, query, sha, result, asked>>

\* cache.Set, whose failure is logged, and the return.
CacheSet(r) ==
    LET key == CacheKey(sha[r], query[r])
    IN  /\ pc[r] = "cacheSet"
        /\ \/ cache' = [k \in DOMAIN cache \union {key} |->
                          IF k = key THEN result[r] ELSE cache[k]]
           \/ UNCHANGED cache
        /\ Return(r, "answered")
        /\ UNCHANGED <<refs, copy, query, sha, result, asked>>

-----------------------------------------------------------------------------

\* Someone pushes a commit, or forces the branch to it.
Push(repo) ==
    /\ \E c \in CommitsOf[repo], keep \in {refs[repo].reach, {}} :
          refs' = [refs EXCEPT ![repo] = [head |-> c,
                                          reach |-> keep \union {c}]]
    /\ UNCHANGED <<lockVars, copy, cache, callVars>>

Expire ==
    /\ \E key \in DOMAIN cache :
          cache' = [k \in DOMAIN cache \ {key} |-> cache[k]]
    /\ UNCHANGED <<lockVars, refs, copy, callVars>>

\* The container restarts: memory and working copies are gone, and the calls
\* in progress end in an error.
Restart ==
    /\ locks' = [k \in Keys |-> None]
    /\ holder' = [m \in Keys \X Procs |-> None]
    /\ want' = [p \in Procs |-> None]
    /\ copy' = [k \in Keys |-> NoCopy]
    /\ cache' = NoCache
    /\ pc' = [r \in Procs |-> IF pc[r] \in Busy THEN "failed" ELSE pc[r]]
    /\ UNCHANGED <<refs, query, sha, result, asked>>

Step(r) ==
    \/ ResolveRevision(r) \/ ResolveFails(r) \/ CacheGet(r)
    \/ LookUpLock(r) \/ CreateLock(r) \/ TakeLock(r)
    \/ InitCopy(r) \/ Fetch(r) \/ Checkout(r) \/ CommitSHA(r)
    \/ Work(r) \/ StepFails(r) \/ CacheSet(r)

Next ==
    \/ \E r \in Procs : Ask(r) \/ Step(r)
    \/ \E repo \in Repos : Push(repo)
    \/ Expire
    \/ Restart

Spec == Init /\ [][Next]_vars

\* A goroutine that can run does.  A call is made once, so a free mutex is
\* taken from a waiting call finitely often and weak fairness is enough.
\* Callers, pushes, expiries and restarts are left free.
FairSpec == Spec /\ \A r \in Procs : WF_vars(Step(r))

-----------------------------------------------------------------------------

Results == [op : Ops, arg : {q.arg : q \in Queries}, tree : Commits,
            extra : SUBSET {q.arg : q \in Queries}]

CopyType ==
    [exists : BOOLEAN, remote : Repos \union {None}, fetched : SUBSET Commits,
     head : Commits \union {None}, modified : SUBSET {q.arg : q \in Queries},
     untracked : SUBSET {q.arg : q \in Queries}]

\* The type of the state.
TypeOK ==
    /\ LockTypeOK
    /\ refs \in [Repos -> Remotes]
    /\ copy \in [Keys -> CopyType]
    /\ \A key \in DOMAIN cache : cache[key] \in Results
    /\ pc \in [Procs -> Busy \union {"idle", "answered", "failed"}]
    /\ query \in [Procs -> Queries \union {None}]
    /\ sha \in [Procs -> [commit : Commits \union {None}, full : BOOLEAN]
                           \union {None}]
    /\ result \in [Procs -> Results \union {None}]
    /\ asked \in [Procs -> Commits \union {None}]

\* A result in the cache is what its commit gives: the entries of the three
\* handlers can be served for ever, whatever branches do, and nothing a tool
\* left behind, and no result of another commit or of other parameters, gets
\* into them (repository.go, cache.Set after checkoutRevision).
CacheFaithful ==
    \A key \in DOMAIN cache :
        cache[key] = [op |-> key.op, arg |-> key.arg, tree |-> key.commit,
                      extra |-> {}]

\* What a caller sees of its call.
Stage(r) ==
    CASE pc[r] = "idle" -> "idle"
      [] pc[r] = "newClient" -> "asked"
      [] pc[r] \in Busy \ {"newClient"} -> "resolved"
      [] pc[r] = "answered" -> "answered"
      [] pc[r] = "failed" -> "failed"

callBar ==
    [r \in Procs |->
       [stage |-> Stage(r), q |-> query[r], commit |-> asked[r],
        answer |-> IF pc[r] = "answered" THEN result[r] ELSE None]]

Contract ==
    INSTANCE RepoContract WITH Calls <- Procs, Nothing <- None, call <- callBar

\* The server keeps its contract: seen from outside it has no cache, no
\* working copies and no other callers, and every answer is the content of
\* the commit the revision named when LsRemote ran.
ServerKeepsContract == Contract!Spec

\* No mutex is kept by a handler that has returned, by whichever path, and calls do
\* not wait for each other: a mutex a call waits for is free, or it is held by
\* another call that works in the same directory, where it waits for no lock
\* (KeyLock.Unlock, deferred).
LocksGivenBack ==
    \A r \in Procs : pc[r] = "lock" =>
        \/ holder[<<Root(r), want[r]>>] = None
        \/ \E s \in Procs \ {r} : /\ holder[<<Root(r), want[r]>>] = s
                                  /\ pc[s] \in Locked /\ Root(s) = Root(r)

\* Every call ends: no lock is kept by a handler that returned, whichever
\* step failed, and nobody waits for ever for a working copy.
CallsEnd == \A r \in Procs : pc[r] \in Busy ~> pc[r] \in {"answered", "failed"}
=============================================================================
