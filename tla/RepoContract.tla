---------------------------- MODULE RepoContract ----------------------------
(***************************************************************************)
(* What the repository server promises its callers: a call is answered     *)
(* once, with what the tree of one commit gives, the commit that the       *)
(* revision named at a moment of the call; or it fails.  There is no cache *)
(* and no working copy here, and calls do not see each other.              *)
(***************************************************************************)
CONSTANTS Calls, Queries, Commits, Nothing

VARIABLES
    refs,       \* for each repository, its branch and what is reachable
    call        \* for each call its stage, query, commit and answer

vars == <<refs, call>>

Content(q, c) == [op |-> q.op, arg |-> q.arg, tree |-> c, extra |-> {}]

\* A revision is a branch or the hash of a commit, possibly truncated.
Named(q) == IF q.rev.type = "branch" THEN refs[q.repo].head ELSE q.rev.commit

CallRecord(stage, q, commit, answer) ==
    [stage |-> stage, q |-> q, commit |-> commit, answer |-> answer]

Init ==
    call = [r \in Calls |-> CallRecord("idle", Nothing, Nothing, Nothing)]

Ask(r) ==
    /\ call[r].stage = "idle"
    /\ \E q \in Queries :
          LET c == call[r]
          IN  call' = [call EXCEPT ![r] =
                         CallRecord("asked", q, c.commit, c.answer)]
    /\ UNCHANGED refs

Resolve(r) ==
    /\ call[r].stage = "asked"
    /\ LET c == call[r]
       IN  call' = [call EXCEPT ![r] =
                      CallRecord("resolved", c.q, Named(c.q), c.answer)]
    /\ UNCHANGED refs

Answer(r) ==
    /\ call[r].stage = "resolved"
    /\ LET c == call[r]
       IN  call' = [call EXCEPT ![r] =
                      CallRecord("answered", c.q, c.commit,
                                 Content(c.q, c.commit))]
    /\ UNCHANGED refs

\* Calls fail alone, or together when the server restarts.
Fail(failed) ==
    /\ \A r \in failed : call[r].stage \in {"asked", "resolved"}
    /\ call' = [r \in Calls |->
                  IF r \in failed THEN [call[r] EXCEPT !.stage = "failed"]
                                  ELSE call[r]]
    /\ UNCHANGED refs

\* The repository is not ours: its branch moves as it likes.
Push == UNCHANGED call

Next ==
    \/ \E r \in Calls : Ask(r) \/ Resolve(r) \/ Answer(r)
    \/ \E failed \in SUBSET Calls : Fail(failed)
    \/ Push

Spec == Init /\ [][Next]_vars
=============================================================================
