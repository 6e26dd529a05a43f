----------------------------- MODULE MCProjects -----------------------------
(***************************************************************************)
(* Projects with one project besides the default one, one application and  *)
(* two handlers in flight, over every request below, any number of times.  *)
(***************************************************************************)
EXTENDS Projects, TLC

CONSTANTS r1, r2, a1, none

MCProcs == {r1, r2}
MCApps == {a1}
MCNames == {"default", "p"}
MCTokens == {1}
MCURLs == {"g", "g.git"}
MCDests == {<<"s", "n">>, <<"*", "*">>}
MCNormalizeGitURL == [u \in MCURLs |-> "g"]

all == [dests |-> {<<"*", "*">>}, sources |-> {"*"}]
one == [dests |-> {<<"s", "n">>}, sources |-> {"g.git"}]
less == [dests |-> {<<"s", "n">>}, sources |-> {}]

request(op, name, spec, flag, token) ==
  [op |-> op, name |-> name, spec |-> spec, flag |-> flag, token |-> token]

appSpec(p) == [project |-> p, dest |-> <<"s", "n">>, source |-> "g"]

projectRequests ==
  {request("ProjectCreate", "p", one, FALSE, none),
   request("ProjectUpdate", "p", all, FALSE, none),
   request("ProjectUpdate", "p", less, FALSE, none),
   request("ProjectDelete", "p", none, FALSE, none)}

tokenRequests ==
  {request(op, "p", none, FALSE, 1) : op \in {"CreateToken", "DeleteToken"}}

appRequests ==
  {request("AppCreate", a1, appSpec("p"), TRUE, none),
   request("AppCreate", a1, appSpec(""), FALSE, none),
   request("AppUpdate", a1, appSpec("p"), FALSE, none),
   request("AppUpdateSpec", a1, appSpec("p"), FALSE, none),
   request("AppDelete", a1, none, TRUE, none),
   request("AppDelete", a1, none, FALSE, none)}

joins == {q \in appRequests : q.op = "AppUpdateSpec" \/ (q.op = "AppCreate" /\ ~q.flag)}

MCWorkloads == {projectRequests \union appRequests,
                projectRequests \union tokenRequests \union joins}

\* Without tokens no property speaks of what follows once handlers of two
\* instances have met.
Relevant == mixed => tokenRequests \subseteq clients

Symmetry == Permutations(MCProcs)
=============================================================================
