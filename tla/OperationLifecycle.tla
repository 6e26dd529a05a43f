------------------------- MODULE OperationLifecycle -------------------------
(***************************************************************************)
(* What the API server and the controller promise together for the         *)
(* operations of one application: they are performed one at a time, none   *)
(* is started twice, and one that was accepted leaves only by ending after *)
(* it was started, unless the application is removed.                      *)
(***************************************************************************)
CONSTANTS Ops, None

VARIABLES
    present,    \* the application exists
    current,    \* the operation accepted last, until it ends
    stage,      \* how far it is
    started     \* the operations ever started

vars == <<present, current, stage, started>>

Init ==
    /\ present = TRUE
    /\ current = None /\ stage = "free"
    /\ started = {}

Accept ==
    /\ present /\ stage = "free"
    /\ current' \in Ops \ started
    /\ stage' = "requested"
    /\ UNCHANGED <<present, started>>

Start ==
    /\ stage = "requested"
    /\ current \notin started
    /\ started' = started \union {current}
    /\ stage' = "running"
    /\ UNCHANGED <<present, current>>

Terminate ==
    /\ stage = "running"
    /\ stage' = "terminating"
    /\ UNCHANGED <<present, current, started>>

\* The controller may overwrite a termination it has not seen; the user has
\* to ask again.
ForgetTermination ==
    /\ stage = "terminating"
    /\ stage' = "running"
    /\ UNCHANGED <<present, current, started>>

End ==
    /\ stage \in {"running", "terminating"}
    /\ current' = None /\ stage' = "free"
    /\ UNCHANGED <<present, started>>

Remove ==
    /\ present' = FALSE
    /\ current' = None /\ stage' = "free"
    /\ UNCHANGED started

Next == Accept \/ Start \/ Terminate \/ ForgetTermination \/ End \/ Remove

Spec == Init /\ [][Next]_vars
=============================================================================
