----------------------------- MODULE TaskPromise ------------------------------
(***************************************************************************)
(* What the system promises about a task, with nothing of how: an accepted *)
(* task stays in flight until it has an outcome, and a task that has left  *)
(* never comes back.  Delivery is at least once, so a task may meet both   *)
(* outcomes; Pipeline says when it cannot.                                 *)
(***************************************************************************)
CONSTANT Tasks

VARIABLES
    inFlight,  \* the accepted tasks somebody still works for
    outcome    \* outcome[t]: the outcomes t has met

vars == <<inFlight, outcome>>

Outcomes == {"completed", "gaveUp"}

Init ==
    /\ inFlight = {}
    /\ outcome = [t \in Tasks |-> {}]

Accept(t) ==
    /\ t \notin inFlight /\ outcome[t] = {}
    /\ inFlight' = inFlight \cup {t}
    /\ UNCHANGED outcome

\* An outcome is reached by a task in flight, which may leave with it.
Settle(t) ==
    /\ t \in inFlight
    /\ \E o \in Outcomes : outcome' = [outcome EXCEPT ![t] = @ \cup {o}]
    /\ inFlight' \in {inFlight, inFlight \ {t}}

Leave(t) ==
    /\ t \in inFlight /\ outcome[t] # {}
    /\ inFlight' = inFlight \ {t}
    /\ UNCHANGED outcome

Next == \E t \in Tasks : Accept(t) \/ Settle(t) \/ Leave(t)

Spec == Init /\ [][Next]_vars
==============================================================================
