----------------------------- MODULE Reservation -----------------------------
(***************************************************************************)
(* What the lease on an environment promises those that change it: one at  *)
(* a time works on it, and a deploy that stopped between its two halves    *)
(* goes on only if nobody took the environment meanwhile.                  *)
(***************************************************************************)
CONSTANT Holders

VARIABLES
    working,        \* who works on the environment
    reserved        \* who holds it between two halves of its work

Init == working = {} /\ reserved = {}

Acquire(h) ==
    /\ working = {} /\ reserved = {}
    /\ working' = {h}
    /\ UNCHANGED reserved

Suspend(h) ==
    /\ h \in working
    /\ working' = {}
    /\ reserved' = {h}

Resume(h) ==
    /\ working = {} /\ reserved = {h}
    /\ working' = {h}
    /\ reserved' = {}

\* It finished, was stopped, or lost the environment while it was suspended.
Leave(h) ==
    /\ h \in working \cup reserved
    /\ working' = working \ {h}
    /\ reserved' = reserved \ {h}

Next == \E h \in Holders : Acquire(h) \/ Suspend(h) \/ Resume(h) \/ Leave(h)

Spec == Init /\ [][Next]_<<working, reserved>>
==============================================================================
