------------------------------ MODULE NamedLease ------------------------------
(***************************************************************************)
(* One lease, as those build on it who take it: no clocks, no revisions    *)
(* and no renewals, but the token it names and the holds that are live.    *)
(***************************************************************************)
CONSTANTS
    Holders,        \* those that take it
    Free            \* the token of an absent lease

VARIABLES
    lease,          \* the token it names
    live            \* the holds whose work goes on under it

Init == lease = Free /\ live = {}

\* Nobody but h is at work under it.
Takeable(h) == lease \notin live \ {h}

Take(h) == Takeable(h) /\ lease' = h /\ live' = live \cup {h}

\* A write lands whose caller has given up.
LandsLate(h) == Takeable(h) /\ lease' = h /\ UNCHANGED live

\* The hold ends, or is lost; the record stays.
End(h) == live' = live \ {h} /\ UNCHANGED lease

\* The record is removed: by its holder, or when it is found stopped.
Forget(h) == lease \notin live \ {h} /\ lease' = Free /\ live' = live \ {h}

Next == \E h \in Holders : Take(h) \/ LandsLate(h) \/ End(h) \/ Forget(h)

Spec == Init /\ [][Next]_<<lease, live>>
==============================================================================
