--------------------------- MODULE PromotionHistory ---------------------------
(***************************************************************************)
(* What the ledger of an environment promises those that read it: a        *)
(* history of promotions, the newest that stands is the active one, the    *)
(* next is there to give way to, and the release each names is there.      *)
(***************************************************************************)
CONSTANTS Deploys, Rollbacks, Nothing

VARIABLES
    active,     \* the promotion the environment serves
    names,      \* the release each promotion recorded names
    before,     \* which of them was recorded before which
    back,       \* those taken back
    ready       \* the releases that can be served

vars == <<active, names, before, back, ready>>

Init == active = Nothing /\ names = [p \in {} |-> Nothing] /\ before = {} /\ back = {} /\ ready = {}

Recorded  == DOMAIN names
Standing  == Recorded \ back
Latest(S) == {p \in S : \A q \in S \ {p} : <<q, p>> \in before}

\* A deploy serves its own release, a rollback that of a promotion that stands;
\* the promotion goes on record as the newest, and what it replaces stays.
Join(p, x) ==
    /\ p \notin Recorded /\ x \in ready
    /\ IF p \in Deploys THEN x = p ELSE \E q \in Standing : names[q] = x
    /\ \E K \in SUBSET (Recorded \cup {p}) :
           /\ {p} \cup ({active} \ {Nothing}) \subseteq K
           /\ names' = [q \in K |-> IF q = p THEN x ELSE names[q]]
           /\ before' = (before \cup Recorded \X {p}) \cap (K \X K)
           /\ back' = back \cap K
    /\ active' = p
    /\ UNCHANGED ready

\* The active one gives way to the newest that still stands.
TakeBack(p) ==
    /\ p \in Recorded
    /\ back' = back \cup {p}
    /\ IF Standing \ {p} = {} THEN active' = Nothing ELSE active' \in Latest(Standing \ {p})
    /\ UNCHANGED <<names, before, ready>>

\* Promotions are dropped, but neither the active one nor the next in line.
Drop ==
    /\ \E K \in SUBSET Recorded :
           /\ ({active} \ {Nothing}) \cup Latest(Standing \ {active}) \subseteq K
           /\ names' = [q \in K |-> names[q]]
           /\ before' = before \cap (K \X K)
           /\ back' = back \cap K
    /\ UNCHANGED <<active, ready>>

Build(x) ==
    /\ ready' = ready \cup {x}
    /\ UNCHANGED <<active, names, before, back>>

\* Releases go that no promotion on record names.
Reclaim ==
    /\ ready' \subseteq ready /\ \A p \in Recorded : names[p] \in ready'
    /\ UNCHANGED <<active, names, before, back>>

Next ==
    \/ \E p \in Deploys \cup Rollbacks :
           TakeBack(p) \/ \E x \in Deploys : Join(p, x)
    \/ Drop
    \/ \E x \in Deploys : Build(x)
    \/ Reclaim

Spec == Init /\ [][Next]_vars
==============================================================================
