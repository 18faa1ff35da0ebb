------------------------ MODULE RunEngineRefinement ------------------------
(***************************************************************************)
(* The run engine implements the life of a run: the abstract record is the *)
(* stored one without its lease, its time to live and its held message.    *)
(***************************************************************************)
EXTENDS RunEngine

Lifecycle == INSTANCE RunLifecycle WITH
    life <- [e \in Executions |->
                [status   |-> run[e].status,
                 attempts |-> run[e].attempts,
                 delivery |-> run[e].delivery,
                 due      |-> run[e].due]]

\* Every step of deliverers, callers, queue and clock is a step of the life of
\* one run or leaves it alone: nothing starts early or beyond its attempts,
\* settles out of turn, or is undone once an attempt has started.
ImplementsLifecycle == Lifecycle!Spec
=============================================================================
