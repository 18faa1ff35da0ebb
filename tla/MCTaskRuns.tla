----------------------------- MODULE MCTaskRuns -----------------------------
(***************************************************************************)
(* Task runs on a queue whose handles name one receipt (SQS): two          *)
(* deliverers, a caller that triggers, cancels and reschedules.            *)
(***************************************************************************)
EXTENDS RunEngineInvariant, TLC

CONSTANTS e1, w1, w2, c1

Symmetry == Permutations(Deliverers)
=============================================================================
