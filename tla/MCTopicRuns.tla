----------------------------- MODULE MCTopicRuns -----------------------------
(***************************************************************************)
(* Topic runs of an ordered topic on a queue that dead-letters (SQS FIFO): *)
(* two deliverers, two callers that publish, cancel, redrive and purge.     *)
(***************************************************************************)
EXTENDS RunEngineInvariant, TLC

CONSTANTS e1, w1, w2, c1, c2

Symmetry == Permutations(Deliverers) \cup Permutations(Callers)
=============================================================================
