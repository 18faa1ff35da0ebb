----------------------------- MODULE MCServeLoops -----------------------------
\* The loops of a worker's consumers, two of one kind or one of each.
EXTENDS ServeLoops, TLC

CONSTANTS c1, c2
==============================================================================
