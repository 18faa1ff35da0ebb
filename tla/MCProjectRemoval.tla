--------------------------- MODULE MCProjectRemoval ---------------------------
\* Removals of every preview of a project and deploys to two of them.
EXTENDS ProjectRemoval, TLC

CONSTANTS d1, d2, r1, r2, e1, e2

Symmetry ==
    Permutations(Deploys) \cup Permutations(Removals) \cup Permutations(Environments)
==============================================================================
