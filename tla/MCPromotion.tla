----------------------------- MODULE MCPromotion -----------------------------
\* Three deploys, a rollback and a prune of one environment.
EXTENDS Promotion, TLC

CONSTANTS d1, d2, d3, b1, p1

Symmetry == Permutations(Deploys)
==============================================================================
