-------------------------- MODULE MCSessionTracker --------------------------
EXTENDS SessionTracker, TLC

CONSTANTS g1, g2

Symmetry == Permutations(Games)
=============================================================================
