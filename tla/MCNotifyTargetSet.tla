------------------------- MODULE MCNotifyTargetSet -------------------------
EXTENDS NotifyTargetSet, TLC

Symmetry == Permutations(Targets) \cup Permutations(Nodes)
=============================================================================
