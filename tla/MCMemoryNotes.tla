--------------------------- MODULE MCMemoryNotes ---------------------------
EXTENDS MemoryNotes, TLC

CONSTANTS n1, n2

Symmetry == Permutations(Addresses)
=============================================================================
