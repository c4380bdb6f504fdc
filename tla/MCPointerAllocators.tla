------------------------ MODULE MCPointerAllocators ------------------------
EXTENDS PointerAllocators, TLC

CONSTANTS t1, t2, a1, a2

Symmetry == Permutations({t1, t2}) \cup Permutations({a1, a2})
=============================================================================
