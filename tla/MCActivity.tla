----------------------------- MODULE MCActivity ------------------------------
EXTENDS ActivityCombine
Symmetry == Permutations(Conns)
==============================================================================
