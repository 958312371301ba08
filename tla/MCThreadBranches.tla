--------------------------- MODULE MCThreadBranches ---------------------------
EXTENDS ThreadBranches, TLC

Symmetry == Permutations(Requests)
=============================================================================
