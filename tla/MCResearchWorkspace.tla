-------------------------- MODULE MCResearchWorkspace --------------------------
EXTENDS ResearchWorkspace, TLC

Symmetry == Permutations(Loads)
=============================================================================
