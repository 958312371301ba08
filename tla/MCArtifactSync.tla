---------------------------- MODULE MCArtifactSync ----------------------------
EXTENDS ArtifactSync, TLC

Symmetry == Permutations(Calls) \cup Permutations(Artifacts)
=============================================================================
