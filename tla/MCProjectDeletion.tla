-------------------------- MODULE MCProjectDeletion ---------------------------
(* Instances of ProjectDeletion for TLC.                                   *)
EXTENDS ProjectDeletion, TLC

Symmetry ==
    Permutations(Hosts) \cup Permutations(Sandboxes) \cup Permutations(Requests)
=============================================================================
