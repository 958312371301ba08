----------------------------- MODULE MCThreadRuns -----------------------------
(* Instances of ThreadRuns for TLC.                                        *)
EXTENDS ThreadRuns, TLC

Symmetry == Permutations(Tasks) \cup Permutations(Requests)
=============================================================================
