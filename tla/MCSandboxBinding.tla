--------------------------- MODULE MCSandboxBinding ---------------------------
(***************************************************************************)
(* Instances of SandboxBinding for TLC.  The pool of Sandboxes bounds how  *)
(* many sandboxes are ever created, and so how many are lost.              *)
(***************************************************************************)
EXTENDS SandboxBinding, TLC

Symmetry == Permutations(Hosts) \cup Permutations(Sandboxes)
=============================================================================
