----------------------------- MODULE MCEventStream -----------------------------
(***************************************************************************)
(* A run with a call that starts a task and calls that check it.           *)
(***************************************************************************)
EXTENDS EventStream

CONSTANTS start, check, again

ChecksOfStart == [c \in {check, again} |-> start]
=============================================================================
