------------------------------ MODULE Workspace -------------------------------
(***************************************************************************)
(* What the host promises about the workspace of a live Project: the       *)
(* Project names at most one sandbox, the name is written once, and it     *)
(* moves to another sandbox only when the one it names no longer exists    *)
(* and the durable Assets are already in the other.                        *)
(***************************************************************************)
CONSTANTS Sandboxes, NoSandbox

VARIABLES binding,  \* the sandbox the Project names, or NoSandbox
          gone,     \* sandboxes Daytona no longer has
          hydrated  \* sandboxes the durable Assets have been restored into

vars == <<binding, gone, hydrated>>

Init ==
    /\ binding = NoSandbox
    /\ gone = {}
    /\ hydrated = {}

Disappear(s) ==
    /\ gone' = gone \cup {s}
    /\ UNCHANGED <<binding, hydrated>>

Hydrate(s) ==
    /\ hydrated' = hydrated \cup {s}
    /\ UNCHANGED <<binding, gone>>

FirstBinding(s) ==
    /\ binding = NoSandbox
    /\ binding' = s
    /\ UNCHANGED <<gone, hydrated>>

Recovery(s) ==
    /\ binding \in gone
    /\ s \in hydrated
    /\ binding' = s
    /\ UNCHANGED <<gone, hydrated>>

Next == \E s \in Sandboxes :
    Disappear(s) \/ Hydrate(s) \/ FirstBinding(s) \/ Recovery(s)

Spec == Init /\ [][Next]_vars
=============================================================================
