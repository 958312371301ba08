--------------------------- MODULE CapabilityGateway ---------------------------
(***************************************************************************)
(* capabilities/gateway.py: the budget of calls that a turn, or the Thread *)
(* of a researcher, has of each capability. The counts are in an ordered   *)
(* map of bounded size that forgets the key used least recently, so that a *)
(* forgotten key starts afresh. A lock makes each admission one step.      *)
(***************************************************************************)
EXTENDS Naturals, FiniteSets

CONSTANTS Keys,         \* pairs of a scope and a capability
          MaxCalls,     \* max_calls_per_run
          Capacity      \* 2_000

VARIABLES
    calls,      \* _calls: the count of a key, 0 for a key it does not have
    used,       \* the order of _calls: when a key was last moved to the end
    clock,      \* calls of admit_scope so far
    admitted,   \* history: the calls of each key that were admitted
    forgotten   \* history: keys that have been popped

vars == <<calls, used, clock, admitted, forgotten>>

Init ==
    /\ calls = [k \in Keys |-> 0]
    /\ used = [k \in Keys |-> 0]
    /\ clock = 0
    /\ admitted = [k \in Keys |-> 0]
    /\ forgotten = {}

Entries == {k \in Keys : calls[k] > 0}

Oldest(j, S) == j \in S /\ \A k \in S : used[j] <= used[k]

(* What becomes of the map when key has been called count times. The key   *)
(* itself is at the end and is not popped.                                 *)
Record(key, count) ==
    LET kept == Entries \cup {key}
    IN  \/ /\ Cardinality(kept) <= Capacity
           /\ calls' = [calls EXCEPT ![key] = count]
           /\ forgotten' = forgotten
        \/ /\ Cardinality(kept) > Capacity
           /\ \E oldest \in kept \ {key} :
                 /\ Oldest(oldest, kept \ {key})
                 /\ calls' = [k \in Keys |-> IF k = key THEN count
                                             ELSE IF k = oldest THEN 0 ELSE calls[k]]
                 /\ forgotten' = forgotten \cup {oldest}

(* admit_scope: a call over the budget raises, and is counted all the same.*)
Admit(key) ==
    LET count == calls[key] + 1
    IN  /\ Record(key, count)
        /\ clock' = clock + 1
        /\ used' = [used EXCEPT ![key] = clock + 1]
        /\ admitted' = IF count > MaxCalls THEN admitted
                       ELSE [admitted EXCEPT ![key] = @ + 1]

Next == \E key \in Keys : Admit(key)

Spec == Init /\ [][Next]_vars

-----------------------------------------------------------------------------
(* Every variable holds values of its kind.                                *)
TypeOK ==
    /\ calls \in [Keys -> Nat]
    /\ used \in [Keys -> Nat]
    /\ clock \in Nat
    /\ admitted \in [Keys -> Nat]
    /\ forgotten \subseteq Keys

(* A key that has never been forgotten is within its budget (admit_scope). *)
BudgetHolds == \A k \in Keys \ forgotten : admitted[k] <= MaxCalls

(* A key is forgotten only when as many others as the map has room for     *)
(* were used since it was, and are in the map: a turn gets a fresh budget  *)
(* only after that many others (admit_scope, popitem).                     *)
ForgottenWhenIdle ==
    [][\A j \in Keys : calls[j] > 0 /\ calls'[j] = 0 =>
          \E others \in SUBSET (Keys \ {j}) :
              /\ Cardinality(others) = Capacity
              /\ \A k \in others : calls'[k] > 0 /\ used'[k] >= used[j]]_vars

================================================================================
