------------------------------- MODULE AgentProofs -----------------------------
(***************************************************************************)
(* Proofs about what the agent's tools do: the gateway's budget            *)
(* (CapabilityGateway), the attempts of a tool (Capabilities), the rows and*)
(* excerpts it answers with (Selections, Excerpts), the budgets of a turn  *)
(* (TurnBudgets) and the researchers it tracks (ResearcherTasks).          *)
(***************************************************************************)
EXTENDS Capabilities, Selections, Excerpts, TurnBudgets, ResearcherTasks,
        FiniteSetTheorems, WellFoundedInduction, TLAPS

-----------------------------------------------------------------------------
(***************************************************************************)
(* CapabilityGateway                                                       *)
(***************************************************************************)
(* The count of a key that has never been forgotten is that of its calls,  *)
(* and the first MaxCalls of them were admitted.                           *)
CountsCover ==
    \A k \in Keys \ forgotten :
        admitted[k] = IF calls[k] <= MaxCalls THEN calls[k] ELSE MaxCalls

GatewayInv ==
    /\ TypeOK
    /\ \A k \in Keys : used[k] <= clock
    /\ IsFiniteSet(Entries) /\ Cardinality(Entries) <= Capacity
    /\ CountsCover

Parameters == MaxCalls \in Nat /\ Capacity \in Nat \ {0}

LEMMA GatewayInit ==
    ASSUME Parameters, Init
    PROVE  GatewayInv
<1>1. Entries = {}
  BY DEF Init, Entries
<1>2. IsFiniteSet(Entries) /\ Cardinality(Entries) <= Capacity
  BY <1>1, FS_EmptySet DEF Parameters
<1> QED  BY <1>2 DEF Init, Parameters, GatewayInv, TypeOK, CountsCover

(* Where a key is popped, the map is full of keys used no earlier.         *)
LEMMA AdmitFills ==
    ASSUME Parameters, GatewayInv, NEW key \in Keys, Admit(key)
    PROVE  /\ GatewayInv'
           /\ \A j \in Keys : calls[j] > 0 /\ calls'[j] = 0 =>
                 /\ j \notin Entries' /\ Cardinality(Entries') = Capacity
                 /\ \A k \in Entries' : used'[k] >= used[j]
<1> DEFINE kept == Entries \cup {key}
           count == calls[key] + 1
<1>1. /\ IsFiniteSet(kept)
      /\ Cardinality(kept) \in Nat /\ Cardinality(kept) <= Capacity + 1
  <2>1. /\ IsFiniteSet(Entries) /\ Cardinality(Entries) \in Nat
        /\ Cardinality(Entries) <= Capacity
    BY FS_CardinalityType DEF GatewayInv
  <2>2. /\ IsFiniteSet(kept)
        /\ Cardinality(kept) = IF key \in Entries THEN Cardinality(Entries)
                               ELSE Cardinality(Entries) + 1
    BY <2>1, FS_AddElement
  <2> HIDE DEF kept
  <2> QED  BY <2>1, <2>2 DEF Parameters
<1>2. /\ calls \in [Keys -> Nat] /\ used \in [Keys -> Nat] /\ clock \in Nat
      /\ \A k \in Keys : used[k] <= clock
  BY DEF GatewayInv, TypeOK
<1>3. used' \in [Keys -> Nat] /\ clock' = clock + 1
      /\ used'[key] = clock + 1
      /\ \A k \in Keys \ {key} : used'[k] = used[k]
  BY <1>2 DEF Admit
<1>4. \A k \in Keys : used'[k] <= clock'
  BY <1>2, <1>3
<1>5. CASE /\ Cardinality(kept) <= Capacity
           /\ calls' = [calls EXCEPT ![key] = count]
           /\ forgotten' = forgotten
  <2>1. Entries' = kept
    BY <1>2, <1>5 DEF Entries
  <2>2. TypeOK'
    BY <1>2, <1>3, <1>5 DEF Admit, GatewayInv, TypeOK
  <2>3. CountsCover'
    BY <1>2, <1>5 DEF Admit, GatewayInv, TypeOK, CountsCover, Parameters
  <2>4. GatewayInv'
    BY <1>1, <1>4, <1>5, <2>1, <2>2, <2>3 DEF GatewayInv
  <2>5. \A j \in Keys : calls[j] > 0 => calls'[j] # 0
    BY <1>2, <1>5
  <2> QED  BY <2>4, <2>5
<1>6. CASE /\ Cardinality(kept) > Capacity
           /\ \E oldest \in kept \ {key} :
                 /\ Oldest(oldest, kept \ {key})
                 /\ calls' = [k \in Keys |-> IF k = key THEN count
                                             ELSE IF k = oldest THEN 0 ELSE calls[k]]
                 /\ forgotten' = forgotten \cup {oldest}
  <2>1. PICK oldest \in kept \ {key} :
            /\ Oldest(oldest, kept \ {key})
            /\ calls' = [k \in Keys |-> IF k = key THEN count
                                        ELSE IF k = oldest THEN 0 ELSE calls[k]]
            /\ forgotten' = forgotten \cup {oldest}
    BY <1>6
  <2>2. oldest \in Keys /\ oldest # key
    BY DEF Entries
  <2>3. Entries' = kept \ {oldest}
    BY <1>2, <2>1, <2>2 DEF Entries
  <2>4. IsFiniteSet(Entries') /\ Cardinality(Entries') = Capacity
    <3>1. Cardinality(kept) = Capacity + 1
      BY <1>1, <1>6 DEF Parameters
    <3>2. IsFiniteSet(kept \ {oldest})
          /\ Cardinality(kept \ {oldest}) = Cardinality(kept) - 1
      BY <1>1, FS_RemoveElement
    <3> QED  BY <2>3, <3>1, <3>2 DEF Parameters
  <2>5. TypeOK'
    BY <1>2, <1>3, <2>1, <2>2 DEF Admit, GatewayInv, TypeOK
  <2>6. CountsCover'
    BY <1>2, <2>1, <2>2 DEF Admit, GatewayInv, TypeOK, CountsCover, Parameters
  <2>7. GatewayInv'
    BY <1>4, <2>4, <2>5, <2>6 DEF GatewayInv, Parameters
  <2>8. ASSUME NEW j \in Keys, calls[j] > 0, calls'[j] = 0
        PROVE  j \notin Entries' /\ \A k \in Entries' : used'[k] >= used[j]
    <3>1. j = oldest
      BY <1>2, <2>1, <2>8
    <3>2. \A k \in kept \ {key} : used[oldest] <= used[k]
      BY <2>1 DEF Oldest
    <3>3. \A k \in Entries' \ {key} : used'[k] = used[k] /\ used[oldest] <= used[k]
      BY <1>3, <2>3, <3>2 DEF Entries
    <3>4. used'[key] >= used[oldest]
      BY <1>2, <1>3, <2>2
    <3> QED  BY <1>2, <2>2, <2>3, <3>1, <3>3, <3>4 DEF Entries
  <2> QED  BY <2>4, <2>7, <2>8
<1> QED  BY <1>5, <1>6 DEF Admit, Record

LEMMA GatewayStep ==
    ASSUME Parameters, GatewayInv, [Next]_vars
    PROVE  GatewayInv'
<1>1. CASE UNCHANGED vars
  BY <1>1 DEF vars, GatewayInv, TypeOK, CountsCover, Entries
<1> QED  BY <1>1, AdmitFills DEF Next

(* No key that the map has kept has been admitted beyond its budget, for   *)
(* any number of keys, any budget and any room in the map (admit_scope).   *)
THEOREM BudgetIsKept ==
    ASSUME Parameters
    PROVE  Spec => []BudgetHolds
<1>1. GatewayInv => BudgetHolds
  BY DEF Parameters, GatewayInv, TypeOK, CountsCover, BudgetHolds
<1>2. Init => GatewayInv
  BY GatewayInit
<1>3. GatewayInv /\ [Next]_vars => GatewayInv'
  BY GatewayStep
<1> QED  BY <1>1, <1>2, <1>3, PTL DEF Spec

(* A key is forgotten only behind a map full of keys used since it was.    *)
THEOREM OnlyIdleForgotten ==
    ASSUME Parameters
    PROVE  Spec => ForgottenWhenIdle
<1>1. Init => GatewayInv
  BY GatewayInit
<1>2. GatewayInv /\ [Next]_vars => GatewayInv'
  BY GatewayStep
<1>3. GatewayInv /\ [Next]_vars =>
        [\A j \in Keys : calls[j] > 0 /\ calls'[j] = 0 =>
            \E others \in SUBSET (Keys \ {j}) :
              /\ Cardinality(others) = Capacity
              /\ \A k \in others : calls'[k] > 0 /\ used'[k] >= used[j]]_vars
  <2> SUFFICES ASSUME GatewayInv, Next, NEW j \in Keys, calls[j] > 0, calls'[j] = 0
               PROVE  \E others \in SUBSET (Keys \ {j}) :
                         /\ Cardinality(others) = Capacity
                         /\ \A k \in others : calls'[k] > 0 /\ used'[k] >= used[j]
    OBVIOUS
  <2>1. /\ j \notin Entries' /\ Cardinality(Entries') = Capacity
        /\ \A k \in Entries' : used'[k] >= used[j]
    BY AdmitFills DEF Next
  <2>2. Entries' \in SUBSET (Keys \ {j}) /\ \A k \in Entries' : calls'[k] > 0
    BY <2>1 DEF Entries
  <2> QED  BY <2>1, <2>2
<1> QED  BY <1>1, <1>2, <1>3, PTL DEF Spec, ForgottenWhenIdle
-----------------------------------------------------------------------------
(***************************************************************************)
(* Capabilities                                                            *)
(***************************************************************************)
ToolParameters ==
    /\ Parameters
    /\ Keys = Scopes \X CapabilityIds /\ Scopes # {}
    /\ Retries \in Nat /\ MaxSeries \in Nat

(* The counts of the map are those of the attempts.                        *)
CountsAttempts ==
    \A k \in Keys \ forgotten :
        /\ Cardinality(OfKey(tried, k)) = calls[k]
        /\ Cardinality(OfKey(sent, k)) = admitted[k]

(* A file holds the dataset of a call that has written it, what was written*)
(* is in its file or was removed since, and only an attempt that has       *)
(* written its dataset answers with it.                                    *)
FilesHeld ==
    /\ \A d \in Datasets : holds[d] # {} =>
          \E e \in ToolCalls, n \in 1 .. Retries + 1 :
             /\ holds[d] = {e} /\ d \in tool[e].dataset
             /\ <<e, n>> \in stored
    /\ \A p \in stored : \A d \in tool[p[1]].dataset : holds[d] # {} \/ d \in removed
    /\ \A c \in ToolCalls :
          tool[c].step = "stored" \/ (tool[c].step = "answered" /\ tool[c].dataset # {}) =>
             <<c, tool[c].attempt>> \in stored

(* Where a call is.                                                        *)
CallsPlaced ==
    \A c \in ToolCalls :
        /\ tool[c].step = "idle" => tool[c].attempt = 0
        /\ tool[c].step # "idle" => tool[c].attempt > 0 /\ tool[c].requests > 0
        /\ tool[c].step \in {"asked", "writing", "stored", "answered"} => tool[c].dates = "fine"
        /\ tool[c].step = "asked" => tool[c].waiting > 0
        /\ tool[c].step \in {"asked", "writing"} => <<c, tool[c].attempt>> \in sent

ToolInv ==
    /\ GatewayInv /\ ToolTypeOK
    /\ IsFiniteSet(tried)
    /\ CountsAttempts /\ EveryAttemptCounted /\ FilesHeld /\ CallsPlaced

(* A call that has asked for admission was made.                           *)
LEMMA TriedMade ==
    ASSUME ToolInv
    PROVE  \A p \in tried : p[1] \in ToolCalls /\ tool[p[1]].step # "idle"
<1>1. SUFFICES ASSUME NEW c \in ToolCalls, NEW n \in 1 .. Retries + 1, <<c, n>> \in tried
               PROVE  tool[c].step # "idle"
  BY DEF ToolInv, ToolTypeOK
<1>2. tool[c].attempt \in Nat /\ (tool[c].step = "idle" => tool[c].attempt = 0)
  BY DEF ToolInv, ToolTypeOK, ToolStates, CallsPlaced
<1>3. n <= tool[c].attempt
  BY <1>1, <1>2 DEF ToolInv, EveryAttemptCounted
<1> QED  BY <1>2, <1>3

(* What a step that is not an admission leaves as it is.                   *)
LEMMA AttemptsKept ==
    ASSUME ToolInv, UNCHANGED <<vars, tried, sent>>,
           \A c \in ToolCalls : tool'[c].key = tool[c].key \/ tool[c].step = "idle"
    PROVE  GatewayInv' /\ TypeOK' /\ IsFiniteSet(tried)' /\ CountsAttempts'
<1>1. \A k : OfKey(tried, k)' = OfKey(tried, k) /\ OfKey(sent, k)' = OfKey(sent, k)
  <2>1. \A p \in tried : p[1] \in ToolCalls /\ tool[p[1]].step # "idle"
    BY TriedMade
  <2> QED  BY <2>1 DEF OfKey, ToolInv, ToolTypeOK
<1> QED
  BY <1>1 DEF vars, ToolInv, GatewayInv, TypeOK, CountsCover, Entries, CountsAttempts

(* What a step that touches no file leaves as it is.                       *)
LEMMA FilesKept ==
    ASSUME ToolInv, UNCHANGED files,
           \A c \in ToolCalls :
              /\ tool'[c].dataset = tool[c].dataset \/ tool[c].step = "idle"
              /\ tool'[c].step = "stored" => tool'[c] = tool[c]
              /\ tool'[c].step = "answered" /\ tool'[c].dataset # {} =>
                    tool[c].step \in {"stored", "answered"} /\ tool'[c].attempt = tool[c].attempt
    PROVE  FilesHeld'
<1>1. \A p \in stored : p[1] \in ToolCalls /\ tool[p[1]].step # "idle"
  BY TriedMade DEF ToolInv, ToolTypeOK
<1>2. \A p \in stored : tool'[p[1]].dataset = tool[p[1]].dataset
  BY <1>1
<1>3. UNCHANGED <<holds, removed, stored>>
  BY DEF files
<1>4. \A e \in ToolCalls, n \in 1 .. Retries + 1 :
         <<e, n>> \in stored => tool'[e].dataset = tool[e].dataset
  BY <1>2
<1>5. \A d \in Datasets : holds[d] # {} =>
         \E e \in ToolCalls, n \in 1 .. Retries + 1 :
            /\ holds[d] = {e} /\ d \in tool'[e].dataset
            /\ <<e, n>> \in stored
  BY <1>4 DEF ToolInv, FilesHeld
<1>6. \A p \in stored : \A d \in tool'[p[1]].dataset : holds[d] # {} \/ d \in removed
  BY <1>2 DEF ToolInv, FilesHeld
<1>7. ASSUME NEW c \in ToolCalls,
             tool'[c].step = "stored" \/ (tool'[c].step = "answered" /\ tool'[c].dataset # {})
      PROVE  <<c, tool'[c].attempt>> \in stored
  <2>1. CASE tool'[c].step = "stored"
    BY <2>1 DEF ToolInv, FilesHeld
  <2>2. CASE tool'[c].step = "answered" /\ tool'[c].dataset # {}
    BY <2>2 DEF ToolInv, FilesHeld
  <2> QED  BY <1>7, <2>1, <2>2
<1> QED  BY <1>3, <1>5, <1>6, <1>7 DEF FilesHeld

LEMMA ToolInitial ==
    ASSUME ToolParameters, ToolInit
    PROVE  ToolInv
<1>1. GatewayInv
  BY GatewayInit DEF ToolParameters, ToolInit
<1>2. Unmade \in ToolStates
  <2>1. \A s \in Scopes : <<s, "sec.resolve_company">> \in Keys
    BY DEF ToolParameters, CapabilityIds
  <2>2. (CHOOSE k \in Keys : TRUE) \in Keys
    BY <2>1 DEF ToolParameters
  <2> QED  BY <2>2 DEF Unmade, ToolStates, Providers, Dates
<1>3. ToolTypeOK
  BY <1>1, <1>2 DEF GatewayInv, ToolTypeOK, ToolInit
<1>4. IsFiniteSet(tried) /\ \A k : OfKey(tried, k) = {} /\ OfKey(sent, k) = {}
  BY FS_EmptySet DEF ToolInit, OfKey
<1>5. CountsAttempts
  BY <1>4, FS_EmptySet DEF CountsAttempts, ToolInit, Init
<1>6. EveryAttemptCounted /\ FilesHeld
  BY DEF EveryAttemptCounted, FilesHeld, ToolInit, Unmade, ToolParameters
<1> QED  BY <1>1, <1>3, <1>4, <1>5, <1>6 DEF ToolInv, CallsPlaced, ToolInit, Unmade

(* A call is made.                                                         *)
LEMMA CallKeeps ==
    ASSUME ToolParameters, ToolInv, NEW c \in ToolCalls,
           NEW capability \in CapabilityIds, NEW provider \in Providers,
           NEW dates \in Dates, NEW requests \in Nat \ {0},
           NEW dataset \in {{}} \cup {{d} : d \in Datasets},
           Call(c, capability, provider, dates, requests, dataset)
    PROVE  ToolInv'
<1>1. PICK scope \in Scopes :
         tool' = [tool EXCEPT ![c] =
                    [step |-> "called", key |-> <<scope, capability>>,
                     provider |-> provider, dates |-> dates, requests |-> requests,
                     waiting |-> 0, dataset |-> dataset, attempt |-> 1]]
  BY DEF Call
<1>2. tool[c].step = "idle" /\ UNCHANGED <<vars, files, tried, sent>>
  BY DEF Call
<1>3. tool \in [ToolCalls -> ToolStates]
  BY DEF ToolInv, ToolTypeOK
<1>4. GatewayInv' /\ TypeOK' /\ IsFiniteSet(tried)' /\ CountsAttempts'
  <2>1. \A d \in ToolCalls : tool'[d].key = tool[d].key \/ tool[d].step = "idle"
    BY <1>1, <1>2, <1>3
  <2> QED  BY <1>2, <2>1, AttemptsKept
<1>5. ToolTypeOK'
  <2>1. tool'[c] \in ToolStates
    BY <1>1, <1>3 DEF ToolStates, ToolParameters
  <2> QED  BY <1>1, <1>2, <1>3, <1>4, <2>1 DEF ToolInv, ToolTypeOK, files
<1>6. EveryAttemptCounted'
  <2>1. /\ tool[c].attempt = 0 /\ tool[c].step = "idle"
        /\ tool'[c].attempt = 1 /\ tool'[c].step = "called"
        /\ \A e \in ToolCalls \ {c} : tool'[e] = tool[e]
    BY <1>1, <1>2, <1>3 DEF ToolInv, CallsPlaced
  <2> QED  BY <1>2, <2>1 DEF ToolInv, EveryAttemptCounted, ToolParameters
<1>7. FilesHeld'
  <2>1. tool'[c].step = "called" /\ \A e \in ToolCalls \ {c} : tool'[e] = tool[e]
    BY <1>1, <1>3
  <2> QED  BY <1>2, <2>1, FilesKept
<1>8. CallsPlaced'
  BY <1>1, <1>2, <1>3 DEF ToolInv, CallsPlaced
<1> QED  BY <1>4, <1>5, <1>6, <1>7, <1>8 DEF ToolInv

(* A call goes on or raises, without asking for admission.                 *)
LEMMA GoesOn ==
    ASSUME ToolParameters, ToolInv, NEW c \in ToolCalls,
           NEW verdict,
           \/ tool[c].step \in {"asked", "writing", "stored"}
           \/ tool[c].step = "called" /\ tool[c].dates = "crossed" /\ verdict = "final",
           UNCHANGED <<vars, tried, sent>>, UNCHANGED files,
           \/ Raise(c, verdict)
           \/ \E step \in {"asked", "answered", "writing"}, n \in Nat :
                 /\ tool[c].dates = "fine"
                 /\ tool' = [tool EXCEPT ![c].waiting = n, ![c].step = step]
                 /\ step = "answered" => tool[c].dataset = {} \/ tool[c].step = "stored"
                 /\ step # "answered" => tool[c].step = "asked"
                 /\ step = "asked" => n > 0
    PROVE  ToolInv'
<1>1. tool \in [ToolCalls -> ToolStates] /\ tool[c].attempt \in Nat
  BY DEF ToolInv, ToolTypeOK, ToolStates
<1> DEFINE raised == /\ tool'[c].step \in {"called", "failed"}
                     /\ tool'[c].step = "called" =>
                           /\ verdict = "retry" /\ tool[c].attempt <= Retries
                           /\ tool'[c].attempt = tool[c].attempt + 1
                     /\ tool'[c].step = "failed" => tool'[c].attempt = tool[c].attempt
                     /\ tool'[c].waiting = tool[c].waiting
           went == /\ tool'[c].step \in {"asked", "answered", "writing"}
                   /\ tool[c].dates = "fine"
                   /\ tool'[c].step = "answered" =>
                         tool[c].dataset = {} \/ tool[c].step = "stored"
                   /\ tool'[c].step # "answered" => tool[c].step = "asked"
                   /\ tool'[c].step = "asked" => tool'[c].waiting > 0
                   /\ tool'[c].attempt = tool[c].attempt
<1>2. /\ \A d \in ToolCalls \ {c} : tool'[d] = tool[d]
      /\ tool' \in [ToolCalls -> ToolStates]
      /\ tool'[c].key = tool[c].key /\ tool'[c].dates = tool[c].dates
      /\ tool'[c].dataset = tool[c].dataset /\ tool'[c].requests = tool[c].requests
      /\ raised \/ went
  <2>1. CASE Raise(c, verdict) /\ verdict = "retry" /\ tool[c].attempt <= Retries
    BY <1>1, <2>1 DEF Raise, ToolStates
  <2>2. CASE Raise(c, verdict) /\ ~(verdict = "retry" /\ tool[c].attempt <= Retries)
    BY <1>1, <2>2 DEF Raise, ToolStates
  <2>3. ASSUME NEW step \in {"asked", "answered", "writing"}, NEW n \in Nat,
               tool[c].dates = "fine",
               step = "answered" => tool[c].dataset = {} \/ tool[c].step = "stored",
               step # "answered" => tool[c].step = "asked",
               step = "asked" => n > 0,
               tool' = [tool EXCEPT ![c].waiting = n, ![c].step = step]
        PROVE  /\ \A d \in ToolCalls \ {c} : tool'[d] = tool[d]
               /\ tool' \in [ToolCalls -> ToolStates]
               /\ tool'[c].key = tool[c].key /\ tool'[c].dates = tool[c].dates
               /\ tool'[c].dataset = tool[c].dataset /\ tool'[c].requests = tool[c].requests
               /\ went
    BY <1>1, <2>3 DEF ToolStates
  <2> QED  BY <2>1, <2>2, <2>3
<1>3. GatewayInv' /\ TypeOK' /\ IsFiniteSet(tried)' /\ CountsAttempts'
  BY <1>2, AttemptsKept
<1>4. ToolTypeOK'
  BY <1>2, <1>3 DEF ToolInv, ToolTypeOK, files
<1>5. /\ tool[c].step \notin {"idle", "answered"}
      /\ tool[c].attempt > 0 /\ tool[c].requests > 0
      /\ tool[c].step = "called" => tool[c].dates = "crossed" /\ verdict = "final"
      /\ tool[c].step # "called" => tool[c].dates = "fine"
  BY DEF ToolInv, CallsPlaced
<1>6. EveryAttemptCounted'
  <2>1. \A d \in ToolCalls \ {c} : tool'[d] = tool[d]
    BY <1>2
  <2>2. Retries \in Nat /\ tried' = tried /\ EveryAttemptCounted
    BY DEF ToolParameters, ToolInv
  <2>3. CASE raised
    BY <1>1, <1>2, <1>5, <2>1, <2>2, <2>3 DEF EveryAttemptCounted
  <2>4. CASE went
    BY <1>1, <1>2, <1>5, <2>1, <2>2, <2>4 DEF EveryAttemptCounted
  <2> QED  BY <1>2, <2>3, <2>4
<1>7. FilesHeld'
  <2>1. /\ tool'[c].step # "stored"
        /\ tool'[c].step = "answered" /\ tool'[c].dataset # {} =>
              tool[c].step = "stored" /\ tool'[c].attempt = tool[c].attempt
    <3>1. CASE raised
      BY <3>1
    <3>2. CASE went
      BY <1>2, <3>2
    <3> QED  BY <1>2, <3>1, <3>2
  <2>2. \A e \in ToolCalls : tool'[e].dataset = tool[e].dataset
    BY <1>2
  <2> QED  BY <1>2, <2>1, <2>2, FilesKept
<1>8. /\ tool'[c].step # "idle" /\ tool'[c].attempt > 0 /\ tool'[c].requests > 0
      /\ tool'[c].step \in {"asked", "writing", "stored", "answered"} => tool'[c].dates = "fine"
      /\ tool'[c].step \in {"asked", "writing"} => <<c, tool'[c].attempt>> \in sent'
      /\ tool'[c].step = "asked" => tool'[c].waiting > 0
  <2>1. CASE raised
    BY <1>1, <1>2, <1>5, <2>1
  <2>2. CASE went
    <3>1. tool[c].step = "asked" => <<c, tool[c].attempt>> \in sent
      BY DEF ToolInv, CallsPlaced
    <3> QED  BY <1>1, <1>2, <1>5, <2>2, <3>1
  <2> QED  BY <1>2, <2>1, <2>2
<1>9. CallsPlaced'
  BY <1>2, <1>8 DEF ToolInv, CallsPlaced
<1> QED  BY <1>3, <1>4, <1>6, <1>7, <1>9 DEF ToolInv

(* An admission raises the count of its key, and those of others stay, but *)
(* for the one that is forgotten.                                          *)
LEMMA AdmitCounts ==
    ASSUME Parameters, GatewayInv, NEW key \in Keys, Admit(key)
    PROVE  /\ forgotten \subseteq forgotten'
           /\ calls'[key] = calls[key] + 1
           /\ \A k \in Keys \ forgotten' : k # key => calls'[k] = calls[k]
           /\ \A k \in Keys : k # key => admitted'[k] = admitted[k]
           /\ admitted'[key] = IF calls[key] < MaxCalls THEN admitted[key] + 1 ELSE admitted[key]
<1>1. /\ calls \in [Keys -> Nat] /\ admitted \in [Keys -> Nat] /\ MaxCalls \in Nat
  BY DEF GatewayInv, TypeOK, Parameters
<1>2. /\ forgotten \subseteq forgotten'
      /\ calls'[key] = calls[key] + 1
      /\ \A k \in Keys \ forgotten' : k # key => calls'[k] = calls[k]
  BY <1>1 DEF Admit, Record
<1> QED  BY <1>1, <1>2 DEF Admit

LEMMA TryKeeps ==
    ASSUME ToolParameters, ToolInv, NEW c \in ToolCalls, Try(c)
    PROVE  ToolInv'
<1> DEFINE this == <<c, tool[c].attempt>>
           key == tool[c].key
           admit == calls[key] < MaxCalls
<1>1. /\ tool[c].step = "called" /\ tool[c].dates = "fine" /\ Admit(key)
      /\ tried' = tried \cup {this} /\ UNCHANGED files
  BY DEF Try
<1>2. tool \in [ToolCalls -> ToolStates] /\ tool[c].attempt \in Nat /\ key \in Keys
  BY DEF ToolInv, ToolTypeOK, ToolStates
<1>3. /\ \A d \in ToolCalls \ {c} : tool'[d] = tool[d]
      /\ tool' \in [ToolCalls -> ToolStates]
      /\ tool'[c].key = key /\ tool'[c].dates = "fine" /\ tool'[c].requests = tool[c].requests
      /\ sent' = IF admit THEN sent \cup {this} ELSE sent
      /\ \/ /\ tool'[c].attempt = tool[c].attempt
            /\ tool'[c].step \in {"asked", "failed"}
            /\ tool'[c].step = "asked" => admit /\ tool'[c].waiting = tool[c].requests
         \/ /\ tool'[c].attempt = tool[c].attempt + 1 /\ tool[c].attempt <= Retries
            /\ tool'[c].step = "called"
  <2>1. CASE admit
    BY <1>1, <1>2, <2>1 DEF Try, ToolStates
  <2>2. CASE ~admit
    BY <1>1, <1>2, <2>2 DEF Try, Raise, ToolStates
  <2> QED  BY <2>1, <2>2
<1>4. this \notin tried /\ this \notin sent /\ tool[c].attempt \in 1 .. Retries + 1
  BY <1>1, <1>2 DEF ToolInv, ToolTypeOK, EveryAttemptCounted, CallsPlaced, ToolParameters
<1>5. GatewayInv'
  BY <1>1, <1>2, AdmitFills DEF ToolInv, ToolParameters
<1>6. IsFiniteSet(tried')
  BY <1>1, FS_AddElement DEF ToolInv
<1>7. ToolTypeOK'
  BY <1>1, <1>3, <1>4, <1>5 DEF ToolInv, GatewayInv, ToolTypeOK, files
<1>8. CountsAttempts'
  <2>1. \A d \in ToolCalls : tool'[d].key = tool[d].key
    BY <1>3
  <2>2. tried \subseteq ToolCalls \X (1 .. Retries + 1) /\ sent \subseteq tried
    BY DEF ToolInv, ToolTypeOK
  <2>3. \A k : /\ OfKey(tried, k)' = (IF k = key THEN OfKey(tried, k) \cup {this}
                                       ELSE OfKey(tried, k))
               /\ OfKey(sent, k)' = (IF k = key /\ admit THEN OfKey(sent, k) \cup {this}
                                      ELSE OfKey(sent, k))
    <3>1. \A p \in tried : p[1] \in ToolCalls
      BY <2>2
    <3>2. this[1] = c
      OBVIOUS
    <3> HIDE DEF this, admit
    <3> QED  BY <1>1, <1>3, <2>1, <2>2, <3>1, <3>2 DEF OfKey
  <2>4. \A k : /\ IsFiniteSet(OfKey(tried, k)) /\ IsFiniteSet(OfKey(sent, k))
               /\ this \notin OfKey(tried, k) /\ this \notin OfKey(sent, k)
    <3>1. \A k : OfKey(tried, k) \in SUBSET tried /\ OfKey(sent, k) \in SUBSET tried
      BY <2>2 DEF OfKey
    <3> QED  BY <1>4, <3>1, FS_Subset DEF ToolInv, OfKey
  <2>5. /\ Cardinality(OfKey(tried, key) \cup {this}) = Cardinality(OfKey(tried, key)) + 1
        /\ Cardinality(OfKey(sent, key) \cup {this}) = Cardinality(OfKey(sent, key)) + 1
    BY <2>4, FS_AddElement
  <2>6. /\ forgotten \subseteq forgotten'
        /\ calls'[key] = calls[key] + 1
        /\ \A k \in Keys \ forgotten' : k # key => calls'[k] = calls[k]
        /\ \A k \in Keys : k # key => admitted'[k] = admitted[k]
        /\ admitted'[key] = IF admit THEN admitted[key] + 1 ELSE admitted[key]
    BY <1>1, <1>2, AdmitCounts DEF ToolInv, ToolParameters
  <2> HIDE DEF this, key, admit
  <2> SUFFICES ASSUME NEW k \in Keys \ forgotten'
               PROVE  /\ Cardinality(OfKey(tried, k)') = calls'[k]
                      /\ Cardinality(OfKey(sent, k)') = admitted'[k]
    BY DEF CountsAttempts
  <2>7. /\ Cardinality(OfKey(tried, k)) = calls[k] /\ Cardinality(OfKey(sent, k)) = admitted[k]
    BY <2>6 DEF ToolInv, CountsAttempts
  <2> QED  BY <2>3, <2>5, <2>6, <2>7
<1>9. EveryAttemptCounted'
  BY <1>1, <1>2, <1>3, <1>4 DEF ToolInv, EveryAttemptCounted, ToolParameters
<1>10. FilesHeld'
  <2>1. /\ tool'[c].dataset = tool[c].dataset
        /\ tool'[c].step \in {"asked", "failed", "called"}
    <3>1. CASE admit
      BY <1>1, <1>2, <3>1 DEF Try, ToolStates
    <3>2. CASE ~admit
      BY <1>1, <1>2, <3>2 DEF Try, Raise, ToolStates
    <3> QED  BY <3>1, <3>2
  <2> QED  BY <1>1, <1>3, <2>1, FilesKept
<1>11. tool[c].attempt > 0 /\ tool[c].requests > 0
  BY <1>1 DEF ToolInv, CallsPlaced
<1>12. /\ tool'[c].step # "idle" /\ tool'[c].attempt > 0 /\ tool'[c].requests > 0
       /\ tool'[c].step \in {"asked", "failed", "called"}
       /\ tool'[c].step = "asked" =>
             tool'[c].waiting > 0 /\ <<c, tool'[c].attempt>> \in sent'
       /\ sent \subseteq sent'
  BY <1>2, <1>3, <1>11
<1>13. CallsPlaced'
  <2> HIDE DEF this, key, admit
  <2> QED  BY <1>2, <1>3, <1>12 DEF ToolInv, CallsPlaced
<1> QED  BY <1>5, <1>6, <1>7, <1>8, <1>9, <1>10, <1>13 DEF ToolInv

LEMMA StoreKeeps ==
    ASSUME ToolParameters, ToolInv, NEW c \in ToolCalls, Store(c)
    PROVE  ToolInv'
<1> DEFINE this == <<c, tool[c].attempt>>
<1>1. PICK d \in tool[c].dataset : /\ holds' = [holds EXCEPT ![d] = {c}]
                                   /\ removed' = removed \ {d}
  BY DEF Store
<1>2. /\ tool[c].step = "writing" /\ UNCHANGED <<vars, tried, sent>>
      /\ tool' = [tool EXCEPT ![c].step = "stored"] /\ stored' = stored \cup {this}
      /\ tool \in [ToolCalls -> ToolStates] /\ holds \in [Datasets -> SUBSET ToolCalls]
      /\ d \in Datasets /\ tool[c].dataset = {d} /\ this \in sent
      /\ removed \subseteq Datasets /\ stored \subseteq sent
      /\ sent \subseteq ToolCalls \X (1 .. Retries + 1)
  BY DEF Store, ToolInv, ToolTypeOK, ToolStates, CallsPlaced
<1>3. /\ tool' \in [ToolCalls -> ToolStates]
      /\ \A e \in ToolCalls \ {c} : tool'[e] = tool[e]
      /\ \A e \in ToolCalls : tool'[e].dataset = tool[e].dataset
      /\ tool'[c].step = "stored" /\ tool'[c].key = tool[c].key
      /\ tool'[c].attempt = tool[c].attempt /\ tool'[c].dates = tool[c].dates
      /\ tool'[c].requests = tool[c].requests
  BY <1>2 DEF ToolStates
<1>4. GatewayInv' /\ TypeOK' /\ IsFiniteSet(tried)' /\ CountsAttempts'
  BY <1>2, <1>3, AttemptsKept
<1>5. ToolTypeOK'
  BY <1>1, <1>2, <1>3, <1>4 DEF ToolInv, ToolTypeOK
<1>6. EveryAttemptCounted'
  BY <1>2, <1>3 DEF ToolInv, EveryAttemptCounted
<1>7. FilesHeld'
  <2>1. holds'[d] = {c} /\ \A f \in Datasets \ {d} : holds'[f] = holds[f]
    BY <1>1, <1>2
  <2>2. \A p \in stored' : tool'[p[1]].dataset = tool[p[1]].dataset
    <3>1. \A p \in stored' : p[1] \in ToolCalls
      BY <1>2
    <3> QED  BY <1>3, <3>1
  <2>3. ASSUME NEW f \in Datasets, holds'[f] # {}
        PROVE  \E e \in ToolCalls, n \in 1 .. Retries + 1 :
                  /\ holds'[f] = {e} /\ f \in tool'[e].dataset
                  /\ <<e, n>> \in stored'
    <3>1. CASE f = d
      BY <1>2, <1>3, <2>1, <3>1
    <3>2. CASE f # d
      <4>1. holds'[f] = holds[f] /\ holds[f] # {}
        BY <2>1, <2>3, <3>2
      <4>2. PICK e \in ToolCalls, n \in 1 .. Retries + 1 :
                holds[f] = {e} /\ f \in tool[e].dataset /\ <<e, n>> \in stored
        BY <4>1 DEF ToolInv, FilesHeld
      <4> QED  BY <1>2, <1>3, <4>1, <4>2
    <3> QED  BY <3>1, <3>2
  <2>4. ASSUME NEW p \in stored', NEW f \in tool'[p[1]].dataset
        PROVE  holds'[f] # {} \/ f \in removed'
    <3>1. CASE f = d
      BY <2>1, <3>1
    <3>2. CASE f # d
      <4>1. p \in ToolCalls \X (1 .. Retries + 1) /\ f \in tool[p[1]].dataset
        BY <1>2, <2>2, <2>4
      <4>2. p \in stored
        BY <1>2, <3>2, <4>1
      <4>3. f \in Datasets
        BY <1>2, <4>1 DEF ToolStates
      <4> QED  BY <1>1, <2>1, <3>2, <4>1, <4>2, <4>3 DEF ToolInv, FilesHeld
    <3> QED  BY <3>1, <3>2
  <2>5. \A e \in ToolCalls :
           tool'[e].step = "stored" \/ (tool'[e].step = "answered" /\ tool'[e].dataset # {}) =>
              <<e, tool'[e].attempt>> \in stored'
    BY <1>2, <1>3 DEF ToolInv, FilesHeld
  <2> QED  BY <2>3, <2>4, <2>5 DEF FilesHeld
<1>8. CallsPlaced'
  BY <1>2, <1>3 DEF ToolInv, CallsPlaced
<1> QED  BY <1>4, <1>5, <1>6, <1>7, <1>8 DEF ToolInv

LEMMA MaterializeKeeps ==
    ASSUME ToolParameters, ToolInv, NEW c \in ToolCalls, Materialize(c)
    PROVE  ToolInv'
<1>1. UNCHANGED <<vars, tried, sent>> /\ UNCHANGED files
  BY DEF Materialize
<1>2. CASE tool[c].step \in {"writing", "stored"} /\ Raise(c, "retry")
  BY <1>1, <1>2, GoesOn
<1>3. CASE tool[c].step = "stored" /\ tool' = [tool EXCEPT ![c].step = "answered"]
  <2>1. tool[c] \in ToolStates /\ tool[c].dates = "fine" /\ tool[c].waiting \in Nat
    BY <1>3 DEF ToolInv, ToolTypeOK, ToolStates, CallsPlaced
  <2>2. tool' = [tool EXCEPT ![c].waiting = tool[c].waiting, ![c].step = "answered"]
    BY <1>3, <2>1 DEF ToolInv, ToolTypeOK, ToolStates
  <2> QED  BY <1>1, <1>3, <2>1, <2>2, GoesOn
<1> QED  BY <1>2, <1>3 DEF Materialize

LEMMA RemoveKeeps ==
    ASSUME ToolInv, NEW lost \in SUBSET Datasets, Remove(lost)
    PROVE  ToolInv'
<1>1. /\ UNCHANGED <<vars, tool, stored, tried, sent>> /\ removed' = removed \cup lost
      /\ holds' = [d \in Datasets |-> IF d \in lost THEN {} ELSE holds[d]]
  BY DEF Remove
<1>2. GatewayInv' /\ TypeOK' /\ IsFiniteSet(tried)' /\ CountsAttempts'
  BY <1>1, AttemptsKept
<1>3. ToolTypeOK' /\ EveryAttemptCounted'
  BY <1>1, <1>2 DEF ToolInv, ToolTypeOK, EveryAttemptCounted
<1>4. FilesHeld'
  <2>1. \A p \in stored : \A d \in tool[p[1]].dataset : d \in Datasets
    BY DEF ToolInv, ToolTypeOK, ToolStates
  <2> QED  BY <1>1, <2>1 DEF ToolInv, FilesHeld
<1> QED  BY <1>1, <1>2, <1>3, <1>4 DEF ToolInv, CallsPlaced

ToolCalled(c) ==
    \/ SecResolveCompany(c) \/ SecListFilings(c) \/ SecGetFiling(c) \/ SecGetCompanyFacts(c)
    \/ MarketResolveInstrument(c) \/ MarketGetSnapshots(c) \/ MarketGetBars(c)
    \/ MarketGetCorporateActions(c)
    \/ FredSearchSeries(c) \/ FredGetObservations(c)

LEMMA CalledKeeps ==
    ASSUME ToolParameters, ToolInv, NEW c \in ToolCalls, ToolCalled(c)
    PROVE  ToolInv'
<1>1. ASSUME NEW capability \in CapabilityIds, NEW provider \in Providers,
             NEW dates \in Dates, NEW requests \in Nat \ {0},
             NEW dataset \in {{}} \cup {{d} : d \in Datasets},
             Call(c, capability, provider, dates, requests, dataset)
      PROVE  ToolInv'
  BY <1>1, CallKeeps
<1>2. CASE SecResolveCompany(c)
  BY <1>1, <1>2 DEF SecResolveCompany, CapabilityIds, Providers, Dates
<1>3. CASE SecListFilings(c)
  BY <1>1, <1>3 DEF SecListFilings, CapabilityIds, Providers, Dates
<1>4. CASE SecGetFiling(c)
  <2>1. PICK a \in Arguments :
            Call(c, "sec.get_filing", "EDGAR", "fine", 1, {<<"filing", a>>})
    BY <1>4 DEF SecGetFiling
  <2>2. {<<"filing", a>>} \in {{}} \cup {{d} : d \in Datasets}
    BY DEF Datasets
  <2> QED  BY <1>1, <2>1, <2>2 DEF CapabilityIds, Providers, Dates
<1>5. CASE SecGetCompanyFacts(c)
  <2>1. PICK dates \in Dates, a \in Arguments :
            Call(c, "sec.company_facts", "SEC", dates, 1, {<<"facts", a>>})
    BY <1>5 DEF SecGetCompanyFacts
  <2>2. {<<"facts", a>>} \in {{}} \cup {{d} : d \in Datasets}
    BY DEF Datasets
  <2> QED  BY <1>1, <2>1, <2>2 DEF CapabilityIds, Providers, Dates
<1>6. CASE MarketResolveInstrument(c)
  BY <1>1, <1>6 DEF MarketResolveInstrument, CapabilityIds, Providers, Dates
<1>7. CASE MarketGetSnapshots(c)
  BY <1>1, <1>7 DEF MarketGetSnapshots, CapabilityIds, Providers, Dates
<1>8. CASE MarketGetBars(c)
  BY <1>1, <1>8 DEF MarketGetBars, CapabilityIds, Providers, Dates
<1>9. CASE MarketGetCorporateActions(c)
  BY <1>1, <1>9 DEF MarketGetCorporateActions, CapabilityIds, Providers, Dates
<1>10. CASE FredSearchSeries(c)
  BY <1>1, <1>10 DEF FredSearchSeries, CapabilityIds, Providers, Dates
<1>11. CASE FredGetObservations(c)
  <2>1. PICK dates \in Dates, series \in 1 .. MaxSeries :
            Call(c, "fred.observations", "FRED", dates, 2 * series, {})
    BY <1>11 DEF FredGetObservations
  <2>2. 2 * series \in Nat \ {0}
    BY DEF ToolParameters
  <2> QED  BY <1>1, <2>1, <2>2 DEF CapabilityIds, Providers
<1> QED
  BY <1>2, <1>3, <1>4, <1>5, <1>6, <1>7, <1>8, <1>9, <1>10, <1>11 DEF ToolCalled

LEMMA ToolInvariant ==
    ASSUME ToolParameters, ToolInv, [ToolNext]_<<vars, toolVars>>
    PROVE  ToolInv'
<1>1. CASE UNCHANGED <<vars, toolVars>>
  BY <1>1 DEF vars, toolVars, files, ToolInv, GatewayInv, TypeOK, CountsCover, Entries, ToolTypeOK,
     CountsAttempts, OfKey, EveryAttemptCounted, FilesHeld, CallsPlaced
<1>2. ASSUME NEW lost \in SUBSET Datasets, Remove(lost)
      PROVE  ToolInv'
  BY <1>2, RemoveKeeps
<1>3. CASE \E c \in ToolCalls : ToolStep(c)
  <2>1. PICK c \in ToolCalls : ToolStep(c)
    BY <1>3
  <2>2. CASE ToolCalled(c)
    BY <2>2, CalledKeeps
  <2>3. CASE RejectDates(c)
    BY <2>3, GoesOn DEF RejectDates
  <2>4. CASE Try(c)
    BY <2>4, TryKeeps
  <2>5. CASE Respond(c)
    <3>1. PICK verdict :
            IF verdict = "ok"
            THEN tool' = [tool EXCEPT ![c].waiting = @ - 1,
                            ![c].step = IF tool[c].waiting > 1 THEN "asked"
                                        ELSE IF tool[c].dataset = {} THEN "answered"
                                        ELSE "writing"]
            ELSE Raise(c, verdict)
      BY <2>5 DEF Respond
    <3>2. tool[c].step = "asked" /\ UNCHANGED <<vars, files, tried, sent>>
      BY <2>5 DEF Respond
    <3>3. CASE verdict # "ok"
      BY <3>1, <3>2, <3>3, GoesOn
    <3>4. CASE verdict = "ok"
      <4>1. tool[c].waiting - 1 \in Nat /\ tool[c].dates = "fine"
        <5>1. tool[c].waiting \in Nat
          BY DEF ToolInv, ToolTypeOK, ToolStates
        <5>2. tool[c].waiting > 0 /\ tool[c].dates = "fine"
          BY <3>2 DEF ToolInv, CallsPlaced
        <5> QED  BY <5>1, <5>2
      <4> DEFINE n == tool[c].waiting - 1
                 step == IF tool[c].waiting > 1 THEN "asked"
                         ELSE IF tool[c].dataset = {} THEN "answered" ELSE "writing"
      <4>2. tool' = [tool EXCEPT ![c].waiting = n, ![c].step = step]
        BY <3>1, <3>4
      <4>3. /\ step \in {"asked", "answered", "writing"} /\ n \in Nat
            /\ step = "answered" => tool[c].dataset = {} \/ tool[c].step = "stored"
            /\ step # "answered" => tool[c].step = "asked"
            /\ step = "asked" => n > 0
        <5>1. tool[c].waiting \in Nat
          BY DEF ToolInv, ToolTypeOK, ToolStates
        <5> QED  BY <3>2, <4>1, <5>1
      <4> HIDE DEF n, step
      <4> QED  BY <3>2, <4>1, <4>2, <4>3, GoesOn
    <3> QED  BY <3>3, <3>4
  <2>6. CASE GetNoResponse(c)
    BY <2>6, GoesOn DEF GetNoResponse
  <2>7. CASE Materialize(c)
    BY <2>7, MaterializeKeeps
  <2>8. CASE Store(c)
    BY <2>8, StoreKeeps
  <2> QED  BY <2>1, <2>2, <2>3, <2>4, <2>5, <2>6, <2>7, <2>8 DEF ToolStep, ToolCalled
<1> QED  BY <1>1, <1>2, <1>3 DEF ToolNext

(* Types of the gateway and of the calls, for any number of calls, turns   *)
(* and arguments, any budget and any number of retries.                    *)
THEOREM ToolTypes ==
    ASSUME ToolParameters
    PROVE  ToolSpec => []ToolTypeOK
<1>1. ToolInit => ToolInv
  BY ToolInitial
<1>2. ToolInv /\ [ToolNext]_<<vars, toolVars>> => ToolInv'
  BY ToolInvariant
<1>3. ToolInv => ToolTypeOK
  BY DEF ToolInv
<1> QED  BY <1>1, <1>2, <1>3, PTL DEF ToolSpec

(* Of the attempts of a turn's calls of a capability the provider sees the *)
(* first MaxCalls and no more, retries included (admit_runtime).           *)
THEOREM RetriesStayInBudget ==
    ASSUME ToolParameters
    PROVE  ToolSpec => []RequestsWithinBudget
<1>1. ToolInit => ToolInv
  BY ToolInitial
<1>2. ToolInv /\ [ToolNext]_<<vars, toolVars>> => ToolInv'
  BY ToolInvariant
<1>3. ToolInv => RequestsWithinBudget
  BY DEF ToolInv, GatewayInv, CountsCover, CountsAttempts, RequestsWithinBudget
<1> QED  BY <1>1, <1>2, <1>3, PTL DEF ToolSpec

(* Every attempt of a call asks for admission, once (admit_runtime).       *)
THEOREM AttemptsAreCounted ==
    ASSUME ToolParameters
    PROVE  ToolSpec => []EveryAttemptCounted
<1>1. ToolInit => ToolInv
  BY ToolInitial
<1>2. ToolInv /\ [ToolNext]_<<vars, toolVars>> => ToolInv'
  BY ToolInvariant
<1>3. ToolInv => EveryAttemptCounted
  BY DEF ToolInv
<1> QED  BY <1>1, <1>2, <1>3, PTL DEF ToolSpec

(* An answer names a dataset that its own attempt has written, and one     *)
(* that is still in its file unless it was removed: lost replies, attempts *)
(* that failed and other calls with the same arguments leave nothing       *)
(* unwritten behind an answer (materialize_text).                          *)
THEOREM AnswersHaveDatasets ==
    ASSUME ToolParameters
    PROVE  ToolSpec => []DatasetBehindAnswer
<1>1. ToolInit => ToolInv
  BY ToolInitial
<1>2. ToolInv /\ [ToolNext]_<<vars, toolVars>> => ToolInv'
  BY ToolInvariant
<1>3. ASSUME ToolInv
      PROVE  DatasetBehindAnswer
  <2> SUFFICES ASSUME NEW c \in ToolCalls, NEW d \in tool[c].dataset, tool[c].step = "answered"
               PROVE  /\ <<c, tool[c].attempt>> \in stored
                      /\ \/ d \in removed
                         \/ \E e \in ToolCalls, n \in 1 .. Retries + 1 :
                               holds[d] = {e} /\ d \in tool[e].dataset /\ <<e, n>> \in stored
    BY DEF DatasetBehindAnswer
  <2>1. d \in Datasets
    BY <1>3 DEF ToolInv, ToolTypeOK, ToolStates
  <2>2. <<c, tool[c].attempt>> \in stored
    BY <1>3 DEF ToolInv, FilesHeld
  <2>3. holds[d] # {} \/ d \in removed
    BY <1>3, <2>2 DEF ToolInv, FilesHeld
  <2> QED  BY <1>3, <2>1, <2>2, <2>3 DEF ToolInv, FilesHeld
<1> QED  BY <1>1, <1>2, <1>3, PTL DEF ToolSpec
-----------------------------------------------------------------------------
(***************************************************************************)
(* TurnBudgets                                                             *)
(***************************************************************************)
BudgetParameters ==
    /\ MaxMcpCalls \in Nat /\ MaxSearches \in Nat /\ Batch \in Nat /\ Burst \in Nat
    /\ Repeats \in Nat

(* What is to be made was named before. A message that exceeds the budget  *)
(* has none of its calls run, at no attempt: those that ran are among the  *)
(* first MaxMcpCalls of the turn.                                          *)
BudgetInv ==
    /\ named \in Nat /\ searches \in Nat
    /\ due \subseteq (1 .. named) \X (1 .. Repeats + 1)
    /\ ran \subseteq (1 .. MaxMcpCalls) \X (1 .. Repeats + 1)
    /\ SearchesWithinBudget

LEMMA ReachKeeps ==
    ASSUME BudgetParameters, BudgetInv, NEW attempt \in due, Reach(attempt),
           UNCHANGED <<named, searches>>
    PROVE  /\ ran' \subseteq (1 .. MaxMcpCalls) \X (1 .. Repeats + 1)
           /\ named' \in Nat /\ searches' \in Nat /\ SearchesWithinBudget'
<1>1. WithinBudget => attempt \in (1 .. MaxMcpCalls) \X (1 .. Repeats + 1)
  <2>1. attempt \in (1 .. named) \X (1 .. Repeats + 1)
    BY DEF BudgetInv
  <2>2. WithinBudget => 1 .. named \subseteq 1 .. MaxMcpCalls
    BY DEF BudgetParameters, BudgetInv, WithinBudget
  <2> QED  BY <2>1, <2>2
<1> QED  BY <1>1 DEF Reach, BudgetInv, SearchesWithinBudget

LEMMA BudgetStep ==
    ASSUME BudgetParameters, BudgetInv, [BudgetNext]_budgetVars
    PROVE  BudgetInv'
<1>1. CASE UNCHANGED budgetVars
  BY <1>1 DEF budgetVars, BudgetInv, SearchesWithinBudget
<1>2. CASE UserMessage
  BY <1>2 DEF BudgetParameters, UserMessage, BudgetInv, SearchesWithinBudget
<1>3. CASE ModelMessage
  <2>1. PICK asked \in 0 .. Batch, found \in 0 .. Burst :
            /\ found # 0 => searches < MaxSearches
            /\ named' = named + asked
            /\ due' = {<<name, 1>> : name \in named + 1 .. named + asked}
            /\ searches' = searches + found
    BY <1>3 DEF ModelMessage, SearchOffered
  <2>2. ran' = ran
    BY <1>3 DEF ModelMessage
  <2>3. named' \in Nat /\ searches' \in Nat /\ SearchesWithinBudget'
    BY <2>1 DEF BudgetParameters, BudgetInv, SearchesWithinBudget
  <2>4. named + 1 .. named + asked \subseteq 1 .. named' /\ 1 \in 1 .. Repeats + 1
    BY <2>1 DEF BudgetParameters, BudgetInv
  <2>5. due' \subseteq (1 .. named') \X (1 .. Repeats + 1)
    BY <2>1, <2>4
  <2> QED  BY <2>2, <2>3, <2>5 DEF BudgetInv
<1>4. CASE McpAnswer
  <2>1. PICK attempt \in due : /\ Reach(attempt) /\ due' = due \ {attempt}
                               /\ UNCHANGED <<named, searches>>
    BY <1>4 DEF McpAnswer
  <2> QED  BY <2>1, ReachKeeps DEF BudgetInv
<1>5. CASE McpRaise
  <2>1. PICK attempt \in due :
            /\ attempt[2] <= Repeats /\ Reach(attempt)
            /\ due' = (due \ {attempt}) \cup {<<attempt[1], attempt[2] + 1>>}
            /\ UNCHANGED <<named, searches>>
    BY <1>5 DEF McpRaise
  <2>2. attempt[1] \in 1 .. named /\ attempt[2] + 1 \in 1 .. Repeats + 1
    BY <2>1 DEF BudgetParameters, BudgetInv
  <2> QED  BY <2>1, <2>2, ReachKeeps DEF BudgetInv
<1> QED  BY <1>1, <1>2, <1>3, <1>4, <1>5 DEF BudgetNext

LEMMA BudgetStart ==
    ASSUME BudgetParameters, BudgetInit
    PROVE  BudgetInv
  BY DEF BudgetParameters, BudgetInit, BudgetInv, SearchesWithinBudget

(* No more of the MCP calls that a turn names reach the server than its    *)
(* budget has, however many the model names in one message and however     *)
(* often the middleware makes one again; so the server has at most         *)
(* Repeats + 1 requests for each call of the budget (_within_budget,       *)
(* ToolRetryMiddleware).                                                   *)
THEOREM McpBudgetIsKept ==
    ASSUME BudgetParameters
    PROVE  BudgetSpec => []McpWithinBudget
<1>1. BudgetInit => BudgetInv
  BY BudgetStart
<1>2. BudgetInv /\ [BudgetNext]_budgetVars => BudgetInv'
  BY BudgetStep
<1>3. ASSUME BudgetInv PROVE McpWithinBudget
  <2>1. /\ IsFiniteSet(1 .. MaxMcpCalls) /\ Cardinality(1 .. MaxMcpCalls) = MaxMcpCalls
        /\ IsFiniteSet(1 .. Repeats + 1) /\ Cardinality(1 .. Repeats + 1) = Repeats + 1
    <3>1. ASSUME NEW n \in Nat PROVE IsFiniteSet(1 .. n) /\ Cardinality(1 .. n) = n
      <4>1. /\ IsFiniteSet(1 .. n)
            /\ Cardinality(1 .. n) = IF 1 > n THEN 0 ELSE n - 1 + 1
        BY <3>1, FS_Interval
      <4> QED  BY <3>1, <4>1
    <3>2. MaxMcpCalls \in Nat /\ Repeats + 1 \in Nat
      BY DEF BudgetParameters
    <3> QED  BY <3>1, <3>2
  <2>2. /\ IsFiniteSet((1 .. MaxMcpCalls) \X (1 .. Repeats + 1))
        /\ Cardinality((1 .. MaxMcpCalls) \X (1 .. Repeats + 1)) = MaxMcpCalls * (Repeats + 1)
    BY <2>1, FS_Product
  <2>3. ran \in SUBSET ((1 .. MaxMcpCalls) \X (1 .. Repeats + 1))
    BY <1>3 DEF BudgetInv
  <2>4. {attempt[1] : attempt \in ran} \in SUBSET (1 .. MaxMcpCalls)
    BY <2>3
  <2>5. Cardinality(ran) <= MaxMcpCalls * (Repeats + 1)
    BY <2>2, <2>3, FS_Subset
  <2>6. Cardinality({attempt[1] : attempt \in ran}) <= MaxMcpCalls
    BY <2>1, <2>4, FS_Subset
  <2> QED  BY <2>5, <2>6 DEF McpWithinBudget
<1> QED  BY <1>1, <1>2, <1>3, PTL DEF BudgetSpec

(* The searches of a turn exceed their budget by less than those of one    *)
(* call of the model (_bounded).                                           *)
THEOREM SearchBudgetIsKept ==
    ASSUME BudgetParameters
    PROVE  BudgetSpec => []SearchesWithinBudget
<1>1. BudgetInit => BudgetInv
  BY BudgetStart
<1>2. BudgetInv /\ [BudgetNext]_budgetVars => BudgetInv'
  BY BudgetStep
<1>3. BudgetInv => SearchesWithinBudget
  BY DEF BudgetInv
<1> QED  BY <1>1, <1>2, <1>3, PTL DEF BudgetSpec
-----------------------------------------------------------------------------
(***************************************************************************)
(* Excerpts                                                                *)
(***************************************************************************)
Needles == {Query} \cup Terms

ExcerptParameters ==
    /\ Occurs \in [Needles -> SUBSET Nat] /\ Width \in [Needles -> Nat]
    /\ Length \in Nat /\ Size \in Nat \ {0} /\ MaxSnippets \in Nat \ {0}

Step == Advance(needle)

(* The hits end before the place where the search goes on.                 *)
HitsCover ==
    /\ hits \subseteq Occurs[needle] /\ IsFiniteSet(hits)
    /\ hits = {} => from = 0
    /\ \A h \in hits : h + Step <= from
    /\ \A p \in Occurs[needle] : p < from => \E h \in hits : h <= p /\ p < h + Step
    /\ \A g, h \in hits : g < h => g + Step <= h

(* A query that occurs is found before any term is looked for.             *)
QueryFirst ==
    /\ needle # Query => Occurs[Query] = {}
    /\ phase = "find" => ~exact
    /\ phase # "find" => (exact <=> Occurs[Query] # {})

(* A candidate that was reached is shown, or overlaps one that is.         *)
ReachedShown == \A p \in candidates \ left : Shown(p)

(* Of the occurrences of n, found has all but those that overlap one it    *)
(* has and those after the last one that was looked for.                   *)
Covers(found, n) ==
    \A p \in Occurs[n] :
        \/ p \in found
        \/ \E h \in found \cap Occurs[n] : h < p /\ p < h + Advance(n)
        \/ Cardinality({h \in found \cap Occurs[n] : h < p}) >= Limit(n)

(* The candidates cover what was looked for so far.                        *)
Searched ==
    /\ IsFiniteSet(candidates)
    /\ phase = "find" =>
          \A n \in Terms \ unsought : n = needle \/ Covers(candidates, n)
    /\ phase # "find" =>
          \A n \in (IF exact THEN {Query} ELSE Terms) : Covers(candidates, n)

SpansFit ==
    /\ IsFiniteSet(spans) /\ Cardinality(spans) <= MaxSnippets /\ ExcerptsFit
    /\ phase = "find" => spans = {}
    /\ phase = "choose" => Cardinality(spans) < MaxSnippets
    /\ phase = "done" => left = {} \/ Cardinality(spans) = MaxSnippets
    /\ \A s, t \in spans : s # t => ~Overlap(s, t)

ExcerptInv ==
    /\ phase \in {"find", "choose", "done"} /\ exact \in BOOLEAN
    /\ needle \in Needles /\ unsought \subseteq Terms
    /\ from \in Nat /\ candidates \subseteq Nat /\ left \subseteq candidates
    /\ HitsCover /\ QueryFirst /\ SpansFit /\ Searched
    /\ phase # "find" => ReachedShown

LEMMA ExcerptStart ==
    ASSUME ExcerptParameters, ExcerptInit
    PROVE  ExcerptInv
<1>1. IsFiniteSet({}) /\ Cardinality({}) = 0
  BY FS_EmptySet
<1>2. HitsCover
  BY <1>1 DEF ExcerptParameters, ExcerptInit, HitsCover, Needles
<1>3. QueryFirst /\ SpansFit
  BY <1>1 DEF ExcerptParameters, ExcerptInit, QueryFirst, SpansFit, ExcerptsFit
<1>4. Searched
  BY <1>1 DEF ExcerptInit, Searched
<1> QED  BY <1>2, <1>3, <1>4 DEF ExcerptInit, ExcerptInv, Needles

LEMMA CoversGrows ==
    ASSUME NEW found, NEW more, NEW n, IsFiniteSet(more), found \subseteq more,
           Covers(found, n), Limit(n) \in Nat
    PROVE  Covers(more, n)
<1> SUFFICES ASSUME NEW p \in Occurs[n]
             PROVE  \/ p \in more
                    \/ \E h \in more \cap Occurs[n] : h < p /\ p < h + Advance(n)
                    \/ Cardinality({h \in more \cap Occurs[n] : h < p}) >= Limit(n)
  BY DEF Covers
<1> DEFINE few == {h \in found \cap Occurs[n] : h < p}
           many == {h \in more \cap Occurs[n] : h < p}
<1>1. IsFiniteSet(many) /\ few \in SUBSET many
  <2>1. many \in SUBSET more
    OBVIOUS
  <2> QED  BY <2>1, FS_Subset
<1>2. /\ Cardinality(few) \in Nat /\ Cardinality(many) \in Nat
      /\ Cardinality(few) <= Cardinality(many)
  BY <1>1, FS_Subset, FS_CardinalityType
<1>3. CASE Cardinality(few) >= Limit(n)
  BY <1>2, <1>3
<1> QED  BY <1>3 DEF Covers

(* A span is as long as was asked for, or the whole text.                  *)
LEMMA SpanFits ==
    ASSUME ExcerptParameters, NEW p \in Nat
    PROVE  /\ Span(p)[1] \in Nat /\ Span(p)[2] \in Nat /\ Span(p)[2] <= Length
           /\ Span(p)[2] - Span(p)[1] = IF Size < Length THEN Size ELSE Length
<1>1. Start(p) \in Nat
  BY DEF Start, ExcerptParameters
<1>2. Length \in Nat /\ Size \in Nat \ {0}
  BY DEF ExcerptParameters
<1> HIDE DEF ExcerptParameters
<1> DEFINE end == IF Start(p) + Size < Length THEN Start(p) + Size ELSE Length
<1>3. end \in Nat /\ end <= Length /\ (end <= Size => end = IF Size < Length THEN Size ELSE Length)
      /\ (end > Size => Size < Length)
  BY <1>1, <1>2
<1>4. Span(p) = <<IF end > Size THEN end - Size ELSE 0, end>>
  BY DEF Span
<1> HIDE DEF end
<1> QED  BY <1>2, <1>3, <1>4

LEMMA FindKeeps ==
    ASSUME ExcerptParameters, ExcerptInv, Find
    PROVE  ExcerptInv'
<1>1. PICK p \in Ahead : /\ \A q \in Ahead : p <= q
                         /\ hits' = hits \cup {p}
                         /\ from' = p + Step
  BY DEF Find, Step
<1>2. /\ phase = "find"
      /\ UNCHANGED <<phase, needle, unsought, candidates, left, exact, spans>>
  BY DEF Find
<1>3. /\ Occurs[needle] \subseteq Nat /\ Width[needle] \in Nat /\ from \in Nat
      /\ Step \in Nat \ {0}
  BY DEF ExcerptParameters, ExcerptInv, Step, Advance
<1>4. p \in Occurs[needle] /\ p >= from /\ p \in Nat
  BY <1>1, <1>3 DEF Ahead
<1>5. Step' = Step /\ Occurs[needle]' = Occurs[needle]
  BY <1>2 DEF Step, Advance
<1>6. HitsCover'
  <2>1. IsFiniteSet(hits') /\ hits' # {} /\ hits' \subseteq Occurs[needle]
    BY <1>1, <1>4, FS_AddElement DEF ExcerptInv, HitsCover
  <2>2. \A h \in hits : h \in Nat /\ h + Step <= from
    BY <1>3 DEF ExcerptInv, HitsCover
  <2>3. \A h \in hits' : h + Step <= from'
    BY <1>1, <1>3, <1>4, <2>2
  <2>4. ASSUME NEW q \in Occurs[needle], q < from'
        PROVE  \E h \in hits' : h <= q /\ q < h + Step
    <3>1. CASE q < from
      BY <1>1, <3>1 DEF ExcerptInv, HitsCover
    <3>2. CASE q >= from
      BY <1>1, <1>3, <1>4, <2>4, <3>2 DEF Ahead
    <3> QED  BY <1>3, <3>1, <3>2
  <2>5. \A g, h \in hits' : g < h => g + Step <= h
    BY <1>1, <1>3, <1>4, <2>2 DEF ExcerptInv, HitsCover
  <2> HIDE DEF Step
  <2> QED  BY <1>5, <2>1, <2>3, <2>4, <2>5 DEF HitsCover
<1>7. QueryFirst' /\ SpansFit' /\ Searched'
  BY <1>2 DEF ExcerptInv, QueryFirst, SpansFit, ExcerptsFit, Searched
<1>8. from' \in Nat
  BY <1>1, <1>3, <1>4
<1> QED  BY <1>2, <1>6, <1>7, <1>8 DEF ExcerptInv

(* A search that ends without a hit has seen every place.                  *)
LEMMA FoundNothing ==
    ASSUME ExcerptParameters, ExcerptInv, Found, hits = {}
    PROVE  Occurs[needle] = {}
<1>1. Cardinality(hits) = 0
  BY FS_EmptySet
<1>2. Ahead = {}
  BY <1>1 DEF Found, Limit
<1>3. from = 0 /\ Occurs[needle] \subseteq Nat
  BY DEF ExcerptParameters, ExcerptInv, HitsCover
<1> QED  BY <1>2, <1>3 DEF Ahead

(* A search that ends has the occurrences but for those that it may leave. *)
LEMMA FoundCovers ==
    ASSUME ExcerptParameters, ExcerptInv, Found
    PROVE  /\ IsFiniteSet(candidates \cup hits)
           /\ Covers(candidates \cup hits, needle)
           /\ \A n \in Terms \ unsought : Covers(candidates \cup hits, n)
<1> DEFINE found == candidates \cup hits
<1>1. /\ IsFiniteSet(found) /\ hits \subseteq found /\ candidates \subseteq found
      /\ \A n : Limit(n) \in Nat
  BY FS_Union DEF ExcerptInv, HitsCover, Searched, Limit
<1>2. /\ Occurs[needle] \subseteq Nat /\ from \in Nat /\ Step \in Nat \ {0}
      /\ hits \subseteq Occurs[needle] /\ IsFiniteSet(hits)
  BY DEF ExcerptParameters, ExcerptInv, HitsCover, Step, Advance
<1> HIDE DEF found
<1>3. Covers(found, needle)
  <2> SUFFICES ASSUME NEW p \in Occurs[needle]
               PROVE  \/ p \in found
                      \/ \E h \in found \cap Occurs[needle] : h < p /\ p < h + Step
                      \/ Cardinality({h \in found \cap Occurs[needle] : h < p}) >= Limit(needle)
    BY DEF Covers, Step
  <2>1. CASE p < from
    <3>1. PICK h \in hits : h <= p /\ p < h + Step
      BY <2>1 DEF ExcerptInv, HitsCover
    <3> QED  BY <1>1, <1>2, <3>1
  <2>2. CASE ~ (p < from)
    <3>1. Cardinality(hits) >= Limit(needle)
      BY <1>2, <2>2 DEF Found, Ahead
    <3> DEFINE earlier == {h \in found \cap Occurs[needle] : h < p}
    <3>2. IsFiniteSet(earlier)
      <4>1. earlier \in SUBSET found
        OBVIOUS
      <4> QED  BY <1>1, <4>1, FS_Subset
    <3>3. hits \in SUBSET earlier
      <4>1. \A h \in hits : h \in Nat /\ h + Step <= from
        BY <1>2 DEF ExcerptInv, HitsCover
      <4> QED  BY <1>1, <1>2, <2>2, <4>1
    <3>4. /\ Cardinality(hits) <= Cardinality(earlier)
          /\ Cardinality(hits) \in Nat /\ Cardinality(earlier) \in Nat
      BY <1>2, <3>2, <3>3, FS_Subset, FS_CardinalityType
    <3> QED  BY <1>1, <3>1, <3>4
  <2> QED  BY <2>1, <2>2
<1>4. \A n \in Terms \ unsought : Covers(found, n)
  <2> SUFFICES ASSUME NEW n \in Terms \ unsought, n # needle
               PROVE  Covers(found, n)
    BY <1>3
  <2>1. Covers(candidates, n)
    BY DEF Found, ExcerptInv, Searched
  <2> QED  BY <1>1, <2>1, CoversGrows
<1> QED  BY <1>1, <1>3, <1>4 DEF found

LEMMA NextNeedleKeeps ==
    ASSUME ExcerptParameters, ExcerptInv, NextNeedle
    PROVE  ExcerptInv'
<1>1. PICK term \in unsought :
          /\ needle' = term /\ unsought' = unsought \ {term}
          /\ from' = 0 /\ hits' = {}
          /\ candidates' = candidates \cup hits
  BY DEF NextNeedle
<1>2. /\ phase = "find" /\ Found /\ (needle = Query => hits = {})
      /\ UNCHANGED <<phase, left, exact, spans>>
  BY DEF NextNeedle, Found
<1>3. Occurs[Query] = {}
  BY <1>2, FoundNothing DEF ExcerptInv, QueryFirst
<1>4. /\ unsought' \subseteq Terms /\ needle' \in Needles
      /\ candidates' \subseteq Nat /\ left' \subseteq candidates'
  BY <1>1, <1>2 DEF ExcerptParameters, ExcerptInv, HitsCover, Needles
<1>5. HitsCover'
  BY <1>1, <1>4, FS_EmptySet DEF ExcerptParameters, HitsCover
<1>6. QueryFirst' /\ SpansFit'
  BY <1>2, <1>3 DEF ExcerptInv, QueryFirst, SpansFit, ExcerptsFit
<1>7. Searched'
  <2>1. \A n \in Terms \ unsought : Covers(candidates', n)
    BY <1>1, <1>2, FoundCovers
  <2>2. IsFiniteSet(candidates') /\ phase' = "find"
    BY <1>1, <1>2, FoundCovers
  <2> QED  BY <1>1, <2>1, <2>2 DEF Searched
<1> QED  BY <1>1, <1>2, <1>4, <1>5, <1>6, <1>7 DEF ExcerptInv

LEMMA CandidatesKeep ==
    ASSUME ExcerptParameters, ExcerptInv, Candidates
    PROVE  ExcerptInv'
<1>1. /\ phase = "find" /\ phase' = "choose" /\ Found
      /\ unsought = {} \/ (needle = Query /\ hits # {})
      /\ candidates' = candidates \cup hits /\ left' = candidates'
      /\ exact' = (needle = Query /\ hits # {})
      /\ UNCHANGED <<needle, unsought, from, hits, spans>>
  BY DEF Candidates, Found
<1>2. candidates' \subseteq Nat
  BY <1>1 DEF ExcerptParameters, ExcerptInv, HitsCover
<1>3. HitsCover'
  BY <1>1 DEF ExcerptInv, HitsCover, Step
<1>4. QueryFirst'
  BY <1>1, FoundNothing DEF ExcerptInv, QueryFirst, HitsCover
<1>5. SpansFit'
  <2>1. spans = {} /\ Cardinality(spans) = 0
    BY <1>1, FS_EmptySet DEF ExcerptInv, SpansFit
  <2> QED  BY <1>1, <2>1 DEF ExcerptParameters, ExcerptInv, SpansFit, ExcerptsFit
<1>6. ReachedShown'
  BY <1>1 DEF ReachedShown
<1>7. Searched'
  <2>1. /\ IsFiniteSet(candidates') /\ Covers(candidates', needle)
        /\ \A n \in Terms \ unsought : Covers(candidates', n)
    BY <1>1, FoundCovers
  <2>2. CASE exact'
    BY <1>1, <2>1, <2>2 DEF Searched
  <2>3. CASE ~exact'
    BY <1>1, <2>1, <2>3 DEF Searched
  <2> QED  BY <2>2, <2>3
<1> QED  BY <1>1, <1>2, <1>3, <1>4, <1>5, <1>6, <1>7 DEF ExcerptInv

LEMMA ChooseKeeps ==
    ASSUME ExcerptParameters, ExcerptInv, NEW p \in left, Choose(p)
    PROVE  ExcerptInv'
<1>1. /\ phase = "choose" /\ \A s \in spans : ~Overlap(Span(p), s)
      /\ spans' = spans \cup {Span(p)} /\ left' = left \ {p}
      /\ phase' = IF Cardinality(spans') >= MaxSnippets THEN "done" ELSE "choose"
      /\ UNCHANGED <<needle, unsought, from, hits, candidates, exact>>
  BY DEF Choose
<1>2. p \in Nat /\ MaxSnippets \in Nat
  BY DEF ExcerptInv, ExcerptParameters
<1>3. HitsCover' /\ QueryFirst' /\ Searched'
  BY <1>1 DEF ExcerptInv, HitsCover, Step, QueryFirst, Searched
<1>4. SpansFit'
  <2>1. /\ IsFiniteSet(spans') /\ Cardinality(spans') \in Nat
        /\ Cardinality(spans') <= MaxSnippets
    <3>1. IsFiniteSet(spans) /\ Cardinality(spans) \in Nat /\ Cardinality(spans) < MaxSnippets
      BY <1>1, FS_CardinalityType DEF ExcerptInv, SpansFit
    <3> QED  BY <1>1, <1>2, <3>1, FS_AddElement
  <2>2. ExcerptsFit'
    BY <1>1, <1>2, SpanFits DEF ExcerptInv, SpansFit, ExcerptsFit
  <2>3. ASSUME NEW s \in spans', NEW t \in spans', s # t
        PROVE  ~Overlap(s, t)
    <3>1. \A u \in spans' : u[1] \in Nat /\ u[2] \in Nat
      BY <2>2 DEF ExcerptsFit
    <3>2. Overlap(s, t) <=> Overlap(t, s)
      BY <3>1 DEF Overlap
    <3> QED  BY <1>1, <2>3, <3>2 DEF ExcerptInv, SpansFit
  <2> QED  BY <1>1, <1>2, <2>1, <2>2, <2>3 DEF SpansFit
<1>5. ReachedShown'
  BY <1>1 DEF ExcerptInv, ReachedShown, Shown
<1> QED  BY <1>1, <1>3, <1>4, <1>5 DEF ExcerptInv

LEMMA PassOverKeeps ==
    ASSUME ExcerptParameters, ExcerptInv, NEW p \in left, PassOver(p)
    PROVE  ExcerptInv'
<1>1. /\ phase = "choose" /\ \E s \in spans : Overlap(Span(p), s)
      /\ left' = left \ {p}
      /\ UNCHANGED <<phase, needle, unsought, from, hits, candidates, exact, spans>>
  BY DEF PassOver
<1>2. HitsCover' /\ QueryFirst' /\ SpansFit' /\ Searched'
  BY <1>1 DEF ExcerptInv, HitsCover, Step, QueryFirst, SpansFit, ExcerptsFit, Searched
<1>3. ReachedShown'
  BY <1>1 DEF ExcerptInv, ReachedShown, Shown
<1> QED  BY <1>1, <1>2, <1>3 DEF ExcerptInv

LEMMA ExcerptStep ==
    ASSUME ExcerptParameters, ExcerptInv, [ExcerptNext]_excerptVars
    PROVE  ExcerptInv'
<1>1. CASE UNCHANGED excerptVars
  BY <1>1 DEF excerptVars, ExcerptInv, HitsCover, Step, QueryFirst, SpansFit, ExcerptsFit,
     ReachedShown, Shown, Searched
<1>2. CASE Finish
  BY <1>2 DEF Finish, ExcerptInv, HitsCover, Step, QueryFirst, SpansFit, ExcerptsFit,
     ReachedShown, Shown, Searched
<1> QED
  BY <1>1, <1>2, FindKeeps, NextNeedleKeeps, CandidatesKeep, ChooseKeeps, PassOverKeeps
  DEF ExcerptNext

(* Every excerpt is a piece of the text, as long as was asked for or the   *)
(* whole of it, for any text, query and size (_query_snippets).            *)
THEOREM ExcerptsAreWhole ==
    ASSUME ExcerptParameters
    PROVE  ExcerptSpec => []ExcerptsFit
<1>1. ExcerptInit => ExcerptInv
  BY ExcerptStart
<1>2. ExcerptInv /\ [ExcerptNext]_excerptVars => ExcerptInv'
  BY ExcerptStep
<1>3. ExcerptInv => ExcerptsFit
  BY DEF ExcerptInv, SpansFit
<1> QED  BY <1>1, <1>2, <1>3, PTL DEF ExcerptSpec

(* No two excerpts share text and there are no more than were asked for.   *)
THEOREM ExcerptsShareNothing ==
    ASSUME ExcerptParameters
    PROVE  ExcerptSpec => []ExcerptsApart
<1>1. ExcerptInit => ExcerptInv
  BY ExcerptStart
<1>2. ExcerptInv /\ [ExcerptNext]_excerptVars => ExcerptInv'
  BY ExcerptStep
<1>3. ExcerptInv => ExcerptsApart
  BY DEF ExcerptInv, SpansFit, ExcerptsApart
<1> QED  BY <1>1, <1>2, <1>3, PTL DEF ExcerptSpec

(* An occurrence of what was looked for is shown, or next to what is shown,*)
(* unless there is no room, it begins inside an earlier one that is, or    *)
(* the search had stopped before it, at 100 of the query or 30 of a term   *)
(* (_query_snippets), for any text, query and terms.                       *)
THEOREM MatchesAreShown ==
    ASSUME ExcerptParameters
    PROVE  ExcerptSpec => []MatchesShown
<1>1. ExcerptInit => ExcerptInv
  BY ExcerptStart
<1>2. ExcerptInv /\ [ExcerptNext]_excerptVars => ExcerptInv'
  BY ExcerptStep
<1>3. ASSUME ExcerptInv
      PROVE  MatchesShown
  <2> SUFFICES ASSUME phase = "done", Cardinality(spans) # MaxSnippets,
                      NEW n \in (IF exact THEN {Query} ELSE Terms), NEW p \in Occurs[n]
               PROVE  \/ Shown(p)
                      \/ \E h \in Occurs[n] : h < p /\ p < h + Advance(n) /\ Shown(h)
                      \/ Cardinality({h \in candidates \cap Occurs[n] : h < p}) >= Limit(n)
    BY <1>3 DEF ExcerptInv, QueryFirst, MatchesShown
  <2>1. \A q \in candidates : Shown(q)
    BY <1>3 DEF ExcerptInv, SpansFit, ReachedShown
  <2>2. Covers(candidates, n)
    BY <1>3 DEF ExcerptInv, Searched
  <2> QED  BY <2>1, <2>2 DEF Covers
<1> QED  BY <1>1, <1>2, <1>3, PTL DEF ExcerptSpec

(* The search for occurrences leaves out only those that overlap one it    *)
(* has (_all_occurrences).                                                 *)
THEOREM OccurrencesAreApart ==
    ASSUME ExcerptParameters
    PROVE  ExcerptSpec => []OccurrencesApart
<1>1. ExcerptInit => ExcerptInv
  BY ExcerptStart
<1>2. ExcerptInv /\ [ExcerptNext]_excerptVars => ExcerptInv'
  BY ExcerptStep
<1>3. ExcerptInv => OccurrencesApart
  BY DEF ExcerptInv, HitsCover, Step, OccurrencesApart
<1> QED  BY <1>1, <1>2, <1>3, PTL DEF ExcerptSpec
-----------------------------------------------------------------------------
(***************************************************************************)
(* Selections                                                              *)
(***************************************************************************)
(* R is a strict total order of S.                                         *)
Orders(R, S) ==
    /\ \A x \in S : <<x, x>> \notin R
    /\ \A x, y \in S : x # y => <<x, y>> \in R \/ <<y, x>> \in R
    /\ \A x, y, z \in S : <<x, y>> \in R /\ <<y, z>> \in R => <<x, z>> \in R

(* T has the first k of S, or all of it where there are fewer.             *)
FirstFew(T, S, R, k) ==
    /\ T \subseteq S /\ Cardinality(T) <= k
    /\ T # S => Cardinality(T) = k
    /\ \A x \in T, y \in S \ T : <<x, y>> \in R

LEMMA LeastOf ==
    ASSUME NEW T \in SUBSET Nat, T # {}
    PROVE  \E m \in T : \A n \in T : m <= n
<1>1. \E m \in T : \A n \in T : <<n, m>> \notin OpToRel(<, Nat)
  BY WFMin, NatLessThanWellFounded, Zenon
<1>2. \A m, n \in Nat : n < m => <<n, m>> \in OpToRel(<, Nat)
  BY DEF OpToRel
<1>3. \E m \in T : \A n \in T : ~ (n < m)
  BY <1>1, <1>2
<1> QED  BY <1>3

LEMMA UpToGrows ==
    ASSUME NEW S, NEW R, IsFiniteSet(S), Orders(R, S), NEW y \in S
    PROVE  /\ Cardinality(UpTo(S, R, y)) \in Nat \ {0} /\ IsFiniteSet(UpTo(S, R, y))
           /\ \A x \in S : <<x, y>> \in R =>
                 Cardinality(UpTo(S, R, x)) < Cardinality(UpTo(S, R, y))
<1>1. \A x \in S : UpTo(S, R, x) \in SUBSET S /\ x \in UpTo(S, R, x)
  BY DEF UpTo
<1>2. \A x \in S : /\ IsFiniteSet(UpTo(S, R, x))
                   /\ Cardinality(UpTo(S, R, x)) \in Nat
                   /\ Cardinality(UpTo(S, R, x)) # 0
  BY <1>1, FS_Subset, FS_CardinalityType, FS_EmptySet
<1>3. ASSUME NEW x \in S, <<x, y>> \in R
      PROVE  Cardinality(UpTo(S, R, x)) < Cardinality(UpTo(S, R, y))
  <2>1. UpTo(S, R, x) \in SUBSET UpTo(S, R, y)
    BY <1>3 DEF UpTo, Orders
  <2>2. y \notin UpTo(S, R, x)
    BY <1>3 DEF UpTo, Orders
  <2>3. /\ Cardinality(UpTo(S, R, x)) <= Cardinality(UpTo(S, R, y))
        /\ Cardinality(UpTo(S, R, x)) # Cardinality(UpTo(S, R, y))
    BY <1>1, <1>2, <2>1, <2>2, FS_Subset
  <2> QED  BY <1>2, <2>3
<1> QED  BY <1>2, <1>3

(* What sort and [:k] keep.                                                *)
LEMMA FirstOfIsFirst ==
    ASSUME NEW S, NEW R, NEW k \in Nat, IsFiniteSet(S), Orders(R, S)
    PROVE  FirstFew(FirstOf(S, R, k), S, R, k)
<1> DEFINE T == FirstOf(S, R, k)
           rank(x) == Cardinality(UpTo(S, R, x))
<1>1. T \in SUBSET S /\ \A x \in S : x \in T <=> rank(x) <= k
  BY DEF FirstOf
<1>2. \A x \in S : rank(x) \in Nat \ {0} /\ IsFiniteSet(UpTo(S, R, x))
  BY UpToGrows
<1>3. \A x, y \in S : <<x, y>> \in R => rank(x) < rank(y)
  BY UpToGrows
<1>4. IsFiniteSet(T) /\ Cardinality(T) \in Nat
  BY <1>1, FS_Subset, FS_CardinalityType
<1> HIDE DEF T, rank
<1>5. Cardinality(T) <= k
  <2> DEFINE f == [x \in T |-> rank(x)]
  <2>1. f \in [T -> 1 .. k]
    BY <1>1, <1>2
  <2>2. \A x, y \in T : x # y => f[x] # f[y]
    <3>1. \A x, y \in T : x # y => rank(x) < rank(y) \/ rank(y) < rank(x)
      BY <1>1, <1>3 DEF Orders
    <3>2. \A x, y \in T : x # y => rank(x) # rank(y)
      BY <1>1, <1>2, <3>1
    <3> QED  BY <3>2
  <2>3. f \in Injection(T, 1 .. k)
    BY <2>1, <2>2 DEF Injection, IsInjective
  <2>4. IsFiniteSet(1 .. k) /\ Cardinality(1 .. k) = k
    BY FS_Interval
  <2> QED  BY <2>3, <2>4, FS_Injection
<1>6. \A x \in T, y \in S \ T : <<x, y>> \in R
  <2> SUFFICES ASSUME NEW x \in T, NEW y \in S \ T, <<y, x>> \in R PROVE FALSE
    BY <1>1 DEF Orders
  <2>1. rank(y) < rank(x) /\ rank(x) <= k /\ ~ (rank(y) <= k)
    BY <1>1, <1>3
  <2> QED  BY <1>1, <1>2, <2>1
<1>7. ASSUME T # S
      PROVE  Cardinality(T) = k
  <2> DEFINE ranks == {rank(y) : y \in S \ T}
  <2>1. PICK m \in ranks : \A n \in ranks : m <= n
    <3>1. ranks \in SUBSET Nat /\ ranks # {}
      BY <1>1, <1>2, <1>7
    <3> HIDE DEF ranks
    <3> QED  BY <3>1, LeastOf
  <2>2. PICK y \in S \ T : m = rank(y)
    BY <2>1
  <2>3. \A z \in S \ T : rank(y) <= rank(z)
    BY <2>1, <2>2
  <2>4. UpTo(S, R, y) \ {y} \in SUBSET T
    <3> SUFFICES ASSUME NEW z \in UpTo(S, R, y) \ {y} PROVE z \in T
      OBVIOUS
    <3>1. z \in S /\ <<z, y>> \in R
      BY DEF UpTo
    <3>2. rank(z) < rank(y) /\ rank(z) \in Nat /\ rank(y) \in Nat
      BY <1>2, <1>3, <3>1
    <3> QED  BY <2>3, <3>1, <3>2
  <2>5. y \in UpTo(S, R, y)
    BY DEF UpTo
  <2>6. Cardinality(UpTo(S, R, y) \ {y}) = rank(y) - 1
    BY <1>2, <2>5, FS_RemoveElement DEF rank
  <2>7. Cardinality(UpTo(S, R, y) \ {y}) <= Cardinality(T)
    BY <1>4, <2>4, FS_Subset
  <2>8. rank(y) \in Nat /\ ~ (rank(y) <= k)
    BY <1>1, <1>2
  <2> QED  BY <1>4, <1>5, <2>6, <2>7, <2>8
<1> QED  BY <1>1, <1>5, <1>6, <1>7 DEF FirstFew, T

LEMMA IntervalParts ==
    ASSUME NEW n \in Nat, NEW S \in SUBSET (1 .. n)
    PROVE  IsFiniteSet(S)
<1>1. IsFiniteSet(1 .. n)
  BY FS_Interval
<1> QED  BY <1>1, FS_Subset

(* sec_list_filings answers with the first filings of the provider's list  *)
(* that pass the filters, all of them if they are no more than limit, for  *)
(* any list and any filters.                                               *)
THEOREM FilingsAreFirst ==
    ASSUME NEW rows, NEW n \in Nat, DOMAIN rows = 1 .. n,
           NEW forms, NEW start, NEW end, NEW limit \in Nat
    PROVE  FirstFew(Listed(rows, forms, start, end, limit), Filings(rows, forms, start, end),
                    InPlace(rows), limit)
<1> DEFINE S == Filings(rows, forms, start, end)
<1>1. S \in SUBSET (1 .. n)
  BY DEF Filings
<1> HIDE DEF S
<1>2. IsFiniteSet(S)
  BY <1>1, IntervalParts
<1>3. Orders(InPlace(rows), S)
  BY <1>1 DEF Orders, InPlace
<1> QED  BY <1>2, <1>3, FirstOfIsFirst DEF Listed, S

LEMMA FactsFirst ==
    ASSUME NEW rows, NEW n \in Nat, DOMAIN rows = 1 .. n,
           \A i \in 1 .. n : rows[i].filed \in Nat,
           NEW forms, NEW start, NEW end, NEW limit \in Nat
    PROVE  FirstFew(Facts(rows, forms, start, end, limit), Observations(rows, forms, start, end),
                    FiledLater(rows), limit)
<1> DEFINE S == Observations(rows, forms, start, end)
<1>1. S \in SUBSET (1 .. n)
  BY DEF Observations
<1> HIDE DEF S
<1>2. IsFiniteSet(S)
  BY <1>1, IntervalParts
<1>3. Orders(FiledLater(rows), S)
  <2>1. \A i, j \in S : <<i, j>> \in FiledLater(rows) <=>
            \/ rows[i].filed > rows[j].filed
            \/ rows[i].filed = rows[j].filed /\ i < j
    BY <1>1 DEF FiledLater
  <2>2. \A i \in S : i \in Nat /\ rows[i].filed \in Nat
    BY <1>1
  <2> QED  BY <2>1, <2>2 DEF Orders
<1> QED  BY <1>2, <1>3, FirstOfIsFirst DEF Facts, S

(* sec_get_company_facts answers, of each concept, with the observations   *)
(* that were filed last among those that pass the filters.                 *)
THEOREM FactsAreLatest ==
    ASSUME NEW rows, NEW n \in Nat, DOMAIN rows = 1 .. n,
           \A i \in 1 .. n : rows[i].filed \in Nat,
           NEW forms, NEW start, NEW end, NEW limit \in Nat,
           NEW i \in Facts(rows, forms, start, end, limit),
           NEW j \in Observations(rows, forms, start, end),
           j \notin Facts(rows, forms, start, end, limit)
    PROVE  /\ rows[i].filed >= rows[j].filed
           /\ Cardinality(Facts(rows, forms, start, end, limit)) = limit
<1>1. FirstFew(Facts(rows, forms, start, end, limit), Observations(rows, forms, start, end),
               FiledLater(rows), limit)
  BY FactsFirst
<1>2. <<i, j>> \in FiledLater(rows) /\ i \in 1 .. n /\ j \in 1 .. n
  BY <1>1 DEF FirstFew, Observations
<1>3. rows[i].filed >= rows[j].filed
  BY <1>2 DEF FiledLater
<1> QED  BY <1>1, <1>3 DEF FirstFew

(* A concept is reported as missing exactly when the company has none of   *)
(* its observations within the filters, whatever the limit leaves out.     *)
THEOREM MissingHaveNone ==
    ASSUME NEW facts, NEW requested, NEW forms, NEW start, NEW end, NEW limit \in Nat \ {0},
           \A c \in DOMAIN facts : \E n \in Nat :
               DOMAIN facts[c] = 1 .. n /\ \A i \in 1 .. n : facts[c][i].filed \in Nat
    PROVE  MissingConcepts(facts, requested, forms, start, end, limit) =
              {c \in requested : \/ c \notin DOMAIN facts
                                 \/ Observations(facts[c], forms, start, end) = {}}
<1>1. ASSUME NEW c \in DOMAIN facts
      PROVE  Facts(facts[c], forms, start, end, limit) = {} <=>
                Observations(facts[c], forms, start, end) = {}
  <2>1. FirstFew(Facts(facts[c], forms, start, end, limit),
                 Observations(facts[c], forms, start, end), FiledLater(facts[c]), limit)
    BY FactsFirst
  <2>2. Cardinality({}) = 0
    BY FS_EmptySet
  <2> QED  BY <2>1, <2>2 DEF FirstFew
<1> QED  BY <1>1 DEF MissingConcepts

(* sec_resolve_company answers with the matches of the best rank, ties in  *)
(* the order of their tickers, all of them if they are no more than asked  *)
(* for.                                                                    *)
THEOREM MatchesAreBest ==
    ASSUME NEW rows, NEW n \in Nat, DOMAIN rows = 1 .. n,
           \A i \in 1 .. n : rows[i].ticker \in Nat,
           NEW query, query.terms # {}, NEW maxResults \in Nat
    PROVE  FirstFew(Resolved(rows, query, maxResults), Companies(rows, query),
                    BetterMatch(rows, query), maxResults)
<1> DEFINE S == Companies(rows, query)
           rank(i) == MatchRank(rows[i], query)
<1>1. S \in SUBSET (1 .. n)
  BY DEF Companies
<1>2. \A i : rank(i) \in Nat
  BY DEF MatchRank
<1>3. \A i, j \in 1 .. n : <<i, j>> \in BetterMatch(rows, query) <=>
          \/ rank(i) < rank(j)
          \/ /\ rank(i) = rank(j)
             /\ \/ rows[i].ticker < rows[j].ticker
                \/ rows[i].ticker = rows[j].ticker /\ i < j
  BY DEF BetterMatch
<1> HIDE DEF S, rank
<1>4. IsFiniteSet(S)
  BY <1>1, IntervalParts
<1>5. Orders(BetterMatch(rows, query), S)
  <2>1. \A i \in S : i \in 1 .. n /\ i \in Nat /\ rows[i].ticker \in Nat
    BY <1>1
  <2> QED  BY <1>2, <1>3, <2>1 DEF Orders
<1> QED  BY <1>4, <1>5, FirstOfIsFirst DEF Resolved, S
-----------------------------------------------------------------------------
(***************************************************************************)
(* ResearcherTasks                                                         *)
(***************************************************************************)
TaskParameters == Tasks # {} /\ MaxOps \in Nat /\ MaxRuns \in Nat \ {0}

Ends == {"success", "error"}

(* A record does not say of a run that it ended as it did not.             *)
Honest(t, record) ==
    record.status \in Ends =>
        record.run \in DOMAIN taskRuns[t] /\ taskRuns[t][record.run] = record.status

(* A Thread's runs are no fewer than is known of them, and its values are  *)
(* those of its newest run once that is a success.                         *)
TaskFine(t) ==
    /\ thread[t] = "none" => taskRuns[t] = <<>>
    /\ Len(taskRuns[t]) <= MaxRuns
    /\ tracked[t].run # 0 => tracked[t].run \in DOMAIN taskRuns[t]
    /\ tracked[t].run = 0 => Len(taskRuns[t]) <= 1
    /\ Honest(t, tracked[t])
    /\ taskRuns[t] # <<>> /\ Newest(t) = "success" => values[t] = Len(taskRuns[t])

(* What a call knows of its task, at each place that it may have reached.  *)
CallFine(call) ==
    LET t == call.task
        record == call.record
    IN  /\ call.pc = "thread" => thread[t] = "none"
        /\ call.pc = "run" => taskRuns[t] = <<>>
        /\ call.pc \in {"run", "cleanup"} => thread[t] # "none"
        /\ call.pc \in {"get", "values", "done"} =>
              /\ record.run \in DOMAIN taskRuns[t] /\ record.run >= tracked[t].run
              /\ Honest(t, record)
        /\ call.pc = "values" => record.status = "success"
        /\ call.values # 0 => /\ call.pc = "done"
                              /\ \/ call.values = record.run
                                 \/ Len(taskRuns[t]) > record.run

Launches(call) == call.pc \in {"thread", "run"}

(* One call launches into a Thread.                                        *)
OneLaunch ==
    \A o, p \in Ops :
        Launches(op[o]) /\ Launches(op[p]) /\ op[o].task = op[p].task => o = p

TaskInv ==
    /\ TasksTypeOK
    /\ \A t \in Tasks : TaskFine(t)
    /\ \A o \in Ops : CallFine(op[o])
    /\ OneLaunch
    /\ NewestTracked /\ NoStrayThread

LEMMA TasksStart ==
    ASSUME TaskParameters, TasksInit
    PROVE  TaskInv
<1>1. /\ IdleOp.task \in Tasks /\ IdleOp.pc = "idle" /\ IdleOp.values = 0
      /\ IdleOp.record = Untracked /\ IdleOp \in OpStates
      /\ Untracked \in Records /\ Untracked.run = 0 /\ Untracked.status = "running"
  <2>1. (CHOOSE t \in Tasks : TRUE) \in Tasks
    BY DEF TaskParameters
  <2> QED  BY <2>1 DEF TaskParameters, IdleOp, Untracked, OpStates, Records, RunStatuses
<1>2. TasksTypeOK
  BY <1>1 DEF TaskParameters, TasksInit, TasksTypeOK
<1>3. \A t \in Tasks : TaskFine(t)
  BY <1>1 DEF TaskParameters, TasksInit, TaskFine, Honest, Ends
<1>4. \A o \in Ops : CallFine(op[o])
  BY <1>1 DEF TasksInit, CallFine
<1>5. OneLaunch /\ NewestTracked /\ NoStrayThread
  BY <1>1 DEF TasksInit, OneLaunch, Launches, NewestTracked, NoStrayThread
<1> QED  BY <1>2, <1>3, <1>4, <1>5 DEF TaskInv

(* What every step does that leaves the records as they are.               *)
Onward ==
    /\ thread' \in [Tasks -> {"none", "made", "deleted"}]
    /\ taskRuns' \in [Tasks -> Seq(RunStatuses)]
    /\ values' \in [Tasks -> 0 .. MaxRuns]
    /\ tracked' = tracked
    /\ stray \subseteq stray' /\ stray' \subseteq Tasks
    /\ behind \subseteq behind' /\ behind' \subseteq Tasks
    /\ \A t \in Tasks :
          /\ thread'[t] = "none" => thread[t] = "none"
          /\ Len(taskRuns[t]) <= Len(taskRuns'[t])
          /\ \A i \in DOMAIN taskRuns[t] :
                taskRuns[t][i] \in Ends => taskRuns'[t][i] = taskRuns[t][i]
          /\ TaskFine(t)'

(* A call that has not moved is as it was, and so is its task.             *)
LEMMA CallStays ==
    ASSUME TaskInv, Onward, NEW p \in Ops, op'[p] = op[p],
           op[p].pc = "thread" => thread'[op[p].task] = "none",
           op[p].pc = "run" => taskRuns'[op[p].task] = <<>>
    PROVE  CallFine(op[p])'
<1> DEFINE t == op[p].task
<1>1. /\ t \in Tasks /\ CallFine(op[p]) /\ op[p].record.run \in Nat
      /\ taskRuns[t] \in Seq(RunStatuses)
  BY DEF TaskInv, TasksTypeOK, OpStates, Records
<1>2. /\ thread'[t] = "none" => thread[t] = "none"
      /\ Len(taskRuns[t]) <= Len(taskRuns'[t])
      /\ \A i \in DOMAIN taskRuns[t] :
            taskRuns[t][i] \in Ends => taskRuns'[t][i] = taskRuns[t][i]
      /\ taskRuns'[t] \in Seq(RunStatuses) /\ tracked' = tracked
  BY <1>1 DEF Onward
<1>3. DOMAIN taskRuns[t] \subseteq DOMAIN taskRuns'[t]
      /\ Len(taskRuns[t]) \in Nat /\ Len(taskRuns'[t]) \in Nat
  BY <1>1, <1>2
<1> HIDE DEF t
<1> QED  BY <1>1, <1>2, <1>3 DEF CallFine, Honest, t

(* A step of a researcher.                                                 *)
LEMMA ResearcherKeeps ==
    ASSUME TaskInv, Onward, UNCHANGED <<op, stray, behind>>,
           \A t \in Tasks : /\ Len(taskRuns'[t]) = Len(taskRuns[t])
                            /\ thread[t] = "none" => thread'[t] = "none"
                            /\ thread'[t] = "made" => thread[t] = "made"
    PROVE  TaskInv'
<1>1. \A o \in Ops : op[o].task \in Tasks
  BY DEF TaskInv, TasksTypeOK, OpStates
<1>2. \A t \in Tasks : taskRuns[t] = <<>> => taskRuns'[t] = <<>>
  BY DEF Onward
<1>3. \A o \in Ops : CallFine(op[o])'
  <2> SUFFICES ASSUME NEW o \in Ops PROVE CallFine(op[o])'
    OBVIOUS
  <2>1. CallFine(op[o])
    BY DEF TaskInv
  <2> QED  BY <1>1, <1>2, <2>1, CallStays DEF CallFine
<1>4. TasksTypeOK'
  BY DEF TaskInv, TasksTypeOK, Onward
<1>5. NewestTracked'
  <2>1. NewestTracked /\ tracked' = tracked
    BY DEF TaskInv, Onward
  <2> QED  BY <2>1 DEF NewestTracked, Gives
<1>6. NoStrayThread' /\ OneLaunch'
  BY DEF TaskInv, Onward, NoStrayThread, OneLaunch, Launches
<1> QED  BY <1>3, <1>4, <1>5, <1>6 DEF TaskInv, Onward

(* A step of a call that has not ended.                                    *)
LEMMA CallMoves ==
    ASSUME TaskInv, Onward, NEW o \in Ops,
           op' \in [Ops -> OpStates], \A p \in Ops \ {o} : op'[p] = op[p],
           op[o].pc # "done", CallFine(op[o])',
           \A p \in Ops \ {o} : /\ op[p].pc = "thread" => thread'[op[p].task] = "none"
                                /\ op[p].pc = "run" => taskRuns'[op[p].task] = <<>>
                                /\ Launches(op'[o]) /\ Launches(op[p]) =>
                                      op[p].task # op'[o].task,
           \A t \in Tasks :
              \/ Len(taskRuns'[t]) = Len(taskRuns[t])
              \/ tracked[t].run = 0 \/ t \in behind'
              \/ Gives(o, t)' /\ op'[o].record.run = Len(taskRuns'[t]),
           \A t \in Tasks : thread'[t] = "made" /\ t \notin stray' =>
              \/ tracked[t].run # 0
              \/ op'[o].task = t /\ op'[o].pc \in {"run", "cleanup", "done"}
              \/ /\ thread[t] = "made"
                 /\ op[o].task = t => op[o].pc \notin {"run", "cleanup"}
    PROVE  TaskInv'
<1>1. TasksTypeOK'
  BY DEF TaskInv, TasksTypeOK, Onward
<1>2. \A p \in Ops : CallFine(op[p])'
  BY CallStays
<1>3. OneLaunch'
  BY DEF TaskInv, OneLaunch
<1>4. NewestTracked'
  <2> SUFFICES ASSUME NEW t \in Tasks, tracked[t].run # 0, t \notin behind'
               PROVE  \/ tracked[t].run = Len(taskRuns'[t])
                      \/ \E p \in Ops : Gives(p, t)' /\ op'[p].record.run = Len(taskRuns'[t])
    BY DEF NewestTracked, Onward
  <2>1. CASE Gives(o, t)' /\ op'[o].record.run = Len(taskRuns'[t])
    BY <2>1
  <2>2. CASE Len(taskRuns'[t]) = Len(taskRuns[t])
    <3>1. \/ tracked[t].run = Len(taskRuns[t])
          \/ \E p \in Ops : Gives(p, t) /\ op[p].record.run = Len(taskRuns[t])
      BY DEF TaskInv, NewestTracked, Onward
    <3>2. \A p \in Ops : Gives(p, t) => Gives(p, t)' /\ op'[p] = op[p]
      BY DEF Gives
    <3> QED  BY <2>2, <3>1, <3>2
  <2> QED  BY <2>1, <2>2
<1>5. NoStrayThread'
  <2> SUFFICES ASSUME NEW t \in Tasks, thread'[t] = "made", t \notin stray', tracked[t].run = 0
               PROVE  \E p \in Ops : op'[p].task = t /\ op'[p].pc \in {"run", "cleanup", "done"}
    BY DEF NoStrayThread, Onward
  <2>1. CASE /\ thread[t] = "made"
             /\ op[o].task = t => op[o].pc \notin {"run", "cleanup"}
    <3>1. PICK p \in Ops : op[p].task = t /\ op[p].pc \in {"run", "cleanup", "done"}
      BY <2>1 DEF TaskInv, NoStrayThread, Onward
    <3>2. p # o
      BY <2>1, <3>1
    <3> QED  BY <3>1, <3>2
  <2> QED  BY <2>1
<1> QED  BY <1>1, <1>2, <1>3, <1>4, <1>5 DEF TaskInv, Onward
(* One status of a Thread's runs changes.                                  *)
LEMMA StatusSet ==
    ASSUME TaskInv, NEW t \in Tasks, NEW i \in DOMAIN taskRuns[t],
           NEW status \in RunStatuses, taskRuns' = [taskRuns EXCEPT ![t][i] = status]
    PROVE  /\ taskRuns' \in [Tasks -> Seq(RunStatuses)]
           /\ \A u \in Tasks : /\ u # t => taskRuns'[u] = taskRuns[u]
                               /\ Len(taskRuns'[u]) = Len(taskRuns[u])
                               /\ DOMAIN taskRuns'[u] = DOMAIN taskRuns[u]
           /\ taskRuns'[t][i] = status
           /\ \A j \in DOMAIN taskRuns[t] \ {i} : taskRuns'[t][j] = taskRuns[t][j]
<1>1. taskRuns \in [Tasks -> Seq(RunStatuses)]
  BY DEF TaskInv, TasksTypeOK
<1>2. taskRuns' = [taskRuns EXCEPT ![t] = [taskRuns[t] EXCEPT ![i] = status]]
  OBVIOUS
<1> DEFINE s == [taskRuns[t] EXCEPT ![i] = status]
<1>3. /\ s \in Seq(RunStatuses) /\ Len(s) = Len(taskRuns[t]) /\ DOMAIN s = DOMAIN taskRuns[t]
      /\ s[i] = status /\ \A j \in DOMAIN taskRuns[t] \ {i} : s[j] = taskRuns[t][j]
  BY <1>1
<1>4. taskRuns' = [taskRuns EXCEPT ![t] = s]
  BY <1>2
<1> HIDE DEF s
<1> QED  BY <1>1, <1>3, <1>4

LEMMA RunMoves ==
    ASSUME TaskInv, NEW t \in Tasks, NEW status \in RunStatuses,
           thread[t] = "made", taskRuns[t] # <<>>, Newest(t) \in ActiveStatuses,
           RunTo(t, status),
           values' = IF status = "success" THEN [values EXCEPT ![t] = Len(taskRuns[t])]
                     ELSE values,
           UNCHANGED <<thread, tracked, op, stray, behind>>
    PROVE  TaskInv'
<1> DEFINE n == Len(taskRuns[t])
<1>1. /\ taskRuns[t] \in Seq(RunStatuses) /\ n \in Nat \ {0} /\ n \in DOMAIN taskRuns[t]
      /\ n <= MaxRuns /\ values \in [Tasks -> 0 .. MaxRuns]
  BY DEF TaskInv, TasksTypeOK, TaskFine
<1>2. taskRuns' = [taskRuns EXCEPT ![t][n] = status]
  BY DEF RunTo
<1>3. taskRuns[t][n] \notin Ends
  BY DEF Newest, ActiveStatuses, Ends
<1> HIDE DEF n
<1>4. /\ taskRuns' \in [Tasks -> Seq(RunStatuses)]
      /\ \A u \in Tasks : /\ u # t => taskRuns'[u] = taskRuns[u]
                          /\ Len(taskRuns'[u]) = Len(taskRuns[u])
                          /\ DOMAIN taskRuns'[u] = DOMAIN taskRuns[u]
      /\ taskRuns'[t][n] = status
      /\ \A j \in DOMAIN taskRuns[t] \ {n} : taskRuns'[t][j] = taskRuns[t][j]
  BY <1>1, <1>2, StatusSet
<1>5. /\ values' \in [Tasks -> 0 .. MaxRuns]
      /\ \A u \in Tasks \ {t} : values'[u] = values[u]
      /\ status = "success" => values'[t] = n
  BY <1>1 DEF n
<1>6. TaskFine(t)'
  <2>1. TaskFine(t) /\ Len(taskRuns'[t]) = n /\ Newest(t)' = status
    BY <1>4 DEF TaskInv, Newest, n
  <2> QED  BY <1>1, <1>3, <1>4, <1>5, <2>1 DEF TaskFine, Honest, n
<1>7. \A u \in Tasks \ {t} : TaskFine(u)'
  BY <1>4, <1>5 DEF TaskInv, TaskFine, Honest, Newest
<1>8. \A u \in Tasks : \A i \in DOMAIN taskRuns[u] :
         taskRuns[u][i] \in Ends => taskRuns'[u][i] = taskRuns[u][i]
  BY <1>3, <1>4
<1>9. \A u \in Tasks : Len(taskRuns[u]) \in Nat
  BY DEF TaskInv, TasksTypeOK
<1>10. Onward
  BY <1>4, <1>5, <1>6, <1>7, <1>8, <1>9 DEF Onward, TaskInv, TasksTypeOK
<1> QED  BY <1>4, <1>10, ResearcherKeeps

LEMMA ResearchersKeep ==
    ASSUME TaskInv, NEW t \in Tasks,
           \/ RunStarts(t) \/ RunWrites(t) \/ ThreadGoes(t)
           \/ \E status \in RunStatuses \ ActiveStatuses : RunEnds(t, status)
    PROVE  TaskInv'
<1>1. CASE RunStarts(t)
  BY <1>1, RunMoves DEF RunStarts, RunStatuses, ActiveStatuses
<1>2. ASSUME NEW status \in RunStatuses \ ActiveStatuses, RunEnds(t, status)
      PROVE  TaskInv'
  BY <1>2, RunMoves DEF RunEnds, ActiveStatuses
<1>3. TasksTypeOK /\ \A u \in Tasks : TaskFine(u) /\ Len(taskRuns[u]) \in Nat
  BY DEF TaskInv, TasksTypeOK
<1>4. CASE RunWrites(t)
  <2>1. /\ taskRuns[t] # <<>> /\ Newest(t) = "running"
        /\ values' = [values EXCEPT ![t] = Len(taskRuns[t])]
        /\ UNCHANGED <<thread, taskRuns, tracked, op, stray, behind>>
    BY <1>4 DEF RunWrites
  <2>2. /\ values' \in [Tasks -> 0 .. MaxRuns]
        /\ \A u \in Tasks \ {t} : values'[u] = values[u]
    BY <1>3, <2>1 DEF TasksTypeOK, TaskFine
  <2>3. \A u \in Tasks : TaskFine(u)'
    BY <1>3, <2>1, <2>2 DEF TaskFine, Honest, Newest
  <2>4. Onward
    BY <1>3, <2>1, <2>2, <2>3 DEF Onward, TasksTypeOK
  <2> QED  BY <2>1, <2>4, ResearcherKeeps
<1>5. CASE ThreadGoes(t)
  <2>1. /\ thread[t] = "made" /\ thread' = [thread EXCEPT ![t] = "deleted"]
        /\ UNCHANGED <<taskRuns, values, tracked, op, stray, behind>>
    BY <1>5 DEF ThreadGoes
  <2>2. /\ thread' \in [Tasks -> {"none", "made", "deleted"}]
        /\ thread'[t] = "deleted" /\ \A u \in Tasks \ {t} : thread'[u] = thread[u]
    BY <1>3, <2>1 DEF TasksTypeOK
  <2>3. \A u \in Tasks : TaskFine(u)'
    BY <1>3, <2>1, <2>2 DEF TaskFine, Honest, Newest
  <2>4. Onward
    BY <1>3, <2>1, <2>2, <2>3 DEF Onward, TasksTypeOK
  <2> QED  BY <2>1, <2>2, <2>4, ResearcherKeeps
<1> QED  BY <1>1, <1>2, <1>4, <1>5

(* A step of a call that changes nothing on the Agent Server.              *)
LEMMA CallWaits ==
    ASSUME TaskInv, NEW o \in Ops,
           UNCHANGED <<thread, taskRuns, values, tracked, stray, behind>>,
           op' \in [Ops -> OpStates], \A p \in Ops \ {o} : op'[p] = op[p],
           op[o].pc \notin {"run", "cleanup", "done"}, CallFine(op[o])',
           Launches(op'[o]) => \A p \in Ops \ {o} : Launches(op[p]) => op[p].task # op'[o].task
    PROVE  TaskInv'
<1>1. TasksTypeOK /\ \A u \in Tasks : TaskFine(u) /\ Len(taskRuns[u]) \in Nat
  BY DEF TaskInv, TasksTypeOK
<1>2. \A u \in Tasks : TaskFine(u)'
  BY <1>1 DEF TaskFine, Honest, Newest
<1>3. Onward
  BY <1>1, <1>2 DEF Onward, TasksTypeOK
<1>4. \A p \in Ops : /\ op[p].pc = "thread" => thread'[op[p].task] = "none"
                     /\ op[p].pc = "run" => taskRuns'[op[p].task] = <<>>
  BY DEF TaskInv, CallFine
<1> QED  BY <1>3, <1>4, CallMoves
(* A call ends with text, whatever it did before.                          *)
LEMMA Told ==
    ASSUME TaskInv, NEW o \in Ops, op[o].pc # "done", OpTo(o, "told")
    PROVE  /\ op' \in [Ops -> OpStates] /\ \A p \in Ops \ {o} : op'[p] = op[p]
           /\ op'[o].pc = "told" /\ op'[o].task = op[o].task
           /\ CallFine(op[o])'
<1>1. op \in [Ops -> OpStates] /\ op[o].values = 0
  BY DEF TaskInv, TasksTypeOK, CallFine
<1>2. /\ op' \in [Ops -> OpStates] /\ \A p \in Ops \ {o} : op'[p] = op[p]
      /\ op'[o].pc = "told" /\ op'[o].task = op[o].task /\ op'[o].values = 0
  BY <1>1 DEF OpTo, OpStates
<1> QED  BY <1>2 DEF CallFine

LEMMA ReadersKeep ==
    ASSUME TaskParameters, TaskInv, NEW o \in Ops, NEW t \in Tasks,
           \/ Tell(o, t) \/ StartTask(o, t) \/ CheckTask(o, t)
           \/ GetTaskRun(o) \/ GetTaskValues(o)
    PROVE  TaskInv'
<1>1. /\ op \in [Ops -> OpStates] /\ op[o] \in OpStates
      /\ thread \in [Tasks -> {"none", "made", "deleted"}]
      /\ taskRuns \in [Tasks -> Seq(RunStatuses)] /\ values \in [Tasks -> 0 .. MaxRuns]
      /\ tracked \in [Tasks -> Records]
      /\ CallFine(op[o])
  BY DEF TaskInv, TasksTypeOK
<1>2. CASE Tell(o, t)
  <2>1. /\ op[o].pc = "idle" /\ op' = [op EXCEPT ![o].pc = "told", ![o].task = t]
        /\ UNCHANGED <<thread, taskRuns, values, tracked, stray, behind>>
    BY <1>2 DEF Tell
  <2>2. /\ op' \in [Ops -> OpStates] /\ \A p \in Ops \ {o} : op'[p] = op[p]
        /\ op'[o].pc = "told" /\ op'[o].values = op[o].values
    BY <1>1, <2>1 DEF OpStates
  <2>3. CallFine(op[o])'
    BY <1>1, <2>1, <2>2 DEF CallFine
  <2> QED  BY <2>1, <2>2, <2>3, CallWaits DEF Launches
<1>3. CASE StartTask(o, t)
  <2>1. /\ op[o].pc = "idle" /\ op' = [op EXCEPT ![o].pc = "thread", ![o].task = t]
        /\ thread[t] = "none" /\ \A p \in Ops : op[p].pc = "thread" => op[p].task # t
        /\ UNCHANGED <<thread, taskRuns, values, tracked, stray, behind>>
    BY <1>3 DEF StartTask
  <2>2. /\ op' \in [Ops -> OpStates] /\ \A p \in Ops \ {o} : op'[p] = op[p]
        /\ op'[o].pc = "thread" /\ op'[o].task = t /\ op'[o].values = op[o].values
    BY <1>1, <2>1 DEF OpStates
  <2>3. CallFine(op[o])'
    BY <1>1, <2>1, <2>2 DEF CallFine
  <2>4. \A p \in Ops : Launches(op[p]) => op[p].task # t
    BY <2>1 DEF TaskInv, CallFine, Launches
  <2> QED  BY <2>1, <2>2, <2>3, <2>4, CallWaits
<1>4. CASE CheckTask(o, t)
  <2> DEFINE call == [pc |-> "get", task |-> t, record |-> tracked[t], values |-> 0]
  <2>1. /\ op[o].pc = "idle" /\ tracked[t].run # 0 /\ op' = [op EXCEPT ![o] = call]
        /\ UNCHANGED <<thread, taskRuns, values, tracked, stray, behind>>
    BY <1>4 DEF CheckTask
  <2>2. /\ call \in OpStates /\ call.pc = "get" /\ call.task = t
        /\ call.record = tracked[t] /\ call.values = 0
    BY <1>1 DEF OpStates, TaskParameters
  <2> HIDE DEF call
  <2>3. /\ op' \in [Ops -> OpStates] /\ \A p \in Ops \ {o} : op'[p] = op[p] /\ op'[o] = call
    BY <1>1, <2>1, <2>2
  <2>4. op'[o] = call
    BY <1>1, <2>1
  <2>5. CallFine(op[o])'
    <3>1. TaskFine(t) /\ tracked[t].run \in Nat
      BY <1>1 DEF TaskInv, Records
    <3> QED  BY <2>1, <2>2, <2>4, <3>1 DEF CallFine, TaskFine, Honest
  <2> QED  BY <2>1, <2>2, <2>3, <2>4, <2>5, CallWaits DEF Launches
<1>5. CASE OpTo(o, "told") /\ (GetTaskRun(o) \/ GetTaskValues(o))
  <2>1. /\ op[o].pc \in {"get", "values"}
        /\ UNCHANGED <<thread, taskRuns, values, tracked, stray, behind>>
    BY <1>5 DEF GetTaskRun, GetTaskValues
  <2> QED  BY <1>5, <2>1, Told, CallWaits DEF Launches
<1>6. CASE GetTaskRun(o) /\ ~OpTo(o, "told")
  <2> DEFINE u == op[o].task
             status == taskRuns[u][op[o].record.run]
             pc == IF status = "success" THEN "values" ELSE "done"
  <2>1. /\ op[o].pc = "get"
        /\ op' = [op EXCEPT ![o].pc = pc, ![o].record.status = status]
        /\ UNCHANGED <<thread, taskRuns, values, tracked, stray, behind>>
    BY <1>6 DEF GetTaskRun
  <2>2. /\ u \in Tasks /\ op[o].record \in Records /\ op[o].record.run \in DOMAIN taskRuns[u]
        /\ op[o].record.run >= tracked[u].run /\ op[o].values = 0
    BY <1>1, <2>1 DEF OpStates, CallFine
  <2>3. status \in RunStatuses
    BY <1>1, <2>2
  <2>4. pc \in {"values", "done"} /\ (pc = "values" => status = "success")
    OBVIOUS
  <2>5. taskRuns'[u][op[o].record.run] = status /\ DOMAIN taskRuns'[u] = DOMAIN taskRuns[u]
    BY <2>1
  <2> HIDE DEF status, pc
  <2>6. /\ op' \in [Ops -> OpStates] /\ \A p \in Ops \ {o} : op'[p] = op[p]
        /\ op'[o].pc = pc /\ op'[o].task = u /\ op'[o].values = 0
        /\ op'[o].record.run = op[o].record.run /\ op'[o].record.status = status
    BY <1>1, <2>1, <2>2, <2>3, <2>4 DEF OpStates, Records
  <2>7. CallFine(op[o])'
    BY <2>1, <2>2, <2>4, <2>5, <2>6 DEF CallFine, Honest
  <2> QED  BY <2>1, <2>4, <2>6, <2>7, CallWaits DEF Launches
<1>7. CASE GetTaskValues(o) /\ ~OpTo(o, "told")
  <2> DEFINE u == op[o].task
  <2>1. /\ op[o].pc = "values"
        /\ op' = [op EXCEPT ![o].pc = "done", ![o].values = values[u]]
        /\ UNCHANGED <<thread, taskRuns, values, tracked, stray, behind>>
    BY <1>7 DEF GetTaskValues
  <2>2. /\ u \in Tasks /\ op[o].record.run \in DOMAIN taskRuns[u]
        /\ op[o].record.run >= tracked[u].run /\ Honest(u, op[o].record)
        /\ op[o].record.status = "success"
    BY <1>1, <2>1 DEF OpStates, CallFine
  <2>3. values[u] = op[o].record.run \/ Len(taskRuns[u]) > op[o].record.run
    <3>1. TaskFine(u) /\ taskRuns[u][op[o].record.run] = "success"
      BY <2>2 DEF TaskInv, Honest, Ends
    <3>2. op[o].record.run \in 1 .. Len(taskRuns[u]) /\ Len(taskRuns[u]) \in Nat
      BY <1>1, <2>2
    <3>3. CASE op[o].record.run = Len(taskRuns[u])
      BY <3>1, <3>2, <3>3 DEF TaskFine, Newest
    <3> QED  BY <3>2, <3>3
  <2>4. /\ op' \in [Ops -> OpStates] /\ \A p \in Ops \ {o} : op'[p] = op[p]
        /\ op'[o].pc = "done" /\ op'[o].task = u /\ op'[o].values = values[u]
        /\ op'[o].record = op[o].record
    BY <1>1, <2>1, <2>2 DEF OpStates
  <2>5. CallFine(op[o])'
    BY <2>1, <2>2, <2>3, <2>4 DEF CallFine, Honest
  <2> QED  BY <2>1, <2>4, <2>5, CallWaits DEF Launches
<1> QED  BY <1>2, <1>3, <1>4, <1>5, <1>6, <1>7
(* A launch: the Thread, its run, and the cleanup where it failed.         *)
LEMMA LaunchKeeps ==
    ASSUME TaskParameters, TaskInv, NEW o \in Ops,
           CreateThread(o) \/ CreateTaskRun(o) \/ CleanUp(o)
    PROVE  TaskInv'
<1> DEFINE t == op[o].task
<1>1. /\ op \in [Ops -> OpStates] /\ op[o] \in OpStates /\ t \in Tasks
      /\ thread \in [Tasks -> {"none", "made", "deleted"}]
      /\ taskRuns \in [Tasks -> Seq(RunStatuses)] /\ values \in [Tasks -> 0 .. MaxRuns]
      /\ tracked \in [Tasks -> Records] /\ stray \subseteq Tasks /\ behind \subseteq Tasks
      /\ \A p \in Ops : CallFine(op[p]) /\ op[p].task \in Tasks
      /\ \A u \in Tasks : TaskFine(u) /\ Len(taskRuns[u]) \in Nat
  BY DEF TaskInv, TasksTypeOK, OpStates
<1>2. op[o].pc \in {"thread", "run", "cleanup"} /\ op[o].values = 0
  BY <1>1 DEF CreateThread, CreateTaskRun, CleanUp, CallFine
<1>3. \A p \in Ops \ {o} : Launches(op[o]) /\ Launches(op[p]) => op[p].task # t
  BY DEF TaskInv, OneLaunch
<1>4. \A p \in Ops : /\ op[p].pc = "thread" => thread[op[p].task] = "none"
                     /\ op[p].pc = "run" => taskRuns[op[p].task] = <<>>
  BY <1>1 DEF CallFine
<1>5. CASE CreateThread(o)
  <2>1. /\ op[o].pc = "thread" /\ thread[t] = "none" /\ taskRuns[t] = <<>>
        /\ UNCHANGED <<taskRuns, values, tracked, behind>>
    BY <1>1, <1>4, <1>5 DEF CreateThread, TaskFine
  <2>2. ASSUME NEW pc \in {"run", "told"}, OpTo(o, pc)
        PROVE  /\ op' \in [Ops -> OpStates] /\ \A p \in Ops \ {o} : op'[p] = op[p]
               /\ op'[o].pc = pc /\ op'[o].task = t /\ op'[o].values = 0
    BY <1>1, <1>2, <2>2 DEF OpTo, OpStates
  <2>3. \A p \in Ops \ {o} : op[p].pc = "thread" => op[p].task # t
    BY <1>3, <2>1 DEF Launches
  <2>4. CASE thread' = thread
    <3>1. OpTo(o, "told") /\ stray' = stray
      BY <1>1, <1>5, <2>1, <2>4 DEF CreateThread
    <3>2. CallFine(op[o])'
      BY <2>2, <3>1 DEF CallFine
    <3> QED  BY <2>1, <2>2, <2>4, <3>1, <3>2, CallWaits DEF Launches
  <2>5. CASE thread' = [thread EXCEPT ![t] = "made"]
    <3>1. /\ thread' \in [Tasks -> {"none", "made", "deleted"}]
          /\ thread'[t] = "made" /\ \A u \in Tasks \ {t} : thread'[u] = thread[u]
      BY <1>1, <2>5
    <3>2. PICK pc \in {"run", "told"} :
             OpTo(o, pc) /\ stray' = IF pc = "run" THEN stray ELSE stray \cup {t}
      BY <1>1, <1>5, <2>1, <2>5 DEF CreateThread
    <3>3. /\ op' \in [Ops -> OpStates] /\ \A p \in Ops \ {o} : op'[p] = op[p]
          /\ op'[o].pc = pc /\ op'[o].task = t /\ op'[o].values = 0
      BY <2>2, <3>2
    <3>4. CallFine(op[o])'
      BY <2>1, <3>1, <3>3 DEF CallFine
    <3>5. \A u \in Tasks : TaskFine(u)'
      BY <1>1, <2>1, <3>1 DEF TaskFine, Honest, Newest
    <3>6. stray \subseteq stray' /\ stray' \subseteq Tasks
      BY <1>1, <3>2
    <3>7. Onward
      BY <1>1, <2>1, <3>1, <3>5, <3>6 DEF Onward
    <3>8. \A p \in Ops \ {o} : /\ op[p].pc = "thread" => thread'[op[p].task] = "none"
                               /\ op[p].pc = "run" => taskRuns'[op[p].task] = <<>>
                               /\ Launches(op'[o]) /\ Launches(op[p]) => op[p].task # op'[o].task
      BY <1>1, <1>3, <1>4, <2>1, <2>3, <3>1, <3>3 DEF Launches
    <3>9. \A u \in Tasks : thread'[u] = "made" /\ u \notin stray' =>
              \/ op'[o].task = u /\ op'[o].pc \in {"run", "cleanup", "done"}
              \/ /\ thread[u] = "made"
                 /\ op[o].task = u => op[o].pc \notin {"run", "cleanup"}
      BY <2>1, <3>1, <3>2, <3>3
    <3> QED  BY <2>1, <3>3, <3>4, <3>7, <3>8, <3>9, CallMoves
  <2> QED  BY <1>5, <2>4, <2>5 DEF CreateThread
<1>6. CASE CreateTaskRun(o)
  <2>1. /\ op[o].pc = "run" /\ thread[t] # "none" /\ taskRuns[t] = <<>> /\ tracked[t].run = 0
        /\ UNCHANGED <<thread, values, tracked, stray, behind>>
    BY <1>1, <1>4, <1>6 DEF CreateTaskRun, TaskFine, CallFine
  <2>2. OpTo(o, "cleanup") \/ Done(o, [run |-> 1, status |-> "running"])
    BY <1>6 DEF CreateTaskRun
  <2>3. /\ op' \in [Ops -> OpStates] /\ \A p \in Ops \ {o} : op'[p] = op[p]
        /\ op'[o].task = t /\ op'[o].values = 0
        /\ \/ op'[o].pc = "cleanup"
           \/ op'[o].pc = "done" /\ op'[o].record = [run |-> 1, status |-> "running"]
    <3>1. [run |-> 1, status |-> "running"] \in Records
      BY DEF Records, RunStatuses, TaskParameters
    <3>2. CASE OpTo(o, "cleanup")
      BY <1>1, <1>2, <3>2 DEF OpTo, OpStates
    <3>3. CASE Done(o, [run |-> 1, status |-> "running"])
      <4> DEFINE record == [run |-> 1, status |-> "running"]
      <4>1. record \in Records /\ Done(o, record)
        BY <3>1, <3>3
      <4> HIDE DEF record
      <4>2. /\ op' \in [Ops -> OpStates] /\ \A p \in Ops \ {o} : op'[p] = op[p]
            /\ op'[o].task = t /\ op'[o].values = 0
            /\ op'[o].pc = "done" /\ op'[o].record = record
        BY <1>1, <1>2, <4>1 DEF Done, OpStates
      <4> QED  BY <4>2 DEF record
    <3> QED  BY <2>2, <3>2, <3>3
  <2>4. taskRuns' = taskRuns \/ taskRuns' = [taskRuns EXCEPT ![t] = <<"pending">>]
    BY <1>6 DEF CreateTaskRun
  <2>5. op'[o].pc = "done" => taskRuns' = [taskRuns EXCEPT ![t] = <<"pending">>]
    BY <1>1, <1>6, <2>1 DEF CreateTaskRun, OpTo, OpStates
  <2>6. /\ <<"pending">> \in Seq(RunStatuses) /\ Len(<<"pending">>) = 1
        /\ DOMAIN <<"pending">> = {1} /\ <<"pending">>[1] = "pending" /\ <<"pending">> # <<>>
    BY DEF RunStatuses
  <2>7. /\ taskRuns' \in [Tasks -> Seq(RunStatuses)]
        /\ \A u \in Tasks \ {t} : taskRuns'[u] = taskRuns[u]
        /\ taskRuns'[t] = taskRuns[t] \/ taskRuns'[t] = <<"pending">>
        /\ op'[o].pc = "done" => taskRuns'[t] = <<"pending">>
    BY <1>1, <2>4, <2>5, <2>6
  <2>8. CallFine(op[o])'
    BY <2>1, <2>3, <2>6, <2>7 DEF CallFine, Honest, Ends
  <2>9. ASSUME NEW u \in Tasks, u = t PROVE TaskFine(u)'
    <3>1. TaskFine(u) /\ MaxRuns \in Nat \ {0} /\ taskRuns[u] = <<>>
      BY <1>1, <2>1, <2>9 DEF TaskParameters
    <3>2. CASE taskRuns'[u] = taskRuns[u]
      BY <2>1, <3>1, <3>2 DEF TaskFine, Honest
    <3>3. CASE taskRuns'[u] = <<"pending">>
      BY <2>1, <2>6, <2>9, <3>1, <3>3 DEF TaskFine, Honest, Newest
    <3> QED  BY <2>7, <2>9, <3>2, <3>3
  <2>10. \A u \in Tasks \ {t} : TaskFine(u)'
    BY <1>1, <2>1, <2>7 DEF TaskFine, Honest, Newest
  <2>11. Onward
    <3>1. \A u \in Tasks : Len(taskRuns[u]) <= Len(taskRuns'[u])
      BY <1>1, <2>1, <2>6, <2>7
    <3>2. \A u \in Tasks : \A i \in DOMAIN taskRuns[u] :
             taskRuns[u][i] \in Ends => taskRuns'[u][i] = taskRuns[u][i]
      BY <2>1, <2>7
    <3> QED  BY <1>1, <2>1, <2>7, <2>9, <2>10, <3>1, <3>2 DEF Onward
  <2>12. \A p \in Ops \ {o} : /\ op[p].pc = "thread" => thread'[op[p].task] = "none"
                              /\ op[p].pc = "run" => taskRuns'[op[p].task] = <<>>
                              /\ ~Launches(op'[o])
    BY <1>1, <1>3, <1>4, <2>1, <2>3, <2>7 DEF Launches
  <2> QED  BY <2>1, <2>3, <2>7, <2>8, <2>11, <2>12, CallMoves
<1>7. CASE CleanUp(o)
  <2>1. /\ op[o].pc = "cleanup" /\ thread[t] # "none"
        /\ OpTo(o, "told") /\ UNCHANGED <<taskRuns, values, tracked, behind>>
        /\ \/ thread' = [thread EXCEPT ![t] = "deleted"] /\ stray' = stray
           \/ thread' = thread /\ stray' = stray \cup {t}
    BY <1>1, <1>7 DEF CleanUp, CallFine
  <2>2. /\ op' \in [Ops -> OpStates] /\ \A p \in Ops \ {o} : op'[p] = op[p]
        /\ op'[o].pc = "told" /\ op'[o].task = t /\ CallFine(op[o])'
    BY <2>1, Told
  <2>3. /\ thread' \in [Tasks -> {"none", "made", "deleted"}]
        /\ \A u \in Tasks \ {t} : thread'[u] = thread[u]
        /\ thread'[t] # "none" /\ (thread'[t] = "made" => t \in stray')
        /\ stray \subseteq stray' /\ stray' \subseteq Tasks
    BY <1>1, <2>1
  <2>4. \A u \in Tasks : TaskFine(u)'
    BY <1>1, <2>1, <2>3 DEF TaskFine, Honest, Newest
  <2>5. Onward
    BY <1>1, <2>1, <2>3, <2>4 DEF Onward
  <2>6. \A p \in Ops \ {o} : /\ op[p].pc = "thread" => thread'[op[p].task] = "none"
                             /\ op[p].pc = "run" => taskRuns'[op[p].task] = <<>>
                             /\ ~Launches(op'[o])
    BY <1>1, <1>4, <2>1, <2>2, <2>3 DEF Launches
  <2> QED  BY <2>1, <2>2, <2>3, <2>5, <2>6, CallMoves
<1> QED  BY <1>5, <1>6, <1>7
LEMMA UpdateKeeps ==
    ASSUME TaskParameters, TaskInv, NEW o \in Ops, NEW t \in Tasks, UpdateTask(o, t)
    PROVE  TaskInv'
<1> DEFINE old == taskRuns[t]
           runs == Append(Stopped(old), "pending")
           record == [run |-> Len(old) + 1, status |-> "running"]
           call == [pc |-> "done", task |-> t, values |-> 0, record |-> record]
<1>1. /\ op \in [Ops -> OpStates] /\ op[o] \in OpStates
      /\ thread \in [Tasks -> {"none", "made", "deleted"}]
      /\ taskRuns \in [Tasks -> Seq(RunStatuses)] /\ values \in [Tasks -> 0 .. MaxRuns]
      /\ tracked \in [Tasks -> Records] /\ stray \subseteq Tasks /\ behind \subseteq Tasks
      /\ \A p \in Ops : CallFine(op[p]) /\ op[p].task \in Tasks
      /\ \A u \in Tasks : TaskFine(u) /\ Len(taskRuns[u]) \in Nat
  BY DEF TaskInv, TasksTypeOK, OpStates
<1>2. /\ op[o].pc = "idle" /\ tracked[t].run # 0 /\ thread[t] = "made"
      /\ Len(old) < MaxRuns
      /\ taskRuns' = [taskRuns EXCEPT ![t] = runs]
      /\ \/ op' = [op EXCEPT ![o] = call] /\ behind' = behind
         \/ op' = [op EXCEPT ![o].pc = "told", ![o].task = t] /\ behind' = behind \cup {t}
      /\ UNCHANGED <<thread, values, tracked, stray>>
  BY DEF UpdateTask
<1>3. /\ runs \in Seq(RunStatuses) /\ Len(runs) = Len(old) + 1 /\ runs # <<>>
      /\ runs[Len(runs)] = "pending" /\ Len(old) \in Nat /\ Len(old) + 1 <= MaxRuns
      /\ \A i \in DOMAIN old : old[i] \in Ends => runs[i] = old[i]
      /\ DOMAIN old \subseteq DOMAIN runs /\ Len(old) + 1 \in DOMAIN runs
  <2>1. old \in Seq(RunStatuses) /\ Len(old) \in Nat
    BY <1>1
  <2>2. /\ Stopped(old) \in Seq(RunStatuses) /\ Len(Stopped(old)) = Len(old)
        /\ \A i \in DOMAIN old : old[i] \in Ends => Stopped(old)[i] = old[i]
    BY <2>1 DEF Stopped, RunStatuses, ActiveStatuses, Ends
  <2>3. "pending" \in RunStatuses
    BY DEF RunStatuses
  <2>4. Len(old) + 1 <= MaxRuns
    BY <1>2, <2>1 DEF TaskParameters
  <2> DEFINE stopped == Stopped(old)
  <2>5. /\ stopped \in Seq(RunStatuses) /\ Len(stopped) = Len(old)
        /\ \A i \in DOMAIN old : old[i] \in Ends => stopped[i] = old[i]
        /\ runs = Append(stopped, "pending")
    BY <2>2
  <2> HIDE DEF old, stopped, runs
  <2>6. /\ runs \in Seq(RunStatuses) /\ Len(runs) = Len(old) + 1
        /\ runs[Len(old) + 1] = "pending"
        /\ \A i \in 1 .. Len(old) : runs[i] = stopped[i]
    BY <2>1, <2>3, <2>5
  <2>7. DOMAIN old = 1 .. Len(old) /\ DOMAIN runs = 1 .. Len(old) + 1 /\ runs # <<>>
    BY <2>1, <2>6
  <2> QED  BY <2>1, <2>4, <2>5, <2>6, <2>7
<1>4. /\ old = taskRuns[t] /\ record.run = Len(old) + 1 /\ record.status = "running"
      /\ record \in Records
  BY <1>3 DEF Records, RunStatuses, TaskParameters
<1>5. /\ call.pc = "done" /\ call.task = t /\ call.values = 0 /\ call.record = record
      /\ call \in OpStates
  BY <1>4 DEF OpStates, TaskParameters
<1> HIDE DEF old, runs, record, call
<1>6. /\ op' \in [Ops -> OpStates] /\ \A p \in Ops \ {o} : op'[p] = op[p]
      /\ \/ op'[o] = call /\ behind' = behind
         \/ op'[o].pc = "told" /\ op'[o].values = 0 /\ behind' = behind \cup {t}
  <2>1. op[o].values = 0
    BY <1>1, <1>2 DEF CallFine
  <2>2. CASE op' = [op EXCEPT ![o] = call] /\ behind' = behind
    BY <1>1, <1>5, <2>2
  <2>3. CASE op' = [op EXCEPT ![o].pc = "told", ![o].task = t] /\ behind' = behind \cup {t}
    BY <1>1, <2>1, <2>3 DEF OpStates
  <2> QED  BY <1>2, <2>2, <2>3
<1>7. /\ taskRuns' \in [Tasks -> Seq(RunStatuses)] /\ taskRuns'[t] = runs
      /\ \A u \in Tasks \ {t} : taskRuns'[u] = taskRuns[u]
  BY <1>1, <1>2, <1>3
<1>8. tracked[t].run \in Nat /\ tracked[t].run \in DOMAIN old
  BY <1>1, <1>2, <1>4 DEF TaskFine, Records
<1>9. CallFine(op[o])'
  <2>1. CASE op'[o] = call
    <3>1. tracked'[t].run <= Len(old) + 1 /\ tracked[t].run <= Len(old)
      BY <1>1, <1>2, <1>3, <1>4, <1>8
    <3> QED  BY <1>3, <1>4, <1>5, <1>7, <2>1, <3>1 DEF CallFine, Honest, Ends
  <2>2. CASE op'[o].pc = "told" /\ op'[o].values = 0
    BY <2>2 DEF CallFine
  <2> QED  BY <1>6, <2>1, <2>2
<1>10. \A u \in Tasks : TaskFine(u)'
  <2>1. ASSUME NEW u \in Tasks, u = t PROVE TaskFine(u)'
    <3>1. TaskFine(u) /\ thread'[u] = "made" /\ tracked' = tracked
          /\ taskRuns'[u] = runs /\ taskRuns[u] = old /\ tracked[u].run # 0
      BY <1>1, <1>2, <1>4, <1>7, <2>1
    <3> QED  BY <1>3, <3>1 DEF TaskFine, Honest, Newest
  <2>2. ASSUME NEW u \in Tasks, u # t PROVE TaskFine(u)'
    BY <1>1, <1>2, <1>7, <2>2 DEF TaskFine, Honest, Newest
  <2> QED  BY <2>1, <2>2
<1>11. Onward
  <2>1. ASSUME NEW u \in Tasks PROVE Len(taskRuns[u]) <= Len(taskRuns'[u])
    <3>1. Len(taskRuns[u]) \in Nat
      BY <1>1
    <3>2. CASE u = t
      BY <1>3, <1>4, <1>7, <3>1, <3>2
    <3>3. CASE u # t
      BY <1>7, <3>1, <3>3
    <3> QED  BY <3>2, <3>3
  <2>2. \A u \in Tasks : \A i \in DOMAIN taskRuns[u] :
           taskRuns[u][i] \in Ends => taskRuns'[u][i] = taskRuns[u][i]
    BY <1>3, <1>4, <1>7
  <2>3. behind \subseteq behind' /\ behind' \subseteq Tasks
    BY <1>1, <1>6
  <2> QED  BY <1>1, <1>2, <1>7, <1>10, <2>1, <2>2, <2>3 DEF Onward
<1>12. \A p \in Ops \ {o} : /\ op[p].pc = "thread" => thread'[op[p].task] = "none"
                            /\ op[p].pc = "run" => taskRuns'[op[p].task] = <<>>
                            /\ ~Launches(op'[o])
  <2>1. \A p \in Ops \ {o} : op[p].pc = "run" => op[p].task # t
    <3>1. old # <<>>
      BY <1>8
    <3> QED  BY <1>1, <1>4, <3>1 DEF CallFine
  <2> QED  BY <1>1, <1>2, <1>5, <1>6, <1>7, <2>1 DEF CallFine, Launches
<1>13. \A u \in Tasks : \/ Len(taskRuns'[u]) = Len(taskRuns[u])
                        \/ u \in behind'
                        \/ Gives(o, u)' /\ op'[o].record.run = Len(taskRuns'[u])
  BY <1>3, <1>4, <1>5, <1>6, <1>7 DEF Gives
<1> QED  BY <1>2, <1>6, <1>9, <1>11, <1>12, <1>13, CallMoves

LEMMA CancelKeeps ==
    ASSUME TaskParameters, TaskInv, NEW o \in Ops, NEW t \in Tasks, CancelTrackedTask(o, t)
    PROVE  TaskInv'
<1> DEFINE n == tracked[t].run
           status == IF taskRuns[t][n] \in ActiveStatuses THEN "interrupted" ELSE taskRuns[t][n]
           record == [tracked[t] EXCEPT !.status = "cancelled"]
           call == [pc |-> "done", task |-> t, values |-> 0, record |-> record]
<1>1. /\ op \in [Ops -> OpStates] /\ op[o] \in OpStates
      /\ thread \in [Tasks -> {"none", "made", "deleted"}]
      /\ taskRuns \in [Tasks -> Seq(RunStatuses)] /\ values \in [Tasks -> 0 .. MaxRuns]
      /\ tracked \in [Tasks -> Records] /\ stray \subseteq Tasks /\ behind \subseteq Tasks
      /\ \A p \in Ops : CallFine(op[p]) /\ op[p].task \in Tasks
      /\ \A u \in Tasks : TaskFine(u) /\ Len(taskRuns[u]) \in Nat
  BY DEF TaskInv, TasksTypeOK, OpStates
<1>2. /\ op[o].pc = "idle" /\ n # 0 /\ thread[t] = "made"
      /\ taskRuns' = [taskRuns EXCEPT ![t][n] = status]
      /\ op' = [op EXCEPT ![o] = call]
      /\ UNCHANGED <<thread, values, tracked, stray, behind>>
  BY DEF CancelTrackedTask
<1>3. n \in Nat /\ n \in DOMAIN taskRuns[t] /\ taskRuns[t][n] \in RunStatuses
  BY <1>1, <1>2 DEF TaskFine, Records
<1>4. /\ status \in RunStatuses
      /\ taskRuns[t][n] \in Ends => status = taskRuns[t][n]
      /\ status = "success" => taskRuns[t][n] = "success"
  BY <1>3 DEF RunStatuses, ActiveStatuses, Ends
<1>5. record \in Records /\ record.run = n /\ record.status = "cancelled"
  BY <1>1 DEF Records
<1>6. /\ call.pc = "done" /\ call.task = t /\ call.values = 0 /\ call.record = record
      /\ call \in OpStates
  BY <1>5 DEF OpStates, TaskParameters
<1> HIDE DEF status, record, call
<1>7. /\ taskRuns' \in [Tasks -> Seq(RunStatuses)]
      /\ \A u \in Tasks : /\ u # t => taskRuns'[u] = taskRuns[u]
                          /\ Len(taskRuns'[u]) = Len(taskRuns[u])
                          /\ DOMAIN taskRuns'[u] = DOMAIN taskRuns[u]
      /\ taskRuns'[t][n] = status
      /\ \A j \in DOMAIN taskRuns[t] \ {n} : taskRuns'[t][j] = taskRuns[t][j]
  BY <1>2, <1>3, <1>4, StatusSet
<1>8. op' \in [Ops -> OpStates] /\ op'[o] = call /\ \A p \in Ops \ {o} : op'[p] = op[p]
  BY <1>1, <1>2, <1>6
<1>9. \A u \in Tasks : \A i \in DOMAIN taskRuns[u] :
         /\ taskRuns[u][i] \in Ends => taskRuns'[u][i] = taskRuns[u][i]
         /\ taskRuns'[u][i] = "success" => taskRuns[u][i] = "success"
  BY <1>4, <1>7
<1>10. CallFine(op[o])'
  BY <1>2, <1>3, <1>5, <1>6, <1>7, <1>8 DEF CallFine, Honest, Ends
<1>11. \A u \in Tasks : TaskFine(u)'
  <2> SUFFICES ASSUME NEW u \in Tasks PROVE TaskFine(u)'
    OBVIOUS
  <2>1. TaskFine(u) /\ Len(taskRuns'[u]) = Len(taskRuns[u])
        /\ DOMAIN taskRuns'[u] = DOMAIN taskRuns[u] /\ tracked' = tracked
        /\ thread' = thread /\ values' = values
        /\ (taskRuns'[u] = <<>> <=> taskRuns[u] = <<>>)
    BY <1>1, <1>2, <1>7
  <2>2. taskRuns[u] # <<>> => Len(taskRuns[u]) \in DOMAIN taskRuns[u]
    BY <1>1
  <2> QED  BY <1>9, <2>1, <2>2 DEF TaskFine, Honest, Newest
<1>12. Onward
  BY <1>1, <1>2, <1>7, <1>9, <1>11 DEF Onward
<1>13. \A p \in Ops \ {o} : /\ op[p].pc = "thread" => thread'[op[p].task] = "none"
                            /\ op[p].pc = "run" => taskRuns'[op[p].task] = <<>>
                            /\ ~Launches(op'[o])
  <2>1. \A u \in Tasks : taskRuns[u] = <<>> => taskRuns'[u] = <<>>
    BY <1>1, <1>7
  <2> QED  BY <1>1, <1>2, <1>6, <1>8, <2>1 DEF CallFine, Launches
<1> QED  BY <1>2, <1>7, <1>8, <1>10, <1>12, <1>13, CallMoves
(* The records of the step are merged, or lost.                            *)
LEMMA MergeKeeps ==
    ASSUME TaskParameters, TaskInv, Merge \/ Abandon
    PROVE  TaskInv'
<1>1. /\ op \in [Ops -> OpStates] /\ tracked \in [Tasks -> Records]
      /\ taskRuns \in [Tasks -> Seq(RunStatuses)]
      /\ \A p \in Ops : /\ CallFine(op[p]) /\ op[p].task \in Tasks
                        /\ op[p].record \in Records
      /\ \A u \in Tasks : /\ TaskFine(u) /\ Len(taskRuns[u]) \in Nat
                          /\ tracked[u].run \in Nat
  BY DEF TaskInv, TasksTypeOK, OpStates, Records
<1>2. op' = [o \in Ops |-> IdleOp] /\ UNCHANGED <<thread, taskRuns, values>>
  BY DEF Merge, Abandon
<1>3. IdleOp \in OpStates /\ IdleOp.pc = "idle" /\ IdleOp.values = 0
  <2>1. (CHOOSE t \in Tasks : TRUE) \in Tasks
    BY DEF TaskParameters
  <2> QED  BY <2>1 DEF TaskParameters, IdleOp, Untracked, OpStates, Records, RunStatuses
<1>4. /\ op' \in [Ops -> OpStates] /\ OneLaunch' /\ \A o \in Ops : CallFine(op[o])'
  BY <1>2, <1>3 DEF OneLaunch, Launches, CallFine
<1>5. CASE Abandon
  <2>1. /\ tracked' = tracked
        /\ stray' = stray \cup {t \in Tasks : /\ thread[t] = "made" /\ tracked[t].run = 0
                                              /\ \E o \in Ops : op[o].task = t}
        /\ behind' = behind \cup {t \in Tasks : \E o \in Ops : Gives(o, t)}
    BY <1>5 DEF Abandon
  <2>2. TasksTypeOK'
    BY <1>2, <1>4, <2>1 DEF TaskInv, TasksTypeOK
  <2>3. \A u \in Tasks : TaskFine(u)'
    BY <1>1, <1>2, <2>1 DEF TaskFine, Honest, Newest
  <2>4. NewestTracked'
    BY <1>2, <2>1 DEF TaskInv, NewestTracked
  <2>5. NoStrayThread'
    BY <1>2, <2>1 DEF TaskInv, NoStrayThread
  <2> QED  BY <1>4, <2>2, <2>3, <2>4, <2>5 DEF TaskInv
<1>6. CASE Merge
  <2>1. /\ \A o \in Ops : op[o].pc \in {"idle", "told", "done"}
        /\ tracked' \in [Tasks -> Records] /\ stray' = stray
        /\ behind' = behind \cup {t \in Tasks : \E o \in Ops :
                                     Gives(o, t) /\ op[o].record.run > tracked'[t].run}
    BY <1>6 DEF Merge
  <2>2. ASSUME NEW t \in Tasks
        PROVE  \/ \E o \in Ops : Gives(o, t) /\ tracked'[t] = op[o].record
               \/ (\A o \in Ops : ~Gives(o, t)) /\ tracked'[t] = tracked[t]
    <3>1. \A u \in Tasks : Merged(u, tracked'[u])
      BY <1>6 DEF Merge
    <3>2. \A record : Merged(t, record) =>
              \/ \E o \in Ops : Gives(o, t) /\ record = op[o].record
              \/ (\A o \in Ops : ~Gives(o, t)) /\ record = tracked[t]
      BY DEF Merged, LastToGive
    <3> QED  BY <3>1, <3>2
  <2>3. ASSUME NEW t \in Tasks, NEW o \in Ops, Gives(o, t)
        PROVE  /\ op[o].record.run \in DOMAIN taskRuns[t] /\ op[o].record.run \in Nat \ {0}
               /\ op[o].record.run <= Len(taskRuns[t])
               /\ op[o].record.run >= tracked[t].run
               /\ Honest(t, op[o].record)
    <3>1. /\ op[o].record.run \in DOMAIN taskRuns[t] /\ op[o].record.run >= tracked[t].run
          /\ Honest(t, op[o].record)
      BY <1>1, <2>3 DEF Gives, CallFine
    <3>2. DOMAIN taskRuns[t] = 1 .. Len(taskRuns[t])
      BY <1>1
    <3> QED  BY <1>1, <3>1, <3>2
  <2>4. ASSUME NEW t \in Tasks PROVE TaskFine(t)'
    <3>1. TaskFine(t) /\ taskRuns' = taskRuns /\ thread' = thread /\ values' = values
      BY <1>1, <1>2
    <3>2. CASE tracked'[t] = tracked[t]
      BY <3>1, <3>2 DEF TaskFine, Honest, Newest
    <3>3. ASSUME NEW o \in Ops, Gives(o, t), tracked'[t] = op[o].record
          PROVE  TaskFine(t)'
      <4>1. /\ op[o].record.run \in DOMAIN taskRuns[t] /\ op[o].record.run # 0
            /\ Honest(t, op[o].record)
        BY <2>3, <3>3
      <4> QED  BY <3>1, <3>3, <4>1 DEF TaskFine, Honest, Newest
    <3> QED  BY <2>2, <3>2, <3>3
  <2>5. TasksTypeOK'
    BY <1>2, <1>4, <2>1 DEF TaskInv, TasksTypeOK
  <2>6. NewestTracked'
    <3> SUFFICES ASSUME NEW t \in Tasks, tracked'[t].run # 0, t \notin behind'
                 PROVE  tracked'[t].run = Len(taskRuns[t])
      BY <1>2 DEF NewestTracked
    <3>1. t \notin behind /\ \A o \in Ops : Gives(o, t) =>
                                ~ (op[o].record.run > tracked'[t].run)
      BY <2>1
    <3>2. CASE \A o \in Ops : ~Gives(o, t)
      <4>1. tracked'[t] = tracked[t]
        BY <2>2, <3>2
      <4> QED  BY <3>1, <3>2, <4>1 DEF TaskInv, NewestTracked
    <3>3. ASSUME NEW o \in Ops, Gives(o, t), tracked'[t] = op[o].record
          PROVE  tracked'[t].run = Len(taskRuns[t])
      <4>1. /\ tracked'[t].run \in Nat \ {0} /\ tracked'[t].run <= Len(taskRuns[t])
            /\ tracked'[t].run >= tracked[t].run
        BY <2>3, <3>3
      <4>2. CASE tracked[t].run = 0
        <5>1. Len(taskRuns[t]) <= 1
          BY <1>1, <4>2 DEF TaskFine
        <5> QED  BY <1>1, <4>1, <5>1
      <4>3. CASE tracked[t].run # 0
        <5>1. \/ tracked[t].run = Len(taskRuns[t])
              \/ \E p \in Ops : Gives(p, t) /\ op[p].record.run = Len(taskRuns[t])
          BY <3>1, <4>3 DEF TaskInv, NewestTracked
        <5>2. CASE tracked[t].run = Len(taskRuns[t])
          BY <1>1, <4>1, <5>2
        <5>3. ASSUME NEW p \in Ops, Gives(p, t), op[p].record.run = Len(taskRuns[t])
              PROVE  tracked'[t].run = Len(taskRuns[t])
          BY <1>1, <3>1, <4>1, <5>3
        <5> QED  BY <5>1, <5>2, <5>3
      <4> QED  BY <4>2, <4>3
    <3> QED  BY <2>2, <3>2, <3>3
  <2>7. NoStrayThread'
    <3> SUFFICES ASSUME NEW t \in Tasks, thread[t] = "made", t \notin stray
                 PROVE  tracked'[t].run # 0
      BY <1>2, <2>1 DEF NoStrayThread
    <3>1. tracked[t].run # 0 \/ \E o \in Ops : Gives(o, t)
      BY <2>1 DEF TaskInv, NoStrayThread, Gives
    <3>2. ASSUME NEW o \in Ops, Gives(o, t), tracked'[t] = op[o].record
          PROVE  tracked'[t].run # 0
      BY <2>3, <3>2
    <3> QED  BY <2>2, <3>1, <3>2
  <2> QED  BY <1>4, <2>4, <2>5, <2>6, <2>7 DEF TaskInv
<1> QED  BY <1>5, <1>6

LEMMA TasksStep ==
    ASSUME TaskParameters, TaskInv, [TasksNext]_taskVars
    PROVE  TaskInv'
<1>1. CASE UNCHANGED taskVars
  BY <1>1 DEF taskVars, TaskInv, TasksTypeOK, TaskFine, CallFine, Honest, Newest, OneLaunch,
     Launches, NewestTracked, Gives, NoStrayThread
<1>2. CASE Merge \/ Abandon
  BY <1>2, MergeKeeps
<1>3. ASSUME NEW t \in Tasks,
             \/ RunStarts(t) \/ RunWrites(t) \/ ThreadGoes(t)
             \/ \E status \in RunStatuses \ ActiveStatuses : RunEnds(t, status)
      PROVE  TaskInv'
  BY <1>3, ResearchersKeep
<1>4. ASSUME NEW o \in Ops, CreateThread(o) \/ CreateTaskRun(o) \/ CleanUp(o)
      PROVE  TaskInv'
  BY <1>4, LaunchKeeps
<1>5. ASSUME NEW o \in Ops, NEW t \in Tasks,
             \/ Tell(o, t) \/ StartTask(o, t) \/ CheckTask(o, t)
             \/ GetTaskRun(o) \/ GetTaskValues(o)
      PROVE  TaskInv'
  BY <1>5, ReadersKeep
<1>6. ASSUME NEW o \in Ops, NEW t \in Tasks, UpdateTask(o, t) \/ CancelTrackedTask(o, t)
      PROVE  TaskInv'
  BY <1>6, UpdateKeeps, CancelKeeps
<1>7. \E t : t \in Tasks
  BY DEF TaskParameters
<1> QED  BY <1>1, <1>2, <1>3, <1>4, <1>5, <1>6, <1>7 DEF TasksNext

(* A task that the main agent tracks as a success or an error has ended so,*)
(* for any number of tasks, of calls in a step and of runs (_command).     *)
THEOREM TrackedEnds ==
    ASSUME TaskParameters
    PROVE  TasksSpec => []TrackedEndIsTrue
<1>1. TasksInit => TaskInv
  BY TasksStart
<1>2. TaskInv /\ [TasksNext]_taskVars => TaskInv'
  BY TasksStep
<1>3. TaskInv => TrackedEndIsTrue
  BY DEF TaskInv, TaskFine, Honest, Ends, TrackedEndIsTrue
<1> QED  BY <1>1, <1>2, <1>3, PTL DEF TasksSpec

(* The result of a check is that of the run it checked, unless there is a  *)
(* newer one (compact_async_result).                                       *)
THEOREM ChecksAnswerTheirRun ==
    ASSUME TaskParameters
    PROVE  TasksSpec => []ResultOfItsRun
<1>1. TasksInit => TaskInv
  BY TasksStart
<1>2. TaskInv /\ [TasksNext]_taskVars => TaskInv'
  BY TasksStep
<1>3. TaskInv => ResultOfItsRun
  BY DEF TaskInv, CallFine, ResultOfItsRun
<1> QED  BY <1>1, <1>2, <1>3, PTL DEF TasksSpec

(* The newest run of a task is tracked, or about to be, but where an update*)
(* was lost, overtaken or stopped.                                         *)
THEOREM NewestIsTracked ==
    ASSUME TaskParameters
    PROVE  TasksSpec => []NewestTracked
<1>1. TasksInit => TaskInv
  BY TasksStart
<1>2. TaskInv /\ [TasksNext]_taskVars => TaskInv'
  BY TasksStep
<1>3. TaskInv => NewestTracked
  BY DEF TaskInv
<1> QED  BY <1>1, <1>2, <1>3, PTL DEF TasksSpec

(* A researcher Thread is tracked, unless the reply to its creation was    *)
(* lost, its cleanup failed or the step was stopped (_launch_command).     *)
THEOREM ThreadsAreTracked ==
    ASSUME TaskParameters
    PROVE  TasksSpec => []NoStrayThread
<1>1. TasksInit => TaskInv
  BY TasksStart
<1>2. TaskInv /\ [TasksNext]_taskVars => TaskInv'
  BY TasksStep
<1>3. TaskInv => NoStrayThread
  BY DEF TaskInv
<1> QED  BY <1>1, <1>2, <1>3, PTL DEF TasksSpec

================================================================================
