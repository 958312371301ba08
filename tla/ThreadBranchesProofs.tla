-------------------------- MODULE ThreadBranchesProofs -------------------------
(***************************************************************************)
(* What ThreadBranches guarantees for every number of requests, runs and   *)
(* checkpoints. What an edit restarts is found in the history, so the      *)
(* theorems about edits and branches are of Threads whose history holds    *)
(* all of their checkpoints.                                               *)
(***************************************************************************)
EXTENDS ThreadBranches, FiniteSetTheorems, SequenceTheorems, WellFoundedInduction, TLAPS

WholeHistory == MaxCheckpoints <= HistoryLimit

-----------------------------------------------------------------------------
(* A set of natural numbers has a least element, a bounded one a greatest. *)
LEMMA Least ==
    ASSUME NEW S \in SUBSET Nat, S # {}
    PROVE  \E x \in S : \A y \in S : x <= y
<1>1. \E x \in S : \A y \in S : <<y, x>> \notin OpToRel(<, Nat)
  BY WFMin, NatLessThanWellFounded, Zenon
<1>2. \A x, y \in Nat : y < x => <<y, x>> \in OpToRel(<, Nat)
  BY DEF OpToRel
<1>3. \E x \in S : \A y \in S : ~(y < x)
  BY <1>1, <1>2
<1> QED  BY <1>3

LEMMA Greatest ==
    ASSUME NEW n \in Nat, NEW S \in SUBSET (1 .. n), S # {}
    PROVE  \E x \in S : \A y \in S : y <= x
<1> DEFINE T == {n - x : x \in S}
<1>1. T \in SUBSET Nat /\ T # {}
  <2>1. \A x \in S : x \in 1 .. n /\ n - x \in Nat
    OBVIOUS
  <2> QED  BY <2>1
<1>2. PICK t \in T : \A u \in T : t <= u
  <2> HIDE DEF T
  <2> QED  BY <1>1, Least
<1>3. PICK x \in S : t = n - x
  BY <1>2
<1>4. \A y \in S : n - y \in T
  OBVIOUS
<1>5. \A y \in S : y \in 1 .. n /\ x \in 1 .. n /\ n - x <= n - y
  <2> HIDE DEF T
  <2> QED  BY <1>2, <1>3, <1>4
<1>6. \A y \in S : y <= x
  BY <1>5
<1> QED  BY <1>6

-----------------------------------------------------------------------------
(* The indices of the checkpoints and runs that are spoken of exist.       *)
TypeInv ==
    /\ TypeOK
    /\ \A c \in DOMAIN states : states[c].parent < c /\ states[c].run <= Len(runs)
    /\ \A r \in DOMAIN runs : runs[r].base <= Len(states) /\ runs[r].at <= Len(states)
    /\ \A q \in Requests :
          LET l == request[q]
          IN  /\ l.base <= Len(states) /\ l.branch <= Len(states)
              /\ l.step = "forking" => l.base # 0 /\ l.branch # 0 /\ Questions(l.branch) # {}

LEMMA Kinds ==
    ASSUME TypeInv
    PROVE  /\ states \in Seq(States) /\ Len(states) \in Nat /\ Len(states) <= MaxCheckpoints
           /\ DOMAIN states = 1 .. Len(states)
           /\ runs \in Seq(Runs) /\ Len(runs) \in Nat /\ Len(runs) <= MaxRuns
           /\ DOMAIN runs = 1 .. Len(runs)
           /\ MaxRuns \in Nat /\ MaxCheckpoints \in Nat /\ HistoryLimit \in Nat
           /\ \A c \in DOMAIN states :
                 /\ states[c] \in States /\ states[c].messages \in Seq(Messages)
                 /\ states[c].parent \in 0 .. c - 1 /\ states[c].run \in 0 .. Len(runs)
           /\ \A r \in DOMAIN runs :
                 /\ runs[r] \in Runs
                 /\ runs[r].base \in 0 .. Len(states) /\ runs[r].at \in 0 .. Len(states)
           /\ \A q \in Requests : request[q] \in Locals
<1>1. TypeOK /\ Bounds
  BY Bounds DEF TypeInv
<1>2. /\ states \in Seq(States) /\ Len(states) \in Nat /\ Len(states) <= MaxCheckpoints
      /\ DOMAIN states = 1 .. Len(states)
      /\ runs \in Seq(Runs) /\ Len(runs) \in Nat /\ Len(runs) <= MaxRuns
      /\ DOMAIN runs = 1 .. Len(runs)
      /\ \A q \in Requests : request[q] \in Locals
  BY <1>1, LenProperties DEF TypeOK
<1>3. \A c \in DOMAIN states : states[c] \in States
  BY <1>2, ElementOfSeq
<1>4. \A r \in DOMAIN runs : runs[r] \in Runs
  BY <1>2, ElementOfSeq
<1>5. \A c \in DOMAIN states :
          /\ states[c].messages \in Seq(Messages)
          /\ states[c].parent \in 0 .. c - 1 /\ states[c].run \in 0 .. Len(runs)
  BY <1>1, <1>2, <1>3 DEF TypeInv, States, Checkpoints, RunIds, Bounds
<1>6. \A r \in DOMAIN runs :
          runs[r].base \in 0 .. Len(states) /\ runs[r].at \in 0 .. Len(states)
  BY <1>1, <1>2, <1>4 DEF TypeInv, Runs, Checkpoints, Bounds
<1> QED  BY <1>1, <1>2, <1>3, <1>4, <1>5, <1>6 DEF Bounds

(* The messages of a checkpoint, and the last question among them.         *)
LEMMA MessagesKinds ==
    ASSUME TypeInv, NEW c \in DOMAIN states
    PROVE  /\ Len(states[c].messages) \in Nat
           /\ DOMAIN states[c].messages = 1 .. Len(states[c].messages)
           /\ Questions(c) \subseteq 1 .. Len(states[c].messages)
           /\ \A i \in DOMAIN states[c].messages : states[c].messages[i] \in Messages
<1>1. states[c].messages \in Seq(Messages)
  BY Kinds
<1> QED  BY <1>1, LenProperties, ElementOfSeq DEF Questions

LEMMA LatestIs ==
    ASSUME TypeInv, NEW c \in DOMAIN states, Questions(c) # {}
    PROVE  /\ LatestPlace(c) \in Questions(c) /\ \A j \in Questions(c) : j <= LatestPlace(c)
           /\ LatestQuestion(c) \in Messages /\ LatestQuestion(c).role = "user"
<1>1. \E i \in Questions(c) : \A j \in Questions(c) : j <= i
  BY MessagesKinds, Greatest
<1>2. LatestPlace(c) \in Questions(c) /\ \A j \in Questions(c) : j <= LatestPlace(c)
  BY <1>1 DEF LatestPlace
<1> QED  BY <1>2, MessagesKinds DEF LatestQuestion, Questions

(* A chain holds the selected checkpoint and the parents of its members.   *)
LEMMA ChainIs ==
    ASSUME NEW h, NEW selected \in h
    PROVE  /\ BranchChain(h, selected) \subseteq h /\ selected \in BranchChain(h, selected)
           /\ \A d \in BranchChain(h, selected) :
                 states[d].parent \in h => states[d].parent \in BranchChain(h, selected)
BY DEF BranchChain

(* The checkpoint to fork is the first of the branch that has its latest   *)
(* question.                                                               *)
LEMMA EditSourceIs ==
    ASSUME TypeInv, NEW h \in SUBSET DOMAIN states, NEW selected \in h, Questions(selected) # {}
    PROVE  /\ EditSource(h, selected) \in Holders(h, selected)
           /\ \A d \in Holders(h, selected) : EditSource(h, selected) <= d
           /\ Holders(h, selected) \subseteq h
<1>1. selected \in Holders(h, selected) /\ Holders(h, selected) \subseteq h
  BY LatestIs, ChainIs DEF Holders, Asks, LatestQuestion
<1>2. Holders(h, selected) \in SUBSET Nat
  BY <1>1, Kinds
<1>3. \E c \in Holders(h, selected) : \A d \in Holders(h, selected) : c <= d
  BY <1>1, <1>2, Least
<1> QED  BY <1>1, <1>3 DEF EditSource

-----------------------------------------------------------------------------
(* What each action does to the checkpoints, the runs and the requests.    *)
Appended(new) ==
    /\ new \in States /\ new.parent \in 0 .. Len(states)
    /\ states' \in Seq(States) /\ Len(states') = Len(states) + 1
    /\ Len(states') <= MaxCheckpoints /\ DOMAIN states' = 1 .. Len(states) + 1
    /\ states'[Len(states) + 1] = new
    /\ \A c \in DOMAIN states : states'[c] = states[c]

LEMMA WriteAppends ==
    ASSUME TypeInv, NEW new \in States, new.parent \in 0 .. Len(states),
           states' = Append(states, new), Len(states) < MaxCheckpoints
    PROVE  Appended(new)
BY Kinds, AppendProperties, LenProperties DEF Appended

LEMMA MessagesOfKinds ==
    ASSUME TypeInv, NEW c \in 0 .. Len(states)
    PROVE  MessagesOf(c) \in Seq(Messages)
BY Kinds DEF MessagesOf

LEMMA SaidKinds ==
    ASSUME TypeInv, Len(states) < MaxCheckpoints, NEW role \in {"user", "assistant"},
           NEW id \in RunIds
    PROVE  /\ Said(role, id) \in Messages
           /\ Said(role, id).role = role /\ Said(role, id).id = id
           /\ Said(role, id).text = Len(states) + 1
BY Kinds DEF Said, Messages, Checkpoints

(* A run r goes on, or ends.                                               *)
RunGoes(r, new) ==
    /\ new \in Runs /\ runs' \in Seq(Runs) /\ Len(runs') = Len(runs)
    /\ DOMAIN runs' = DOMAIN runs
    /\ runs'[r] = new /\ \A s \in DOMAIN runs \ {r} : runs'[s] = runs[s]
    /\ new.input = runs[r].input /\ new.files = runs[r].files /\ new.base = runs[r].base
    /\ new.parent = runs[r].parent /\ new.status # "pending"

LEMMA RunChanges ==
    ASSUME TypeInv, NEW r \in DOMAIN runs, NEW new \in Runs, runs' = [runs EXCEPT ![r] = new],
           new.input = runs[r].input, new.files = runs[r].files, new.base = runs[r].base,
           new.parent = runs[r].parent, new.status # "pending"
    PROVE  RunGoes(r, new)
<1>1. runs' \in Seq(Runs) /\ Len(runs') = Len(runs)
  BY Kinds, ExceptSeq
<1> QED  BY <1>1, Kinds, LenProperties DEF RunGoes

(* A run is enqueued; those before it may be stopped.                      *)
RunAdded(new) ==
    /\ new \in Runs /\ runs' \in Seq(Runs) /\ Len(runs') = Len(runs) + 1
    /\ Len(runs') <= MaxRuns /\ DOMAIN runs' = 1 .. Len(runs) + 1
    /\ runs'[Len(runs) + 1] = new
    /\ \A r \in DOMAIN runs :
          /\ runs'[r].input = runs[r].input /\ runs'[r].files = runs[r].files
          /\ runs'[r].base = runs[r].base /\ runs'[r].at \in {0, runs[r].at}
          /\ runs'[r].parent = runs[r].parent /\ runs'[r].asks = runs[r].asks
          /\ \/ runs'[r].status = runs[r].status /\ runs'[r].at = runs[r].at
             \/ runs'[r].status = "interrupted"

LEMMA StartRunDoes ==
    ASSUME TypeInv, NEW r \in DOMAIN runs, StartRun(r)
    PROVE  /\ request' = request /\ runs[r].status = "pending"
           /\ r \in Active /\ \A s \in Active : r <= s /\ runs[s].status = "pending"
           /\ \E new : /\ RunGoes(r, new) /\ new.at <= Len(states') /\ new.status = "running"
                       /\ IF runs[r].input
                          THEN new.at = Len(states) + 1 /\ new.asks = Len(states) + 1
                          ELSE /\ new.asks = runs[r].asks
                               /\ runs[r].base # 0 => new.at = runs[r].base
           /\ IF runs[r].input
              THEN \E c : /\ Appended(c) /\ c.run = r /\ c.source = "input"
                          /\ c.messages = Append(MessagesOf(c.parent), Said("user", r))
              ELSE states' = states
<1> DEFINE base == IF runs[r].base = 0 THEN Newest ELSE runs[r].base
<1>1. base \in 0 .. Len(states)
  BY Kinds DEF Newest
<1>2. /\ r \in RunIds /\ runs[r] \in Runs /\ runs[r].status = "pending" /\ request' = request
      /\ r \in Active /\ \A s \in Active : r <= s /\ runs[s].status = "pending"
  BY Kinds DEF StartRun, Active, RunIds
<1>3. CASE runs[r].input
  <2>1. /\ Write(base, r, "input", Append(MessagesOf(base), Said("user", r)), FALSE)
        /\ runs' = [runs EXCEPT ![r].status = "running", ![r].at = Newest + 1,
                                ![r].asks = Newest + 1]
    BY <1>3 DEF StartRun
  <2>2. Append(MessagesOf(base), Said("user", r)) \in Seq(Messages)
    BY <1>1, <1>2, <2>1, MessagesOfKinds, SaidKinds, AppendProperties DEF Write
  <2> DEFINE messages == Append(MessagesOf(base), Said("user", r))
  <2> HIDE DEF base, messages
  <2>3. PICK c : c = [parent |-> base, run |-> r, source |-> "input",
                      messages |-> messages, interrupts |-> FALSE]
    OBVIOUS
  <2>9. /\ c.parent = base /\ c.run = r /\ c.source = "input" /\ c.messages = messages
        /\ Appended(c)
    <3>1. states' = Append(states, c) /\ Len(states) < MaxCheckpoints
      BY <2>1, <2>3 DEF messages, Write
    <3>2. messages \in Seq(Messages) /\ base \in {0} \cup Checkpoints /\ r \in {0} \cup RunIds
      BY <1>1, <1>2, <2>2, Kinds DEF messages, Checkpoints
    <3>3. c \in States /\ c.parent = base /\ c.run = r /\ c.source = "input"
          /\ c.messages = messages
      BY <2>3, <3>2 DEF States
    <3> QED  BY <1>1, <3>1, <3>3, WriteAppends
  <2>4. PICK new : new = [runs[r] EXCEPT !.status = "running", !.at = Newest + 1,
                                         !.asks = Newest + 1]
    OBVIOUS
  <2>5. Newest + 1 \in Checkpoints /\ Newest + 1 <= Len(states')
    BY <2>9, Kinds DEF Appended, Newest, Checkpoints
  <2>6. /\ new \in Runs /\ new.input = runs[r].input /\ new.files = runs[r].files
        /\ new.base = runs[r].base /\ new.status = "running" /\ new.at = Newest + 1
        /\ new.asks = Newest + 1 /\ new.parent = runs[r].parent
    BY <1>2, <2>4, <2>5 DEF Runs
  <2>7. runs' = [runs EXCEPT ![r] = new]
    BY <1>2, <2>1, <2>4, Kinds
  <2>8. RunGoes(r, new)
    BY <2>6, <2>7, RunChanges
  <2> QED  BY <1>2, <1>3, <2>5, <2>6, <2>8, <2>9 DEF messages, Newest
<1>4. CASE ~runs[r].input
  <2>1. runs' = [runs EXCEPT ![r].status = "running", ![r].at = base] /\ states' = states
    BY <1>4 DEF StartRun
  <2> HIDE DEF base
  <2>2. PICK new : new = [runs[r] EXCEPT !.status = "running", !.at = base]
    OBVIOUS
  <2>3. base \in {0} \cup Checkpoints
    BY <1>1, Kinds DEF Checkpoints
  <2>4. /\ new \in Runs /\ new.input = runs[r].input /\ new.files = runs[r].files
        /\ new.base = runs[r].base /\ new.status = "running" /\ new.at = base
        /\ new.asks = runs[r].asks /\ new.parent = runs[r].parent
    BY <1>2, <2>2, <2>3 DEF Runs
  <2>5. runs' = [runs EXCEPT ![r] = new]
    BY <1>2, <2>1, <2>2, Kinds
  <2>6. RunGoes(r, new)
    BY <2>4, <2>5, RunChanges
  <2> QED  BY <1>1, <1>2, <1>4, <2>1, <2>4, <2>6 DEF base
<1> QED  BY <1>3, <1>4

LEMMA ReachDoes ==
    ASSUME TypeInv, NEW r \in DOMAIN runs, AnswerRun(r) \/ PauseRun(r)
    PROVE  /\ request' = request /\ runs[r].status = "running"
           /\ \E new : /\ RunGoes(r, new) /\ new.at = 0
                       /\ new.status = "success" /\ new.asks = runs[r].asks
           /\ \E c : /\ Appended(c) /\ c.run = r /\ c.source = "loop" /\ c.parent = runs[r].at
                     /\ \/ c.messages = MessagesOf(c.parent)
                        \/ c.messages = Append(MessagesOf(c.parent), Said("assistant", r))
<1> DEFINE at == runs[r].at
           messages == IF AnswerRun(r) THEN Append(MessagesOf(at), Said("assistant", r))
                       ELSE MessagesOf(at)
<1>1. PICK interrupts \in BOOLEAN : Reach(r, messages, interrupts)
  BY DEF AnswerRun, PauseRun
<1>2. /\ r \in RunIds /\ runs[r] \in Runs /\ at \in 0 .. Len(states) /\ request' = request
      /\ Write(at, r, "loop", messages, interrupts) /\ Len(states) < MaxCheckpoints
      /\ runs[r].status = "running"
  BY <1>1, Kinds DEF Reach, RunIds, Write
<1>3. messages \in Seq(Messages)
  BY <1>2, MessagesOfKinds, SaidKinds, AppendProperties
<1>4. \/ messages = MessagesOf(at)
      \/ messages = Append(MessagesOf(at), Said("assistant", r))
  OBVIOUS
<1> HIDE DEF messages
<1>5. PICK c : c = [parent |-> at, run |-> r, source |-> "loop",
                    messages |-> messages, interrupts |-> interrupts]
  OBVIOUS
<1>10. /\ Appended(c) /\ c.parent = at /\ c.run = r /\ c.source = "loop"
       /\ c.messages = messages
  <2>1. states' = Append(states, c)
    BY <1>2, <1>5 DEF Write
  <2>2. at \in {0} \cup Checkpoints /\ r \in {0} \cup RunIds
    BY <1>2, Kinds DEF Checkpoints
  <2>3. c \in States /\ c.parent = at /\ c.run = r /\ c.source = "loop"
        /\ c.messages = messages
    BY <1>3, <1>5, <2>2 DEF States
  <2> QED  BY <1>2, <2>1, <2>3, WriteAppends
<1>6. PICK new : new = [runs[r] EXCEPT !.status = "success", !.at = 0]
  OBVIOUS
<1>7. /\ new \in Runs /\ new.input = runs[r].input /\ new.files = runs[r].files
      /\ new.base = runs[r].base /\ new.status = "success" /\ new.at = 0
      /\ new.asks = runs[r].asks /\ new.parent = runs[r].parent
  BY <1>2, <1>6 DEF Runs
<1>8. runs' = [runs EXCEPT ![r] = new]
  BY <1>1, <1>2, <1>6, Kinds DEF Reach
<1>9. RunGoes(r, new)
  BY <1>7, <1>8, RunChanges
<1> QED  BY <1>2, <1>4, <1>7, <1>9, <1>10

LEMMA EndRunDoes ==
    ASSUME TypeInv, NEW r \in DOMAIN runs, EndRun(r)
    PROVE  /\ UNCHANGED <<states, request>>
           /\ \E new : /\ RunGoes(r, new) /\ new.at = 0 /\ new.asks = runs[r].asks
                       /\ new.status \in {"error", "interrupted"}
<1>1. PICK end \in {"error", "interrupted"} :
          runs' = [runs EXCEPT ![r].status = end, ![r].at = 0]
  BY DEF EndRun
<1>2. PICK new : new = [runs[r] EXCEPT !.status = end, !.at = 0]
  OBVIOUS
<1>3. /\ new \in Runs /\ new.input = runs[r].input /\ new.files = runs[r].files
      /\ new.base = runs[r].base /\ new.status = end /\ new.at = 0
      /\ new.asks = runs[r].asks /\ new.parent = runs[r].parent
  BY <1>2, Kinds DEF Runs
<1>4. runs' = [runs EXCEPT ![r] = new]
  BY <1>1, <1>2, Kinds
<1>5. RunGoes(r, new)
  BY <1>3, <1>4, RunChanges
<1> QED  BY <1>3, <1>5 DEF EndRun

LEMMA ResumeRunDoes ==
    ASSUME TypeInv, NEW r \in DOMAIN runs, ResumeRun(r)
    PROVE  /\ UNCHANGED <<states, request>>
           /\ \E new : /\ RunAdded(new) /\ new.base = 0 /\ new.at = 0 /\ ~new.input
                       /\ new.parent # 0 /\ new.asks = 0 /\ new.status = "pending"
<1>1. PICK new : new = [status |-> "pending", parent |-> r, base |-> 0,
                        input |-> FALSE, at |-> 0, asks |-> 0, files |-> 0]
  OBVIOUS
<1>2. r \in RunIds /\ r # 0
  BY Kinds DEF RunIds
<1>3. /\ new \in Runs /\ new.base = 0 /\ new.at = 0 /\ new.input = FALSE
      /\ new.parent # 0 /\ new.asks = 0 /\ new.status = "pending"
  BY <1>1, <1>2 DEF Runs
<1>4. runs' = Append(runs, new) /\ Len(runs) < MaxRuns
  BY <1>1 DEF ResumeRun
<1>5. RunAdded(new)
  BY <1>3, <1>4, Kinds, AppendProperties, LenProperties DEF RunAdded
<1> QED  BY <1>3, <1>5 DEF ResumeRun

LEMMA CreateDoes ==
    ASSUME TypeInv, NEW q \in Requests, Create(q)
    PROVE  /\ states' = states /\ request[q].step = "creating"
           /\ request' = [request EXCEPT ![q] = Idle]
           /\ \E new : /\ RunAdded(new) /\ new.base = request[q].base /\ new.at = 0
                       /\ new.input = ~request[q].edit /\ new.status = "pending"
                       /\ new.files = IF request[q].files # 0 THEN request[q].files
                                      ELSE Len(runs) + 1
                       /\ new.parent = 0
                       /\ new.asks = IF request[q].edit THEN request[q].base ELSE 0
<1> DEFINE l == request[q]
           stopped(r) == IF r \in Active THEN [runs[r] EXCEPT !.status = "interrupted", !.at = 0]
                         ELSE runs[r]
           old == [r \in DOMAIN runs |-> stopped(r)]
<1>1. l \in Locals /\ Len(runs) < MaxRuns /\ Len(runs) + 1 \in RunIds
  <2>1. Len(runs) < MaxRuns
    BY DEF Create
  <2> HIDE DEF old
  <2> QED  BY <2>1, Kinds DEF RunIds
<1>2. PICK files : files = IF l.files # 0 THEN l.files ELSE Len(runs) + 1
  OBVIOUS
<1>11. PICK asks : asks = IF l.edit THEN l.base ELSE 0
  OBVIOUS
<1>3. PICK new : new = [status |-> "pending", parent |-> 0, base |-> l.base,
                        input |-> ~l.edit, at |-> 0, files |-> files, asks |-> asks]
  OBVIOUS
<1>4. /\ new \in Runs /\ new.base = l.base /\ new.at = 0 /\ new.input = ~l.edit
      /\ new.files = files /\ new.status = "pending" /\ new.parent = 0 /\ new.asks = asks
  BY <1>1, <1>2, <1>3, <1>11 DEF Runs, Locals
<1>5. runs' = Append(runs, new) \/ runs' = Append(old, new)
  BY <1>2, <1>3, <1>11 DEF Create
<1>6. /\ old \in Seq(Runs) /\ Len(old) = Len(runs)
      /\ \A r \in DOMAIN runs :
            /\ old[r].input = runs[r].input /\ old[r].files = runs[r].files
            /\ old[r].base = runs[r].base /\ old[r].at \in {0, runs[r].at}
            /\ old[r].parent = runs[r].parent /\ old[r].asks = runs[r].asks
            /\ \/ old[r].status = runs[r].status /\ old[r].at = runs[r].at
               \/ old[r].status = "interrupted"
  <2>1. \A r \in DOMAIN runs :
            /\ stopped(r) \in Runs
            /\ stopped(r).input = runs[r].input /\ stopped(r).files = runs[r].files
            /\ stopped(r).base = runs[r].base /\ stopped(r).at \in {0, runs[r].at}
            /\ stopped(r).parent = runs[r].parent /\ stopped(r).asks = runs[r].asks
            /\ \/ stopped(r).status = runs[r].status /\ stopped(r).at = runs[r].at
               \/ stopped(r).status = "interrupted"
    BY Kinds DEF Runs
  <2> HIDE DEF stopped
  <2>2. old \in [1 .. Len(runs) -> Runs]
    BY <2>1, Kinds
  <2> QED  BY <2>1, <2>2, Kinds, IsASeq, LenProperties
<1> HIDE DEF old
<1>7. RunAdded(new)
  <2>1. CASE runs' = Append(runs, new)
    BY <1>1, <1>4, <2>1, Kinds, AppendProperties, LenProperties DEF RunAdded
  <2>2. CASE runs' = Append(old, new)
    BY <1>1, <1>4, <1>6, <2>2, Kinds, AppendProperties, LenProperties DEF RunAdded
  <2> QED  BY <1>5, <2>1, <2>2
<1> QED  BY <1>2, <1>4, <1>7, <1>11 DEF Create, Go

(* A request that chooses where its run starts, ends, or fails.            *)
RequestGoes(q, l) ==
    /\ l \in Locals /\ request' \in [Requests -> Locals]
    /\ request'[q] = l /\ \A p \in Requests \ {q} : request'[p] = request[p]

LEMMA GoDoes ==
    ASSUME TypeInv, NEW q \in Requests, NEW l \in Locals, request' = [request EXCEPT ![q] = l]
    PROVE  RequestGoes(q, l)
BY DEF TypeInv, TypeOK, RequestGoes

LEMMA IdleIs == Idle \in Locals /\ Idle.step = "idle" /\ Idle.base = 0 /\ Idle.branch = 0
BY DEF Idle, Locals

LEMMA HistoryIs ==
    ASSUME TypeInv
    PROVE  History \in SUBSET DOMAIN states /\ LeafIds(History) \subseteq History
BY DEF History, LeafIds

LEMMA ChooseDoes ==
    ASSUME TypeInv, NEW q \in Requests,
           Continue(q) \/ \E branch \in DOMAIN states : ContinueBranch(q, branch)
    PROVE  /\ UNCHANGED <<states, runs>>
           /\ \E l : /\ RequestGoes(q, l) /\ l.step = "creating" /\ ~l.edit /\ l.files = 0
                     /\ l.base <= Len(states) /\ l.branch <= Len(states)
<1>1. CASE Continue(q)
  <2>1. PICK l : l = [Idle EXCEPT !.step = "creating"]
    OBVIOUS
  <2>2. /\ l \in Locals /\ l.step = "creating" /\ l.edit = FALSE /\ l.files = 0
        /\ l.base = 0 /\ l.branch = 0
    BY <2>1 DEF Idle, Locals
  <2>3. request' = [request EXCEPT ![q] = l] /\ UNCHANGED <<states, runs>>
    BY <1>1, <2>1 DEF Continue, Go
  <2>4. RequestGoes(q, l) /\ Len(states) \in Nat
    BY <2>2, <2>3, GoDoes, Kinds
  <2> QED  BY <2>2, <2>3, <2>4
<1>2. ASSUME NEW branch \in DOMAIN states, ContinueBranch(q, branch)
      PROVE  /\ UNCHANGED <<states, runs>>
             /\ \E l : /\ RequestGoes(q, l) /\ l.step = "creating" /\ ~l.edit /\ l.files = 0
                       /\ l.base <= Len(states) /\ l.branch <= Len(states)
  <2>1. PICK l : l = [step |-> "creating", branch |-> branch, edit |-> FALSE,
                      files |-> 0, base |-> branch]
    OBVIOUS
  <2>2. branch \in Checkpoints /\ branch <= Len(states)
    BY Kinds DEF Checkpoints
  <2>3. /\ l \in Locals /\ l.step = "creating" /\ l.edit = FALSE /\ l.files = 0
        /\ l.base = branch /\ l.branch = branch
    BY <2>1, <2>2 DEF Locals
  <2> QED  BY <1>2, <2>1, <2>2, <2>3, GoDoes DEF ContinueBranch, Go
<1> QED  BY <1>1, <1>2

LEMMA EditBranchDoes ==
    ASSUME TypeInv, NEW q \in Requests, NEW branch \in DOMAIN states, EditBranch(q, branch)
    PROVE  /\ UNCHANGED <<states, runs>>
           /\ branch \in LeafIds(History) /\ Questions(branch) # {}
           /\ EditSource(History, branch) \in DOMAIN states
           /\ \E l : /\ RequestGoes(q, l) /\ l.step = "forking" /\ l.branch = branch
                     /\ l.edit = TRUE /\ l.base = EditSource(History, branch)
                     /\ l.files = IF SourceRun(History, branch) = 0 THEN 0
                                  ELSE runs[SourceRun(History, branch)].files
<1>1. /\ branch \in LeafIds(History) /\ Questions(branch) # {}
      /\ UNCHANGED <<states, runs>>
  BY DEF EditBranch
<1>2. EditSource(History, branch) \in DOMAIN states
  BY <1>1, HistoryIs, EditSourceIs
<1> DEFINE source == SourceRun(History, branch)
<1>3. source = 0 \/ (source \in DOMAIN runs /\ runs[source] \in Runs)
  BY <1>2, Kinds DEF SourceRun
<1>4. PICK files \in {0} \cup RunIds :
          files = IF source = 0 THEN 0 ELSE runs[source].files
  BY <1>3 DEF Runs
<1>5. PICK l : l = [step |-> "forking", branch |-> branch, edit |-> TRUE,
                    files |-> files, base |-> EditSource(History, branch)]
  OBVIOUS
<1>6. branch \in Checkpoints /\ EditSource(History, branch) \in Checkpoints
  BY <1>2, Kinds DEF Checkpoints
<1>7. /\ l \in Locals /\ l.step = "forking" /\ l.branch = branch
      /\ l.edit = TRUE /\ l.base = EditSource(History, branch) /\ l.files = files
  BY <1>5, <1>6 DEF Locals
<1>8. request' = [request EXCEPT ![q] = l]
  BY <1>4, <1>5 DEF EditBranch, Go
<1> QED  BY <1>1, <1>2, <1>4, <1>7, <1>8, GoDoes

(* The fork has the messages of its base, the question in a new wording.   *)
Reworded(new, old, id) ==
    /\ Len(new) = Len(old)
    /\ \A i \in 1 .. Len(old) :
          new[i] = IF old[i].role = "user" /\ old[i].id = id THEN Said("user", id) ELSE old[i]

LEMMA ForkDoes ==
    ASSUME TypeInv, NEW q \in Requests, Fork(q)
    PROVE  /\ runs' = runs /\ request[q].step = "forking"
           /\ request[q].base \in DOMAIN states
           /\ \E l : /\ RequestGoes(q, l)
                     /\ \/ /\ l.step = "creating" /\ l.edit = request[q].edit
                           /\ l.files = request[q].files /\ l.branch = request[q].branch
                           /\ l.base = Len(states) + 1
                        \/ l = Idle
           /\ \E c : /\ Appended(c) /\ c.parent = request[q].base /\ c.run = 0
                     /\ c.source = "update"
                     /\ Reworded(c.messages, states[request[q].base].messages,
                                 LatestQuestion(request[q].branch).id)
<1> DEFINE l == request[q]
           old == states[l.base].messages
           id == LatestQuestion(l.branch).id
           reworded(m) == IF m.role = "user" /\ m.id = id THEN Said("user", id) ELSE m
           messages == [i \in DOMAIN old |-> reworded(old[i])]
<1>1. /\ l \in Locals /\ l.step = "forking" /\ l.base \in DOMAIN states
      /\ l.branch \in DOMAIN states /\ Questions(l.branch) # {} /\ runs' = runs
      /\ Len(states) < MaxCheckpoints
  BY Kinds DEF Fork, TypeInv, Write, Locals, Checkpoints
<1>2. /\ old \in Seq(Messages) /\ Len(old) \in Nat /\ DOMAIN old = 1 .. Len(old)
      /\ \A i \in 1 .. Len(old) : old[i] \in Messages
  BY <1>1, Kinds, MessagesKinds
<1>3. id \in RunIds
  BY <1>1, LatestIs DEF Messages
<1>4. Said("user", id) \in Messages
  BY <1>1, <1>3, SaidKinds
<1>5. \A i \in 1 .. Len(old) : reworded(old[i]) \in Messages
  BY <1>2, <1>4
<1>6. /\ messages \in [1 .. Len(old) -> Messages]
      /\ \A i \in 1 .. Len(old) : messages[i] = reworded(old[i])
  <2> HIDE DEF reworded, old
  <2> QED  BY <1>2, <1>5
<1>7. messages \in Seq(Messages) /\ Len(messages) = Len(old)
  <2> HIDE DEF messages
  <2> QED  BY <1>2, <1>6, IsASeq, LenProperties
<1>8. PICK c : c = [parent |-> l.base, run |-> 0, source |-> "update",
                    messages |-> messages, interrupts |-> FALSE]
  OBVIOUS
<1>9. states' = Append(states, c)
  BY <1>8 DEF Fork, Write
<1>10. c \in States /\ c.parent = l.base /\ c.run = 0 /\ c.source = "update"
       /\ c.messages = messages
  <2> HIDE DEF messages
  <2> QED  BY <1>1, <1>7, <1>8 DEF States, Locals
<1>11. Appended(c)
  BY <1>1, <1>9, <1>10, Kinds, WriteAppends
<1>12. \E m : /\ RequestGoes(q, m)
              /\ \/ /\ m.step = "creating" /\ m.edit = l.edit /\ m.files = l.files
                    /\ m.branch = l.branch /\ m.base = Len(states) + 1
                 \/ m = Idle
  <2>1. CASE Go(q, [l EXCEPT !.step = "creating", !.base = Newest + 1])
    <3>1. PICK m : m = [l EXCEPT !.step = "creating", !.base = Newest + 1]
      OBVIOUS
    <3>2. Newest + 1 \in Checkpoints /\ Newest + 1 = Len(states) + 1
      BY <1>1, Kinds DEF Newest, Checkpoints
    <3>3. /\ m \in Locals /\ m.step = "creating" /\ m.edit = l.edit /\ m.files = l.files
          /\ m.branch = l.branch /\ m.base = Len(states) + 1
      BY <1>1, <3>1, <3>2 DEF Locals
    <3> QED  BY <2>1, <3>1, <3>3, GoDoes DEF Go
  <2>2. CASE Go(q, Idle)
    BY <2>2, IdleIs, GoDoes DEF Go
  <2> QED  BY <2>1, <2>2 DEF Fork
<1>13. Reworded(messages, old, id)
  <2> HIDE DEF messages
  <2> QED  BY <1>6, <1>7 DEF Reworded
<1> HIDE DEF messages
<1> QED  BY <1>1, <1>10, <1>11, <1>12, <1>13


-----------------------------------------------------------------------------
(* The types, part by part.                                                *)
StatesTyped ==
    /\ states \in Seq(States) /\ Len(states) <= MaxCheckpoints
    /\ \A c \in DOMAIN states : states[c].parent < c /\ states[c].run <= Len(runs)

RunsTyped ==
    /\ runs \in Seq(Runs) /\ Len(runs) <= MaxRuns
    /\ \A r \in DOMAIN runs : runs[r].base <= Len(states) /\ runs[r].at <= Len(states)

RequestTyped(q) ==
    LET l == request[q]
    IN  /\ l.base <= Len(states) /\ l.branch <= Len(states)
        /\ l.step = "forking" => l.base # 0 /\ l.branch # 0 /\ Questions(l.branch) # {}

LEMMA TypeParts ==
    TypeInv <=> /\ StatesTyped /\ RunsTyped
                /\ request \in [Requests -> Locals] /\ \A q \in Requests : RequestTyped(q)
BY DEF TypeInv, TypeOK, StatesTyped, RunsTyped, RequestTyped

(* Checkpoints are only ever added.                                        *)
Grown ==
    /\ Len(states') \in Nat /\ Len(states) <= Len(states')
    /\ \A c \in DOMAIN states :
          /\ c \in DOMAIN states' /\ states'[c] = states[c]
          /\ Questions(c)' = Questions(c)

LEMMA Grows ==
    ASSUME TypeInv, states' = states \/ \E c : Appended(c)
    PROVE  Grown
BY Kinds DEF Appended, Grown, Questions

LEMMA StatesStep ==
    ASSUME TypeInv, Len(runs) <= Len(runs'), Len(runs') \in Nat,
           states' = states \/ \E c : Appended(c) /\ c.run \in 0 .. Len(runs)
    PROVE  StatesTyped'
<1>1. CASE states' = states
  BY <1>1, Kinds DEF StatesTyped
<1>2. ASSUME NEW c, Appended(c), c.run \in 0 .. Len(runs)
      PROVE  StatesTyped'
  BY <1>2, Kinds DEF StatesTyped, Appended
<1> QED  BY <1>1, <1>2

LEMMA RunsStep ==
    ASSUME TypeInv, Grown,
           \/ runs' = runs
           \/ \E r \in DOMAIN runs : \E new : RunGoes(r, new) /\ new.at <= Len(states')
           \/ \E new : RunAdded(new) /\ new.base <= Len(states) /\ new.at = 0
    PROVE  RunsTyped' /\ Len(runs) <= Len(runs') /\ Len(runs') \in Nat
<1>1. CASE runs' = runs
  BY <1>1, Kinds DEF RunsTyped, Grown
<1>2. ASSUME NEW r \in DOMAIN runs, NEW new, RunGoes(r, new), new.at <= Len(states')
      PROVE  RunsTyped' /\ Len(runs) <= Len(runs') /\ Len(runs') \in Nat
  <2>1. \A s \in DOMAIN runs' : runs'[s].base <= Len(states') /\ runs'[s].at <= Len(states')
    <3>1. \A s \in DOMAIN runs \ {r} : runs'[s] = runs[s]
      BY <1>2 DEF RunGoes
    <3>2. runs'[r] = new /\ new.base = runs[r].base /\ DOMAIN runs' = DOMAIN runs
      BY <1>2 DEF RunGoes
    <3>3. /\ \A s \in DOMAIN runs : runs[s].base <= Len(states') /\ runs[s].at <= Len(states')
      BY Kinds DEF Grown
    <3> QED  BY <1>2, <3>1, <3>2, <3>3
  <2> QED  BY <1>2, <2>1, Kinds DEF RunsTyped, RunGoes
<1>3. ASSUME NEW new, RunAdded(new), new.base <= Len(states), new.at = 0
      PROVE  RunsTyped' /\ Len(runs) <= Len(runs') /\ Len(runs') \in Nat
  <2>1. \A s \in DOMAIN runs' : runs'[s].base <= Len(states') /\ runs'[s].at <= Len(states')
    <3>1. ASSUME NEW s \in DOMAIN runs
          PROVE  runs'[s].base <= Len(states') /\ runs'[s].at <= Len(states')
      <4>1. /\ runs'[s].base = runs[s].base /\ runs'[s].at \in {0, runs[s].at}
            /\ runs[s].base \in 0 .. Len(states) /\ runs[s].at \in 0 .. Len(states)
        BY <1>3, Kinds DEF RunAdded
      <4> QED  BY <4>1, Kinds DEF Grown
    <3>2. new.base <= Len(states') /\ new.at <= Len(states')
      BY <1>3, Kinds DEF RunAdded, Runs, Grown, Checkpoints
    <3> QED  BY <1>3, <3>1, <3>2, Kinds DEF RunAdded
  <2> QED  BY <1>3, <2>1, Kinds DEF RunsTyped, RunAdded
<1> QED  BY <1>1, <1>2, <1>3

LEMMA RequestsStep ==
    ASSUME TypeInv, Grown,
           \/ request' = request
           \/ \E q \in Requests : \E l :
                 /\ RequestGoes(q, l) /\ l.base <= Len(states') /\ l.branch <= Len(states')
                 /\ l.step = "forking" => l.base # 0 /\ l.branch \in DOMAIN states
                                          /\ Questions(l.branch) # {}
    PROVE  request' \in [Requests -> Locals] /\ \A q \in Requests : RequestTyped(q)'
<1>1. ASSUME NEW q \in Requests, request'[q] = request[q]
      PROVE  RequestTyped(q)'
  <2> DEFINE l == request[q]
  <2>1. /\ l \in Locals /\ l.base \in Nat /\ l.branch \in Nat /\ RequestTyped(q)
    BY Kinds, TypeParts DEF Locals, Checkpoints
  <2>2. l.step = "forking" => l.branch \in DOMAIN states
    BY <2>1, Kinds DEF RequestTyped
  <2> QED  BY <1>1, <2>1, <2>2, Kinds DEF RequestTyped, Grown
<1>2. CASE request' = request
  BY <1>1, <1>2 DEF TypeInv, TypeOK
<1>3. ASSUME NEW q \in Requests, NEW l, RequestGoes(q, l),
             l.base <= Len(states'), l.branch <= Len(states'),
             l.step = "forking" => l.base # 0 /\ l.branch \in DOMAIN states
                                   /\ Questions(l.branch) # {}
      PROVE  request' \in [Requests -> Locals] /\ \A p \in Requests : RequestTyped(p)'
  <2>1. RequestTyped(q)'
    BY <1>3, Kinds DEF RequestGoes, RequestTyped, Grown
  <2> QED  BY <1>1, <1>3, <2>1 DEF RequestGoes
<1> QED  BY <1>2, <1>3

LEMMA TypeStep ==
    ASSUME TypeInv, [Next]_vars
    PROVE  TypeInv' /\ Grown
<1> SUFFICES /\ Grown /\ StatesTyped' /\ RunsTyped'
             /\ request' \in [Requests -> Locals] /\ \A q \in Requests : RequestTyped(q)'
  BY DEF TypeInv, TypeOK, StatesTyped, RunsTyped, RequestTyped
<1> USE Kinds
<1>1. CASE UNCHANGED vars
  BY <1>1, Grows, StatesStep, RunsStep, RequestsStep DEF vars
<1>2. ASSUME NEW r \in DOMAIN runs, StartRun(r)
      PROVE  /\ Grown /\ StatesTyped' /\ RunsTyped'
             /\ request' \in [Requests -> Locals] /\ \A q \in Requests : RequestTyped(q)'
  <2>1. states' = states \/ \E c : Appended(c) /\ c.run \in 0 .. Len(runs)
    BY <1>2, StartRunDoes
  <2>2. Grown
    BY <2>1, Grows
  <2>3. RunsTyped' /\ Len(runs) <= Len(runs') /\ Len(runs') \in Nat
    BY <1>2, <2>2, StartRunDoes, RunsStep
  <2> QED  BY <1>2, <2>1, <2>2, <2>3, StartRunDoes, StatesStep, RequestsStep
<1>3. ASSUME NEW r \in DOMAIN runs, AnswerRun(r) \/ PauseRun(r)
      PROVE  /\ Grown /\ StatesTyped' /\ RunsTyped'
             /\ request' \in [Requests -> Locals] /\ \A q \in Requests : RequestTyped(q)'
  <2>1. \E c : Appended(c) /\ c.run \in 0 .. Len(runs)
    BY <1>3, ReachDoes
  <2>2. Grown
    BY <2>1, Grows
  <2>3. \E new : RunGoes(r, new) /\ new.at <= Len(states')
    BY <1>3, <2>2, ReachDoes DEF Grown
  <2>4. RunsTyped' /\ Len(runs) <= Len(runs') /\ Len(runs') \in Nat
    BY <2>2, <2>3, RunsStep
  <2> QED  BY <1>3, <2>1, <2>2, <2>4, ReachDoes, StatesStep, RequestsStep
<1>4. ASSUME NEW r \in DOMAIN runs, EndRun(r)
      PROVE  /\ Grown /\ StatesTyped' /\ RunsTyped'
             /\ request' \in [Requests -> Locals] /\ \A q \in Requests : RequestTyped(q)'
  <2>1. states' = states /\ request' = request
    BY <1>4, EndRunDoes
  <2>2. Grown
    BY <2>1, Grows
  <2>3. \E new : RunGoes(r, new) /\ new.at <= Len(states')
    BY <1>4, <2>1, EndRunDoes
  <2>4. RunsTyped' /\ Len(runs) <= Len(runs') /\ Len(runs') \in Nat
    BY <2>2, <2>3, RunsStep
  <2> QED  BY <2>1, <2>2, <2>4, StatesStep, RequestsStep
<1>5. ASSUME NEW r \in DOMAIN runs, ResumeRun(r)
      PROVE  /\ Grown /\ StatesTyped' /\ RunsTyped'
             /\ request' \in [Requests -> Locals] /\ \A q \in Requests : RequestTyped(q)'
  <2>1. states' = states /\ request' = request
    BY <1>5, ResumeRunDoes
  <2>2. Grown
    BY <2>1, Grows
  <2>3. \E new : RunAdded(new) /\ new.base <= Len(states) /\ new.at = 0
    BY <1>5, ResumeRunDoes
  <2>4. RunsTyped' /\ Len(runs) <= Len(runs') /\ Len(runs') \in Nat
    BY <2>2, <2>3, RunsStep
  <2> QED  BY <2>1, <2>2, <2>4, StatesStep, RequestsStep
<1>6. ASSUME NEW q \in Requests,
             Continue(q) \/ \E branch \in DOMAIN states : ContinueBranch(q, branch)
      PROVE  /\ Grown /\ StatesTyped' /\ RunsTyped'
             /\ request' \in [Requests -> Locals] /\ \A p \in Requests : RequestTyped(p)'
  <2>1. UNCHANGED <<states, runs>>
    BY <1>6, ChooseDoes
  <2>2. Grown /\ RunsTyped' /\ StatesTyped'
    BY <2>1, Grows, RunsStep, StatesStep
  <2>3. \E l : /\ RequestGoes(q, l) /\ l.base <= Len(states') /\ l.branch <= Len(states')
               /\ l.step = "creating"
    BY <1>6, <2>1, ChooseDoes
  <2> QED  BY <2>2, <2>3, RequestsStep
<1>7. ASSUME NEW q \in Requests, NEW branch \in DOMAIN states, EditBranch(q, branch)
      PROVE  /\ Grown /\ StatesTyped' /\ RunsTyped'
             /\ request' \in [Requests -> Locals] /\ \A p \in Requests : RequestTyped(p)'
  <2>1. UNCHANGED <<states, runs>>
    BY <1>7, EditBranchDoes
  <2>2. Grown /\ RunsTyped' /\ StatesTyped'
    BY <2>1, Grows, RunsStep, StatesStep
  <2>3. \E l : /\ RequestGoes(q, l) /\ l.base <= Len(states') /\ l.branch <= Len(states')
               /\ l.base # 0 /\ l.branch \in DOMAIN states /\ Questions(l.branch) # {}
    <3>1. PICK l : /\ RequestGoes(q, l) /\ l.step = "forking" /\ l.branch = branch
                   /\ l.edit = TRUE /\ l.base = EditSource(History, branch)
                   /\ l.files = IF SourceRun(History, branch) = 0 THEN 0
                                ELSE runs[SourceRun(History, branch)].files
      BY <1>7, EditBranchDoes, Zenon
    <3>2. /\ EditSource(History, branch) \in 1 .. Len(states) /\ branch \in 1 .. Len(states)
          /\ Questions(branch) # {} /\ Len(states') = Len(states)
      BY <1>7, <2>1, EditBranchDoes
    <3>3. /\ l.base <= Len(states') /\ l.branch <= Len(states')
          /\ l.base # 0 /\ l.branch \in DOMAIN states /\ Questions(l.branch) # {}
      <4>1. l.branch \in DOMAIN states /\ Questions(l.branch) # {}
        BY <3>1, <3>2, Zenon
      <4> QED  BY <3>1, <3>2, <4>1
    <3> QED  BY <3>1, <3>3, Zenon
  <2> QED  BY <2>2, <2>3, RequestsStep
<1>8. ASSUME NEW q \in Requests, Fork(q)
      PROVE  /\ Grown /\ StatesTyped' /\ RunsTyped'
             /\ request' \in [Requests -> Locals] /\ \A p \in Requests : RequestTyped(p)'
  <2>1. (\E c : Appended(c) /\ c.run \in 0 .. Len(runs)) /\ runs' = runs
    BY <1>8, ForkDoes
  <2>2. Grown
    BY <2>1, Grows
  <2>3. RunsTyped' /\ StatesTyped'
    BY <2>1, <2>2, RunsStep, StatesStep
  <2>4. \E l : /\ RequestGoes(q, l) /\ l.base <= Len(states') /\ l.branch <= Len(states')
               /\ l.step # "forking"
    <3>1. PICK l : /\ RequestGoes(q, l)
                   /\ \/ /\ l.step = "creating" /\ l.branch = request[q].branch
                         /\ l.base = Len(states) + 1
                      \/ l = Idle
      BY <1>8, ForkDoes
    <3>2. Len(states') = Len(states) + 1
      BY <2>1 DEF Appended
    <3>3. request[q].branch <= Len(states) /\ request[q].branch \in Nat
      BY DEF TypeInv, Locals, Checkpoints
    <3> QED  BY <3>1, <3>2, <3>3, IdleIs
  <2> QED  BY <2>2, <2>3, <2>4, RequestsStep
<1>9. ASSUME NEW q \in Requests, Create(q)
      PROVE  /\ Grown /\ StatesTyped' /\ RunsTyped'
             /\ request' \in [Requests -> Locals] /\ \A p \in Requests : RequestTyped(p)'
  <2>1. states' = states
    BY <1>9, CreateDoes
  <2>2. Grown
    BY <2>1, Grows
  <2>3. \E new : RunAdded(new) /\ new.base <= Len(states) /\ new.at = 0
    BY <1>9, CreateDoes DEF TypeInv
  <2>4. RunsTyped' /\ Len(runs) <= Len(runs') /\ Len(runs') \in Nat
    BY <2>2, <2>3, RunsStep
  <2>5. RequestGoes(q, Idle)
    BY <1>9, CreateDoes, IdleIs, GoDoes
  <2> QED  BY <2>1, <2>2, <2>4, <2>5, IdleIs, StatesStep, RequestsStep
<1>10. ASSUME NEW q \in Requests, Fail(q)
       PROVE  /\ Grown /\ StatesTyped' /\ RunsTyped'
              /\ request' \in [Requests -> Locals] /\ \A p \in Requests : RequestTyped(p)'
  <2>1. UNCHANGED <<states, runs>> /\ RequestGoes(q, Idle)
    BY <1>10, IdleIs, GoDoes DEF Fail, Go
  <2>2. Grown /\ RunsTyped' /\ StatesTyped'
    BY <2>1, Grows, RunsStep, StatesStep
  <2> QED  BY <2>1, <2>2, IdleIs, RequestsStep
<1> QED  BY <1>1, <1>2, <1>3, <1>4, <1>5, <1>6, <1>7, <1>8, <1>9, <1>10 DEF Next

LEMMA TypeInit == Init => TypeInv
BY Bounds, EmptySeq DEF Init, TypeInv, TypeOK, Idle, Locals

LEMMA TypesHold == Spec => []TypeInv
BY TypeInit, TypeStep, PTL DEF Spec

(* Checkpoints, runs and requests have the shapes the Agent Server and     *)
(* create_run give them.                                                   *)
THEOREM TypeCorrect == Spec => []TypeOK
BY TypesHold, PTL DEF TypeInv


-----------------------------------------------------------------------------
(* A checkpoint follows its parent: a run adds its question, or at most an *)
(* answer; an edit rewords the last message, a question.                   *)
AddsQuestion(s, old) ==
    LET n == Len(old)
    IN  /\ s.source = "input" /\ s.run # 0
        /\ Len(s.messages) = n + 1 /\ \A i \in 1 .. n : s.messages[i] = old[i]
        /\ s.messages[n + 1].role = "user" /\ s.messages[n + 1].id = s.run

AddsAnswer(s, old) ==
    LET n == Len(old)
    IN  /\ s.source = "loop"
        /\ Len(s.messages) \in {n, n + 1} /\ \A i \in 1 .. n : s.messages[i] = old[i]
        /\ Len(s.messages) = n + 1 => s.messages[n + 1].role = "assistant"

Rewords(s, old) ==
    LET n == Len(old)
    IN  /\ s.source = "update" /\ n > 0
        /\ Len(s.messages) = n /\ \A i \in 1 .. n - 1 : s.messages[i] = old[i]
        /\ old[n].role = "user" /\ s.messages[n].role = "user"
        /\ s.messages[n].id = old[n].id

Extends(s, old) == AddsQuestion(s, old) \/ AddsAnswer(s, old) \/ Rewords(s, old)

Follows(c) == Extends(states[c], MessagesOf(states[c].parent))

(* A question is the one of a run that has started, and has one place in   *)
(* all checkpoints.                                                        *)
QuestionsOfRuns ==
    \A c \in DOMAIN states : \A i \in Questions(c) :
        LET r == states[c].messages[i].id
        IN  r \in DOMAIN runs /\ runs[r].input /\ runs[r].status # "pending"

OnePlace ==
    \A c, d \in DOMAIN states : \A i \in Questions(c) : \A j \in Questions(d) :
        states[c].messages[i].id = states[d].messages[j].id => i = j

(* base ends with the question that is the last of the branch, and holds   *)
(* what the branch held before it.                                         *)
StartsTurn(base, branch) ==
    LET place == LatestPlace(branch)
    IN  /\ Questions(branch) # {} /\ Len(states[base].messages) = place
        /\ place \in Questions(base)
        /\ states[base].messages[place].id = LatestQuestion(branch).id
        /\ \A i \in 1 .. place - 1 : states[base].messages[i] = states[branch].messages[i]

Files(base, files) ==
    /\ base \in DOMAIN states /\ Questions(base) # {}
    /\ files # 0 /\ files = LatestQuestion(base).id

RequestKeeps(q) ==
    LET l == request[q]
    IN  /\ l.step = "forking" =>
              /\ l.edit /\ StartsTurn(l.base, l.branch)
              /\ l.files # 0 /\ l.files = LatestQuestion(l.branch).id
        /\ l.step = "creating" /\ l.edit => Files(l.base, l.files)
        /\ l.step = "creating" /\ ~l.edit => l.files = 0

RunKeeps(r) ==
    /\ runs[r].input => runs[r].files = r
    /\ runs[r].base # 0 /\ ~runs[r].input => Files(runs[r].base, runs[r].files)

TurnInv ==
    /\ \A c \in DOMAIN states : Follows(c)
    /\ QuestionsOfRuns /\ OnePlace
    /\ \A q \in Requests : RequestKeeps(q)
    /\ \A r \in DOMAIN runs : RunKeeps(r)

(* What was true of the checkpoints that are there stays true.             *)
LEMMA LatestStays ==
    ASSUME TypeInv, Grown, NEW c \in DOMAIN states
    PROVE  LatestPlace(c)' = LatestPlace(c) /\ LatestQuestion(c)' = LatestQuestion(c)
<1>1. Questions(c)' = Questions(c) /\ states'[c] = states[c]
  BY DEF Grown
<1>2. LatestPlace(c)' = LatestPlace(c)
  BY <1>1, Zenon DEF LatestPlace
<1> QED  BY <1>1, <1>2, Zenon DEF LatestQuestion

LEMMA FollowsStays ==
    ASSUME TypeInv, Grown, NEW c \in DOMAIN states, Follows(c)
    PROVE  Follows(c)'
<1>1. states'[c] = states[c]
  BY DEF Grown
<1>2. MessagesOf(states[c].parent)' = MessagesOf(states[c].parent)
  BY <1>1, Kinds DEF Grown, MessagesOf
<1> QED  BY <1>1, <1>2, Zenon DEF Follows

LEMMA FilesStay ==
    ASSUME TypeInv, Grown, NEW base, NEW files, Files(base, files)
    PROVE  Files(base, files)'
BY LatestStays DEF Files, Grown

LEMMA StartsTurnStays ==
    ASSUME TypeInv, Grown, NEW base \in DOMAIN states, NEW branch \in DOMAIN states,
           StartsTurn(base, branch)
    PROVE  StartsTurn(base, branch)'
<1>1. /\ LatestPlace(branch)' = LatestPlace(branch)
      /\ LatestQuestion(branch)' = LatestQuestion(branch)
      /\ states'[base] = states[base] /\ states'[branch] = states[branch]
      /\ Questions(base)' = Questions(base) /\ Questions(branch)' = Questions(branch)
  BY LatestStays DEF Grown
<1> QED  BY <1>1, Zenon DEF StartsTurn

LEMMA RequestStays ==
    ASSUME TypeInv, Grown, NEW q \in Requests, request'[q] = request[q], RequestKeeps(q)
    PROVE  RequestKeeps(q)'
<1> DEFINE l == request[q]
<1>1. l.step = "forking" => l.base \in DOMAIN states /\ l.branch \in DOMAIN states
  BY Kinds DEF TypeInv, Locals, Checkpoints
<1>2. l.step = "forking" =>
        StartsTurn(l.base, l.branch)' /\ LatestQuestion(l.branch)' = LatestQuestion(l.branch)
  BY <1>1, StartsTurnStays, LatestStays DEF RequestKeeps
<1>3. l.step = "creating" /\ l.edit => Files(l.base, l.files)'
  BY FilesStay DEF RequestKeeps
<1> QED  BY <1>2, <1>3 DEF RequestKeeps

LEMMA RequestAfter ==
    ASSUME TypeInv, Grown, \A q \in Requests : RequestKeeps(q),
           \/ request' = request
           \/ \E q \in Requests : \E l : RequestGoes(q, l) /\ RequestKeeps(q)'
    PROVE  \A q \in Requests : RequestKeeps(q)'
BY RequestStays DEF RequestGoes

(* A run keeps what its request chose for it, and once started is started. *)
RunsStay ==
    \A r \in DOMAIN runs :
        /\ r \in DOMAIN runs'
        /\ runs'[r].input = runs[r].input /\ runs'[r].files = runs[r].files
        /\ runs'[r].base = runs[r].base
        /\ runs'[r].status = "pending" => runs[r].status = "pending"

LEMMA RunsDoStay ==
    ASSUME TypeInv,
           \/ runs' = runs
           \/ \E r \in DOMAIN runs : \E new : RunGoes(r, new)
           \/ \E new : RunAdded(new)
    PROVE  RunsStay
<1>1. ASSUME NEW r \in DOMAIN runs, NEW new, RunGoes(r, new)
      PROVE  RunsStay
  BY <1>1 DEF RunGoes, RunsStay
<1>2. ASSUME NEW new, RunAdded(new)
      PROVE  RunsStay
  BY <1>2, Kinds DEF RunAdded, RunsStay
<1> QED  BY <1>1, <1>2 DEF RunsStay

LEMMA RunStays ==
    ASSUME TypeInv, Grown, RunsStay, NEW r \in DOMAIN runs, RunKeeps(r)
    PROVE  RunKeeps(r)'
BY FilesStay DEF RunsStay, RunKeeps

LEMMA RunsAfter ==
    ASSUME TypeInv, Grown, RunsStay, \A r \in DOMAIN runs : RunKeeps(r),
           DOMAIN runs' = DOMAIN runs
    PROVE  \A r \in DOMAIN runs' : RunKeeps(r)'
BY RunStays


(* The questions of a new checkpoint are those of earlier ones, but for    *)
(* the one that the run which writes it asks.                              *)
OldQuestion(new, i) ==
    \E d \in DOMAIN states : i \in Questions(d) /\ states[d].messages[i].id = new.messages[i].id

FirstAsked(new, i, r) ==
    /\ i = Len(new.messages) /\ new.messages[i].id = r
    /\ r \in DOMAIN runs /\ runs[r].input /\ runs[r].status = "pending"
    /\ runs'[r].status # "pending"

QuestionsKnown(new) ==
    \A i \in DOMAIN new.messages : new.messages[i].role = "user" =>
        OldQuestion(new, i) \/ \E r \in DOMAIN runs : FirstAsked(new, i, r)

LEMMA QuestionsAre ==
    ASSUME TypeInv, Grown, NEW new, Appended(new), NEW top, top = Len(states) + 1
    PROVE  /\ DOMAIN states' = DOMAIN states \cup {top}
           /\ Questions(top)' = {i \in DOMAIN new.messages : new.messages[i].role = "user"}
           /\ states'[top].messages = new.messages
           /\ \A c \in DOMAIN states : /\ Questions(c)' = Questions(c)
                                       /\ states'[c].messages = states[c].messages
<1>1. states'[top] = new
  BY DEF Appended
<1>2. Questions(top)' = {i \in DOMAIN new.messages : new.messages[i].role = "user"}
  BY <1>1 DEF Questions
<1> QED  BY <1>1, <1>2, Kinds DEF Appended, Grown

LEMMA QuestionsStep ==
    ASSUME TypeInv, Grown, RunsStay, QuestionsOfRuns, OnePlace,
           states' = states \/ \E new : Appended(new) /\ QuestionsKnown(new)
    PROVE  QuestionsOfRuns' /\ OnePlace'
<1>1. ASSUME NEW c \in DOMAIN states, NEW i \in Questions(c)
      PROVE  LET r == states'[c].messages[i].id
             IN  r \in DOMAIN runs' /\ runs'[r].input /\ runs'[r].status # "pending"
  BY <1>1 DEF QuestionsOfRuns, RunsStay, Grown
<1>2. CASE states' = states
  <2>1. \A c \in DOMAIN states : Questions(c)' = Questions(c)
    BY DEF Grown
  <2> QED  BY <1>1, <1>2, <2>1 DEF QuestionsOfRuns, OnePlace
<1>3. ASSUME NEW new, Appended(new), QuestionsKnown(new)
      PROVE  QuestionsOfRuns' /\ OnePlace'
  <2> PICK top : top = Len(states) + 1
    OBVIOUS
  <2> DEFINE asked == {i \in DOMAIN new.messages : new.messages[i].role = "user"}
  <2>1. /\ DOMAIN states' = DOMAIN states \cup {top} /\ Questions(top)' = asked
        /\ states'[top].messages = new.messages
        /\ \A c \in DOMAIN states : /\ Questions(c)' = Questions(c)
                                    /\ states'[c].messages = states[c].messages
    BY <1>3, QuestionsAre
  <2>2. \A i \in asked : OldQuestion(new, i) \/ \E r \in DOMAIN runs : FirstAsked(new, i, r)
    BY <1>3 DEF QuestionsKnown
  <2> HIDE DEF asked
  <2>3. ASSUME NEW i \in asked
        PROVE  LET r == new.messages[i].id
               IN  r \in DOMAIN runs' /\ runs'[r].input /\ runs'[r].status # "pending"
    <3>1. CASE OldQuestion(new, i)
      BY <3>1 DEF OldQuestion, QuestionsOfRuns, RunsStay
    <3>2. CASE \E r \in DOMAIN runs : FirstAsked(new, i, r)
      BY <3>2 DEF FirstAsked, RunsStay
    <3> QED  BY <2>2, <3>1, <3>2
  <2>4. QuestionsOfRuns'
    <3> SUFFICES ASSUME NEW c \in DOMAIN states', NEW i \in Questions(c)'
                 PROVE  LET r == states'[c].messages[i].id
                        IN  r \in DOMAIN runs' /\ runs'[r].input /\ runs'[r].status # "pending"
      BY DEF QuestionsOfRuns
    <3>1. CASE c \in DOMAIN states
      BY <1>1, <2>1, <3>1
    <3>2. CASE c = top
      BY <2>1, <2>3, <3>2
    <3> QED  BY <2>1, <3>1, <3>2
  <2>5. ASSUME NEW d \in DOMAIN states, NEW i \in asked, NEW j \in Questions(d),
               new.messages[i].id = states[d].messages[j].id
        PROVE  i = j
    <3>1. CASE OldQuestion(new, i)
      BY <2>5, <3>1 DEF OldQuestion, OnePlace
    <3>2. CASE \E r \in DOMAIN runs : FirstAsked(new, i, r)
      BY <2>5, <3>2 DEF FirstAsked, QuestionsOfRuns
    <3> QED  BY <2>2, <3>1, <3>2
  <2>6. ASSUME NEW i \in asked, NEW j \in asked, new.messages[i].id = new.messages[j].id
        PROVE  i = j
    <3>1. CASE OldQuestion(new, i)
      BY <2>5, <2>6, <3>1 DEF OldQuestion
    <3>2. CASE OldQuestion(new, j)
      BY <2>5, <2>6, <3>2 DEF OldQuestion
    <3>3. CASE /\ \E r \in DOMAIN runs : FirstAsked(new, i, r)
               /\ \E r \in DOMAIN runs : FirstAsked(new, j, r)
      BY <3>3 DEF FirstAsked
    <3> QED  BY <2>2, <3>1, <3>2, <3>3
  <2>7. OnePlace'
    <3> SUFFICES ASSUME NEW c \in DOMAIN states', NEW d \in DOMAIN states',
                        NEW i \in Questions(c)', NEW j \in Questions(d)',
                        states'[c].messages[i].id = states'[d].messages[j].id
                 PROVE  i = j
      BY DEF OnePlace
    <3>1. CASE c \in DOMAIN states /\ d \in DOMAIN states
      BY <2>1, <3>1 DEF OnePlace
    <3>2. CASE c = top /\ d \in DOMAIN states
      BY <2>1, <2>5, <3>2
    <3>3. CASE c \in DOMAIN states /\ d = top
      BY <2>1, <2>5, <3>3
    <3>4. CASE c = top /\ d = top
      BY <2>1, <2>6, <3>4
    <3> QED  BY <2>1, <3>1, <3>2, <3>3, <3>4
  <2> QED  BY <2>4, <2>7
<1> QED  BY <1>2, <1>3

LEMMA FollowsStep ==
    ASSUME TypeInv, Grown, \A c \in DOMAIN states : Follows(c),
           states' = states \/ \E new : Appended(new) /\ Extends(new, MessagesOf(new.parent))
    PROVE  \A c \in DOMAIN states' : Follows(c)'
<1>1. \A c \in DOMAIN states : Follows(c)'
  BY FollowsStays
<1>2. ASSUME NEW new, Appended(new), Extends(new, MessagesOf(new.parent))
      PROVE  \A c \in DOMAIN states' : Follows(c)'
  <2> PICK top : top = Len(states) + 1
    OBVIOUS
  <2>1. /\ new.parent \in 0 .. Len(states) /\ states'[top] = new
        /\ DOMAIN states' = DOMAIN states \cup {top}
    BY <1>2, Kinds DEF Appended
  <2>2. MessagesOf(new.parent)' = MessagesOf(new.parent)
    BY <2>1, Kinds DEF Grown, MessagesOf
  <2>3. Follows(top)'
    <3>1. Extends(states'[top], IF new.parent = 0 THEN <<>> ELSE states'[new.parent].messages)
      BY <1>2, <2>1, <2>2, Zenon DEF MessagesOf
    <3> QED  BY <2>1, <3>1, Zenon DEF Follows, MessagesOf
  <2> QED  BY <1>1, <2>1, <2>3
<1> QED  BY <1>1, <1>2

-----------------------------------------------------------------------------
(* An answer that is shown by a branch stays in one that continues it.     *)
Leaf(c) == \A d \in DOMAIN states : states[d].parent # c

AnswersShown ==
    \A c \in DOMAIN states : \A i \in DOMAIN states[c].messages \ Questions(c) :
        \E leaf \in DOMAIN states : Leaf(leaf) /\ Shows(leaf, states[c].messages[i])

LEMMA LeavesAre ==
    ASSUME TypeInv, WholeHistory
    PROVE  /\ History = DOMAIN states
           /\ LeafIds(History) = {c \in DOMAIN states : Leaf(c)}
<1>1. History = DOMAIN states
  BY Kinds DEF History, WholeHistory
<1> QED  BY <1>1 DEF LeafIds, Leaf

KeepsAnswers(new, old) ==
    \A i \in DOMAIN old : old[i].role # "user" =>
        i \in DOMAIN new.messages /\ new.messages[i] = old[i]

LEMMA AnswersStep ==
    ASSUME TypeInv, Grown, AnswersShown,
           \/ states' = states
           \/ \E new : Appended(new) /\ KeepsAnswers(new, MessagesOf(new.parent))
    PROVE  AnswersShown'
<1>1. CASE states' = states
  BY <1>1 DEF AnswersShown, Leaf, Shows, Questions
<1>2. ASSUME NEW new, Appended(new), KeepsAnswers(new, MessagesOf(new.parent))
      PROVE  AnswersShown'
  <2> PICK top : top = Len(states) + 1
    OBVIOUS
  <2>1. /\ DOMAIN states' = DOMAIN states \cup {top} /\ top \notin DOMAIN states
        /\ states'[top] = new /\ new.parent \in 0 .. Len(states)
        /\ \A c \in DOMAIN states : states'[c] = states[c] /\ Questions(c)' = Questions(c)
    BY <1>2, Kinds DEF Appended, Grown
  <2>2. Leaf(top)'
    BY <2>1, Kinds DEF Leaf
  <2>3. \A c \in DOMAIN states : Leaf(c) /\ c # new.parent => Leaf(c)'
    BY <2>1 DEF Leaf
  <2>4. ASSUME NEW m, m.role # "user", NEW c \in DOMAIN states, Leaf(c), Shows(c, m)
        PROVE  \E leaf \in DOMAIN states' : Leaf(leaf)' /\ Shows(leaf, m)'
    <3>1. CASE c # new.parent
      BY <2>1, <2>3, <2>4, <3>1 DEF Shows
    <3>2. CASE c = new.parent
      <4>1. MessagesOf(c) = states[c].messages
        BY Kinds DEF MessagesOf
      <4>3. PICK i \in DOMAIN states[c].messages : states[c].messages[i] = m
        BY <2>4 DEF Shows
      <4>4. i \in DOMAIN new.messages /\ new.messages[i] = m
        BY <1>2, <2>4, <3>2, <4>1, <4>3 DEF KeepsAnswers
      <4>2. Shows(top, m)'
        BY <2>1, <4>4 DEF Shows
      <4> QED  BY <2>1, <2>2, <4>2
    <3> QED  BY <3>1, <3>2
  <2> SUFFICES ASSUME NEW c \in DOMAIN states',
                      NEW i \in DOMAIN states'[c].messages \ Questions(c)',
                      NEW m, m = states'[c].messages[i]
               PROVE  \E leaf \in DOMAIN states' : Leaf(leaf)' /\ Shows(leaf, m)'
    BY DEF AnswersShown, Shows
  <2>5. CASE c \in DOMAIN states
    <3>1. m.role # "user" /\ m = states[c].messages[i]
      BY <2>1, <2>5 DEF Questions
    <3>2. PICK leaf \in DOMAIN states : Leaf(leaf) /\ Shows(leaf, m)
      BY <2>1, <2>5, <3>1 DEF AnswersShown
    <3> QED  BY <2>4, <3>1, <3>2
  <2>6. CASE c = top
    <3>1. Shows(top, m)'
      BY <2>1, <2>6 DEF Shows
    <3> QED  BY <2>1, <2>2, <3>1
  <2> QED  BY <2>1, <2>5, <2>6
<1> QED  BY <1>1, <1>2


-----------------------------------------------------------------------------
(* What an edit of a branch forks starts the turn of its last question:    *)
(* the first checkpoint that holds the question adds it, and the branch    *)
(* has kept what was said before it.                                       *)
LEMMA EditStartsTurn ==
    ASSUME TypeInv, WholeHistory, TurnInv, NEW branch \in DOMAIN states, Questions(branch) # {}
    PROVE  /\ StartsTurn(EditSource(History, branch), branch)
           /\ states[EditSource(History, branch)].source = "input"
           /\ SourceRun(History, branch) = LatestQuestion(branch).id
           /\ LatestQuestion(branch).id \in DOMAIN runs
           /\ runs[LatestQuestion(branch).id].files = LatestQuestion(branch).id
<1> DEFINE h == History
           e == EditSource(h, branch)
           id == LatestQuestion(branch).id
           place == LatestPlace(branch)
           chain == BranchChain(h, branch)
<1>1. h = DOMAIN states /\ h \in SUBSET DOMAIN states /\ branch \in h
  BY LeavesAre
<1>2. /\ e \in Holders(h, branch) /\ \A d \in Holders(h, branch) : e <= d
      /\ Holders(h, branch) \subseteq h
  BY <1>1, EditSourceIs
<1>3. /\ place \in Questions(branch) /\ place \in Nat \ {0}
      /\ states[branch].messages[place].id = id
      /\ id \in DOMAIN runs /\ id # 0 /\ runs[id].input /\ runs[id].files = id
  <2>1. place \in Questions(branch) /\ states[branch].messages[place].id = id
    BY LatestIs DEF LatestQuestion
  <2>2. id \in DOMAIN runs /\ runs[id].input
    BY <2>1 DEF TurnInv, QuestionsOfRuns
  <2>3. runs[id].files = id
    BY <2>2 DEF TurnInv, RunKeeps
  <2> QED  BY <2>1, <2>2, <2>3, Kinds, MessagesKinds
<1>4. e \in chain /\ Asks(e, id) /\ e \in DOMAIN states
      /\ \A d \in chain : Asks(d, id) => e <= d
  BY <1>1, <1>2 DEF Holders
<1>5. place \in Questions(e) /\ states[e].messages[place].id = id
  BY <1>3, <1>4 DEF TurnInv, OnePlace, Asks
<1> DEFINE p == states[e].parent
           old == MessagesOf(p)
           m == states[e].messages
           n == Len(old)
<1>6. ~\E i \in 1 .. n : old[i].role = "user" /\ old[i].id = id
  <2>1. CASE p = 0
    BY <2>1 DEF MessagesOf
  <2>2. CASE p # 0
    <3>1. p \in DOMAIN states /\ p < e /\ p \in Nat /\ e \in Nat
      BY <1>4, <2>2, Kinds
    <3>2. p \in chain
      BY <1>1, <1>4, <3>1, ChainIs
    <3>3. ~Asks(p, id)
      BY <1>4, <3>1, <3>2
    <3>4. old = states[p].messages
      BY <2>2 DEF MessagesOf
    <3> QED  BY <3>1, <3>3, <3>4, MessagesKinds DEF Asks, Questions
  <2> QED  BY <2>1, <2>2
<1>7. /\ old \in Seq(Messages) /\ n \in Nat
      /\ m[place].role = "user" /\ m[place].id = id /\ place \in 1 .. Len(m) /\ Len(m) \in Nat
  <2>1. p \in 0 .. Len(states)
    BY <1>4, Kinds
  <2>2. old \in Seq(Messages) /\ n \in Nat
    BY <2>1, MessagesOfKinds, LenProperties
  <2> QED  BY <1>4, <1>5, <2>2, MessagesKinds DEF Questions
<1>8. Extends(states[e], old)
  BY <1>4 DEF TurnInv, Follows
<1> HIDE DEF old, m, n
<1>9. states[e].run = id /\ Len(m) = place /\ states[e].source = "input"
  <2>1. CASE AddsQuestion(states[e], old)
    BY <1>6, <1>7, <2>1 DEF AddsQuestion, m, n
  <2>2. CASE AddsAnswer(states[e], old)
    <3>1. Len(m) \in {n, n + 1} /\ \A i \in 1 .. n : m[i] = old[i]
      BY <2>2 DEF AddsAnswer, m, n
    <3>2. place = n + 1 /\ Len(m) = n + 1
      BY <1>6, <1>7, <3>1
    <3>3. m[n + 1].role = "assistant"
      BY <2>2, <3>2 DEF AddsAnswer, m, n
    <3> QED  BY <1>7, <3>2, <3>3
  <2>3. CASE Rewords(states[e], old)
    <3>1. /\ Len(m) = n /\ \A i \in 1 .. n - 1 : m[i] = old[i]
          /\ n > 0 /\ old[n].role = "user" /\ m[n].id = old[n].id
      BY <2>3 DEF Rewords, m, n
    <3> QED  BY <1>6, <1>7, <3>1
  <2> QED  BY <1>8, <2>1, <2>2, <2>3 DEF Extends
<1> DEFINE Same(d) == Len(states[d].messages) >= place =>
                        \A i \in 1 .. place - 1 :
                            states[d].messages[i] = states[branch].messages[i]
           S == {d \in h : Same(d)}
<1>10. \A d \in S : states[d].parent \in h => states[d].parent \in S
  <2> SUFFICES ASSUME NEW d \in DOMAIN states, Same(d), NEW a \in DOMAIN states,
                      a = states[d].parent, Len(states[a].messages) >= place,
                      NEW i \in 1 .. place - 1
               PROVE  states[a].messages[i] = states[branch].messages[i]
    BY <1>1
  <2>1. Extends(states[d], states[a].messages)
    BY Kinds DEF TurnInv, Follows, MessagesOf
  <2>2. Len(states[d].messages) \in Nat /\ Len(states[a].messages) \in Nat
    BY MessagesKinds
  <2>3. Len(states[d].messages) >= place /\ states[d].messages[i] = states[a].messages[i]
    BY <1>3, <2>1, <2>2 DEF Extends, AddsQuestion, AddsAnswer, Rewords
  <2> QED  BY <2>3
<1>11. chain \subseteq S
  <2>1. S \in SUBSET h /\ branch \in S
    BY <1>1
  <2> HIDE DEF S
  <2> QED  BY <1>10, <2>1 DEF BranchChain
<1>12. \A i \in 1 .. place - 1 : m[i] = states[branch].messages[i]
  BY <1>3, <1>4, <1>9, <1>11 DEF m
<1>13. StartsTurn(e, branch)
  BY <1>3, <1>5, <1>9, <1>12 DEF StartsTurn, m
<1> QED  BY <1>3, <1>9, <1>13 DEF SourceRun


-----------------------------------------------------------------------------
(* Each action keeps the turns and their answers.                          *)
BranchInv == TurnInv /\ AnswersShown

LEMMA MessagesOfParent ==
    ASSUME TypeInv, NEW c \in 0 .. Len(states), NEW i \in 1 .. Len(MessagesOf(c)),
           MessagesOf(c)[i].role = "user"
    PROVE  c \in DOMAIN states /\ i \in Questions(c) /\ MessagesOf(c) = states[c].messages
BY Kinds, MessagesKinds DEF MessagesOf, Questions

LEMMA StartRunKeeps ==
    ASSUME TypeInv, Grown, BranchInv, NEW r \in DOMAIN runs, StartRun(r)
    PROVE  BranchInv'
<1>1. request' = request /\ runs[r].status = "pending"
  BY StartRunDoes
<1>2. PICK new : RunGoes(r, new)
  BY StartRunDoes
<1>3. RunsStay /\ DOMAIN runs' = DOMAIN runs
  BY <1>2, RunsDoStay DEF RunGoes
<1>4. /\ \A q \in Requests : RequestKeeps(q)'
      /\ \A s \in DOMAIN runs' : RunKeeps(s)'
  BY <1>1, <1>3, RequestAfter, RunsAfter DEF BranchInv, TurnInv
<1>5. CASE runs[r].input
  <2>1. PICK c : /\ Appended(c) /\ c.run = r /\ c.source = "input"
                 /\ c.messages = Append(MessagesOf(c.parent), Said("user", r))
    BY <1>5, StartRunDoes
  <2> DEFINE old == MessagesOf(c.parent)
  <2>2. /\ old \in Seq(Messages) /\ Len(old) \in Nat /\ DOMAIN old = 1 .. Len(old)
        /\ c.parent \in 0 .. Len(states)
    BY <2>1, MessagesOfKinds, LenProperties DEF Appended
  <2>3. r \in RunIds /\ r # 0 /\ Len(states) < MaxCheckpoints
    BY <2>1, Kinds DEF RunIds, Appended
  <2>4. Said("user", r) \in Messages /\ Said("user", r).role = "user" /\ Said("user", r).id = r
    BY <2>3, SaidKinds
  <2>5. /\ Len(c.messages) = Len(old) + 1 /\ DOMAIN c.messages = 1 .. Len(old) + 1
        /\ \A i \in 1 .. Len(old) : c.messages[i] = old[i]
        /\ c.messages[Len(old) + 1] = Said("user", r)
    BY <2>1, <2>2, <2>4, AppendProperties, LenProperties
  <2>6. Extends(c, old)
    BY <2>1, <2>3, <2>4, <2>5 DEF Extends, AddsQuestion
  <2>7. KeepsAnswers(c, old)
    BY <2>2, <2>5 DEF KeepsAnswers
  <2>8. runs'[r].status # "pending"
    BY <1>2 DEF RunGoes
  <2>9. ASSUME NEW i \in DOMAIN c.messages, c.messages[i].role = "user"
        PROVE  OldQuestion(c, i) \/ FirstAsked(c, i, r)
    <3>1. CASE i \in 1 .. Len(old)
      <4>1. old[i].role = "user" /\ c.messages[i] = old[i]
        BY <2>5, <2>9, <3>1
      <4>2. c.parent \in DOMAIN states /\ i \in Questions(c.parent)
            /\ old = states[c.parent].messages
        BY <2>2, <3>1, <4>1, MessagesOfParent
      <4> QED  BY <4>1, <4>2 DEF OldQuestion
    <3>2. CASE i = Len(old) + 1
      BY <1>1, <1>5, <2>4, <2>5, <2>8, <3>2 DEF FirstAsked
    <3> QED  BY <2>2, <2>5, <3>1, <3>2
  <2>10. QuestionsKnown(c)
    BY <2>9 DEF QuestionsKnown
  <2> HIDE DEF old
  <2>11. /\ \A d \in DOMAIN states' : Follows(d)'
         /\ QuestionsOfRuns' /\ OnePlace' /\ AnswersShown'
    BY <1>3, <2>1, <2>6, <2>7, <2>10, FollowsStep, QuestionsStep, AnswersStep
       DEF BranchInv, TurnInv, old
  <2> QED  BY <1>4, <2>11 DEF BranchInv, TurnInv
<1>6. CASE ~runs[r].input
  <2>1. states' = states
    BY <1>6, StartRunDoes
  <2>2. /\ \A d \in DOMAIN states' : Follows(d)'
        /\ QuestionsOfRuns' /\ OnePlace' /\ AnswersShown'
    BY <1>3, <2>1, FollowsStep, QuestionsStep, AnswersStep DEF BranchInv, TurnInv
  <2> QED  BY <1>4, <2>2 DEF BranchInv, TurnInv
<1> QED  BY <1>5, <1>6

LEMMA ReachKeeps ==
    ASSUME TypeInv, Grown, BranchInv, NEW r \in DOMAIN runs, AnswerRun(r) \/ PauseRun(r)
    PROVE  BranchInv'
<1>1. PICK c : /\ Appended(c) /\ c.run = r /\ c.source = "loop"
               /\ \/ c.messages = MessagesOf(c.parent)
                  \/ c.messages = Append(MessagesOf(c.parent), Said("assistant", r))
  BY ReachDoes
<1>2. request' = request
  BY ReachDoes
<1>3. PICK new : RunGoes(r, new)
  BY ReachDoes
<1>4. RunsStay /\ DOMAIN runs' = DOMAIN runs
  BY <1>3, RunsDoStay DEF RunGoes
<1> DEFINE old == MessagesOf(c.parent)
<1>5. /\ old \in Seq(Messages) /\ Len(old) \in Nat /\ DOMAIN old = 1 .. Len(old)
      /\ c.parent \in 0 .. Len(states)
  BY <1>1, MessagesOfKinds, LenProperties DEF Appended
<1>6. r \in RunIds /\ Len(states) < MaxCheckpoints
  BY <1>1, Kinds DEF RunIds, Appended
<1>7. Said("assistant", r) \in Messages /\ Said("assistant", r).role = "assistant"
  BY <1>6, SaidKinds
<1>8. /\ Len(c.messages) \in {Len(old), Len(old) + 1}
      /\ DOMAIN c.messages = 1 .. Len(c.messages)
      /\ \A i \in 1 .. Len(old) : c.messages[i] = old[i]
      /\ Len(c.messages) = Len(old) + 1 => c.messages[Len(old) + 1].role = "assistant"
  BY <1>1, <1>5, <1>7, AppendProperties, LenProperties
<1>9. Extends(c, old) /\ KeepsAnswers(c, old)
  BY <1>1, <1>5, <1>8 DEF Extends, AddsAnswer, KeepsAnswers
<1>10. ASSUME NEW i \in DOMAIN c.messages, c.messages[i].role = "user"
       PROVE  OldQuestion(c, i)
  <2>1. i \in 1 .. Len(old) /\ old[i].role = "user" /\ c.messages[i] = old[i]
    BY <1>5, <1>8, <1>10
  <2>2. c.parent \in DOMAIN states /\ i \in Questions(c.parent)
        /\ old = states[c.parent].messages
    BY <1>5, <2>1, MessagesOfParent
  <2> QED  BY <2>1, <2>2 DEF OldQuestion
<1>11. QuestionsKnown(c)
  BY <1>10 DEF QuestionsKnown
<1> HIDE DEF old
<1>12. /\ \A d \in DOMAIN states' : Follows(d)'
       /\ QuestionsOfRuns' /\ OnePlace' /\ AnswersShown'
  BY <1>1, <1>4, <1>9, <1>11, FollowsStep, QuestionsStep, AnswersStep
     DEF BranchInv, TurnInv, old
<1>13. /\ \A q \in Requests : RequestKeeps(q)'
       /\ \A s \in DOMAIN runs' : RunKeeps(s)'
  BY <1>2, <1>4, RequestAfter, RunsAfter DEF BranchInv, TurnInv
<1> QED  BY <1>12, <1>13 DEF BranchInv, TurnInv

(* A step that writes no checkpoint.                                       *)
LEMMA NoCheckpoint ==
    ASSUME TypeInv, Grown, RunsStay, BranchInv, states' = states,
           \A q \in Requests : RequestKeeps(q)', \A r \in DOMAIN runs' : RunKeeps(r)'
    PROVE  BranchInv'
BY FollowsStep, QuestionsStep, AnswersStep DEF BranchInv, TurnInv

LEMMA RunsOnlyKeep ==
    ASSUME TypeInv, Grown, BranchInv, NEW r \in DOMAIN runs, EndRun(r) \/ ResumeRun(r)
    PROVE  BranchInv'
<1>1. CASE EndRun(r)
  <2>1. states' = states /\ request' = request /\ \E new : RunGoes(r, new)
    BY <1>1, EndRunDoes
  <2>2. RunsStay /\ DOMAIN runs' = DOMAIN runs
    BY <2>1, RunsDoStay DEF RunGoes
  <2>3. \A q \in Requests : RequestKeeps(q)'
    BY <2>1, RequestAfter DEF BranchInv, TurnInv
  <2>4. \A s \in DOMAIN runs' : RunKeeps(s)'
    BY <2>2, RunsAfter DEF BranchInv, TurnInv
  <2> QED  BY <2>1, <2>2, <2>3, <2>4, NoCheckpoint
<1>2. CASE ResumeRun(r)
  <2>1. states' = states /\ request' = request
    BY <1>2, ResumeRunDoes
  <2>2. PICK new : RunAdded(new) /\ new.base = 0 /\ ~new.input
    BY <1>2, ResumeRunDoes
  <2>3. RunsStay
    BY <2>2, RunsDoStay
  <2>4. \A q \in Requests : RequestKeeps(q)'
    BY <2>1, RequestAfter DEF BranchInv, TurnInv
  <2>5. \A s \in DOMAIN runs : RunKeeps(s)'
    BY <2>3, RunStays DEF BranchInv, TurnInv
  <2>6. PICK last : last = Len(runs) + 1
    OBVIOUS
  <2>7. RunKeeps(last)'
    BY <2>2, <2>6 DEF RunAdded, RunKeeps
  <2>8. \A s \in DOMAIN runs' : RunKeeps(s)'
    BY <2>2, <2>5, <2>6, <2>7, Kinds DEF RunAdded
  <2> QED  BY <2>1, <2>3, <2>4, <2>8, NoCheckpoint
<1> QED  BY <1>1, <1>2

LEMMA CreateKeeps ==
    ASSUME TypeInv, Grown, BranchInv, NEW q \in Requests, Create(q)
    PROVE  BranchInv'
<1>1. /\ states' = states /\ request[q].step = "creating"
      /\ RequestGoes(q, Idle)
  BY CreateDoes, IdleIs, GoDoes
<1>2. PICK new : /\ RunAdded(new) /\ new.base = request[q].base
                 /\ new.input = ~request[q].edit /\ new.status = "pending"
                 /\ new.files = IF request[q].files # 0 THEN request[q].files
                                ELSE Len(runs) + 1
  BY CreateDoes
<1>3. RunsStay
  BY <1>2, RunsDoStay
<1>4. RequestKeeps(q)'
  BY <1>1, IdleIs DEF RequestKeeps, RequestGoes
<1>5. \A p \in Requests : RequestKeeps(p)'
  BY <1>1, <1>4, RequestAfter DEF BranchInv, TurnInv
<1>6. \A s \in DOMAIN runs : RunKeeps(s)'
  BY <1>3, RunStays DEF BranchInv, TurnInv
<1>7. PICK last : last = Len(runs) + 1
  OBVIOUS
<1>8. RunKeeps(last)'
  <2>1. runs'[last] = new
    BY <1>2, <1>7 DEF RunAdded
  <2>2. CASE request[q].edit
    <3>1. Files(request[q].base, request[q].files)
      BY <1>1, <2>2 DEF BranchInv, TurnInv, RequestKeeps
    <3>2. Files(new.base, new.files)
      BY <1>2, <3>1 DEF Files
    <3>3. Files(new.base, new.files)'
      BY <3>2, FilesStay
    <3> QED  BY <1>2, <2>1, <2>2, <3>3 DEF RunKeeps
  <2>3. CASE ~request[q].edit
    BY <1>1, <1>2, <1>7, <2>1, <2>3 DEF BranchInv, TurnInv, RequestKeeps, RunKeeps
  <2> QED  BY <2>2, <2>3
<1>9. \A s \in DOMAIN runs' : RunKeeps(s)'
  BY <1>2, <1>6, <1>7, <1>8, Kinds DEF RunAdded
<1> QED  BY <1>1, <1>3, <1>5, <1>9, NoCheckpoint

LEMMA ChooseKeeps ==
    ASSUME TypeInv, Grown, BranchInv, NEW q \in Requests,
           \/ Continue(q) \/ Fail(q)
           \/ \E branch \in DOMAIN states : ContinueBranch(q, branch)
    PROVE  BranchInv'
<1>1. UNCHANGED <<states, runs>>
  BY ChooseDoes DEF Fail
<1>2. PICK l : /\ RequestGoes(q, l)
               /\ \/ l = Idle \/ (l.step = "creating" /\ ~l.edit /\ l.files = 0)
  BY ChooseDoes, IdleIs, GoDoes DEF Fail, Go
<1>3. RequestKeeps(q)'
  BY <1>2, IdleIs DEF RequestGoes, RequestKeeps
<1>4. \A p \in Requests : RequestKeeps(p)'
  BY <1>2, <1>3, RequestAfter DEF BranchInv, TurnInv
<1>5. RunsStay /\ \A s \in DOMAIN runs' : RunKeeps(s)'
  BY <1>1, RunsDoStay, RunsAfter DEF BranchInv, TurnInv
<1> QED  BY <1>1, <1>4, <1>5, NoCheckpoint

LEMMA EditBranchKeeps ==
    ASSUME TypeInv, WholeHistory, Grown, BranchInv, NEW q \in Requests,
           NEW branch \in DOMAIN states, EditBranch(q, branch)
    PROVE  BranchInv'
<1>1. UNCHANGED <<states, runs>> /\ Questions(branch) # {}
  BY EditBranchDoes
<1>2. PICK l : /\ RequestGoes(q, l) /\ l.step = "forking" /\ l.branch = branch
               /\ l.edit = TRUE /\ l.base = EditSource(History, branch)
               /\ l.files = IF SourceRun(History, branch) = 0 THEN 0
                            ELSE runs[SourceRun(History, branch)].files
  BY EditBranchDoes, Zenon
<1>3. /\ StartsTurn(l.base, branch) /\ l.base \in DOMAIN states
      /\ l.files = LatestQuestion(branch).id /\ l.files # 0
  <2>1. /\ StartsTurn(EditSource(History, branch), branch)
        /\ SourceRun(History, branch) = LatestQuestion(branch).id
        /\ LatestQuestion(branch).id \in DOMAIN runs
        /\ runs[LatestQuestion(branch).id].files = LatestQuestion(branch).id
    BY <1>1, EditStartsTurn DEF BranchInv
  <2>2. LatestQuestion(branch).id # 0
    BY <2>1, Kinds
  <2> QED  BY <1>2, <2>1, <2>2, EditBranchDoes
<1>4. StartsTurn(l.base, l.branch)' /\ LatestQuestion(l.branch)' = LatestQuestion(branch)
  BY <1>2, <1>3, StartsTurnStays, LatestStays
<1>5. RequestKeeps(q)'
  BY <1>2, <1>3, <1>4 DEF RequestGoes, RequestKeeps
<1>6. \A p \in Requests : RequestKeeps(p)'
  BY <1>2, <1>5, RequestAfter DEF BranchInv, TurnInv
<1>7. RunsStay /\ \A s \in DOMAIN runs' : RunKeeps(s)'
  BY <1>1, RunsDoStay, RunsAfter DEF BranchInv, TurnInv
<1> QED  BY <1>1, <1>6, <1>7, NoCheckpoint


(* What a fork writes: the question in its new wording, as the last        *)
(* message, and all before it as it was.                                   *)
Forked(q, c, place, id, old) ==
    LET l == request[q]
    IN  /\ place = LatestPlace(l.branch) /\ id = LatestQuestion(l.branch).id
        /\ old = states[l.base].messages
        /\ StartsTurn(l.base, l.branch) /\ l.base \in DOMAIN states
        /\ l.branch \in DOMAIN states /\ l.edit /\ l.files # 0 /\ l.files = id
        /\ place \in Nat \ {0} /\ Len(old) = place /\ DOMAIN old = 1 .. place
        /\ old[place].role = "user" /\ old[place].id = id
        /\ Said("user", id) = [old[place] EXCEPT !.text = Len(states) + 1]
        /\ Appended(c) /\ c.parent = l.base /\ c.run = 0 /\ c.source = "update"
        /\ Len(c.messages) = place /\ DOMAIN c.messages = 1 .. place
        /\ \A i \in 1 .. place - 1 : c.messages[i] = old[i]
        /\ c.messages[place] = Said("user", id)

LEMMA ForkRewords ==
    ASSUME TypeInv, BranchInv, NEW q \in Requests, Fork(q)
    PROVE  \E c, place, id, old : Forked(q, c, place, id, old)
<1> DEFINE l == request[q]
<1>1. PICK place, id, old : /\ place = LatestPlace(l.branch)
                            /\ id = LatestQuestion(l.branch).id
                            /\ old = states[l.base].messages
  OBVIOUS
<1>2. /\ l.step = "forking" /\ l.base \in DOMAIN states /\ l.branch \in DOMAIN states
      /\ Questions(l.branch) # {}
  BY ForkDoes, Kinds DEF TypeInv, Locals, Checkpoints
<1>3. StartsTurn(l.base, l.branch) /\ l.edit /\ l.files # 0 /\ l.files = id
  BY <1>1, <1>2 DEF BranchInv, TurnInv, RequestKeeps
<1>4. /\ place \in Questions(l.base) /\ Len(old) = place /\ old[place].id = id
      /\ DOMAIN old = 1 .. place /\ old[place].role = "user"
      /\ place \in Nat \ {0} /\ old[place] \in Messages
  BY <1>1, <1>2, <1>3, MessagesKinds DEF StartsTurn, Questions
<1>5. PICK c : /\ Appended(c) /\ c.parent = l.base /\ c.run = 0 /\ c.source = "update"
               /\ Reworded(c.messages, states[l.base].messages, LatestQuestion(l.branch).id)
  BY ForkDoes, Zenon
<1>6. \A i \in 1 .. place - 1 : ~(old[i].role = "user" /\ old[i].id = id)
  <2> SUFFICES ASSUME NEW i \in 1 .. place - 1, old[i].role = "user", old[i].id = id
               PROVE  FALSE
    OBVIOUS
  <2>1. i \in Questions(l.base)
    BY <1>1, <1>4 DEF Questions
  <2> QED  BY <1>1, <1>2, <1>4, <2>1 DEF BranchInv, TurnInv, OnePlace
<1>7. id \in RunIds /\ Len(states) < MaxCheckpoints
  BY <1>1, <1>2, <1>5, Kinds, LatestIs DEF Messages, Appended
<1>8. Said("user", id) = [old[place] EXCEPT !.text = Len(states) + 1]
  BY <1>4 DEF Said, Messages
<1>9. c.messages \in Seq(Messages) /\ DOMAIN c.messages = 1 .. Len(c.messages)
  BY <1>5, LenProperties DEF Appended, States
<1>10. /\ Len(c.messages) = place
       /\ \A i \in 1 .. place - 1 : c.messages[i] = old[i]
       /\ c.messages[place] = Said("user", id)
  BY <1>1, <1>4, <1>5, <1>6 DEF Reworded
<1>11. Forked(q, c, place, id, old)
  BY <1>1, <1>2, <1>3, <1>4, <1>5, <1>8, <1>9, <1>10 DEF Forked
<1> QED  BY <1>11

LEMMA ForkKeeps ==
    ASSUME TypeInv, Grown, BranchInv, NEW q \in Requests, Fork(q)
    PROVE  BranchInv'
<1> DEFINE l == request[q]
<1>1. PICK c, place, id, old : Forked(q, c, place, id, old)
  BY ForkRewords
<1>2. /\ l.base \in DOMAIN states /\ l.edit /\ l.files # 0 /\ l.files = id
      /\ old = states[l.base].messages
      /\ place \in Nat \ {0} /\ Len(old) = place /\ DOMAIN old = 1 .. place
      /\ old[place].role = "user" /\ old[place].id = id
      /\ Appended(c) /\ c.parent = l.base /\ c.run = 0 /\ c.source = "update"
      /\ Len(c.messages) = place /\ DOMAIN c.messages = 1 .. place
      /\ \A i \in 1 .. place - 1 : c.messages[i] = old[i]
      /\ c.messages[place] = Said("user", id)
  BY <1>1 DEF Forked
<1>3. MessagesOf(l.base) = old
  BY <1>2, Kinds DEF MessagesOf
<1>4. c.messages[place].role = "user" /\ c.messages[place].id = id
  BY <1>2 DEF Said
<1>5. Extends(c, old)
  BY <1>2, <1>4 DEF Extends, Rewords
<1>6. KeepsAnswers(c, old)
  BY <1>2 DEF KeepsAnswers
<1>7. ASSUME NEW i \in DOMAIN c.messages, c.messages[i].role = "user"
      PROVE  OldQuestion(c, i)
  <2>1. old[i].role = "user" /\ c.messages[i].id = old[i].id /\ i \in DOMAIN old
    BY <1>2, <1>4, <1>7
  <2> QED  BY <1>2, <2>1 DEF OldQuestion, Questions
<1>8. QuestionsKnown(c)
  BY <1>7 DEF QuestionsKnown
<1>9. runs' = runs /\ RunsStay
  BY ForkDoes, RunsDoStay
<1>10. /\ \A d \in DOMAIN states' : Follows(d)'
       /\ QuestionsOfRuns' /\ OnePlace' /\ AnswersShown'
  BY <1>2, <1>3, <1>5, <1>6, <1>8, <1>9, FollowsStep, QuestionsStep, AnswersStep
     DEF BranchInv, TurnInv
<1>11. \A s \in DOMAIN runs' : RunKeeps(s)'
  BY <1>9, RunsAfter DEF BranchInv, TurnInv
<1>12. PICK top : top = Len(states) + 1
  OBVIOUS
<1>13. Files(top, id)'
  <2> DEFINE asked == {i \in DOMAIN c.messages : c.messages[i].role = "user"}
  <2>1. /\ top \in DOMAIN states' /\ Questions(top)' = asked
        /\ states'[top].messages = c.messages
    BY <1>2, <1>12, QuestionsAre
  <2>2. place \in asked /\ \A i \in asked : i \in Nat /\ i <= place
    BY <1>2, <1>4
  <2> HIDE DEF asked
  <2>3. LatestPlace(top)' = CHOOSE i \in asked : \A j \in asked : j <= i
    BY <2>1, Zenon DEF LatestPlace
  <2>4. LatestPlace(top)' = place
    <3>1. PICK i : i = CHOOSE x \in asked : \A j \in asked : j <= x
      OBVIOUS
    <3>2. i \in asked /\ \A j \in asked : j <= i
      BY <2>2, <3>1
    <3>3. i = place
      BY <1>2, <2>2, <3>2
    <3> QED  BY <2>3, <3>1, <3>3
  <2>5. LatestQuestion(top)' = c.messages[place]
    BY <2>1, <2>4, Zenon DEF LatestQuestion
  <2> QED  BY <1>2, <1>4, <2>1, <2>2, <2>5 DEF Files
<1>14. PICK m : /\ RequestGoes(q, m)
                /\ \/ /\ m.step = "creating" /\ m.edit = l.edit /\ m.files = l.files
                      /\ m.base = top
                   \/ m = Idle
  BY <1>12, ForkDoes
<1>15. RequestKeeps(q)'
  <2>1. CASE m = Idle
    BY <1>14, <2>1, IdleIs DEF RequestGoes, RequestKeeps
  <2>2. CASE m.step = "creating" /\ m.edit = l.edit /\ m.files = l.files /\ m.base = top
    <3>1. request'[q].base = top /\ request'[q].files = id /\ request'[q].step = "creating"
          /\ request'[q].edit
      BY <1>2, <1>14, <2>2 DEF RequestGoes
    <3> QED  BY <1>13, <3>1 DEF RequestKeeps
  <2> QED  BY <1>14, <2>1, <2>2
<1>16. \A p \in Requests : RequestKeeps(p)'
  BY <1>14, <1>15, RequestAfter DEF BranchInv, TurnInv
<1> QED  BY <1>10, <1>11, <1>16 DEF BranchInv, TurnInv

LEMMA BranchStep ==
    ASSUME WholeHistory, TypeInv, BranchInv, [Next]_vars
    PROVE  BranchInv'
<1>1. Grown
  BY TypeStep
<1>2. CASE UNCHANGED vars
  <2>1. RunsStay
    BY <1>2, RunsDoStay DEF vars
  <2>2. /\ \A q \in Requests : RequestKeeps(q)'
        /\ \A r \in DOMAIN runs' : RunKeeps(r)'
    BY <1>1, <1>2, <2>1, RequestAfter, RunsAfter DEF BranchInv, TurnInv, vars
  <2> QED  BY <1>1, <1>2, <2>1, <2>2, NoCheckpoint DEF vars
<1>3. CASE Next
  BY <1>1, <1>3, StartRunKeeps, ReachKeeps, RunsOnlyKeep, CreateKeeps, ChooseKeeps,
     EditBranchKeeps, ForkKeeps DEF Next
<1> QED  BY <1>2, <1>3

LEMMA BranchInit == Init => BranchInv
BY DEF Init, BranchInv, TurnInv, QuestionsOfRuns, OnePlace, RequestKeeps, AnswersShown, Idle

LEMMA BranchesHold == ASSUME WholeHistory PROVE Spec => [](TypeInv /\ BranchInv)
BY TypeInit, TypeStep, BranchInit, BranchStep, PTL DEF Spec

-----------------------------------------------------------------------------
(* No edit, continuation or interruption takes an answer away: each one    *)
(* stays in a branch that the snapshot offers.                             *)
THEOREM AnswersStay == ASSUME WholeHistory PROVE Spec => []AnswersStayReachable
<1>1. TypeInv /\ BranchInv => AnswersStayReachable
  BY LeavesAre DEF BranchInv, AnswersShown, AnswersStayReachable
<1> QED  BY BranchesHold, <1>1, PTL

(* A run that repeats an edited question uses the input files that the     *)
(* question was first asked with.                                          *)
THEOREM EditsKeepInputs == ASSUME WholeHistory PROVE Spec => []EditKeepsInputs
<1>1. TypeInv /\ BranchInv => EditKeepsInputs
  BY DEF BranchInv, TurnInv, RunKeeps, Files, EditKeepsInputs
<1> QED  BY BranchesHold, <1>1, PTL

(* An edit starts the turn over: what was said before the question stays,  *)
(* the question has its new wording, nothing said after it remains.        *)
THEOREM EditsRestartTurn == ASSUME WholeHistory PROVE Spec => EditRestartsTurn
<1> DEFINE Restarted(q) ==
       request[q].step = "forking" /\ Len(states') > Len(states)
           /\ states'[Len(states')].source = "update"
           /\ request'[q] # request[q]
       => LET old == states[request[q].branch].messages
              new == states'[Len(states')].messages
              place == LatestPlace(request[q].branch)
          IN  /\ Len(new) = place
              /\ \A i \in 1 .. place - 1 : new[i] = old[i]
              /\ new[place] = [old[place] EXCEPT !.text = Len(states')]
<1>1. ASSUME TypeInv, BranchInv, Next, NEW q \in Requests, Len(states') > Len(states),
             states'[Len(states')].source = "update", request'[q] # request[q]
      PROVE  Restarted(q)
  <2>1. PICK top : top = Len(states')
    OBVIOUS
  <2>2. states' # states /\ states'[top].source = "update"
    BY <1>1, <2>1, Kinds
  <2>3. \A c : Appended(c) => c.source = "update" /\ top = Len(states) + 1
    BY <2>1, <2>2 DEF Appended
  <2>4. \A r \in DOMAIN runs :
            ~StartRun(r) /\ ~AnswerRun(r) /\ ~PauseRun(r) /\ ~EndRun(r) /\ ~ResumeRun(r)
    BY <1>1, <2>2, <2>3, StartRunDoes, ReachDoes DEF EndRun, ResumeRun
  <2>5. PICK p \in Requests : Fork(p)
    BY <1>1, <2>2, <2>4, ChooseDoes, CreateDoes DEF Next, EditBranch, Fail
  <2>6. p = q
    BY <1>1, <2>5, ForkDoes DEF RequestGoes
  <2>7. PICK c, place, id, old : Forked(q, c, place, id, old)
    BY <1>1, <2>5, <2>6, ForkRewords
  <2>8. states'[top] = c /\ top = Len(states) + 1
    BY <2>1, <2>7 DEF Forked, Appended
  <2>9. /\ place = LatestPlace(request[q].branch)
        /\ Len(c.messages) = place
        /\ \A i \in 1 .. place - 1 : c.messages[i] = old[i]
        /\ \A i \in 1 .. place - 1 : old[i] = states[request[q].branch].messages[i]
        /\ c.messages[place] = Said("user", id)
    BY <2>7 DEF Forked, StartsTurn
  <2>10. Said("user", id) = [states[request[q].branch].messages[place] EXCEPT !.text = top]
    <3>1. PICK m : m = states[request[q].branch].messages[place]
      OBVIOUS
    <3>2. m \in Messages /\ m.role = "user" /\ m.id = id
      BY <1>1, <2>7, <3>1, LatestIs DEF Forked, StartsTurn, LatestQuestion
    <3> QED  BY <2>8, <3>1, <3>2 DEF Said, Messages
  <2> QED  BY <2>1, <2>8, <2>9, <2>10
<1>2. TypeInv /\ BranchInv /\ [Next]_vars => [\A q \in Requests : Restarted(q)]_vars
  BY <1>1 DEF vars
<1> QED  BY BranchesHold, <1>2, PTL DEF Spec, EditRestartsTurn
-----------------------------------------------------------------------------
(* How one turn is told from the others. A checkpoint that no loop has     *)
(* written ends with the question that it words; the answer of a loop      *)
(* bears the number of its checkpoint; an edit rewords a question where it *)
(* was asked. Runs loop one at a time, in their order, each of a new turn  *)
(* from the checkpoint that words its question.                            *)
IsQuestion(c) == c # 0 /\ states[c].source = "input"

Wording(s, c, old, question) ==
    LET n == Len(s.messages)
    IN  /\ s.source # "loop" =>
              n > 0 /\ s.messages[n].role = "user" /\ s.messages[n].text = c
        /\ s.source = "loop" /\ n > Len(old) => s.messages[n].text = c
        /\ s.source = "update" => s.run = 0 /\ question

Words(c) ==
    LET p == states[c].parent
    IN  Wording(states[c], c, MessagesOf(p), IsQuestion(p))

Looped(c) ==
    states[c].source = "loop" =>
        LET r == states[c].run
        IN  /\ r \in DOMAIN runs \ Active /\ \A s \in Active : r < s
            /\ runs[r].parent = 0 => states[c].parent = runs[r].asks /\ runs[r].asks # 0

LoopOrder ==
    \A c, d \in DOMAIN states :
        states[c].source = "loop" /\ states[d].source = "loop" /\ c < d =>
            states[c].run < states[d].run

Asked(r) ==
    /\ runs[r].status = "running" => \A s \in Active : r <= s
    /\ runs[r].asks # 0 =>
          runs[r].asks \in DOMAIN states /\ states[runs[r].asks].source # "loop"
    /\ runs[r].parent = 0 /\ ~runs[r].input =>
          runs[r].base # 0 /\ runs[r].asks = runs[r].base
    /\ runs[r].parent = 0 /\ runs[r].status = "running" =>
          runs[r].at = runs[r].asks /\ runs[r].asks # 0

ForksQuestion(q) ==
    /\ request[q].step = "forking" => states[request[q].base].source = "input"
    /\ request[q].step = "creating" /\ request[q].edit =>
          request[q].base # 0 /\ states[request[q].base].source # "loop"

AskInv ==
    /\ \A c \in DOMAIN states : Words(c) /\ Looped(c)
    /\ LoopOrder
    /\ \A r \in DOMAIN runs : Asked(r)
    /\ \A q \in Requests : ForksQuestion(q)

LEMMA WordsStep ==
    ASSUME TypeInv, Grown, \A c \in DOMAIN states : Words(c),
           \/ states' = states
           \/ \E new : /\ Appended(new)
                      /\ Wording(new, Len(states) + 1, MessagesOf(new.parent),
                                 IsQuestion(new.parent))
    PROVE  \A c \in DOMAIN states' : Words(c)'
<1>1. ASSUME NEW p \in 0 .. Len(states)
      PROVE  /\ MessagesOf(p) = IF p = 0 THEN <<>> ELSE states'[p].messages
             /\ IsQuestion(p) <=> p # 0 /\ states'[p].source = "input"
  BY Kinds DEF Grown, MessagesOf, IsQuestion
<1>2. ASSUME NEW s, s.parent \in 0 .. Len(states), NEW c, c \in DOMAIN states', states'[c] = s,
             Wording(s, c, MessagesOf(s.parent), IsQuestion(s.parent))
      PROVE  Words(c)'
  <2>1. Wording(s, c, IF s.parent = 0 THEN <<>> ELSE states'[s.parent].messages,
                s.parent # 0 /\ states'[s.parent].source = "input")
    BY <1>1, <1>2 DEF Wording
  <2> QED  BY <1>2, <2>1 DEF Words, MessagesOf, IsQuestion, Wording
<1>3. ASSUME NEW c \in DOMAIN states
      PROVE  Words(c)'
  <2>1. PICK s : s = states[c]
    OBVIOUS
  <2>2. /\ c \in DOMAIN states' /\ states'[c] = s /\ s.parent \in 0 .. Len(states)
    BY <2>1, Kinds DEF Grown
  <2>3. Wording(s, c, MessagesOf(s.parent), IsQuestion(s.parent))
    BY <2>1 DEF Words
  <2> QED  BY <1>2, <2>2, <2>3
<1>4. CASE states' = states
  BY <1>3, <1>4
<1>5. ASSUME NEW new, Appended(new),
             Wording(new, Len(states) + 1, MessagesOf(new.parent), IsQuestion(new.parent))
      PROVE  \A c \in DOMAIN states' : Words(c)'
  <2> PICK top : top = Len(states) + 1
    OBVIOUS
  <2>1. /\ DOMAIN states' = DOMAIN states \cup {top} /\ states'[top] = new
        /\ new.parent \in 0 .. Len(states)
    BY <1>5, Kinds DEF Appended
  <2>2. Words(top)'
    BY <1>2, <1>5, <2>1
  <2> QED  BY <1>3, <2>1, <2>2
<1> QED  BY <1>4, <1>5

(* The runs that have ended stay as they are, and only new ones wait.      *)
EndedStay ==
    /\ \A r \in DOMAIN runs \ Active :
          /\ r \in DOMAIN runs' \ Active'
          /\ runs'[r].parent = runs[r].parent /\ runs'[r].asks = runs[r].asks
    /\ \A s \in Active' : s \in Active \/ s > Len(runs)

LEMMA LoopedStays ==
    ASSUME TypeInv, Grown, EndedStay, NEW c \in DOMAIN states, Looped(c)
    PROVE  Looped(c)'
<1>1. states'[c] = states[c]
  BY DEF Grown
<1>2. CASE states[c].source = "loop"
  <2> DEFINE r == states[c].run
  <2>1. /\ r \in DOMAIN runs \ Active /\ \A s \in Active : r < s
        /\ runs[r].parent = 0 => states[c].parent = runs[r].asks /\ runs[r].asks # 0
    BY <1>2 DEF Looped
  <2>2. /\ r \in DOMAIN runs' \ Active'
        /\ runs'[r].parent = runs[r].parent /\ runs'[r].asks = runs[r].asks
    BY <2>1 DEF EndedStay
  <2>3. r \in Nat /\ r <= Len(runs) /\ Len(runs) \in Nat /\ Active' \subseteq DOMAIN runs'
    BY <2>1, Kinds DEF Active
  <2>4. ASSUME NEW s \in Active'
        PROVE  r < s
    <3>1. s \in DOMAIN runs' /\ (s \in Active \/ s > Len(runs))
      BY DEF EndedStay, Active
    <3>2. s \in Active => r < s
      BY <2>1
    <3>3. s > Len(runs) => s \in Int /\ r < s
      BY <2>3, <3>1
    <3> QED  BY <3>1, <3>2, <3>3
  <2> QED  BY <1>1, <2>1, <2>2, <2>4 DEF Looped
<1> QED  BY <1>1, <1>2 DEF Looped

LEMMA LoopsStep ==
    ASSUME TypeInv, Grown, EndedStay, \A c \in DOMAIN states : Looped(c), LoopOrder,
           states' = states \/ \E new : Appended(new) /\ new.source # "loop"
    PROVE  (\A c \in DOMAIN states' : Looped(c)') /\ LoopOrder'
<1>1. \A c \in DOMAIN states : Looped(c)' /\ states'[c] = states[c]
  BY LoopedStays DEF Grown
<1>2. CASE states' = states
  BY <1>1, <1>2 DEF LoopOrder
<1>3. ASSUME NEW new, Appended(new), new.source # "loop"
      PROVE  (\A c \in DOMAIN states' : Looped(c)') /\ LoopOrder'
  <2> PICK top : top = Len(states) + 1
    OBVIOUS
  <2>1. DOMAIN states' = DOMAIN states \cup {top} /\ states'[top].source # "loop"
    BY <1>3, Kinds DEF Appended
  <2>2. Looped(top)'
    BY <2>1 DEF Looped
  <2> QED  BY <1>1, <2>1, <2>2 DEF LoopOrder
<1> QED  BY <1>2, <1>3

LEMMA AskedStays ==
    ASSUME TypeInv, Grown, NEW r \in DOMAIN runs, Asked(r),
           runs'[r].parent = runs[r].parent, runs'[r].input = runs[r].input,
           runs'[r].base = runs[r].base, runs'[r].asks = runs[r].asks,
           \/ runs'[r].status = runs[r].status /\ runs'[r].at = runs[r].at
           \/ runs'[r].status \notin {"pending", "running"},
           \A s \in Active' : s \in Active \/ s > Len(runs)
    PROVE  Asked(r)'
<1>1. runs[r].asks # 0 =>
         runs[r].asks \in DOMAIN states' /\ states'[runs[r].asks].source # "loop"
  BY DEF Asked, Grown
<1>2. runs'[r].status = "running" =>
         runs[r].status = "running" /\ runs'[r].at = runs[r].at /\ \A s \in Active' : r <= s
  <2>1. r \in Nat /\ r <= Len(runs) /\ Len(runs) \in Nat
    BY Kinds
  <2>2. ASSUME runs'[r].status = "running"
        PROVE  \A s \in Active' : r <= s
    <3>1. \A s \in Active : r <= s
      BY <2>2 DEF Asked
    <3>2. ASSUME NEW s \in Active', s > Len(runs)
          PROVE  r <= s
      BY <2>1, <3>2 DEF Active
    <3> QED  BY <3>1, <3>2
  <2> QED  BY <2>2
<1> QED  BY <1>1, <1>2 DEF Asked

LEMMA ForksStay ==
    ASSUME TypeInv, Grown, NEW q \in Requests, request'[q] = request[q], ForksQuestion(q)
    PROVE  ForksQuestion(q)'
<1>1. request[q].base \in 0 .. Len(states)
  BY Kinds DEF TypeInv, Locals, Checkpoints
<1>2. request[q].step = "forking" => request[q].base # 0
  BY DEF TypeInv
<1> QED  BY <1>1, <1>2, Kinds DEF ForksQuestion, Grown

LEMMA ForksAfter ==
    ASSUME TypeInv, Grown, \A q \in Requests : ForksQuestion(q),
           \/ request' = request
           \/ \E q \in Requests : \E l : RequestGoes(q, l) /\ ForksQuestion(q)'
    PROVE  \A q \in Requests : ForksQuestion(q)'
BY ForksStay DEF RequestGoes
LEMMA StartRunAsks ==
    ASSUME TypeInv, Grown, AskInv, NEW r \in DOMAIN runs, StartRun(r)
    PROVE  AskInv'
<1>1. /\ request' = request /\ runs[r].status = "pending"
      /\ r \in Active /\ \A s \in Active : r <= s /\ runs[s].status = "pending"
  BY StartRunDoes
<1>2. PICK new : /\ RunGoes(r, new) /\ new.status = "running"
                 /\ IF runs[r].input
                    THEN new.at = Len(states) + 1 /\ new.asks = Len(states) + 1
                    ELSE /\ new.asks = runs[r].asks
                         /\ runs[r].base # 0 => new.at = runs[r].base
  BY StartRunDoes
<1>3. /\ DOMAIN runs' = DOMAIN runs /\ runs'[r] = new
      /\ \A s \in DOMAIN runs \ {r} : runs'[s] = runs[s]
      /\ new.parent = runs[r].parent /\ new.input = runs[r].input /\ new.base = runs[r].base
  BY <1>2 DEF RunGoes
<1>4. Active' = Active
  BY <1>1, <1>2, <1>3 DEF Active
<1>5. EndedStay
  BY <1>1, <1>3, <1>4 DEF EndedStay
<1>6. \A q \in Requests : ForksQuestion(q)'
  BY <1>1, ForksAfter DEF AskInv
<1>7. \A s \in DOMAIN runs' \ {r} : Asked(s)'
  BY <1>3, <1>4, AskedStays DEF AskInv
<1>8. Asked(r)
  BY DEF AskInv
<1>9. CASE runs[r].input
  <2>1. PICK c : /\ Appended(c) /\ c.run = r /\ c.source = "input"
                 /\ c.messages = Append(MessagesOf(c.parent), Said("user", r))
    BY <1>9, StartRunDoes
  <2> PICK top : top = Len(states) + 1
    OBVIOUS
  <2>2. /\ top \in DOMAIN states' /\ states'[top].source = "input" /\ top # 0
    BY <2>1, Kinds DEF Appended
  <2>3. Asked(r)'
    BY <1>1, <1>2, <1>3, <1>4, <1>9, <2>2 DEF Asked
  <2>4. /\ MessagesOf(c.parent) \in Seq(Messages) /\ Said("user", r) \in Messages
        /\ Said("user", r).role = "user" /\ Said("user", r).text = top
    <3>1. c.parent \in 0 .. Len(states) /\ r \in RunIds /\ Len(states) < MaxCheckpoints
      BY <2>1, Kinds DEF Appended, RunIds
    <3> QED  BY <3>1, MessagesOfKinds, SaidKinds
  <2>5. Wording(c, top, MessagesOf(c.parent), IsQuestion(c.parent))
    BY <2>1, <2>4, AppendProperties, LenProperties DEF Wording
  <2>6. \A d \in DOMAIN states' : Words(d)'
    BY <2>1, <2>5, WordsStep DEF AskInv
  <2>7. (\A d \in DOMAIN states' : Looped(d)') /\ LoopOrder'
    BY <1>5, <2>1, LoopsStep DEF AskInv
  <2> QED  BY <1>6, <1>7, <2>3, <2>6, <2>7 DEF AskInv
<1>10. CASE ~runs[r].input
  <2>1. states' = states
    BY <1>10, StartRunDoes
  <2>2. Asked(r)'
    BY <1>1, <1>2, <1>3, <1>4, <1>8, <1>10, <2>1 DEF Asked
  <2>3. \A d \in DOMAIN states' : Words(d)'
    BY <2>1, WordsStep DEF AskInv
  <2>4. (\A d \in DOMAIN states' : Looped(d)') /\ LoopOrder'
    BY <1>5, <2>1, LoopsStep DEF AskInv
  <2> QED  BY <1>6, <1>7, <2>2, <2>3, <2>4 DEF AskInv
<1> QED  BY <1>9, <1>10

LEMMA ReachAsks ==
    ASSUME TypeInv, Grown, AskInv, NEW r \in DOMAIN runs, AnswerRun(r) \/ PauseRun(r)
    PROVE  AskInv'
<1>1. request' = request /\ runs[r].status = "running" /\ r \in Active
  BY ReachDoes DEF Active
<1>2. PICK new : /\ RunGoes(r, new) /\ new.at = 0
                 /\ new.status = "success" /\ new.asks = runs[r].asks
  BY ReachDoes
<1>3. PICK c : /\ Appended(c) /\ c.run = r /\ c.source = "loop" /\ c.parent = runs[r].at
               /\ \/ c.messages = MessagesOf(c.parent)
                  \/ c.messages = Append(MessagesOf(c.parent), Said("assistant", r))
  BY ReachDoes
<1>4. /\ DOMAIN runs' = DOMAIN runs /\ runs'[r] = new
      /\ \A s \in DOMAIN runs \ {r} : runs'[s] = runs[s]
      /\ new.parent = runs[r].parent /\ new.input = runs[r].input /\ new.base = runs[r].base
  BY <1>2 DEF RunGoes
<1>5. Active' = Active \ {r}
  BY <1>1, <1>2, <1>4 DEF Active
<1>6. EndedStay
  BY <1>1, <1>4, <1>5 DEF EndedStay
<1>7. \A q \in Requests : ForksQuestion(q)'
  BY <1>1, ForksAfter DEF AskInv
<1>8. \A s \in DOMAIN runs' : Asked(s)'
  <2>1. \A s \in DOMAIN runs \ {r} : Asked(s)'
    BY <1>4, <1>5, AskedStays DEF AskInv
  <2>2. Asked(r)'
    BY <1>2, <1>4, <1>5, AskedStays DEF AskInv
  <2> QED  BY <1>4, <2>1, <2>2
<1> PICK top : top = Len(states) + 1
  OBVIOUS
<1>9. \A d \in DOMAIN states' : Words(d)'
  <2>1. /\ MessagesOf(c.parent) \in Seq(Messages) /\ Said("assistant", r) \in Messages
        /\ Said("assistant", r).text = top
    <3>1. c.parent \in 0 .. Len(states) /\ r \in RunIds /\ Len(states) < MaxCheckpoints
      BY <1>3, Kinds DEF Appended, RunIds
    <3> QED  BY <3>1, MessagesOfKinds, SaidKinds
  <2>2. Wording(c, top, MessagesOf(c.parent), IsQuestion(c.parent))
    <3>1. CASE c.messages = MessagesOf(c.parent)
      BY <1>3, <2>1, <3>1, LenProperties DEF Wording
    <3>2. CASE c.messages = Append(MessagesOf(c.parent), Said("assistant", r))
      BY <1>3, <2>1, <3>2, AppendProperties, LenProperties DEF Wording
    <3> QED  BY <1>3, <3>1, <3>2
  <2> QED  BY <1>3, <2>2, WordsStep DEF AskInv
<1>10. /\ DOMAIN states' = DOMAIN states \cup {top} /\ states'[top] = c
       /\ \A d \in DOMAIN states : states'[d] = states[d] /\ d < top
  BY <1>3, Kinds DEF Appended
<1>11. \A d \in DOMAIN states : Looped(d)'
  BY <1>6, LoopedStays DEF AskInv
<1>12. Looped(top)'
  <2>1. \A s \in Active \ {r} : r < s
    BY <1>1, Kinds DEF AskInv, Asked, Active
  <2>2. runs[r].parent = 0 => runs[r].at = runs[r].asks /\ runs[r].asks # 0
    BY <1>1 DEF AskInv, Asked
  <2> QED  BY <1>2, <1>3, <1>4, <1>5, <1>10, <2>1, <2>2 DEF Looped
<1>13. LoopOrder'
  <2>1. \A d \in DOMAIN states : states[d].source = "loop" => states[d].run < r
    BY <1>1 DEF AskInv, Looped
  <2> SUFFICES ASSUME NEW d \in DOMAIN states', NEW e \in DOMAIN states', d < e,
                      states'[d].source = "loop", states'[e].source = "loop"
               PROVE  states'[d].run < states'[e].run
    BY DEF LoopOrder
  <2>2. d \in DOMAIN states
    BY <1>10, Kinds
  <2>3. CASE e = top
    BY <1>3, <1>10, <2>1, <2>2, <2>3
  <2>4. CASE e \in DOMAIN states
    BY <1>10, <2>2, <2>4 DEF AskInv, LoopOrder
  <2> QED  BY <1>10, <2>3, <2>4
<1> QED  BY <1>7, <1>8, <1>9, <1>10, <1>11, <1>12, <1>13 DEF AskInv

LEMMA EndRunAsks ==
    ASSUME TypeInv, Grown, AskInv, NEW r \in DOMAIN runs, EndRun(r)
    PROVE  AskInv'
<1>1. states' = states /\ request' = request /\ r \in Active
  BY EndRunDoes DEF EndRun
<1>2. PICK new : /\ RunGoes(r, new) /\ new.at = 0 /\ new.asks = runs[r].asks
                 /\ new.status \in {"error", "interrupted"}
  BY EndRunDoes
<1>3. /\ DOMAIN runs' = DOMAIN runs /\ runs'[r] = new
      /\ \A s \in DOMAIN runs \ {r} : runs'[s] = runs[s]
      /\ new.parent = runs[r].parent /\ new.input = runs[r].input /\ new.base = runs[r].base
  BY <1>2 DEF RunGoes
<1>4. Active' = Active \ {r}
  BY <1>1, <1>2, <1>3 DEF Active
<1>5. EndedStay
  BY <1>1, <1>3, <1>4 DEF EndedStay
<1>6. \A s \in DOMAIN runs' : Asked(s)'
  <2>1. \A s \in DOMAIN runs \ {r} : Asked(s)'
    BY <1>3, <1>4, AskedStays DEF AskInv
  <2>2. Asked(r)'
    BY <1>2, <1>3, <1>4, AskedStays DEF AskInv
  <2> QED  BY <1>3, <2>1, <2>2
<1> QED  BY <1>1, <1>5, <1>6, ForksAfter, WordsStep, LoopsStep DEF AskInv

(* A run is added, by a resume or by a request.                            *)
LEMMA AddedAsks ==
    ASSUME TypeInv, Grown, AskInv, states' = states, NEW new, RunAdded(new),
           new.status = "pending",
           new.asks # 0 => new.asks \in DOMAIN states /\ states[new.asks].source # "loop",
           new.parent = 0 /\ ~new.input => new.base # 0 /\ new.asks = new.base,
           \A q \in Requests : ForksQuestion(q)'
    PROVE  AskInv'
<1> PICK last : last = Len(runs) + 1
  OBVIOUS
<1>1. /\ DOMAIN runs' = DOMAIN runs \cup {last} /\ runs'[last] = new /\ last > Len(runs)
      /\ \A r \in DOMAIN runs :
            /\ runs'[r].input = runs[r].input /\ runs'[r].base = runs[r].base
            /\ runs'[r].parent = runs[r].parent /\ runs'[r].asks = runs[r].asks
            /\ \/ runs'[r].status = runs[r].status /\ runs'[r].at = runs[r].at
               \/ runs'[r].status = "interrupted"
  BY Kinds DEF RunAdded
<1>2. Active' \subseteq Active \cup {last}
  BY <1>1 DEF Active
<1>3. EndedStay
  <2>1. \A r \in DOMAIN runs \ Active : r \notin Active'
    BY <1>1, Kinds DEF Active
  <2> QED  BY <1>1, <1>2, <2>1 DEF EndedStay
<1>4. Asked(last)'
  BY <1>1 DEF Asked
<1>5. \A r \in DOMAIN runs : Asked(r)'
  BY <1>1, <1>2, AskedStays DEF AskInv
<1> QED  BY <1>1, <1>3, <1>4, <1>5, WordsStep, LoopsStep DEF AskInv

LEMMA ResumeRunAsks ==
    ASSUME TypeInv, Grown, AskInv, NEW r \in DOMAIN runs, ResumeRun(r)
    PROVE  AskInv'
<1>1. states' = states /\ request' = request
  BY ResumeRunDoes
<1>2. PICK new : RunAdded(new) /\ new.parent # 0 /\ new.asks = 0 /\ new.status = "pending"
  BY ResumeRunDoes
<1> QED  BY <1>1, <1>2, ForksAfter, AddedAsks DEF AskInv

LEMMA CreateAsks ==
    ASSUME TypeInv, Grown, AskInv, NEW q \in Requests, Create(q)
    PROVE  AskInv'
<1>1. states' = states /\ request[q].step = "creating" /\ RequestGoes(q, Idle)
  BY CreateDoes, IdleIs, GoDoes
<1>2. PICK new : /\ RunAdded(new) /\ new.base = request[q].base
                 /\ new.input = ~request[q].edit /\ new.status = "pending"
                 /\ new.parent = 0
                 /\ new.asks = IF request[q].edit THEN request[q].base ELSE 0
  BY CreateDoes
<1>3. request[q].base \in 0 .. Len(states)
  BY Kinds DEF TypeInv, Locals, Checkpoints
<1>4. request[q].edit => request[q].base # 0 /\ states[request[q].base].source # "loop"
  BY <1>1 DEF AskInv, ForksQuestion
<1>5. \A p \in Requests : ForksQuestion(p)'
  <2>1. ForksQuestion(q)'
    BY <1>1, IdleIs DEF RequestGoes, ForksQuestion
  <2> QED  BY <1>1, <2>1, ForksAfter DEF AskInv
<1>6. new.asks # 0 => new.asks \in DOMAIN states /\ states[new.asks].source # "loop"
  <2>1. new.asks # 0 => request[q].edit /\ new.asks = request[q].base
    BY <1>2
  <2> QED  BY <1>3, <1>4, <2>1, Kinds
<1>7. new.parent = 0 /\ ~new.input => new.base # 0 /\ new.asks = new.base
  BY <1>2, <1>4
<1> QED  BY <1>1, <1>2, <1>5, <1>6, <1>7, AddedAsks

LEMMA NothingAsked ==
    ASSUME TypeInv, Grown, AskInv, UNCHANGED <<states, runs>>, \A q \in Requests : ForksQuestion(q)'
    PROVE  AskInv'
<1>1. Active' = Active /\ DOMAIN runs' = DOMAIN runs
  BY DEF Active
<1>2. EndedStay
  BY <1>1 DEF EndedStay
<1>3. \A r \in DOMAIN runs : Asked(r)'
  BY <1>1, AskedStays DEF AskInv
<1> QED  BY <1>1, <1>2, <1>3, WordsStep, LoopsStep DEF AskInv

LEMMA ChooseAsks ==
    ASSUME TypeInv, Grown, AskInv, NEW q \in Requests,
           \/ Continue(q) \/ Fail(q)
           \/ \E branch \in DOMAIN states : ContinueBranch(q, branch)
    PROVE  AskInv'
<1>1. UNCHANGED <<states, runs>>
  BY ChooseDoes DEF Fail
<1>2. PICK l : RequestGoes(q, l) /\ (l = Idle \/ (l.step = "creating" /\ ~l.edit))
  BY ChooseDoes, IdleIs, GoDoes DEF Fail, Go
<1>3. ForksQuestion(q)'
  BY <1>2, IdleIs DEF RequestGoes, ForksQuestion
<1> QED  BY <1>1, <1>2, <1>3, ForksAfter, NothingAsked DEF AskInv

LEMMA EditBranchAsks ==
    ASSUME TypeInv, WholeHistory, Grown, BranchInv, AskInv, NEW q \in Requests,
           NEW branch \in DOMAIN states, EditBranch(q, branch)
    PROVE  AskInv'
<1>1. UNCHANGED <<states, runs>> /\ Questions(branch) # {}
  BY EditBranchDoes
<1>2. PICK l : /\ RequestGoes(q, l) /\ l.step = "forking" /\ l.branch = branch
               /\ l.edit = TRUE /\ l.base = EditSource(History, branch)
               /\ l.files = IF SourceRun(History, branch) = 0 THEN 0
                            ELSE runs[SourceRun(History, branch)].files
  BY EditBranchDoes, Zenon
<1>3. states[EditSource(History, branch)].source = "input"
  BY <1>1, EditStartsTurn DEF BranchInv
<1>4. ForksQuestion(q)'
  BY <1>1, <1>2, <1>3 DEF RequestGoes, ForksQuestion
<1> QED  BY <1>1, <1>2, <1>4, ForksAfter, NothingAsked DEF AskInv

LEMMA ForkAsks ==
    ASSUME TypeInv, Grown, BranchInv, AskInv, NEW q \in Requests, Fork(q)
    PROVE  AskInv'
<1>1. PICK c, place, id, old : Forked(q, c, place, id, old)
  BY ForkRewords
<1>2. /\ Appended(c) /\ c.parent = request[q].base /\ c.run = 0 /\ c.source = "update"
      /\ request[q].base \in DOMAIN states
      /\ place \in Nat \ {0} /\ Len(c.messages) = place /\ c.messages[place] = Said("user", id)
  BY <1>1 DEF Forked
<1>3. runs' = runs /\ request[q].step = "forking"
  BY ForkDoes
<1> PICK top : top = Len(states) + 1
  OBVIOUS
<1>4. Wording(c, top, MessagesOf(c.parent), IsQuestion(c.parent))
  <2>1. IsQuestion(c.parent)
    BY <1>2, <1>3, Kinds DEF IsQuestion, AskInv, ForksQuestion
  <2>2. Said("user", id).role = "user" /\ Said("user", id).text = top
    BY DEF Said
  <2> QED  BY <1>2, <2>1, <2>2 DEF Wording
<1>5. \A d \in DOMAIN states' : Words(d)'
  BY <1>2, <1>4, WordsStep DEF AskInv
<1>6. Active' = Active /\ DOMAIN runs' = DOMAIN runs
  BY <1>3 DEF Active
<1>7. EndedStay
  BY <1>3, <1>6 DEF EndedStay
<1>8. (\A d \in DOMAIN states' : Looped(d)') /\ LoopOrder'
  BY <1>2, <1>7, LoopsStep DEF AskInv
<1>9. \A r \in DOMAIN runs : Asked(r)'
  BY <1>3, <1>6, AskedStays DEF AskInv
<1>10. PICK m : /\ RequestGoes(q, m)
                /\ (m.step = "creating" /\ m.base = top) \/ m = Idle
  BY ForkDoes
<1>11. ForksQuestion(q)'
  <2>1. top # 0 /\ states'[top].source # "loop"
    BY <1>2, Kinds DEF Appended
  <2> QED  BY <1>10, <2>1, IdleIs DEF RequestGoes, ForksQuestion
<1>12. \A p \in Requests : ForksQuestion(p)'
  BY <1>10, <1>11, ForksAfter DEF AskInv
<1> QED  BY <1>5, <1>6, <1>8, <1>9, <1>12 DEF AskInv

LEMMA AskStep ==
    ASSUME WholeHistory, TypeInv, BranchInv, AskInv, [Next]_vars
    PROVE  AskInv'
<1>1. Grown
  BY TypeStep
<1>2. CASE UNCHANGED vars
  <2>1. UNCHANGED <<states, runs>> /\ request' = request
    BY <1>2 DEF vars
  <2> QED  BY <1>1, <2>1, ForksAfter, NothingAsked DEF AskInv
<1>3. CASE Next
  BY <1>1, <1>3, StartRunAsks, ReachAsks, EndRunAsks, ResumeRunAsks, CreateAsks, ChooseAsks,
     EditBranchAsks, ForkAsks DEF Next
<1> QED  BY <1>2, <1>3

LEMMA AskInit == Init => AskInv
BY DEF Init, AskInv, LoopOrder, ForksQuestion, Idle

LEMMA AsksHold == ASSUME WholeHistory PROVE Spec => [](TypeInv /\ BranchInv /\ AskInv)
BY TypeInit, TypeStep, BranchInit, BranchStep, AskInit, AskStep, PTL DEF Spec
-----------------------------------------------------------------------------
(* The chain of a checkpoint: what holds of one whose parent it holds of,  *)
(* or that has none, holds of all.                                         *)
LEMMA ParentInduction ==
    ASSUME TypeInv, NEW S \in SUBSET DOMAIN states,
           \A c \in DOMAIN states :
              states[c].parent = 0 \/ states[c].parent \in S => c \in S
    PROVE  S = DOMAIN states
<1> SUFFICES ASSUME DOMAIN states \ S # {}
             PROVE  FALSE
  OBVIOUS
<1>1. DOMAIN states \ S \in SUBSET Nat
  BY Kinds
<1>2. PICK x \in DOMAIN states \ S : \A y \in DOMAIN states \ S : x <= y
  BY <1>1, Least
<1>3. states[x].parent \in 0 .. x - 1 /\ x \in 1 .. Len(states) /\ Len(states) \in Nat
  BY Kinds
<1>4. states[x].parent # 0 => states[x].parent \in DOMAIN states
  BY <1>3, Kinds
<1>5. states[x].parent # 0 => states[x].parent \in S
  BY <1>2, <1>3, <1>4
<1> QED  BY <1>2, <1>5

Chain(c) == BranchChain(DOMAIN states, c)

LEMMA ChainStep ==
    ASSUME TypeInv, NEW c \in DOMAIN states, NEW d \in Chain(c)
    PROVE  /\ d \in DOMAIN states
           /\ d = c \/ (states[c].parent # 0 /\ d \in Chain(states[c].parent))
<1> DEFINE p == states[c].parent
           above == IF p = 0 THEN {} ELSE Chain(p)
           S == {c} \cup above
<1>1. p \in 0 .. Len(states) /\ DOMAIN states = 1 .. Len(states) /\ Len(states) \in Nat
  BY Kinds
<1>2. p # 0 => p \in DOMAIN states
  BY <1>1
<1>3. p # 0 => /\ Chain(p) \subseteq DOMAIN states /\ p \in Chain(p)
               /\ \A e \in Chain(p) :
                     states[e].parent \in DOMAIN states => states[e].parent \in Chain(p)
  BY <1>2, ChainIs DEF Chain
<1>4. 0 \notin DOMAIN states
  BY <1>1
<1>5. S \in SUBSET DOMAIN states /\ c \in S
  BY <1>3
<1>6. \A e \in S : states[e].parent \in DOMAIN states => states[e].parent \in S
  <2>1. states[c].parent \in DOMAIN states => states[c].parent \in S
    BY <1>3, <1>4
  <2>2. ASSUME NEW e \in above, states[e].parent \in DOMAIN states
        PROVE  states[e].parent \in S
    BY <1>3, <2>2
  <2> QED  BY <2>1, <2>2
<1> HIDE DEF S
<1>7. d \in S
  BY <1>5, <1>6 DEF Chain, BranchChain
<1> QED  BY <1>3, <1>7 DEF S

LEMMA ChainGrows ==
    ASSUME TypeInv, NEW c \in DOMAIN states
    PROVE  /\ c \in Chain(c)
           /\ states[c].parent # 0 => /\ states[c].parent \in DOMAIN states
                                      /\ Chain(states[c].parent) \subseteq Chain(c)
<1> DEFINE p == states[c].parent
<1>1. /\ Chain(c) \in SUBSET DOMAIN states /\ c \in Chain(c)
      /\ \A e \in Chain(c) :
            states[e].parent \in DOMAIN states => states[e].parent \in Chain(c)
  BY ChainIs DEF Chain
<1>2. p # 0 => p \in DOMAIN states
  BY Kinds
<1>3. ASSUME p # 0
      PROVE  Chain(p) \subseteq Chain(c)
  <2>1. p \in Chain(c)
    BY <1>1, <1>2, <1>3
  <2> QED  BY <1>1, <2>1 DEF Chain, BranchChain
<1> QED  BY <1>1, <1>2, <1>3

LEMMA ChainBelow ==
    ASSUME TypeInv, NEW c \in DOMAIN states
    PROVE  \A d \in Chain(c) : d \in DOMAIN states /\ d <= c
<1> DEFINE S == {x \in DOMAIN states : \A d \in Chain(x) : d <= x}
<1>1. ASSUME NEW x \in DOMAIN states, states[x].parent = 0 \/ states[x].parent \in S
      PROVE  x \in S
  <2>1. x \in Nat /\ states[x].parent \in 0 .. x - 1
    BY Kinds
  <2> SUFFICES ASSUME NEW d \in Chain(x)
               PROVE  d <= x
    OBVIOUS
  <2>2. d \in DOMAIN states /\ (d = x \/ (states[x].parent # 0 /\ d \in Chain(states[x].parent)))
    BY ChainStep
  <2>3. d \in Nat
    BY <2>2, Kinds
  <2> QED  BY <1>1, <2>1, <2>2, <2>3
<1>2. S = DOMAIN states
  <2> HIDE DEF S
  <2>1. S \in SUBSET DOMAIN states
    BY DEF S
  <2> QED  BY <1>1, <2>1, ParentInduction
<1>3. c \in S
  BY <1>2
<1> QED  BY <1>3, ChainStep

(* Of two checkpoints of a chain the older is the parent of the other or   *)
(* before it.                                                              *)
LEMMA ChainOrder ==
    ASSUME TypeInv, NEW c \in DOMAIN states
    PROVE  \A d, e \in Chain(c) : d < e => d <= states[e].parent
<1> DEFINE S == {x \in DOMAIN states : \A d, e \in Chain(x) : d < e => d <= states[e].parent}
<1>1. ASSUME NEW x \in DOMAIN states, states[x].parent = 0 \/ states[x].parent \in S
      PROVE  x \in S
  <2> SUFFICES ASSUME NEW d \in Chain(x), NEW e \in Chain(x), d < e
               PROVE  d <= states[e].parent
    OBVIOUS
  <2> DEFINE p == states[x].parent
  <2>1. /\ d \in DOMAIN states /\ (d = x \/ (p # 0 /\ d \in Chain(p)))
        /\ e \in DOMAIN states /\ (e = x \/ (p # 0 /\ e \in Chain(p)))
    BY ChainStep
  <2>2. d <= x /\ e <= x /\ d \in Nat /\ e \in Nat /\ x \in Nat
    BY <2>1, ChainBelow, Kinds
  <2>3. p # 0 /\ d \in Chain(p)
    BY <2>1, <2>2
  <2>4. CASE e = x
    <3>1. p \in DOMAIN states
      BY <2>3, Kinds
    <3> QED  BY <2>3, <2>4, <3>1, ChainBelow
  <2>5. CASE p # 0 /\ e \in Chain(p)
    BY <1>1, <2>3, <2>5
  <2> QED  BY <2>1, <2>4, <2>5
<1>2. S = DOMAIN states
  <2> HIDE DEF S
  <2>1. S \in SUBSET DOMAIN states
    BY DEF S
  <2> QED  BY <1>1, <2>1, ParentInduction
<1>3. c \in S
  BY <1>2
<1> QED  BY <1>3

-----------------------------------------------------------------------------
(* The messages of a checkpoint are those of its parent, but for one that  *)
(* it words.                                                               *)
LEMMA MessagesFollow ==
    ASSUME TypeInv, BranchInv, AskInv, NEW c \in DOMAIN states, NEW p, p = states[c].parent,
           NEW m, m = states[c].messages, NEW old, old = MessagesOf(p)
    PROVE  /\ \A i \in DOMAIN m :
                 \/ i \in DOMAIN old /\ m[i] = old[i]
                 \/ /\ i = Len(m) /\ m[i].text = c
                    /\ m[i].role # "user" => states[c].source = "loop"
           /\ \A i \in DOMAIN old :
                 \/ i \in DOMAIN m /\ m[i] = old[i]
                 \/ states[c].source = "update" /\ i = Len(old)
<1>1. /\ m \in Seq(Messages) /\ Len(m) \in Nat /\ DOMAIN m = 1 .. Len(m)
      /\ old \in Seq(Messages) /\ Len(old) \in Nat /\ DOMAIN old = 1 .. Len(old)
  <2>1. p \in 0 .. Len(states)
    BY Kinds
  <2> QED  BY <2>1, Kinds, MessagesOfKinds, LenProperties
<1>2. Extends(states[c], old)
  BY DEF BranchInv, TurnInv, Follows
<1>3. Wording(states[c], c, old, IsQuestion(p))
  BY DEF AskInv, Words
<1>4. CASE AddsQuestion(states[c], old)
  BY <1>1, <1>3, <1>4 DEF AddsQuestion, Wording
<1>5. CASE AddsAnswer(states[c], old)
  <2>1. /\ states[c].source = "loop" /\ Len(m) \in {Len(old), Len(old) + 1}
        /\ \A i \in 1 .. Len(old) : m[i] = old[i]
    BY <1>5 DEF AddsAnswer
  <2>2. Len(m) > Len(old) => m[Len(m)].text = c
    BY <1>3, <2>1 DEF Wording
  <2> QED  BY <1>1, <2>1, <2>2
<1>6. CASE Rewords(states[c], old)
  <2>1. /\ states[c].source = "update" /\ Len(old) > 0 /\ Len(m) = Len(old)
        /\ \A i \in 1 .. Len(old) - 1 : m[i] = old[i]
        /\ m[Len(old)].role = "user"
    BY <1>6 DEF Rewords
  <2>2. m[Len(m)].text = c
    BY <1>3, <2>1 DEF Wording
  <2> QED  BY <1>1, <2>1, <2>2
<1> QED  BY <1>2, <1>4, <1>5, <1>6 DEF Extends

(* The wordings of a checkpoint are as old as their messages.              *)
Rising(c) ==
    LET m == states[c].messages
    IN  /\ \A i \in DOMAIN m : m[i].text <= c
        /\ \A i, j \in DOMAIN m : i < j => m[i].text < m[j].text

LEMMA WordingsRise ==
    ASSUME TypeInv, BranchInv, AskInv
    PROVE  \A c \in DOMAIN states : Rising(c)
<1> DEFINE S == {x \in DOMAIN states : Rising(x)}
<1>1. ASSUME NEW c \in DOMAIN states, states[c].parent = 0 \/ states[c].parent \in S
      PROVE  Rising(c)
  <2> PICK p, m, old : /\ p = states[c].parent /\ m = states[c].messages
                       /\ old = MessagesOf(p)
    OBVIOUS
  <2>1. /\ p \in 0 .. c - 1 /\ c \in Nat /\ Len(m) \in Nat /\ DOMAIN m = 1 .. Len(m)
        /\ \A i \in DOMAIN m : m[i].text \in Nat
    BY Kinds, MessagesKinds DEF Messages, Checkpoints
  <2>2. \A i \in DOMAIN m :
           (i \in DOMAIN old /\ m[i] = old[i]) \/ (i = Len(m) /\ m[i].text = c)
    BY MessagesFollow
  <2>3. /\ \A i \in DOMAIN old : old[i].text <= p
        /\ \A i, j \in DOMAIN old : i < j => old[i].text < old[j].text
    <3>1. CASE p = 0
      BY <3>1 DEF MessagesOf
    <3>2. CASE p # 0
      BY <1>1, <3>2 DEF MessagesOf, Rising
    <3> QED  BY <3>1, <3>2
  <2>4. \A i \in DOMAIN m : m[i].text < c \/ (i = Len(m) /\ m[i].text = c)
    BY <2>1, <2>2, <2>3
  <2>5. ASSUME NEW i \in DOMAIN m, NEW j \in DOMAIN m, i < j
        PROVE  m[i].text < m[j].text
    <3>1. i # Len(m) /\ i \in DOMAIN old /\ m[i] = old[i] /\ m[i].text < c
      BY <2>1, <2>2, <2>4, <2>5
    <3>2. CASE j \in DOMAIN old /\ m[j] = old[j]
      BY <2>3, <2>5, <3>1, <3>2
    <3>3. CASE m[j].text = c
      BY <3>1, <3>3
    <3> QED  BY <2>2, <3>2, <3>3
  <2> QED  BY <2>1, <2>4, <2>5 DEF Rising
<1>2. S = DOMAIN states
  <2>1. \A c \in DOMAIN states : states[c].parent = 0 \/ states[c].parent \in S => c \in S
    BY <1>1
  <2>2. S \in SUBSET DOMAIN states
    OBVIOUS
  <2> HIDE DEF S
  <2> QED  BY <2>1, <2>2, ParentInduction
<1> QED  BY <1>2

(* An answer was given by a loop of the chain.                             *)
LEMMA AnswersOfLoops ==
    ASSUME TypeInv, BranchInv, AskInv
    PROVE  \A c \in DOMAIN states : \A i \in DOMAIN states[c].messages \ Questions(c) :
              LET t == states[c].messages[i].text
              IN  t \in Chain(c) /\ states[t].source = "loop"
<1> DEFINE Given(c, m) == m.role # "user" => m.text \in Chain(c) /\ states[m.text].source = "loop"
           S == {c \in DOMAIN states :
                    \A i \in DOMAIN states[c].messages : Given(c, states[c].messages[i])}
<1>1. ASSUME NEW c \in DOMAIN states, states[c].parent = 0 \/ states[c].parent \in S,
             NEW i \in DOMAIN states[c].messages
      PROVE  Given(c, states[c].messages[i])
  <2> PICK p, m, old : /\ p = states[c].parent /\ m = states[c].messages
                       /\ old = MessagesOf(p)
    OBVIOUS
  <2>1. \/ i \in DOMAIN old /\ m[i] = old[i]
        \/ m[i].text = c /\ (m[i].role # "user" => states[c].source = "loop")
    BY MessagesFollow
  <2>2. c \in Chain(c) /\ (p # 0 => Chain(p) \subseteq Chain(c))
    BY ChainGrows
  <2>3. CASE i \in DOMAIN old /\ m[i] = old[i]
    <3>1. p # 0 /\ old = states[p].messages
      BY <2>3 DEF MessagesOf
    <3>2. Given(p, m[i])
      BY <1>1, <2>3, <3>1
    <3> QED  BY <2>2, <3>1, <3>2
  <2>4. CASE m[i].text = c /\ (m[i].role # "user" => states[c].source = "loop")
    BY <2>2, <2>4
  <2> QED  BY <2>1, <2>3, <2>4
<1>2. S = DOMAIN states
  <2> HIDE DEF Given
  <2>1. \A c \in DOMAIN states : states[c].parent = 0 \/ states[c].parent \in S => c \in S
    BY <1>1
  <2>2. S \in SUBSET DOMAIN states
    OBVIOUS
  <2> HIDE DEF S
  <2> QED  BY <2>1, <2>2, ParentInduction
<1> QED  BY <1>2 DEF Questions

(* The question that a loop of a new turn started from stays in its chain. *)
LEMMA LoopsKeepQuestions ==
    ASSUME TypeInv, BranchInv, AskInv
    PROVE  \A c \in DOMAIN states : \A d \in Chain(c) :
              states[d].source = "loop" /\ runs[states[d].run].parent = 0 =>
                  \E i \in Questions(c) : states[c].messages[i].text = states[d].parent
<1> DEFINE Kept(c, d) ==
              states[d].source = "loop" /\ runs[states[d].run].parent = 0 =>
                  \E i \in Questions(c) : states[c].messages[i].text = states[d].parent
           S == {c \in DOMAIN states : \A d \in Chain(c) : Kept(c, d)}
<1>1. ASSUME NEW c \in DOMAIN states, states[c].parent = 0 \/ states[c].parent \in S,
             NEW d \in Chain(c), states[d].source = "loop", runs[states[d].run].parent = 0
      PROVE  \E i \in Questions(c) : states[c].messages[i].text = states[d].parent
  <2> PICK p, m, old, a : /\ p = states[c].parent /\ m = states[c].messages
                          /\ old = MessagesOf(p) /\ a = states[d].parent
    OBVIOUS
  <2>1. \A i \in DOMAIN old :
           (i \in DOMAIN m /\ m[i] = old[i]) \/ (states[c].source = "update" /\ i = Len(old))
    BY MessagesFollow
  <2>2. d \in DOMAIN states /\ (d = c \/ (p # 0 /\ d \in Chain(p)))
    BY ChainStep
  <2>3. a \in 0 .. d - 1 /\ d \in Nat /\ p \in 0 .. Len(states)
    BY <2>2, Kinds
  <2>4. p # 0 => p \in DOMAIN states /\ old = states[p].messages
    BY <2>3, Kinds DEF MessagesOf
  <2> SUFFICES \E i \in DOMAIN old : /\ old[i].role = "user" /\ old[i].text = a
                                     /\ states[c].source = "update" => i # Len(old)
    BY <2>1 DEF Questions
  <2>5. CASE d = c
    <3>1. states[d].run \in DOMAIN runs /\ a = runs[states[d].run].asks /\ a # 0
      BY <1>1, <2>2 DEF AskInv, Looped
    <3>2. states[a].source # "loop" /\ p = a /\ a \in DOMAIN states
      BY <2>5, <3>1 DEF AskInv, Asked
    <3>3. /\ Len(old) > 0 /\ old[Len(old)].role = "user" /\ old[Len(old)].text = a
          /\ Len(old) \in DOMAIN old
      <4>1. old = states[a].messages /\ Len(old) \in Nat /\ DOMAIN old = 1 .. Len(old)
        BY <2>4, <3>1, <3>2, MessagesKinds
      <4>2. Len(old) > 0 /\ old[Len(old)].role = "user" /\ old[Len(old)].text = a
        BY <3>2, <4>1 DEF AskInv, Words, Wording
      <4> QED  BY <4>1, <4>2
    <3> QED  BY <1>1, <2>5, <3>3
  <2>6. CASE p # 0 /\ d \in Chain(p)
    <3>1. p \in S
      BY <1>1, <2>6
    <3>2. PICK i \in Questions(p) : states[p].messages[i].text = a
      BY <1>1, <2>6, <3>1
    <3>3. i \in DOMAIN old /\ old[i].role = "user" /\ old[i].text = a
      BY <2>4, <2>6, <3>2 DEF Questions
    <3>4. d <= p /\ a # p
      BY <2>3, <2>4, <2>6, ChainBelow, Kinds
    <3>5. states[c].source = "update" => old[Len(old)].text = p
      <4>1. states[c].source = "update" => states[p].source = "input"
        BY DEF AskInv, Words, Wording, IsQuestion
      <4> QED  BY <2>4, <2>6, <4>1 DEF AskInv, Words, Wording
    <3> QED  BY <3>3, <3>4, <3>5
  <2> QED  BY <2>2, <2>5, <2>6
<1>2. S = DOMAIN states
  <2>1. \A c \in DOMAIN states : states[c].parent = 0 \/ states[c].parent \in S => c \in S
    BY <1>1
  <2>2. S \in SUBSET DOMAIN states
    OBVIOUS
  <2> HIDE DEF S
  <2> QED  BY <2>1, <2>2, ParentInduction
<1> QED  BY <1>2
-----------------------------------------------------------------------------
(* A monotone map onto a set of numbers keeps ranks.                       *)
LEMMA RanksKept ==
    ASSUME NEW S \in SUBSET Nat, NEW T \in SUBSET Nat, IsFiniteSet(S),
           NEW g \in Surjection(S, T), \A x, y \in S : x < y => g[x] < g[y], NEW r \in S
    PROVE  Rank(S, r) = Rank(T, g[r])
<1> DEFINE A == {y \in S : y <= r}
           B == {y \in T : y <= g[r]}
           f == [y \in A |-> g[y]]
<1>1. g \in [S -> T] /\ \A t \in T : \E x \in S : g[x] = t
  BY DEF Surjection
<1>2. \A x \in S : x \in Nat /\ g[x] \in T /\ g[x] \in Nat
  BY <1>1
<1>3. \A x, y \in S : x <= y <=> g[x] <= g[y]
  <2> SUFFICES ASSUME NEW x \in S, NEW y \in S
               PROVE  x <= y <=> g[x] <= g[y]
    OBVIOUS
  <2>1. x \in Nat /\ y \in Nat /\ g[x] \in Nat /\ g[y] \in Nat
    BY <1>2
  <2>2. x < y => g[x] < g[y]
    OBVIOUS
  <2>3. y < x => g[y] < g[x]
    OBVIOUS
  <2> QED  BY <2>1, <2>2, <2>3
<1>4. f \in [A -> B]
  BY <1>2, <1>3
<1>5. \A x, y \in A : f[x] = f[y] => x = y
  <2> SUFFICES ASSUME NEW x \in A, NEW y \in A, f[x] = f[y]
               PROVE  x = y
    OBVIOUS
  <2>1. x \in S /\ y \in S /\ x \in Nat /\ y \in Nat /\ g[x] = g[y] /\ g[x] \in Nat
    BY <1>2
  <2>2. x <= y /\ y <= x
    BY <1>3, <2>1
  <2> QED  BY <2>1, <2>2
<1>6. \A t \in B : \E x \in A : f[x] = t
  BY <1>1, <1>3
<1>7. f \in Bijection(A, B)
  <2> HIDE DEF A, B
  <2>1. DOMAIN f = A
    OBVIOUS
  <2> HIDE DEF f
  <2> QED  BY <1>4, <1>5, <1>6, <2>1 DEF Bijection, Injection, Surjection, IsInjective
<1>8. IsFiniteSet(A)
  BY FS_Subset
<1>9. Cardinality(B) = Cardinality(A)
  <2> HIDE DEF A, B, f
  <2>1. ExistsBijection(A, B)
    BY <1>7 DEF ExistsBijection
  <2> QED  BY <1>8, <2>1, FS_Bijection
<1> QED  BY <1>9 DEF Rank

(* The loops of a chain follow the order of their runs, and so do the      *)
(* questions that they started from.                                       *)
LEMMA LoopsOfRuns ==
    ASSUME TypeInv, AskInv, NEW c \in DOMAIN states,
           NEW d \in Chain(c), NEW e \in Chain(c),
           states[d].source = "loop", states[e].source = "loop",
           states[d].run < states[e].run
    PROVE  states[d].parent < states[e].parent
<1>1. /\ d \in DOMAIN states /\ e \in DOMAIN states /\ d \in Nat /\ e \in Nat
      /\ states[d].parent \in 0 .. d - 1 /\ states[e].parent \in Nat
      /\ states[d].run \in Nat /\ states[e].run \in Nat
  BY ChainBelow, Kinds
<1>2. ~(e < d)
  BY <1>1 DEF AskInv, LoopOrder
<1>3. d < e
  BY <1>1, <1>2
<1>4. d <= states[e].parent
  BY <1>3, ChainOrder
<1> QED  BY <1>1, <1>4

(* The runs of a branch, each with the checkpoint that it looped to.       *)
LEMMA RunsOfBranch ==
    ASSUME TypeInv, WholeHistory, AskInv, NEW leaf \in DOMAIN states,
           NEW own, own = BranchRunIds(History, leaf)
    PROVE  /\ own \in SUBSET DOMAIN runs /\ own \in SUBSET Nat /\ IsFiniteSet(own)
           /\ \A r \in own : \E d \in Chain(leaf) : states[d].source = "loop" /\ states[d].run = r
           /\ \A d \in Chain(leaf) : states[d].source = "loop" => states[d].run \in own
<1>1. own = {states[d].run : d \in {e \in Chain(leaf) :
                                       states[e].run # 0 /\ states[e].source # "input"}}
  BY LeavesAre DEF Chain, BranchRunIds
<1>2. \A d \in Chain(leaf) :
          /\ d \in DOMAIN states
          /\ states[d].source \in {"input", "update", "loop"}
          /\ states[d].run \in 0 .. Len(runs)
          /\ states[d].source = "update" => states[d].run = 0
          /\ states[d].source = "loop" => states[d].run \in DOMAIN runs
  BY ChainBelow, Kinds DEF AskInv, Words, Wording, Looped, States
<1>3. own \in SUBSET DOMAIN runs
  BY <1>1, <1>2, Kinds
<1>4. own \in SUBSET Nat /\ IsFiniteSet(own)
  <2>1. Len(runs) \in Nat /\ DOMAIN runs = 1 .. Len(runs)
    BY Kinds
  <2>2. IsFiniteSet(1 .. Len(runs))
    BY <2>1, FS_Interval
  <2> QED  BY <1>3, <2>1, <2>2, FS_Subset
<1>5. \A r \in own : \E d \in Chain(leaf) : states[d].source = "loop" /\ states[d].run = r
  BY <1>1, <1>2
<1>6. ASSUME NEW d \in Chain(leaf), states[d].source = "loop"
      PROVE  states[d].run \in own
  <2>1. states[d].run # 0
    BY <1>2, <1>6, Kinds
  <2> QED  BY <1>1, <1>6, <2>1
<1> QED  BY <1>3, <1>4, <1>5, <1>6

(* A branch whose turns are all new and that has as many answers as        *)
(* questions: each of its questions is the one of the run of its rank.     *)
LEMMA TurnsOfBranch ==
    ASSUME TypeInv, WholeHistory, BranchInv, AskInv, NEW leaf \in DOMAIN states,
           NEW own, own = BranchRunIds(History, leaf), \A r \in own : runs[r].parent = 0,
           NEW asked, asked = Questions(leaf), NEW m, m = states[leaf].messages,
           Cardinality(DOMAIN m \ asked) = Cardinality(asked)
    PROVE  /\ Cardinality(own) = Cardinality(asked) /\ Cardinality(asked) \in Nat
           /\ \A i \in asked : \E r \in own :
                 /\ runs[r].asks = m[i].text /\ Rank(own, r) = Rank(asked, i)
                 /\ Rank(asked, i) <= Cardinality(asked)
<1> DEFINE answers == DOMAIN m \ asked
<1>1. /\ own \in SUBSET DOMAIN runs /\ own \in SUBSET Nat /\ IsFiniteSet(own)
      /\ \A r \in own : \E d \in Chain(leaf) : states[d].source = "loop" /\ states[d].run = r
      /\ \A d \in Chain(leaf) : states[d].source = "loop" => states[d].run \in own
  BY RunsOfBranch
<1>2. /\ DOMAIN m = 1 .. Len(m) /\ Len(m) \in Nat /\ asked \subseteq DOMAIN m
      /\ asked \in SUBSET Nat /\ IsFiniteSet(asked) /\ IsFiniteSet(answers)
  <2>1. DOMAIN m = 1 .. Len(m) /\ Len(m) \in Nat /\ asked \subseteq DOMAIN m
    BY MessagesKinds
  <2>2. IsFiniteSet(1 .. Len(m))
    BY <2>1, FS_Interval
  <2> QED  BY <2>1, <2>2, FS_Subset
<1>3. /\ \A i \in DOMAIN m : m[i].text <= leaf
      /\ \A i, j \in DOMAIN m : i < j => m[i].text < m[j].text
  BY WordingsRise DEF Rising
<1>4. \A i \in DOMAIN m : m[i].text \in Nat
  BY MessagesKinds DEF Messages, Checkpoints
(* Each answer has a run of its own.                                       *)
<1>5. Cardinality(answers) <= Cardinality(own)
  <2> DEFINE f == [i \in answers |-> states[m[i].text].run]
  <2>1. \A i \in answers : m[i].text \in Chain(leaf) /\ states[m[i].text].source = "loop"
    BY AnswersOfLoops
  <2>2. f \in [answers -> own]
    BY <1>1, <2>1
  <2>3. ASSUME NEW i \in answers, NEW j \in answers, i < j
        PROVE  f[i] < f[j]
    <3>1. m[i].text < m[j].text
      BY <1>3, <2>3
    <3>2. m[i].text \in DOMAIN states /\ m[j].text \in DOMAIN states
      BY <2>1, ChainBelow
    <3> QED  BY <2>1, <3>1, <3>2 DEF AskInv, LoopOrder
  <2>4. ASSUME NEW i \in answers, NEW j \in answers, f[i] = f[j]
        PROVE  i = j
    <3>1. i \in Nat /\ j \in Nat /\ f[i] \in Nat /\ f[j] \in Nat
      BY <1>1, <1>2, <2>2
    <3>2. ~(i < j) /\ ~(j < i)
      <4> HIDE DEF f, answers
      <4> QED  BY <2>3, <2>4, <3>1
    <3> QED  BY <3>1, <3>2
  <2>5. f \in Injection(answers, own)
    <3>1. DOMAIN f = answers
      OBVIOUS
    <3> HIDE DEF f, answers
    <3> QED  BY <2>2, <2>4, <3>1 DEF Injection, IsInjective
  <2> HIDE DEF f, answers
  <2> QED  BY <1>1, <2>5, FS_Injection
(* Each run has the question that it started from.                         *)
<1>6. ASSUME NEW r \in own
      PROVE  \E i \in asked : m[i].text = runs[r].asks
  <2>1. PICK d \in Chain(leaf) : states[d].source = "loop" /\ states[d].run = r
    BY <1>1
  <2>2. states[d].parent = runs[r].asks
    BY <1>6, <2>1, ChainBelow DEF AskInv, Looped
  <2> QED  BY <1>6, <2>1, <2>2, LoopsKeepQuestions
<1> DEFINE g == [r \in own |-> CHOOSE i \in asked : m[i].text = runs[r].asks]
<1>7. \A r \in own : g[r] \in asked /\ m[g[r]].text = runs[r].asks
  BY <1>6
<1>8. ASSUME NEW r \in own, NEW s \in own, r < s
      PROVE  g[r] < g[s]
  <2>1. PICK d \in Chain(leaf) : states[d].source = "loop" /\ states[d].run = r
    BY <1>1
  <2>2. PICK e \in Chain(leaf) : states[e].source = "loop" /\ states[e].run = s
    BY <1>1
  <2>3. states[d].parent < states[e].parent
    BY <1>8, <2>1, <2>2, LoopsOfRuns
  <2>4. states[d].parent = runs[r].asks /\ states[e].parent = runs[s].asks
    BY <2>1, <2>2, ChainBelow DEF AskInv, Looped
  <2>5. m[g[r]].text < m[g[s]].text
    BY <1>7, <2>3, <2>4
  <2> HIDE DEF g
  <2>6. g[r] \in DOMAIN m /\ g[s] \in DOMAIN m /\ g[r] \in Nat /\ g[s] \in Nat
    BY <1>2, <1>7
  <2>7. ~(g[s] < g[r]) /\ g[s] # g[r]
    BY <1>3, <1>4, <2>5, <2>6
  <2> QED  BY <2>6, <2>7
<1>9. g \in Injection(own, asked)
  <2>1. g \in [own -> asked] /\ DOMAIN g = own
    BY <1>7
  <2> HIDE DEF g
  <2>2. ASSUME NEW r \in own, NEW s \in own, g[r] = g[s]
        PROVE  r = s
    <3>1. r \in Nat /\ s \in Nat /\ g[r] \in Nat
      BY <1>1, <1>2, <1>7
    <3>2. ~(r < s) /\ ~(s < r)
      BY <1>8, <2>2, <3>1
    <3> QED  BY <3>1, <3>2
  <2> QED  BY <2>1, <2>2 DEF Injection, IsInjective
<1> HIDE DEF g
<1>10. /\ Cardinality(own) <= Cardinality(asked)
       /\ Cardinality(own) = Cardinality(asked) <=> g \in Surjection(own, asked)
  BY <1>2, <1>9, FS_Injection
<1>11. Cardinality(own) \in Nat /\ Cardinality(asked) \in Nat
  BY <1>1, <1>2, FS_CardinalityType
<1>12. Cardinality(own) = Cardinality(asked)
  BY <1>5, <1>10, <1>11
<1>13. g \in Surjection(own, asked)
  BY <1>10, <1>12
<1>14. ASSUME NEW i \in asked
       PROVE  \E r \in own :
                 /\ runs[r].asks = m[i].text /\ Rank(own, r) = Rank(asked, i)
                 /\ Rank(asked, i) <= Cardinality(asked)
  <2>1. PICK r \in own : g[r] = i
    BY <1>13 DEF Surjection
  <2>2. Rank(own, r) = Rank(asked, i)
    BY <1>1, <1>2, <1>8, <1>13, <2>1, RanksKept
  <2>3. Rank(asked, i) <= Cardinality(asked)
    BY <1>2, FS_Subset DEF Rank
  <2> QED  BY <1>7, <2>1, <2>2, <2>3
<1> QED  BY <1>11, <1>12, <1>14

(* The snapshot files each question of an answered branch under the run    *)
(* that asked it in this wording: its place among the questions is the     *)
(* place of its run among the turns.                                       *)
THEOREM TurnsAreAttributed == ASSUME WholeHistory PROVE Spec => []TurnsAttributed
<1>1. ASSUME TypeInv, BranchInv, AskInv, Active = {}, NEW leaf \in LeafIds(History),
             Cardinality(DOMAIN states[leaf].messages \ Questions(leaf))
                = Cardinality(Questions(leaf)),
             \A r \in BranchRunIds(History, leaf) : runs[r].parent = 0,
             NEW i \in Questions(leaf)
      PROVE  \E r \in FiledUnder(History, leaf, Rank(Questions(leaf), i)) :
                runs[r].asks = states[leaf].messages[i].text
  <2> PICK own, asked, m : /\ own = BranchRunIds(History, leaf) /\ asked = Questions(leaf)
                           /\ m = states[leaf].messages
    OBVIOUS
  <2>1. leaf \in DOMAIN states
    BY <1>1, HistoryIs
  <2>2. /\ Cardinality(own) = Cardinality(asked) /\ Cardinality(asked) \in Nat
        /\ \A j \in asked : \E r \in own :
              /\ runs[r].asks = m[j].text /\ Rank(own, r) = Rank(asked, j)
              /\ Rank(asked, j) <= Cardinality(asked)
    BY <1>1, <2>1, TurnsOfBranch
  <2>3. PICK r \in own : /\ runs[r].asks = m[i].text /\ Rank(own, r) = Rank(asked, i)
                         /\ Rank(asked, i) <= Cardinality(asked)
    BY <1>1, <2>2
  <2>4. TurnRuns(History, leaf) = own
    <3>1. SnapshotRuns(History, leaf) = own
      BY <1>1, <2>3 DEF SnapshotRuns
    <3> QED  BY <1>1, <3>1 DEF TurnRuns
  <2>5. FiledUnder(History, leaf, Rank(asked, i)) = {s \in own : Rank(own, s) = Rank(asked, i)}
    BY <2>2, <2>3, <2>4 DEF FiledUnder
  <2> QED  BY <2>3, <2>5
<1>2. TypeInv /\ BranchInv /\ AskInv => TurnsAttributed
  BY <1>1 DEF TurnsAttributed
<1> QED  BY AsksHold, <1>2, PTL
================================================================================
