---------------------------- MODULE ThreadBranches ----------------------------
(***************************************************************************)
(* The branches of a Thread.  The Agent Server keeps a tree of             *)
(* checkpoints; src/langalpha/server/thread_branches.py reads branches,    *)
(* their runs and the message to edit out of the history of that tree,     *)
(* create_run forks it, and the snapshot shows one of its leaves.          *)
(*                                                                         *)
(* Requests overlap: a branch chosen or checked in one call may have grown *)
(* when the next call uses it.  Each call may raise.                       *)
(***************************************************************************)
EXTENDS Naturals, Sequences, FiniteSets

CONSTANTS Requests,        \* requests that may overlap (tabs of the browser)
          MaxRuns,         \* bound: runs ever enqueued
          MaxCheckpoints,  \* bound: checkpoints ever written
          HistoryLimit     \* newest checkpoints a history holds (1,000 in the code)

ASSUME Bounds == MaxRuns \in Nat /\ MaxCheckpoints \in Nat /\ HistoryLimit \in Nat

VARIABLES
    states,   \* states[c]: the checkpoints in the order of created_at
    runs,     \* runs[r]: the runs, oldest first
    request   \* request[q]: the step and the locals of create_run

vars == <<states, runs, request>>

Checkpoints == 1 .. MaxCheckpoints

RunIds == 1 .. MaxRuns

(* id: the run that brought the message in; text: the checkpoint that      *)
(* brought in this wording of it.                                          *)
Messages == [role : {"user", "assistant"}, id : RunIds, text : Checkpoints]

(* run and source: the metadata; 0 stands for none.                        *)
States == [parent : {0} \cup Checkpoints, run : {0} \cup RunIds,
           source : {"input", "update", "loop"}, messages : Seq(Messages),
           interrupts : BOOLEAN]

(* parent: parent_run_id; base: the checkpoint it was created with, 0 for  *)
(* the newest; at: where it is while it runs; asks: the text of its        *)
(* question; files: the run whose request chose its input files.           *)
Runs == [status : {"pending", "running", "success", "error", "interrupted"},
         parent : {0} \cup RunIds, base : {0} \cup Checkpoints, input : BOOLEAN,
         at : {0} \cup Checkpoints, asks : {0} \cup Checkpoints, files : {0} \cup RunIds]

Locals == [step : {"idle", "forking", "creating"},
           branch : {0} \cup Checkpoints, edit : BOOLEAN, files : {0} \cup RunIds,
           base : {0} \cup Checkpoints]

Idle == [step |-> "idle", branch |-> 0, edit |-> FALSE, files |-> 0, base |-> 0]

Init ==
    /\ states = <<>>
    /\ runs = <<>>
    /\ request = [q \in Requests |-> Idle]

----------------------------------------------------------------------------
(* thread_branches.py.  A history h is a set of checkpoints.               *)

History == {c \in DOMAIN states : c + HistoryLimit > Len(states)}

(* Mutant: only the newest checkpoint is a branch.                         *)
LeafIdsNewestOnly(h) == {c \in h : \A d \in h : d <= c}

LeafIds(h) == h \ {states[c].parent : c \in h}

(* The selected checkpoint and its ancestors in the history, the least set *)
(* that has the parents of its members; they are in the order of creation. *)
BranchChain(h, selected) ==
    {c \in h : \A S \in SUBSET h :
        selected \in S /\ (\A d \in S : states[d].parent \in h => states[d].parent \in S)
            => c \in S}

(* Mutant: the checkpoint of the question counts as its run's.             *)
BranchRunIdsWithInput(h, selected) == {states[c].run : c \in BranchChain(h, selected)} \ {0}

BranchRunIds(h, selected) ==
    {states[c].run : c \in {d \in BranchChain(h, selected) :
                               states[d].run # 0 /\ states[d].source # "input"}}

(* The places of the user's messages, and the last of them.                *)
Questions(c) == {i \in DOMAIN states[c].messages : states[c].messages[i].role = "user"}

LatestPlace(c) == CHOOSE i \in Questions(c) : \A j \in Questions(c) : j <= i

LatestQuestion(c) == states[c].messages[LatestPlace(c)]

Asks(c, id) == \E i \in Questions(c) : states[c].messages[i].id = id

(* The checkpoints of the branch that hold its latest user message.        *)
Holders(h, selected) ==
    LET id == LatestQuestion(selected).id
    IN  {c \in BranchChain(h, selected) : Asks(c, id)}

(* Mutant: the last of them.                                               *)
EditSourceLast(h, selected) ==
    LET holders == Holders(h, selected)
    IN  CHOOSE c \in holders : \A d \in holders : d <= c

(* latest_user_edit: fork the first of them, and take its run's inputs.    *)
EditSource(h, selected) ==
    LET holders == Holders(h, selected)
    IN  CHOOSE c \in holders : \A d \in holders : c <= d

(* Mutant: the run that reached the selected checkpoint.                   *)
SourceRunOfLeaf(h, selected) ==
    states[IF states[selected].run = 0 THEN EditSource(h, selected) ELSE selected].run

SourceRun(h, selected) == states[EditSource(h, selected)].run

----------------------------------------------------------------------------
(* The snapshot of a branch: its runs, and which run each of its user      *)
(* messages is filed under.                                                *)

Active == {r \in DOMAIN runs : runs[r].status \in {"pending", "running"}}

SnapshotRuns(h, selected) ==
    LET own == BranchRunIds(h, selected)
    IN  IF own = {} THEN DOMAIN runs ELSE own \cup Active

TurnRuns(h, selected) == {r \in SnapshotRuns(h, selected) : runs[r].parent = 0}

Rank(S, x) == Cardinality({y \in S : y <= x})

(* The k-th user message: by its place, the last turn once they run out.   *)
FiledUnder(h, selected, k) ==
    LET turns == TurnRuns(h, selected)
        place == IF k <= Cardinality(turns) THEN k ELSE Cardinality(turns)
    IN  {r \in turns : Rank(turns, r) = place}

----------------------------------------------------------------------------
(* The Agent Server runs one run at a time and writes checkpoints.         *)

Newest == Len(states)

Interrupts(c) == c # 0 /\ states[c].interrupts

MessagesOf(c) == IF c = 0 THEN <<>> ELSE states[c].messages

Write(parent, run, source, messages, interrupts) ==
    /\ Len(states) < MaxCheckpoints
    /\ states' = Append(states, [parent |-> parent, run |-> run, source |-> source,
                                 messages |-> messages, interrupts |-> interrupts])

(* Mutant: a message without a stable id.                                  *)
SaidWithoutId(role, id) == [role |-> role, id |-> 0, text |-> Len(states) + 1]

Said(role, id) == [role |-> role, id |-> id, text |-> Len(states) + 1]

(* A run with a message writes it at once; an edit and a resume have none. *)
StartRun(r) ==
    /\ \A s \in Active : s >= r /\ runs[s].status = "pending"
    /\ r \in Active
    /\ LET base == IF runs[r].base = 0 THEN Newest ELSE runs[r].base
       IN  IF runs[r].input
           THEN /\ Write(base, r, "input", Append(MessagesOf(base), Said("user", r)), FALSE)
                /\ runs' = [runs EXCEPT ![r].status = "running", ![r].at = Newest + 1,
                                        ![r].asks = Newest + 1]
           ELSE /\ runs' = [runs EXCEPT ![r].status = "running", ![r].at = base]
                /\ states' = states
    /\ UNCHANGED request

Reach(r, messages, interrupts) ==
    /\ runs[r].status = "running"
    /\ Write(runs[r].at, r, "loop", messages, interrupts)
    /\ runs' = [runs EXCEPT ![r].status = "success", ![r].at = 0]
    /\ UNCHANGED request

AnswerRun(r) ==
    Reach(r, Append(MessagesOf(runs[r].at), Said("assistant", r)), FALSE)

PauseRun(r) == Reach(r, MessagesOf(runs[r].at), TRUE)

(* It raises, or is cancelled.                                             *)
EndRun(r) ==
    /\ r \in Active
    /\ \E end \in {"error", "interrupted"} :
          /\ end = "error" => runs[r].status = "running"
          /\ runs' = [runs EXCEPT ![r].status = end, ![r].at = 0]
    /\ UNCHANGED <<states, request>>

(* Continue the newest checkpoint with the answer it waits for.            *)
ResumeRun(r) ==
    /\ Len(runs) < MaxRuns
    /\ Interrupts(Newest)
    /\ runs[r].status \in {"success", "interrupted"}
    /\ runs' = Append(runs, [status |-> "pending", parent |-> r, base |-> 0,
                             input |-> FALSE, at |-> 0, asks |-> 0, files |-> 0])
    /\ UNCHANGED <<states, request>>

----------------------------------------------------------------------------
(* create_run: read the state of the branch (none: the newest), then its   *)
(* history, fork it for an edit, enqueue the run.  What it reads of a      *)
(* chosen branch before the history (whether it waits) and after it (the   *)
(* files of a run) never changes, so one step stands for those reads.      *)

Go(q, locals) == request' = [request EXCEPT ![q] = locals]

Continue(q) ==
    /\ request[q].step = "idle"
    /\ ~Interrupts(Newest)
    /\ Go(q, [Idle EXCEPT !.step = "creating"])
    /\ UNCHANGED <<states, runs>>

(* A branch that has grown since it was selected is refused.               *)
ContinueBranch(q, branch) ==
    /\ request[q].step = "idle"
    /\ ~Interrupts(branch)
    /\ branch \in LeafIds(History)
    /\ Go(q, [step |-> "creating", branch |-> branch, edit |-> FALSE,
              files |-> 0, base |-> branch])
    /\ UNCHANGED <<states, runs>>

(* A checkpoint without a run (a fork) has no files to take over.          *)
EditBranch(q, branch) ==
    LET h == History
        source == SourceRun(h, branch)
    IN  /\ request[q].step = "idle"
        /\ ~Interrupts(branch)
        /\ branch \in LeafIds(h) /\ Questions(branch) # {}
        /\ Go(q, [step |-> "forking", branch |-> branch, edit |-> TRUE,
                  files |-> IF source = 0 THEN 0 ELSE runs[source].files,
                  base |-> EditSource(h, branch)])
        /\ UNCHANGED <<states, runs>>

(* update_state replaces the message of the same id; its reply may be lost.*)
Fork(q) ==
    LET l == request[q]
        id == LatestQuestion(l.branch).id
        reworded(m) == IF m.role = "user" /\ m.id = id THEN Said("user", id) ELSE m
        old == states[l.base].messages
    IN  /\ l.step = "forking"
        /\ Write(l.base, 0, "update", [i \in DOMAIN old |-> reworded(old[i])], FALSE)
        /\ \/ Go(q, [l EXCEPT !.step = "creating", !.base = Newest + 1])
           \/ Go(q, Idle)
        /\ runs' = runs

(* An edit may only be enqueued; "interrupt" stops the runs before it.     *)
Create(q) ==
    LET l == request[q]
        added == [status |-> "pending", parent |-> 0, base |-> l.base,
                  input |-> ~l.edit, at |-> 0, files |-> IF l.files # 0 THEN l.files ELSE Len(runs) + 1,
                  asks |-> IF l.edit THEN l.base ELSE 0]
        stopped(r) == IF r \in Active THEN [runs[r] EXCEPT !.status = "interrupted", !.at = 0]
                                      ELSE runs[r]
    IN  /\ l.step = "creating"
        /\ Len(runs) < MaxRuns
        /\ \/ runs' = Append(runs, added)
           \/ ~l.edit /\ runs' = Append([r \in DOMAIN runs |-> stopped(r)], added)
        /\ Go(q, Idle)
        /\ UNCHANGED states

(* Any call of the request raises.                                         *)
Fail(q) ==
    /\ request[q].step # "idle"
    /\ Go(q, Idle)
    /\ UNCHANGED <<states, runs>>

Next ==
    \/ \E r \in DOMAIN runs :
          StartRun(r) \/ AnswerRun(r) \/ PauseRun(r) \/ EndRun(r) \/ ResumeRun(r)
    \/ \E q \in Requests :
          \/ \E branch \in DOMAIN states : ContinueBranch(q, branch) \/ EditBranch(q, branch)
          \/ Continue(q) \/ Fork(q) \/ Create(q) \/ Fail(q)

Spec == Init /\ [][Next]_vars

----------------------------------------------------------------------------
(* Properties.                                                             *)

TypeOK ==
    /\ states \in Seq(States) /\ Len(states) <= MaxCheckpoints
    /\ runs \in Seq(Runs) /\ Len(runs) <= MaxRuns
    /\ request \in [Requests -> Locals]

Shows(c, m) == \E i \in DOMAIN states[c].messages : states[c].messages[i] = m

(* No edit, continuation or interruption takes an answer away: each one    *)
(* that a run gave is shown by a branch the snapshot offers.               *)
AnswersStayReachable ==
    LET leaves == LeafIds(History)
    IN  \A c \in DOMAIN states : \A i \in DOMAIN states[c].messages \ Questions(c) :
            \E leaf \in leaves : Shows(leaf, states[c].messages[i])

(* An edit starts the turn over: the fork holds what the selected branch   *)
(* held up to its last question, and that question in the new wording;     *)
(* nothing said before it is lost and nothing said after it remains.       *)
EditRestartsTurn ==
    [][\A q \in Requests :
          request[q].step = "forking" /\ Len(states') > Len(states)
              /\ states'[Len(states')].source = "update"
              /\ request'[q] # request[q]
          => LET old == states[request[q].branch].messages
                 new == states'[Len(states')].messages
                 place == LatestPlace(request[q].branch)
             IN  /\ Len(new) = place
                 /\ \A i \in 1 .. place - 1 : new[i] = old[i]
                 /\ new[place] = [old[place] EXCEPT !.text = Len(states')]]_vars

(* An edited question runs on the files it was first asked with, however   *)
(* often it was edited and whichever of its branches is selected.          *)
EditKeepsInputs ==
    \A r \in DOMAIN runs :
        runs[r].base # 0 /\ ~runs[r].input =>
            runs[r].files = LatestQuestion(runs[r].base).id

(* The snapshot files each question of an answered branch under the run    *)
(* that asked it in this wording.                                          *)
TurnsAttributed ==
    Active = {} => \A leaf \in LeafIds(History) :
        LET messages == states[leaf].messages
            answers == DOMAIN messages \ Questions(leaf)
            plain == \A r \in BranchRunIds(History, leaf) : runs[r].parent = 0
        IN  Cardinality(answers) = Cardinality(Questions(leaf)) /\ plain =>
                \A i \in Questions(leaf) :
                    \E r \in FiledUnder(History, leaf, Rank(Questions(leaf), i)) :
                        runs[r].asks = messages[i].text
=============================================================================
