------------------------------ MODULE EventStream ------------------------------
(***************************************************************************)
(* How a browser follows one run of the Thread it shows: stream_run passes *)
(* on the parts of the Agent Server's stream as public events              *)
(* (server/routes/runs.py, public_projection.py, activity_projection.py),  *)
(* an EventSource receives them and reconnects, the reducer of             *)
(* domain/agent-events.ts folds them into the view, and loadSnapshot of    *)
(* useResearchWorkspace.ts rebuilds the view from the Thread's state.      *)
(*                                                                         *)
(* Connections break at any point, requests fail, and the two reads of a   *)
(* snapshot happen at different moments.                                   *)
(***************************************************************************)
EXTENDS Naturals, FiniteSets, SequencesExt

CONSTANTS Calls,      \* tool calls of the run
          Starts,     \* of them: start_async_task that start a task
          Checks,     \* of them: those that name a task (check_async_task)
          TaskOf,     \* TaskOf[c]: the start whose task the check c names
          MaxParts,   \* bound: parts the run streams
          MaxLoads    \* bound: snapshots on their way at once

ASSUME CallKinds == /\ Starts \subseteq Calls /\ Checks \subseteq Calls
                    /\ Starts \cap Checks = {}
                    /\ IsFiniteSet(Calls)

ASSUME Bounds == MaxParts \in Nat /\ MaxLoads \in Nat

VARIABLES
    run,      \* what the Agent Server holds of the run
    source,   \* the browser's EventSource and the generator that feeds it
    me,       \* checks of /api/auth/me after an error of an EventSource
    loads,    \* loadSnapshot calls on their way
    view,     \* the projection: the events since the last reset, the active run
    failed    \* history: what has gone wrong for good

vars == <<run, source, me, loads, view, failed>>

(* "interrupted" ends like "success", "cancelled" like "error".            *)
Ended == {"success", "error"}

Terminal == MaxParts + 1   \* the cursor terminal:<run>:<status>

(* A part: an assistant message with text and tool calls, or tool results; *)
(* saved: how many parts the newest checkpoint holds.                      *)
Parts == [text : BOOLEAN, calls : SUBSET Calls, results : SUBSET Calls]

RunStates == [parts : Seq(Parts), saved : 0 .. MaxParts,
              status : {"running"} \cup Ended]

(* last: Last-Event-ID, 0 for none; from: the parts before the generator   *)
(* joined; pos and sub: parts, and frames of the next part, delivered.     *)
Sources == [phase : {"none", "connecting", "open"}, last : 0 .. Terminal,
            from : 0 .. MaxParts, pos : 0 .. MaxParts, sub : Nat]

NoSource == [phase |-> "none", last |-> 0, from |-> 0, pos |-> 0, sub |-> 0]

NewSource == [NoSource EXCEPT !.phase = "connecting"]

(* state: parts in the state read, Terminal for not read; runs: the status *)
(* read, "none" for not read.                                              *)
LoadStates == [asked : BOOLEAN, state : 0 .. Terminal,
               runs : {"none", "running"} \cup Ended]

NoLoad == [asked |-> FALSE, state |-> Terminal, runs |-> "none"]

Asked == [NoLoad EXCEPT !.asked = TRUE]

(* live: an event of the stream, whose id no event of a snapshot has.      *)
Events == [kind : {"message"}, of : 1 .. MaxParts, live : BOOLEAN]
          \cup [kind : {"call", "result"}, of : Calls, live : BOOLEAN]

Init ==
    /\ run = [parts |-> <<>>, saved |-> 0, status |-> "running"]
    /\ source = NoSource
    /\ me = [current |-> FALSE, old |-> FALSE]
    /\ loads = [l \in 1 .. MaxLoads |-> IF l = 1 THEN Asked ELSE NoLoad]
    /\ view = [events |-> <<>>, active |-> FALSE]
    /\ failed = {}

----------------------------------------------------------------------------
(* The projections of one part.                                            *)

(* The identity of an activity: the task of a call that names one, or the  *)
(* call; a result of a start names the task it started.                    *)
CallActivity(c) == IF c \in Checks THEN <<"task", TaskOf[c]>> ELSE <<"call", c>>

ResultActivity(c) == IF c \in Starts THEN <<"task", c>> ELSE CallActivity(c)

(* Mutant: a tool call crosses as a message.                               *)
EachAsMessage(kind, calls, live) ==
    [i \in 1 .. Cardinality(calls) |->
        [kind |-> "message", of |-> SetToSeq(calls)[i], live |-> live]]

Each(kind, calls, live) ==
    [i \in 1 .. Cardinality(calls) |->
        [kind |-> kind, of |-> SetToSeq(calls)[i], live |-> live]]

(* project_public_events: an assistant message that has text.              *)
Messages(i, live) ==
    IF run.parts[i].text THEN <<[kind |-> "message", of |-> i, live |-> live]>> ELSE <<>>

PublicMessages(i) == Messages(i, TRUE)

(* project_activity_events: one event for each activity of a part          *)
(* (candidates).                                                           *)
OneCall(calls) == {CHOOSE c \in calls : CallActivity(c) = id :
                       id \in {CallActivity(c) : c \in calls}}

OneResult(calls) == {CHOOSE c \in calls : ResultActivity(c) = id :
                         id \in {ResultActivity(c) : c \in calls}}

Activities(i) == Each("call", OneCall(run.parts[i].calls), TRUE)
                    \o Each("result", OneResult(run.parts[i].results), TRUE)

(* Mutant: the activities first.                                           *)
PublicEventsActivitiesFirst(i) == Activities(i) \o PublicMessages(i)

PublicEvents(i) == PublicMessages(i) \o Activities(i)

(* A part without public events is a stream.cursor frame, which the view   *)
(* ignores.                                                                *)
FrameCount(i) == IF PublicEvents(i) = <<>> THEN 1 ELSE Len(PublicEvents(i))

(* snapshot_activities: the results of a part are messages of their own.   *)
SnapshotActivities(i) == Each("call", OneCall(run.parts[i].calls), FALSE)
                            \o Each("result", run.parts[i].results, FALSE)

(* Messages first, then activities.                                        *)
SnapshotEvents(parts) ==
    FlattenSeq([i \in 1 .. parts |-> Messages(i, FALSE)])
        \o FlattenSeq([i \in 1 .. parts |-> SnapshotActivities(i)])

----------------------------------------------------------------------------
(* The reducer: projectMessages and projectActivity.                       *)

ShowMessage(shown, e) == IF e.kind = "message" THEN Append(shown, e.of) ELSE shown

MessagesShown(events) == FoldLeft(ShowMessage, <<>>, events)

(* Mutant: no replaces_id.                                                 *)
ReplacedNone(c) == {}

(* replaces_id: a result that names a task takes the place of its call.    *)
Replaced(c) == IF c \in Starts \cup Checks THEN {<<"call", c>>} ELSE {}

Without(items, ids) == [id \in DOMAIN items \ ids |-> items[id]]

With(items, id, status) ==
    [other \in DOMAIN items \cup {id} |-> IF other = id THEN status ELSE items[other]]

NoActivities == [id \in {} |-> "running"]

Merge(items, e) ==
    CASE e.kind = "call"   -> With(items, CallActivity(e.of), "running")
      [] e.kind = "result" -> With(Without(items, Replaced(e.of)),
                                   ResultActivity(e.of), "complete")
      [] OTHER -> items

ActivitiesShown(events) == FoldLeft(Merge, NoActivities, events)


(* An event whose id the view has is dropped.                              *)
Record(event) ==
    IF event \in Range(view.events) THEN view
    ELSE [view EXCEPT !.events = Append(@, event)]

----------------------------------------------------------------------------
(* The run.                                                                *)

Count == Len(run.parts)

Called == UNION {run.parts[i].calls : i \in 1 .. Count}

Answered == UNION {run.parts[i].results : i \in 1 .. Count}

Stream(part) ==
    /\ run.status = "running" /\ Count < MaxParts
    /\ run' = [run EXCEPT !.parts = Append(@, part)]
    /\ UNCHANGED <<source, me, loads, view, failed>>

StreamMessage(text, calls) ==
    /\ calls \cap Called = {}
    /\ \A c \in calls \cap Checks : TaskOf[c] \in Starts => TaskOf[c] \in Answered
    /\ Stream([text |-> text, calls |-> calls, results |-> {}])

StreamResults(results) ==
    /\ results # {} /\ results \subseteq Called \ Answered
    /\ Stream([text |-> FALSE, calls |-> {}, results |-> results])

(* A checkpoint is written after a step; an end that is not a failure or a *)
(* cancellation comes after the last one.                                  *)
Save ==
    /\ run.status = "running" /\ run.saved < Count
    /\ run' = [run EXCEPT !.saved = Count]
    /\ UNCHANGED <<source, me, loads, view, failed>>

Finish(status) ==
    /\ run.status = "running"
    /\ status = "success" => run.saved = Count
    /\ run' = [run EXCEPT !.status = status]
    /\ UNCHANGED <<source, me, loads, view, failed>>

----------------------------------------------------------------------------
(* stream_run and the EventSource.                                         *)

(* Mutant: without a cursor join_stream starts over.                       *)
AcceptReplaying ==
    /\ source.phase = "connecting"
    /\ source' = [source EXCEPT !.phase = "open", !.sub = 0, !.from = 0,
                     !.pos = IF source.last \in 1 .. MaxParts THEN source.last ELSE 0]
    /\ UNCHANGED <<run, me, loads, view, failed>>

(* Without a cursor join_stream starts with what comes next.               *)
Accept ==
    /\ source.phase = "connecting"
    /\ LET from == IF source.last \in 1 .. MaxParts THEN source.last ELSE Count
       IN  source' = [source EXCEPT !.phase = "open", !.sub = 0, !.pos = from,
                          !.from = IF source.last = 0 THEN from ELSE @]
    /\ UNCHANGED <<run, me, loads, view, failed>>

(* Any other answer than 200 closes an EventSource for good; onerror       *)
(* returns early.                                                          *)
Refuse ==
    /\ source.phase = "connecting"
    /\ source' = NoSource
    /\ me' = [me EXCEPT !.current = FALSE, !.old = @ \/ me.current]
    /\ failed' = failed \cup {"refused"}
    /\ UNCHANGED <<run, loads, view>>

(* The first frame of a part carries its cursor.                           *)
Deliver ==
    LET i == source.pos + 1
    IN  /\ source.phase = "open" /\ source.pos < Count
        /\ source.last # Terminal
        /\ view' = IF PublicEvents(i) = <<>> THEN view
                   ELSE Record(PublicEvents(i)[source.sub + 1])
        /\ LET next == IF source.sub + 1 = FrameCount(i)
                       THEN [source EXCEPT !.pos = i, !.sub = 0]
                       ELSE [source EXCEPT !.sub = @ + 1]
           IN  source' = [next EXCEPT !.last = IF source.sub = 0 THEN i ELSE @]
        /\ UNCHANGED <<run, me, loads, failed>>

Begin(l) ==
    /\ ~loads[l].asked
    /\ loads' = [loads EXCEPT ![l] = Asked]

(* The terminal event: the view is no longer active, the source is closed  *)
(* and a snapshot loaded.                                                  *)
DeliverEnd(l) ==
    /\ source.phase = "open"
    /\ source.pos = Count \/ source.last = Terminal
    /\ run.status \in Ended
    /\ view' = [view EXCEPT !.active = FALSE]
    /\ source' = NoSource
    /\ me' = [current |-> FALSE, old |-> me.current \/ me.old]
    /\ Begin(l)
    /\ UNCHANGED <<run, failed>>

(* The connection breaks, or the generator returns after an exception:     *)
(* onerror checks the session, and the EventSource connects again.         *)
Break ==
    /\ source.phase # "none"
    /\ source' = [source EXCEPT !.phase = "connecting", !.sub = 0]
    /\ me' = [me EXCEPT !.current = TRUE]
    /\ UNCHANGED <<run, loads, view, failed>>

(* The Agent Server ends the stream of a run that goes on: the event       *)
(* run.running has no listener, but its id becomes the cursor.             *)
EndEarly ==
    /\ source.phase = "open" /\ run.status = "running"
    /\ source' = [source EXCEPT !.phase = "connecting", !.sub = 0, !.last = Terminal]
    /\ me' = [me EXCEPT !.current = TRUE]
    /\ UNCHANGED <<run, loads, view, failed>>

(* Mutant: only close the source.                                          *)
CheckedOnlyCloses(l) ==
    /\ me.current
    /\ source' = NoSource
    /\ me' = [me EXCEPT !.current = FALSE]
    /\ UNCHANGED <<run, loads, view, failed>>

(* The session is good: close the source and load a snapshot.              *)
Checked(l) ==
    /\ me.current
    /\ source' = NoSource
    /\ me' = [me EXCEPT !.current = FALSE]
    /\ Begin(l)
    /\ UNCHANGED <<run, view, failed>>

CheckedLate(l) ==
    /\ me.old
    /\ me' = [me EXCEPT !.old = FALSE]
    /\ Begin(l)
    /\ UNCHANGED <<run, source, view, failed>>

CheckFails ==
    /\ \/ me.current /\ me' = [me EXCEPT !.current = FALSE]
       \/ me.old /\ me' = [me EXCEPT !.old = FALSE]
    /\ UNCHANGED <<run, source, loads, view, failed>>

----------------------------------------------------------------------------
(* get_snapshot and loadSnapshot.                                          *)

ReadState(l) ==
    /\ loads[l].asked /\ loads[l].state = Terminal
    /\ loads' = [loads EXCEPT ![l].state = run.saved]
    /\ UNCHANGED <<run, source, me, view, failed>>

ReadRuns(l) ==
    /\ loads[l].asked /\ loads[l].runs = "none"
    /\ loads' = [loads EXCEPT ![l].runs = run.status]
    /\ UNCHANGED <<run, source, me, view, failed>>

(* Rebuild the view; connect if the run is active.                         *)
Apply(l) ==
    LET load == loads[l]
        active == load.runs = "running"
    IN  /\ load.state # Terminal /\ load.runs # "none"
        /\ view' = [events |-> SnapshotEvents(load.state), active |-> active]
        /\ source' = IF active THEN NewSource ELSE source
        /\ me' = IF active THEN [current |-> FALSE, old |-> me.current \/ me.old] ELSE me
        /\ loads' = [loads EXCEPT ![l] = NoLoad]
        /\ failed' = IF ~active /\ load.state # run.saved THEN failed \cup {"torn"} ELSE failed
        /\ run' = run

LoadFails(l) ==
    /\ loads[l].asked
    /\ loads' = [loads EXCEPT ![l] = NoLoad]
    /\ failed' = failed \cup {"snapshot"}
    /\ UNCHANGED <<run, source, me, view>>

----------------------------------------------------------------------------
Next ==
    \/ \E text \in BOOLEAN, calls \in SUBSET Calls : StreamMessage(text, calls)
    \/ \E results \in SUBSET Calls : StreamResults(results)
    \/ Save \/ \E status \in Ended : Finish(status)
    \/ Accept \/ Refuse \/ Deliver \/ Break \/ EndEarly \/ CheckFails
    \/ \E l \in 1 .. MaxLoads :
          \/ DeliverEnd(l) \/ Checked(l) \/ CheckedLate(l)
          \/ ReadState(l) \/ ReadRuns(l) \/ Apply(l) \/ LoadFails(l)

Spec == Init /\ [][Next]_vars

----------------------------------------------------------------------------
(* Properties.                                                             *)

TypeOK ==
    /\ run \in RunStates /\ source \in Sources
    /\ me \in [current : BOOLEAN, old : BOOLEAN]
    /\ loads \in [1 .. MaxLoads -> LoadStates]
    /\ view \in [events : Seq(Events), active : BOOLEAN]
    /\ failed \subseteq {"refused", "snapshot", "torn"}

(* No message is shown twice or out of order, however snapshots and        *)
(* reconnected streams follow one another.                                 *)
MessagesInOrderOnce ==
    LET shown == MessagesShown(view.events)
    IN  \A i, j \in DOMAIN shown : i < j => shown[i] < shown[j]

(* While the run is followed the view has every message streamed since it  *)
(* joined, up to the cursor a reconnect would continue from: what a broken *)
(* connection loses is never lost behind the cursor.                       *)
CursorCoversMessages ==
    view.active /\ source.phase # "none" /\ source.last <= MaxParts =>
        \A i \in source.from + 1 .. source.last :
            run.parts[i].text => i \in Range(MessagesShown(view.events))

(* A tool call whose result the view has received is not shown as still    *)
(* running, and a researcher task is shown once: by its call until its     *)
(* result names the task, then under the task.                             *)
ResultsSettleCalls ==
    LET shown == ActivitiesShown(view.events)
        results == {view.events[i].of : i \in {k \in DOMAIN view.events :
                                                  view.events[k].kind = "result"}}
        open == {view.events[i].of : i \in {k \in DOMAIN view.events :
                                               view.events[k].kind = "call"}} \ results
    IN  \A c \in results :
            LET ids == {CallActivity(c), ResultActivity(c)} \cap DOMAIN shown
            IN  /\ Cardinality(ids) = 1
                /\ \A id \in ids :
                      shown[id] = "running" => \E d \in open : CallActivity(d) = id

Shown == ~view.active /\ view.events = SnapshotEvents(run.saved)

(* A check that is made again and again succeeds once; the rest needs only *)
(* not to be put off for ever.                                             *)
Fairness ==
    /\ WF_vars(Accept) /\ WF_vars(Deliver)
    /\ WF_vars(\E l \in 1 .. MaxLoads : DeliverEnd(l))
    /\ SF_vars(\E l \in 1 .. MaxLoads : Checked(l))
    /\ \A l \in 1 .. MaxLoads :
          WF_vars(ReadState(l)) /\ WF_vars(ReadRuns(l)) /\ WF_vars(Apply(l))

FairSpec == Spec /\ Fairness

(* Once the run has ended the view comes to show, and goes on showing, the *)
(* Thread's final state as that of an ended run, unless a connection was   *)
(* refused, a snapshot failed, or a snapshot's state was older than its    *)
(* runs: broken connections and failed checks of the session alone do not  *)
(* leave a view behind (docs/architecture.md:73).                          *)
EndIsShown == run.status \in Ended ~> [](Shown \/ failed # {})
=============================================================================
