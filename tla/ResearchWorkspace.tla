--------------------------- MODULE ResearchWorkspace ---------------------------
(***************************************************************************)
(* useResearchWorkspace.ts: the Thread a browser shows, the snapshots it   *)
(* loads, the EventSource it follows and the requests of its user, each of *)
(* which answers, or fails, after the user may have selected another       *)
(* Thread. EventStream has one run in detail; here an event only says      *)
(* whose it is and what it does to the active run of the view.             *)
(*                                                                         *)
(* A render commits before the next callback runs, so the refs that        *)
(* effects keep equal to the state (activeThreadRef, activeRunIdRef) are   *)
(* one variable with it.                                                   *)
(***************************************************************************)
EXTENDS Naturals, Sequences, FiniteSets

CONSTANTS Threads,      \* the Threads of the Project, numbered as they are listed
          Slots,        \* EventSource objects alive at once, numbered
          Loads,        \* loadSnapshot calls on their way
          MaxRuns,      \* bound: runs created
          MaxRequests,  \* bound: snapshot request ids
          MaxChecks,    \* bound: checks of the session under way at once
          MaxPosts      \* bound: requests of the user under way at once

ASSUME Numbered == Threads \subseteq Nat \ {0} /\ Slots \subseteq Nat \ {0}
ASSUME RequestsNumbered == MaxRequests \in Nat \ {0}

(* One request at a time each.                                             *)
Forms == {"composer", "transcript", "rail"}

VARIABLES
    runs,       \* the Agent Server: the runs, oldest first
    exists,     \* the Agent Server: the Threads not deleted
    selected,   \* activeThreadRef, 0 for none
    request,    \* snapshotRequestIdRef
    view,       \* the projection: whose events it holds, its active run, its question
    sources,    \* EventSource objects
    ref,        \* sourceRef: the slot of an EventSource, 0 for none
    loads,      \* loadSnapshot calls
    posts,      \* requests of the user
    strayed,    \* history: Threads whose answer came after another was selected
    lost        \* history: the view has lost track since its last snapshot

server == <<runs, exists>>
vars == <<server, selected, request, view, sources, ref, loads, posts, strayed, lost>>

Runs == [thread : Threads, status : {"active", "success", "interrupted", "cancelled"}]

RunIds == 1 .. Len(runs)
Active(r) == r # 0 /\ runs[r].status = "active"
RunsOf(t) == {r \in RunIds : runs[r].thread = t}

ActiveRuns(t) == {r \in RunsOf(t) : Active(r)}

(* The run whose question the Thread waits to be answered: its newest one. *)
Waiting(t) == {r \in RunsOf(t) : /\ runs[r].status = "interrupted"
                                 /\ \A q \in RunsOf(t) : q <= r}

First(n, S) == n \in S /\ \A m \in S : n <= m
NewestOrNone(n, S) == IF S = {} THEN n = 0 ELSE n \in S /\ \A m \in S : m <= n

EmptyView == [owners |-> {}, active |-> 0, question |-> 0]
NoSource == [thread |-> 0, run |-> 0, open |-> FALSE, checking |-> FALSE]
Following(t, r) == [thread |-> t, run |-> r, open |-> TRUE, checking |-> FALSE]
NoLoad == [thread |-> 0, request |-> 0, read |-> FALSE, active |-> 0, question |-> 0]
Loading(t, id) == [thread |-> t, request |-> id, read |-> FALSE, active |-> 0, question |-> 0]
NoPost == [kind |-> "none", thread |-> 0, run |-> 0, wasActive |-> FALSE, answered |-> FALSE]

Init ==
    /\ runs = <<>> /\ exists = Threads
    /\ First(selected, Threads) /\ request = 1
    /\ view = EmptyView
    /\ sources = [n \in Slots |-> NoSource] /\ ref = 0
    /\ loads = [l \in Loads |-> NoLoad]
    /\ posts = [f \in Forms |-> NoPost]
    /\ strayed = {} /\ lost = FALSE

(***************************************************************************)
(* The steps that the handlers are made of.                                *)
(***************************************************************************)

(* recordEvent with an event of a run: eventStatus. The types of events    *)
(* are named without their prefixes.                                       *)
Record(v, r, type) ==
    [owners |-> v.owners \cup {runs[r].thread},
     active |-> CASE type = "started" -> r
                  [] type = "interrupted" -> 0
                  [] type \in {"success", "cancelled"} /\ v.active = r -> 0
                  [] OTHER -> v.active,
     question |-> CASE type = "interrupted" -> r
                    [] type = "resumed" -> 0
                    [] OTHER -> v.question]

(* close(): the object is kept while its check of the session is pending.  *)
Closed(s, n) ==
    IF n = 0 THEN s
    ELSE [s EXCEPT ![n] = IF @.checking THEN [@ EXCEPT !.open = FALSE] ELSE NoSource]

Free(s) == {n \in Slots : s[n] = NoSource}

(* Mutant: the EventSource followed so far is left open.                   *)
ConnectRunKeepingOld(s, t, r) ==
    /\ \E n \in Slots : First(n, Free(s)) /\ ref' = n
    /\ sources' = [s EXCEPT ![ref'] = Following(t, r)]

(* connectRun; s is what the sources were.                                 *)
ConnectRun(s, t, r) ==
    LET closed == Closed(s, ref)
    IN  \E n \in Slots :
        /\ First(n, Free(closed))
        /\ ref' = n
        /\ sources' = [closed EXCEPT ![n] = Following(t, r)]

Disconnect == sources' = Closed(sources, ref) /\ ref' = 0

(* loadSnapshot up to its request.                                         *)
BeginLoad(t, id) ==
    \E l \in Loads :
        /\ loads[l] = NoLoad
        /\ loads' = [loads EXCEPT ![l] = Loading(t, id)]

(* Mutant: the Thread is not compared.                                     *)
CurrentByRequest(load) == load.request = request

Current(load) == load.request = request /\ load.thread = selected

NextRequest == request < MaxRequests /\ request' = request + 1

(* Something that will tell the view how its run goes on: an open stream,  *)
(* a check of the session, a snapshot for the selection.                   *)
UnderWay ==
    \/ \E n \in Slots :
          /\ sources[n].thread = selected
          /\ sources[n].open \/ sources[n].checking
    \/ \E l \in Loads : Current(loads[l])

(* An answer for a Thread that is not the one selected any more.           *)
Late(t) == IF t = selected THEN strayed' = strayed ELSE strayed' = strayed \cup {t}

Answered(f) == posts[f].answered /\ posts' = [posts EXCEPT ![f] = NoPost]

-----------------------------------------------------------------------------
(* The Agent Server.                                                       *)

(* Runs of a Thread run one after another.                                 *)
Finish(r) ==
    /\ Active(r) /\ ~\E q \in RunsOf(runs[r].thread) : q < r /\ Active(q)
    /\ \E status \in {"success", "interrupted"} :
          runs' = [runs EXCEPT ![r].status = status]
    /\ UNCHANGED <<exists, selected, request, view, sources, ref, loads, posts, strayed, lost>>

WithRun(t) == Append(runs, [thread |-> t, status |-> "active"])

(* multitask_strategy "interrupt": the runs under way are stopped.         *)
Stopped(t) ==
    [r \in RunIds |-> IF r \in RunsOf(t) /\ Active(r) THEN [runs[r] EXCEPT !.status = "cancelled"]
                      ELSE runs[r]]

(* The request of a form reaches the server.                               *)
Arrive(f) ==
    LET post == posts[f]
        t == post.thread
    IN  /\ post.kind # "none" /\ ~post.answered
        /\ t \in exists
        /\ CASE post.kind \in {"submit", "edit"} ->
                  /\ Waiting(t) = {} /\ Len(runs) < MaxRuns
                  /\ runs' = IF post.wasActive
                             THEN Append(Stopped(t), [thread |-> t, status |-> "active"])
                             ELSE WithRun(t)
                  /\ exists' = exists
             [] post.kind = "resume" ->
                  /\ post.run \in Waiting(t) /\ Len(runs) < MaxRuns
                  /\ runs' = WithRun(t) /\ exists' = exists
             [] post.kind = "cancel" ->
                  /\ runs[post.run].thread = t
                  /\ runs' = IF Active(post.run)
                             THEN [runs EXCEPT ![post.run].status = "cancelled"] ELSE runs
                  /\ exists' = exists
             [] post.kind = "delete" -> exists' = exists \ {t} /\ runs' = Stopped(t)
        /\ posts' = [posts EXCEPT ![f].answered = TRUE,
                         ![f].run = IF post.kind = "cancel" THEN @ ELSE Len(runs')]
        /\ UNCHANGED <<selected, request, view, sources, ref, loads, strayed, lost>>

(* The request fails, before or after it had its effect.                   *)
Fail(f) ==
    /\ posts[f].kind \notin {"none", "cancel"}
    /\ posts' = [posts EXCEPT ![f] = NoPost]
    /\ UNCHANGED <<server, selected, request, view, sources, ref, loads, strayed, lost>>

-----------------------------------------------------------------------------
(* Snapshots.                                                              *)

ReadSnapshot(l) ==
    /\ loads[l] # NoLoad /\ ~loads[l].read
    /\ loads[l].thread \in exists
    /\ \E active, question \in 0 .. Len(runs) :
          /\ NewestOrNone(active, ActiveRuns(loads[l].thread))
          /\ NewestOrNone(question, Waiting(loads[l].thread))
          /\ loads' = [loads EXCEPT ![l].read = TRUE, ![l].active = active,
                                    ![l].question = question]
    /\ UNCHANGED <<server, selected, request, view, sources, ref, posts, strayed, lost>>

(* The snapshot resets the view, fills it, and follows the active run.     *)
ApplySnapshot(l) ==
    /\ loads[l].read
    /\ IF Current(loads[l])
       THEN /\ view' = [owners |-> {loads[l].thread}, active |-> loads[l].active,
                        question |-> loads[l].question]
            /\ IF loads[l].active = 0 THEN UNCHANGED <<sources, ref>>
               ELSE ConnectRun(sources, loads[l].thread, loads[l].active)
            /\ lost' = FALSE
       ELSE UNCHANGED <<view, sources, ref, lost>>
    /\ loads' = [loads EXCEPT ![l] = NoLoad]
    /\ UNCHANGED <<server, selected, request, posts, strayed>>

LoadFails(l) ==
    /\ loads[l] # NoLoad
    /\ loads' = [loads EXCEPT ![l] = NoLoad]
    /\ lost' = (lost \/ Current(loads[l]))
    /\ UNCHANGED <<server, selected, request, view, sources, ref, posts, strayed>>

-----------------------------------------------------------------------------
(* The EventSource.                                                        *)

(* The Thread of the URL is the one of the run; else the answer is 404.    *)
Streams(n) == sources[n].open /\ runs[sources[n].run].thread = sources[n].thread

(* A message or an activity of the run.                                    *)
Part(n) ==
    /\ Streams(n)
    /\ view' = Record(view, sources[n].run, "message")
    /\ UNCHANGED <<server, selected, request, sources, ref, loads, posts, strayed, lost>>

(* Mutant: sourceRef keeps the closed EventSource.                         *)
EndOfRunKeepingRef(n) ==
    LET r == sources[n].run
    IN  /\ Streams(n) /\ ~Active(r)
        /\ UNCHANGED <<server, selected, request, posts, strayed, lost, ref>>
        /\ view' = Record(view, r, runs[r].status)
        /\ sources' = Closed(sources, n)
        /\ BeginLoad(runs[r].thread, request)

(* The terminal frame.                                                     *)
EndOfRun(n) ==
    LET r == sources[n].run
    IN  /\ Streams(n) /\ ~Active(r)
        /\ UNCHANGED <<server, selected, request, posts, strayed, lost>>
        /\ view' = Record(view, r, runs[r].status)
        /\ sources' = Closed(sources, n)
        /\ ref' = IF ref = n THEN 0 ELSE ref
        /\ BeginLoad(runs[r].thread, request)

(* onerror: the EventSource reconnects by itself while /api/auth/me is     *)
(* asked; a refused reconnect closes it for good, and onerror returns.     *)
Lose(n) ==
    /\ sources[n].open /\ ~sources[n].checking
    /\ Cardinality({m \in Slots : sources[m].checking}) < MaxChecks
    /\ sources' = [sources EXCEPT ![n].checking = TRUE]
    /\ UNCHANGED <<server, selected, request, view, ref, loads, posts, strayed, lost>>

Refuse(n) ==
    /\ sources[n].open
    /\ sources' = Closed(sources, n)
    /\ ref' = IF ref = n THEN 0 ELSE ref
    /\ lost' = (lost \/ ~sources[n].checking)
    /\ UNCHANGED <<server, selected, request, view, loads, posts, strayed>>

Checked(n) ==
    /\ sources[n].checking
    /\ sources' = [sources EXCEPT ![n] = NoSource]
    /\ ref' = IF ref = n THEN 0 ELSE ref
    /\ BeginLoad(sources[n].thread, request)
    /\ UNCHANGED <<server, selected, request, view, posts, strayed, lost>>

CheckFails(n) ==
    /\ sources[n].checking
    /\ sources' = IF sources[n].open THEN [sources EXCEPT ![n].checking = FALSE]
                  ELSE [sources EXCEPT ![n] = NoSource]
    /\ lost' = (lost \/ ~sources[n].open)
    /\ UNCHANGED <<server, selected, request, view, ref, loads, posts, strayed>>

-----------------------------------------------------------------------------
(* The user.                                                               *)

SelectThread(t) ==
    /\ NextRequest
    /\ selected' = t
    /\ view' = EmptyView
    /\ Disconnect
    /\ BeginLoad(t, request')
    /\ strayed' = {} /\ lost' = FALSE

Select(t) ==
    /\ t \in exists
    /\ SelectThread(t)
    /\ UNCHANGED <<server, posts>>

Ask(f, kind, t, r) ==
    /\ t # 0 /\ posts[f] = NoPost
    /\ Cardinality({g \in Forms : posts[g] # NoPost}) < MaxPosts
    /\ posts' = [posts EXCEPT ![f] =
          [kind |-> kind, thread |-> t, run |-> r,
           wasActive |-> kind = "submit" /\ view.active # 0, answered |-> FALSE]]

Submit ==
    /\ Ask("composer", "submit", selected, 0)
    /\ UNCHANGED <<server, selected, request, view, sources, ref, loads, strayed, lost>>

(* wasActive is as the request found it: the run may have ended since, and *)
(* then nothing follows the new one.                                       *)
Submitted ==
    LET post == posts["composer"]
    IN  /\ post.kind = "submit" /\ Answered("composer")
        /\ UNCHANGED <<server, selected, request, loads>>
        /\ view' = Record(view, post.run, "started")
        /\ IF post.wasActive THEN UNCHANGED <<sources, ref>> ELSE ConnectRun(sources, post.thread, post.run)
        /\ Late(post.thread)
        /\ lost' = (lost \/ (post.wasActive /\ ~UnderWay) \/ post.thread # selected)

Resume ==
    /\ view.question # 0
    /\ Ask("transcript", "resume", selected, view.question)
    /\ UNCHANGED <<server, selected, request, view, sources, ref, loads, strayed, lost>>

Resumed ==
    LET post == posts["transcript"]
    IN  /\ post.kind = "resume" /\ Answered("transcript")
        /\ UNCHANGED <<server, selected, request, loads>>
        /\ view' = Record(Record(view, post.run, "resumed"), post.run, "started")
        /\ ConnectRun(sources, post.thread, post.run)
        /\ Late(post.thread)
        /\ lost' = (lost \/ post.thread # selected)

Edit ==
    /\ view.active = 0
    /\ Ask("transcript", "edit", selected, 0)
    /\ UNCHANGED <<server, selected, request, view, sources, ref, loads, strayed, lost>>

Edited ==
    LET post == posts["transcript"]
    IN  /\ post.kind = "edit" /\ Answered("transcript")
        /\ NextRequest
        /\ Disconnect
        /\ BeginLoad(post.thread, request')
        /\ lost' = (lost \/ post.thread # selected)
        /\ UNCHANGED <<server, selected, view, strayed>>

SelectBranch ==
    /\ selected # 0 /\ view.active = 0
    /\ NextRequest
    /\ Disconnect
    /\ BeginLoad(selected, request')
    /\ UNCHANGED <<server, selected, view, posts, strayed, lost>>

CancelRun ==
    /\ view.active # 0
    /\ Ask("composer", "cancel", selected, view.active)
    /\ Disconnect
    /\ UNCHANGED <<server, selected, request, view, loads, strayed, lost>>

RunCancelled ==
    LET post == posts["composer"]
    IN  /\ post.kind = "cancel" /\ Answered("composer")
        /\ view' = Record(view, post.run, "cancelled")
        /\ Late(post.thread)
        /\ UNCHANGED <<server, selected, request, sources, ref, loads, lost>>

(* Mutant: a cancellation that fails does not connect again.               *)
CancelFailsSilently ==
    /\ posts["composer"].kind = "cancel"
    /\ posts' = [posts EXCEPT !["composer"] = NoPost]
    /\ UNCHANGED <<server, selected, request, view, sources, ref, loads, strayed, lost>>

CancelFails ==
    LET post == posts["composer"]
    IN  /\ post.kind = "cancel"
        /\ posts' = [posts EXCEPT !["composer"] = NoPost]
        /\ ConnectRun(sources, post.thread, post.run)
        /\ lost' = (lost \/ post.thread # selected)
        /\ UNCHANGED <<server, selected, request, view, loads>>
        /\ Late(post.thread)

DeleteThread(t) ==
    /\ t \in exists
    /\ Ask("rail", "delete", t, 0)
    /\ UNCHANGED <<server, selected, request, view, sources, ref, loads, strayed, lost>>

ThreadDeleted ==
    LET post == posts["rail"]
    IN  /\ post.kind = "delete" /\ Answered("rail")
        /\ IF post.thread # selected
           THEN UNCHANGED <<selected, request, view, sources, ref, loads, strayed, lost>>
           ELSE \/ \E t \in exists : First(t, exists) /\ SelectThread(t)
                \/ /\ exists = {} /\ NextRequest /\ Disconnect
                   /\ selected' = 0 /\ view' = EmptyView
                   /\ strayed' = {} /\ lost' = FALSE /\ loads' = loads
        /\ UNCHANGED server

-----------------------------------------------------------------------------
Next ==
    \/ \E r \in RunIds : Finish(r)
    \/ \E f \in Forms : Arrive(f) \/ Fail(f)
    \/ \E l \in Loads : ReadSnapshot(l) \/ ApplySnapshot(l) \/ LoadFails(l)
    \/ \E n \in Slots : Part(n) \/ EndOfRun(n) \/ Lose(n) \/ Refuse(n) \/ Checked(n) \/ CheckFails(n)
    \/ \E t \in Threads : Select(t) \/ DeleteThread(t)
    \/ Submit \/ Submitted \/ Resume \/ Resumed \/ Edit \/ Edited
    \/ SelectBranch \/ CancelRun \/ RunCancelled \/ CancelFails \/ ThreadDeleted

Spec == Init /\ [][Next]_vars

-----------------------------------------------------------------------------
Views == [owners : SUBSET Threads, active : 0 .. Len(runs), question : 0 .. Len(runs)]
Sources == [thread : Threads \cup {0}, run : 0 .. Len(runs), open : BOOLEAN, checking : BOOLEAN]
Snapshots == [thread : Threads \cup {0}, request : 0 .. MaxRequests, read : BOOLEAN,
              active : 0 .. Len(runs), question : 0 .. Len(runs)]
Posts == [kind : {"none", "submit", "resume", "edit", "cancel", "delete"},
          thread : Threads \cup {0}, run : 0 .. Len(runs),
          wasActive : BOOLEAN, answered : BOOLEAN]

(* Every variable holds values of its kind, and sourceRef an EventSource.  *)
TypeOK ==
    /\ runs \in Seq(Runs)
    /\ exists \subseteq Threads
    /\ selected \in Threads \cup {0} /\ request \in 1 .. MaxRequests
    /\ view \in Views
    /\ sources \in [Slots -> Sources]
    /\ ref \in Slots \cup {0} /\ (ref # 0 => sources[ref].run # 0)
    /\ loads \in [Loads -> Snapshots]
    /\ posts \in [Forms -> Posts]
    /\ strayed \subseteq Threads /\ lost \in BOOLEAN

(* Only the EventSource in sourceRef is open, whatever answers, errors and *)
(* selections interleave: the events of a run never arrive twice, and a    *)
(* selection silences the Thread before (connectRun, selectThread).        *)
OneStream == \A n \in Slots : sources[n].open => n = ref

(* The view holds events of the selected Thread only, but for answers to a *)
(* request of the user that came after the selection had moved on          *)
(* (loadSnapshot's request id, selectThread's close and reset).            *)
ViewIsOfSelected == view.owners \subseteq {selected} \cup strayed

(* While the view shows an active run, something is under way that will    *)
(* tell it when the run is over: an open stream, a snapshot for the        *)
(* selection, or the answer to a cancellation. Excepted are the losses     *)
(* that the code does not make good: a snapshot that failed, a refused     *)
(* reconnect, an answer that came too late, and a message sent while a run *)
(* was active that has ended by the time of the answer (connectRun,        *)
(* loadSnapshot, submitMessage, cancelRun).                                *)
Followed ==
    view.active # 0 /\ ~lost => UnderWay \/ \E f \in Forms : posts[f].kind = "cancel"
================================================================================
