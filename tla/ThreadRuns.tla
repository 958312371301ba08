------------------------------ MODULE ThreadRuns ------------------------------
(***************************************************************************)
(* One main Thread, its runs and its researchers: the handlers of          *)
(* src/langalpha/server/routes/runs.py and threads.py that enqueue, resume *)
(* and cancel runs and delete the Thread, beside the Agent Server that     *)
(* executes them and the tool start_async_task by which a run launches a   *)
(* researcher on a Thread of its own.                                      *)
(*                                                                         *)
(* A step is one call to the Agent Server.  Requests overlap, each call    *)
(* may raise, and a call a launch has sent still takes effect after its    *)
(* run has been stopped.                                                   *)
(***************************************************************************)
EXTENDS Naturals, Sequences, FiniteSets

CONSTANTS Requests,  \* requests of the browser that may overlap
          Tasks,     \* identities of the researcher Threads
          NoTask,
          MaxRuns,   \* bound: runs ever enqueued on the Thread
          PageSize   \* Threads in one page of a search (100 in the code)

ASSUME BoundsAssumption == MaxRuns \in Nat \ {0} /\ PageSize \in Nat \ {0}

ASSUME NoTaskAssumption == NoTask \notin Tasks

VARIABLES
    thread,   \* exists: the Thread; waiting: its state holds interrupts
    runs,     \* the runs, oldest first: runs[r]
    task,     \* task[t]: a researcher Thread with its run and its launch
    recent,   \* <<t, u>>: the Thread of t has been updated after that of u
    request,  \* request[q]: the handler's step and locals
    seen      \* history, seen[q]: the runs that were over, and the launches
              \* still in flight, when q had stopped its runs

vars == <<thread, runs, task, recent, request, seen>>

----------------------------------------------------------------------------
(* What the Agent Server keeps.                                            *)

RunIds == 1 .. MaxRuns

Active == {"pending", "running"}

(* turn: the run that opened the turn; parent: the run a resume goes on    *)
(* with, whose turn it shares.                                             *)
Runs == [status : Active \cup {"success", "error", "interrupted"},
         turn : RunIds, parent : {0} \cup RunIds]

(* Mutant: only a run that has been resumed.                               *)
ShownResumed(r) ==
    runs[r].status = "success" /\ \E s \in DOMAIN runs : runs[s].parent = r

(* gateway.runs shows a run as interrupted when it succeeded and either is *)
(* the newest of a Thread that waits or has been resumed.                  *)
ShownInterrupted(r) ==
    /\ runs[r].status = "success"
    /\ \/ thread.waiting /\ r = Len(runs)
       \/ \E s \in DOMAIN runs : runs[s].parent = r

ActiveRuns == {r \in DOMAIN runs : runs[r].status \in Active}

(* A launch sends threads.create, then runs.create; "bare" is a Thread     *)
(* whose launch died in between.  by: the run of the tool call.            *)
Stages == {"none", "makingThread", "makingRun", "bare", "active", "ended", "deleted"}

TaskStates == [stage : Stages, by : {0} \cup RunIds]

Exists(t) == task[t].stage \in {"makingRun", "bare", "active", "ended"}

(* The run that launches t still executes.                                 *)
Executing(t) == runs[task[t].by].status = "running"

Launching(t) == task[t].stage \in {"makingThread", "makingRun"}

TaskTo(t, stage) == task' = [task EXCEPT ![t].stage = stage]

Others(t) == {p \in recent : t # p[1] /\ t # p[2]}

(* The Thread of task t has been updated.                                  *)
Touch(t) == recent' = Others(t) \cup {<<t, u>> : u \in {u \in Tasks \ {t} : Exists(u)}}

StatusTo(r, status) == runs' = [runs EXCEPT ![r].status = status]

Halted == [r \in DOMAIN runs |->
              IF r \in ActiveRuns THEN [runs[r] EXCEPT !.status = "interrupted"] ELSE runs[r]]

(* run and todo: the run to stop, the Threads still to visit; offset: of   *)
(* the page; live: the runs found active on the Thread being visited.      *)
Locals == [step : {"idle", "creating", "resuming", "stopping", "finding",
                   "stoppingAll", "paging", "visiting", "stoppingTask",
                   "deletingTask", "deletingThread", "answered"},
           delete : BOOLEAN, run : {0} \cup RunIds, live : SUBSET RunIds,
           offset : Nat, todo : SUBSET Tasks, task : Tasks \cup {NoTask}]

Idle == [step |-> "idle", delete |-> FALSE, run |-> 0, live |-> {},
         offset |-> 0, todo |-> {}, task |-> NoTask]

Seen == [over : SUBSET RunIds, launches : SUBSET Tasks]

NothingSeen == [over |-> {}, launches |-> {}]

RequestTo(q, step) == request' = [request EXCEPT ![q].step = step]

End(q) == request' = [request EXCEPT ![q] = Idle]

Init ==
    /\ thread = [exists |-> TRUE, waiting |-> FALSE]
    /\ runs = <<>>
    /\ task = [t \in Tasks |-> [stage |-> "none", by |-> 0]]
    /\ recent = {}
    /\ request = [q \in Requests |-> Idle]
    /\ seen = [q \in Requests |-> NothingSeen]

----------------------------------------------------------------------------
(* The Agent Server runs one run of a Thread at a time, in order.          *)

(* A resume consumes the interrupts; so does a new message.                *)
StartRun ==
    /\ \A r \in DOMAIN runs : runs[r].status # "running"
    /\ \E r \in ActiveRuns :
          /\ \A s \in ActiveRuns : r <= s
          /\ StatusTo(r, "running")
    /\ thread' = [thread EXCEPT !.waiting = FALSE]
    /\ UNCHANGED <<task, recent, request, seen>>

(* A run ends, or pauses for input, once its tool calls have returned.     *)
FinishRun ==
    /\ \E r \in DOMAIN runs :
          /\ runs[r].status = "running"
          /\ \A t \in Tasks : Launching(t) => task[t].by # r
          /\ \/ StatusTo(r, "success")
                /\ \E paused \in BOOLEAN : thread' = [thread EXCEPT !.waiting = paused]
             \/ StatusTo(r, "error") /\ thread' = thread
    /\ UNCHANGED <<task, recent, request, seen>>

----------------------------------------------------------------------------
(* start_async_task.                                                       *)

Launch(t) ==
    /\ task[t].stage = "none"
    /\ \E r \in DOMAIN runs :
          /\ runs[r].status = "running"
          /\ task' = [task EXCEPT ![t] = [stage |-> "makingThread", by |-> r]]
    /\ UNCHANGED <<thread, runs, recent, request, seen>>

(* threads.create takes effect; a stopped run sends nothing more.          *)
MakeThread(t) ==
    /\ task[t].stage = "makingThread"
    /\ TaskTo(t, IF Executing(t) THEN "makingRun" ELSE "bare")
    /\ Touch(t)
    /\ UNCHANGED <<thread, runs, request, seen>>

MakeRun(t) ==
    /\ task[t].stage = "makingRun"
    /\ TaskTo(t, "active")
    /\ Touch(t)
    /\ UNCHANGED <<thread, runs, request, seen>>

(* threads.create or runs.create raises: a run that still executes deletes *)
(* the Thread, if that works.                                              *)
LaunchFails(t) ==
    /\ \/ /\ task[t].stage = "makingThread"
          /\ TaskTo(t, "deleted")
          /\ recent' = recent
       \/ /\ task[t].stage = "makingRun"
          /\ \/ Executing(t) /\ TaskTo(t, "deleted") /\ recent' = Others(t)
             \/ TaskTo(t, "bare") /\ recent' = recent
    /\ UNCHANGED <<thread, runs, request, seen>>

(* The researcher's run starts or makes progress.                          *)
ProgressTask(t) ==
    /\ task[t].stage = "active"
    /\ Touch(t)
    /\ UNCHANGED <<thread, runs, task, request, seen>>

EndTask(t) ==
    /\ task[t].stage = "active"
    /\ TaskTo(t, "ended")
    /\ Touch(t)
    /\ UNCHANGED <<thread, runs, request, seen>>

----------------------------------------------------------------------------
(* create_run and resume_run.                                              *)

(* require_thread, then the state: a Thread that waits is refused.         *)
BeginCreate(q) ==
    /\ request[q].step = "idle"
    /\ thread.exists /\ ~thread.waiting
    /\ RequestTo(q, "creating")
    /\ UNCHANGED <<thread, runs, task, recent, seen>>

(* multitask_strategy: "interrupt" stops what is active, "enqueue" waits.  *)
CreateInPreviousTurn(q) ==
    /\ request[q].step = "creating"
    /\ Len(runs) < MaxRuns
    /\ runs' = Append(runs, [status |-> "pending", turn |-> Len(runs), parent |-> 0])
    /\ End(q)
    /\ UNCHANGED <<thread, task, recent, seen>>

CreateRun(q) ==
    /\ request[q].step = "creating"
    /\ thread.exists
    /\ Len(runs) < MaxRuns
    /\ LET new == [status |-> "pending", turn |-> Len(runs) + 1, parent |-> 0]
       IN  runs' = Append(runs, new) \/ runs' = Append(Halted, new)
    /\ End(q)
    /\ UNCHANGED <<thread, task, recent, seen>>

(* gateway.run shows any successful run as interrupted when the Thread     *)
(* holds interrupts.                                                       *)
BeginResume(q, r) ==
    /\ request[q].step = "idle"
    /\ thread.exists /\ thread.waiting
    /\ runs[r].status = "success"
    /\ request' = [request EXCEPT ![q] = [Idle EXCEPT !.step = "resuming", !.run = r]]
    /\ UNCHANGED <<thread, runs, task, recent, seen>>

ResumeRun(q) ==
    /\ request[q].step = "resuming"
    /\ thread.exists
    /\ Len(runs) < MaxRuns
    /\ LET previous == request[q].run
       IN  runs' = Append(runs, [status |-> "pending", turn |-> runs[previous].turn,
                                 parent |-> previous])
    /\ End(q)
    /\ UNCHANGED <<thread, task, recent, seen>>

----------------------------------------------------------------------------
(* cancel_run and delete_thread.                                           *)

See(q, over) ==
    seen' = [seen EXCEPT ![q] =
        [over |-> over, launches |-> {t \in Tasks : Launching(t)}]]

BeginCancel(q, r) ==
    /\ request[q].step = "idle"
    /\ thread.exists
    /\ request' = [request EXCEPT ![q] = [Idle EXCEPT !.step = "stopping", !.run = r]]
    /\ UNCHANGED <<thread, runs, task, recent, seen>>

BeginDelete(q) ==
    /\ request[q].step = "idle"
    /\ thread.exists
    /\ request' = [request EXCEPT ![q] = [Idle EXCEPT !.step = "finding", !.delete = TRUE]]
    /\ UNCHANGED <<thread, runs, task, recent, seen>>

(* runs.cancel(wait=True) of the run of a cancellation.                    *)
SweepFirst(q) ==
    /\ request[q].step = "stopping"
    /\ RequestTo(q, "paging")
    /\ See(q, {request[q].run})
    /\ UNCHANGED <<thread, runs, task, recent>>

CancelRun(q) ==
    /\ request[q].step = "stopping"
    /\ thread.exists
    /\ IF request[q].run \in ActiveRuns
       THEN StatusTo(request[q].run, "interrupted") ELSE runs' = runs
    /\ RequestTo(q, "paging")
    /\ See(q, (DOMAIN runs \ ActiveRuns) \cup {request[q].run})
    /\ UNCHANGED <<thread, task, recent>>

(* gateway.runs of a deletion, then one runs.cancel per run found active.  *)
FindRunning(q) ==
    /\ request[q].step = "finding"
    /\ request' = [request EXCEPT ![q].step = "stoppingAll",
          ![q].live = {r \in DOMAIN runs : runs[r].status = "running"}]
    /\ See(q, DOMAIN runs)
    /\ UNCHANGED <<thread, runs, task, recent>>

FindRuns(q) ==
    /\ request[q].step = "finding"
    /\ thread.exists
    /\ request' = [request EXCEPT ![q].step = "stoppingAll", ![q].live = ActiveRuns]
    /\ See(q, DOMAIN runs)
    /\ UNCHANGED <<thread, runs, task, recent>>

CancelFound(q) ==
    /\ request[q].step = "stoppingAll"
    /\ thread.exists
    /\ \/ \E r \in request[q].live :
             /\ IF r \in ActiveRuns THEN StatusTo(r, "interrupted") ELSE runs' = runs
             /\ request' = [request EXCEPT ![q].live = @ \ {r}]
       \/ /\ request[q].live = {}
          /\ RequestTo(q, "paging")
          /\ runs' = runs
    /\ See(q, seen[q].over)
    /\ UNCHANGED <<thread, task, recent>>

(* child_threads: pages of the researcher Threads of the turn, or of the   *)
(* Thread, until one is not full.                                          *)
Wanted(q, t) ==
    \/ request[q].delete
    \/ runs[task[t].by].turn = runs[request[q].run].turn

Page(q) ==
    LET found == {t \in Tasks : Exists(t) /\ Wanted(q, t)}
        before(t) == Cardinality({u \in found : <<u, t>> \in recent})
    IN  {t \in found : /\ request[q].offset <= before(t)
                       /\ before(t) < request[q].offset + PageSize}

ListPage(q) ==
    /\ request[q].step = "paging"
    /\ LET last == Cardinality(Page(q)) < PageSize
       IN  request' = [request EXCEPT
              ![q].todo = @ \cup Page(q),
              ![q].offset = IF last THEN 0 ELSE @ + PageSize,
              ![q].step = IF last THEN "visiting" ELSE "paging"]
    /\ UNCHANGED <<thread, runs, task, recent, seen>>

(* gateway.runs of one researcher Thread raises when it is gone.           *)
VisitTask(q) ==
    /\ request[q].step = "visiting"
    /\ \E t \in request[q].todo :
          /\ Exists(t)
          /\ request' = [request EXCEPT
                ![q].todo = @ \ {t},
                ![q].task = IF task[t].stage = "active" \/ request[q].delete
                            THEN t ELSE NoTask,
                ![q].step = IF task[t].stage = "active" THEN "stoppingTask"
                            ELSE IF request[q].delete THEN "deletingTask"
                            ELSE "visiting"]
    /\ UNCHANGED <<thread, runs, task, recent, seen>>

AllVisited(q) ==
    /\ request[q].step = "visiting"
    /\ request[q].todo = {}
    /\ RequestTo(q, IF request[q].delete THEN "deletingThread" ELSE "answered")
    /\ UNCHANGED <<thread, runs, task, recent, seen>>

CancelTask(q) ==
    LET t == request[q].task IN
    /\ request[q].step = "stoppingTask"
    /\ Exists(t)
    /\ IF task[t].stage = "active"
       THEN TaskTo(t, "ended") /\ Touch(t)
       ELSE UNCHANGED <<task, recent>>
    /\ IF request[q].delete
       THEN RequestTo(q, "deletingTask")
       ELSE request' = [request EXCEPT ![q].step = "visiting", ![q].task = NoTask]
    /\ UNCHANGED <<thread, runs, seen>>

DeleteTask(q) ==
    LET t == request[q].task IN
    /\ request[q].step = "deletingTask"
    /\ Exists(t)
    /\ TaskTo(t, "deleted")
    /\ recent' = Others(t)
    /\ request' = [request EXCEPT ![q].step = "visiting", ![q].task = NoTask]
    /\ UNCHANGED <<thread, runs, seen>>

(* threads.delete: the runs of the Thread go with it.                      *)
DeleteThread(q) ==
    /\ request[q].step = "deletingThread"
    /\ thread.exists
    /\ thread' = [exists |-> FALSE, waiting |-> FALSE]
    /\ runs' = Halted
    /\ RequestTo(q, "answered")
    /\ UNCHANGED <<task, recent, seen>>

Answer(q) ==
    /\ request[q].step = "answered"
    /\ End(q)
    /\ seen' = [seen EXCEPT ![q] = NothingSeen]
    /\ UNCHANGED <<thread, runs, task, recent>>

(* A call of the handler raises.                                           *)
RequestRaises(q) ==
    /\ request[q].step \notin {"idle", "answered"}
    /\ End(q)
    /\ seen' = [seen EXCEPT ![q] = NothingSeen]
    /\ UNCHANGED <<thread, runs, task, recent>>

----------------------------------------------------------------------------
Handle(q) ==
    \/ BeginCreate(q) \/ CreateRun(q)
    \/ \E r \in DOMAIN runs : BeginResume(q, r) \/ BeginCancel(q, r)
    \/ ResumeRun(q) \/ CancelRun(q)
    \/ BeginDelete(q) \/ FindRuns(q) \/ CancelFound(q)
    \/ ListPage(q) \/ VisitTask(q) \/ AllVisited(q) \/ CancelTask(q) \/ DeleteTask(q)
    \/ DeleteThread(q) \/ Answer(q) \/ RequestRaises(q)

Work(t) == Launch(t) \/ MakeThread(t) \/ MakeRun(t) \/ LaunchFails(t)
           \/ ProgressTask(t) \/ EndTask(t)

Next ==
    \/ StartRun \/ FinishRun
    \/ \E t \in Tasks : Work(t)
    \/ \E q \in Requests : Handle(q)

Spec == Init /\ [][Next]_vars

----------------------------------------------------------------------------
(* Properties.                                                             *)

TypeOK ==
    /\ thread \in [exists : BOOLEAN, waiting : BOOLEAN]
    /\ runs \in Seq(Runs) /\ Len(runs) <= MaxRuns
    /\ task \in [Tasks -> TaskStates]
    /\ recent \subseteq {p \in Tasks \X Tasks : p[1] # p[2] /\ Exists(p[1]) /\ Exists(p[2])}
    /\ request \in [Requests -> Locals]
    /\ seen \in [Requests -> Seen]

(* When a cancellation answers, no researcher of its turn is still active, *)
(* whichever run of the turn launched it, except one whose launch was on   *)
(* its way when the run was stopped, or whose run was still under way then *)
(* (cancel_run stops the run before it looks for the turn's researchers).  *)
CancelReachesTurn ==
    \A q \in Requests, t \in Tasks :
        (/\ request[q].step = "answered" /\ ~request[q].delete
         /\ task[t].stage = "active" /\ task[t].by \in seen[q].over
         /\ runs[task[t].by].turn = runs[request[q].run].turn)
            => t \in seen[q].launches

(* When a deletion answers, the researcher Threads that remain were on     *)
(* their way when the runs were stopped, or belong to a run enqueued after *)
(* the handler had listed the runs (delete_thread of routes/threads.py).   *)
DeletionReachesKnown ==
    \A q \in Requests, t \in Tasks :
        (/\ request[q].step = "answered" /\ request[q].delete
         /\ Exists(t) /\ task[t].by \in seen[q].over)
            => t \in seen[q].launches

(* A Thread that waits for input, with no run under way, shows the run to  *)
(* resume, however enqueued, resumed and stopped runs interleave: a new    *)
(* message is refused with "resume its interrupted run" (routes/runs.py:   *)
(* 99), and the browser offers the answer only on a run shown so. Excepted *)
(* is a Thread whose newest run was stopped: it hides the one that asked.  *)
WaitingIsShown ==
    thread.exists /\ thread.waiting /\ ActiveRuns = {}
        => \E r \in DOMAIN runs : ShownInterrupted(r) \/ runs[Len(runs)].status = "interrupted"
=============================================================================
