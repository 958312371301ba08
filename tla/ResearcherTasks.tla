----------------------------- MODULE ResearcherTasks ---------------------------
(***************************************************************************)
(* agent/async_subagents.py: what the main agent knows of its researchers. *)
(* The model calls several tools in one step; each reads async_tasks as    *)
(* the step found it, works against the Agent Server, and gives its task's *)
(* record back. The records are merged when all of them have ended, in the *)
(* order of the calls. start_async_task and check_async_task are this      *)
(* code's; update_async_task and cancel_async_task are those of Deep       *)
(* Agents.                                                                 *)
(***************************************************************************)
EXTENDS Naturals, Sequences

CONSTANTS Tasks,      \* Threads that researchers may get, which are also task_ids
          MaxOps,     \* bound: tool calls of one step
          MaxRuns     \* bound: runs of a researcher Thread

VARIABLES
    thread,    \* Agent Server: "none", "made" or "deleted"
    taskRuns,  \* Agent Server: the statuses of a Thread's runs, oldest first
    values,    \* Agent Server: the run that wrote the Thread's values last
    tracked,   \* async_tasks of the main agent; run 0 for a task that it lacks
    op,        \* the tool calls of the step
    stray,     \* history: Threads made for a launch that was not recorded
    behind     \* history: tasks with a run that was not recorded

taskVars == <<thread, taskRuns, values, tracked, op, stray, behind>>

Ops == 1 .. MaxOps

RunStatuses == {"pending", "running", "success", "error", "interrupted"}

ActiveStatuses == {"pending", "running"}

(* A task as it is tracked, and as a call that is done gives it back.      *)
Records == [run : 0 .. MaxRuns, status : RunStatuses \cup {"cancelled"}]

Untracked == [run |-> 0, status |-> "running"]

OpStates == [pc : {"idle", "thread", "run", "cleanup", "get", "values", "told", "done"},
             task : Tasks, record : Records, values : 0 .. MaxRuns]

IdleOp == [pc |-> "idle", task |-> CHOOSE t \in Tasks : TRUE, record |-> Untracked, values |-> 0]

TasksInit ==
    /\ thread = [t \in Tasks |-> "none"]
    /\ taskRuns = [t \in Tasks |-> <<>>]
    /\ values = [t \in Tasks |-> 0]
    /\ tracked = [t \in Tasks |-> Untracked]
    /\ op = [o \in Ops |-> IdleOp]
    /\ stray = {}
    /\ behind = {}

-----------------------------------------------------------------------------
(***************************************************************************)
(* Researchers                                                             *)
(***************************************************************************)
RunTo(t, status) == taskRuns' = [taskRuns EXCEPT ![t][Len(taskRuns[t])] = status]

Newest(t) == taskRuns[t][Len(taskRuns[t])]

RunStarts(t) ==
    /\ thread[t] = "made" /\ taskRuns[t] # <<>> /\ Newest(t) = "pending"
    /\ RunTo(t, "running")
    /\ UNCHANGED <<thread, values, tracked, op, stray, behind>>

RunWrites(t) ==
    /\ thread[t] = "made" /\ taskRuns[t] # <<>> /\ Newest(t) = "running"
    /\ values' = [values EXCEPT ![t] = Len(taskRuns[t])]
    /\ UNCHANGED <<thread, taskRuns, tracked, op, stray, behind>>

(* A run that is a success has written its answer.                         *)
RunEnds(t, status) ==
    /\ thread[t] = "made" /\ taskRuns[t] # <<>> /\ Newest(t) = "running"
    /\ RunTo(t, status)
    /\ values' = IF status = "success" THEN [values EXCEPT ![t] = Len(taskRuns[t])] ELSE values
    /\ UNCHANGED <<thread, tracked, op, stray, behind>>

(* cancel_child_tasks, or an expiry: the Thread is deleted.                *)
ThreadGoes(t) ==
    /\ thread[t] = "made"
    /\ thread' = [thread EXCEPT ![t] = "deleted"]
    /\ UNCHANGED <<taskRuns, values, tracked, op, stray, behind>>

-----------------------------------------------------------------------------
(***************************************************************************)
(* start_async_task                                                        *)
(***************************************************************************)
OpTo(o, pc) == op' = [op EXCEPT ![o].pc = pc]

Done(o, record) == op' = [op EXCEPT ![o].pc = "done", ![o].record = record]

(* A call that only answers with text changes no state: an unknown type of *)
(* subagent, no RunContext, a synchronous call without a url.              *)
Tell(o, t) ==
    /\ op[o].pc = "idle"
    /\ op' = [op EXCEPT ![o].pc = "told", ![o].task = t]
    /\ UNCHANGED <<thread, taskRuns, values, tracked, stray, behind>>

StartTask(o, t) ==
    /\ op[o].pc = "idle"
    /\ thread[t] = "none" /\ \A p \in Ops : op[p].pc = "thread" => op[p].task # t
    /\ op' = [op EXCEPT ![o].pc = "thread", ![o].task = t]
    /\ UNCHANGED <<thread, taskRuns, values, tracked, stray, behind>>

(* threads.create; if its reply is lost there is no id to clean up with.   *)
CreateThread(o) ==
    LET t == op[o].task
    IN  /\ op[o].pc = "thread"
        /\ \/ /\ thread' = [thread EXCEPT ![t] = "made"]
              /\ \/ OpTo(o, "run") /\ stray' = stray
                 \/ OpTo(o, "told") /\ stray' = stray \cup {t}
           \/ OpTo(o, "told") /\ UNCHANGED <<thread, stray>>
        /\ UNCHANGED <<taskRuns, values, tracked, behind>>

(* runs.create, which may raise before or after it has had its effect.     *)
CreateTaskRun(o) ==
    LET t == op[o].task
    IN  /\ op[o].pc = "run"
        /\ \/ /\ thread[t] = "made"
              /\ taskRuns' = [taskRuns EXCEPT ![t] = <<"pending">>]
              /\ Done(o, [run |-> 1, status |-> "running"]) \/ OpTo(o, "cleanup")
           \/ OpTo(o, "cleanup") /\ taskRuns' = taskRuns
        /\ UNCHANGED <<thread, values, tracked, stray, behind>>

(* threads.delete of a launch that failed, which may itself fail.          *)
CleanUp(o) ==
    LET t == op[o].task
    IN  /\ op[o].pc = "cleanup"
        /\ \/ thread' = [thread EXCEPT ![t] = "deleted"] /\ stray' = stray
           \/ thread' = thread /\ stray' = stray \cup {t}
        /\ OpTo(o, "told")
        /\ UNCHANGED <<taskRuns, values, tracked, behind>>

-----------------------------------------------------------------------------
(***************************************************************************)
(* check_async_task                                                        *)
(***************************************************************************)
CheckTask(o, t) ==
    /\ op[o].pc = "idle" /\ tracked[t].run # 0
    /\ op' = [op EXCEPT ![o] = [pc |-> "get", task |-> t, record |-> tracked[t], values |-> 0]]
    /\ UNCHANGED <<thread, taskRuns, values, tracked, stray, behind>>

(* runs.get, then the record with the status it gave.                      *)
GetTaskRun(o) ==
    LET t == op[o].task
        status == taskRuns[t][op[o].record.run]
    IN  /\ op[o].pc = "get"
        /\ \/ /\ thread[t] = "made"
              /\ op' = [op EXCEPT ![o].pc = IF status = "success" THEN "values" ELSE "done",
                                  ![o].record.status = status]
           \/ OpTo(o, "told")
        /\ UNCHANGED <<thread, taskRuns, values, tracked, stray, behind>>

(* threads.get of a task whose run is a success: the result is made of the *)
(* Thread's values at that time.                                           *)
GetTaskValues(o) ==
    /\ op[o].pc = "values"
    /\ \/ /\ thread[op[o].task] = "made"
          /\ op' = [op EXCEPT ![o].pc = "done", ![o].values = values[op[o].task]]
       \/ OpTo(o, "told")
    /\ UNCHANGED <<thread, taskRuns, values, tracked, stray, behind>>

-----------------------------------------------------------------------------
(***************************************************************************)
(* The tools of Deep Agents                                                *)
(***************************************************************************)
Stopped(s) == [i \in DOMAIN s |-> IF s[i] \in ActiveStatuses THEN "interrupted" ELSE s[i]]

(* update_async_task: a new run on the Thread takes the place of the one   *)
(* that is active. If its reply is lost it is not recorded.                *)
UpdateTask(o, t) ==
    /\ op[o].pc = "idle" /\ tracked[t].run # 0
    /\ thread[t] = "made" /\ Len(taskRuns[t]) < MaxRuns
    /\ taskRuns' = [taskRuns EXCEPT ![t] = Append(Stopped(taskRuns[t]), "pending")]
    /\ \/ /\ op' = [op EXCEPT ![o] = [pc |-> "done", task |-> t, values |-> 0,
                       record |-> [run |-> Len(taskRuns[t]) + 1, status |-> "running"]]]
          /\ behind' = behind
       \/ /\ op' = [op EXCEPT ![o].pc = "told", ![o].task = t]
          /\ behind' = behind \cup {t}
    /\ UNCHANGED <<thread, values, tracked, stray>>

CancelTrackedTask(o, t) ==
    /\ op[o].pc = "idle" /\ tracked[t].run # 0
    /\ thread[t] = "made"
    /\ taskRuns' = [taskRuns EXCEPT ![t][tracked[t].run] =
                      IF @ \in ActiveStatuses THEN "interrupted" ELSE @]
    /\ op' = [op EXCEPT ![o] = [pc |-> "done", task |-> t, values |-> 0,
                                record |-> [tracked[t] EXCEPT !.status = "cancelled"]]]
    /\ UNCHANGED <<thread, values, tracked, stray, behind>>

-----------------------------------------------------------------------------
(***************************************************************************)
(* The step of the main agent                                              *)
(***************************************************************************)
Gives(o, t) == op[o].pc = "done" /\ op[o].task = t

LastToGive(o, t) == Gives(o, t) /\ \A p \in Ops : Gives(p, t) => p <= o

Merged(t, record) ==
    \/ \E o \in Ops : LastToGive(o, t) /\ record = op[o].record
    \/ (\A o \in Ops : ~Gives(o, t)) /\ record = tracked[t]

(* Every call has ended: the last record of a task in the order of the     *)
(* calls stays. A task updated before it was checked, in one step, gets    *)
(* the record of the check, with the run that was tracked before.          *)
Merge ==
    /\ \A o \in Ops : op[o].pc \in {"idle", "told", "done"}
    /\ tracked' \in [Tasks -> Records]
    /\ \A t \in Tasks : Merged(t, tracked'[t])
    /\ behind' = behind \cup {t \in Tasks : \E o \in Ops :
                                 Gives(o, t) /\ op[o].record.run > tracked'[t].run}
    /\ op' = [o \in Ops |-> IdleOp]
    /\ UNCHANGED <<thread, taskRuns, values, stray>>

(* The main agent's run is stopped: what its calls would have given back   *)
(* is lost.                                                                *)
Abandon ==
    /\ op' = [o \in Ops |-> IdleOp]
    /\ stray' = stray \cup {t \in Tasks : /\ thread[t] = "made" /\ tracked[t].run = 0
                                          /\ \E o \in Ops : op[o].task = t}
    /\ behind' = behind \cup {t \in Tasks : \E o \in Ops : Gives(o, t)}
    /\ UNCHANGED <<thread, taskRuns, values, tracked>>

TasksNext ==
    \/ \E t \in Tasks : \/ RunStarts(t) \/ RunWrites(t) \/ ThreadGoes(t)
                        \/ \E status \in RunStatuses \ ActiveStatuses : RunEnds(t, status)
    \/ \E o \in Ops : \/ CreateThread(o) \/ CreateTaskRun(o) \/ CleanUp(o)
                      \/ GetTaskRun(o) \/ GetTaskValues(o)
                      \/ \E t \in Tasks : \/ Tell(o, t) \/ StartTask(o, t) \/ CheckTask(o, t)
                                          \/ UpdateTask(o, t) \/ CancelTrackedTask(o, t)
    \/ Merge \/ Abandon

TasksSpec == TasksInit /\ [][TasksNext]_taskVars

-----------------------------------------------------------------------------
(* Every variable holds values of its kind.                                *)
TasksTypeOK ==
    /\ thread \in [Tasks -> {"none", "made", "deleted"}]
    /\ taskRuns \in [Tasks -> Seq(RunStatuses)]
    /\ values \in [Tasks -> 0 .. MaxRuns]
    /\ tracked \in [Tasks -> Records]
    /\ op \in [Ops -> OpStates]
    /\ stray \subseteq Tasks /\ behind \subseteq Tasks

(* A task that is tracked as a success or an error has ended so, however   *)
(* old the record is that a check started from (_command).                 *)
TrackedEndIsTrue ==
    \A t \in Tasks : tracked[t].status \in {"success", "error"} =>
        /\ tracked[t].run \in DOMAIN taskRuns[t]
        /\ taskRuns[t][tracked[t].run] = tracked[t].status

(* The result of a check is the answer of the run it checked, unless the   *)
(* task was given a newer run (compact_async_result).                      *)
ResultOfItsRun ==
    \A o \in Ops : op[o].pc = "done" /\ op[o].values # 0 =>
        \/ op[o].values = op[o].record.run
        \/ Len(taskRuns[op[o].task]) > op[o].record.run

(* The newest run of a task is the one that is tracked, or a call of this  *)
(* step is about to give it back, but for updates whose reply was lost,    *)
(* that were overtaken by a check of their step, or whose step was stopped.*)
NewestTracked ==
    \A t \in Tasks : tracked[t].run # 0 /\ t \notin behind =>
        \/ tracked[t].run = Len(taskRuns[t])
        \/ \E o \in Ops : Gives(o, t) /\ op[o].record.run = Len(taskRuns[t])

(* A researcher Thread is tracked, or its launch is under way, unless a    *)
(* reply was lost, the cleanup failed or the step was stopped.             *)
NoStrayThread ==
    \A t \in Tasks : thread[t] = "made" /\ t \notin stray =>
        \/ tracked[t].run # 0
        \/ \E o \in Ops : op[o].task = t /\ op[o].pc \in {"run", "cleanup", "done"}

================================================================================
