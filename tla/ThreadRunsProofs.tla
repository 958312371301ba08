--------------------------- MODULE ThreadRunsProofs ---------------------------
(***************************************************************************)
(* What ThreadRuns guarantees for any number of overlapping requests, runs *)
(* and researchers.  The two properties of cancellation and deletion rest  *)
(* on a page of the search holding every researcher Thread, which their    *)
(* theorems assume.                                                        *)
(***************************************************************************)
EXTENDS ThreadRuns, FiniteSetTheorems, TLAPS

(* The locals of a handler: the steps that are those of a deletion, those  *)
(* that are not, and the runs and the researcher they name, which exist.   *)
Named(l) ==
    /\ l.step \in {"idle", "creating", "resuming", "stopping"} => ~l.delete
    /\ l.step \in {"finding", "stoppingAll", "deletingTask", "deletingThread"} => l.delete
    /\ l.step \notin {"idle", "creating"} /\ ~l.delete => l.run \in DOMAIN runs
    /\ l.live \subseteq DOMAIN runs
    /\ l.step \in {"stoppingTask", "deletingTask"} => l.task \in Tasks

RunsNamed ==
    /\ \A t \in Tasks : task[t].stage # "none" => task[t].by \in DOMAIN runs
    /\ \A q \in Requests : Named(request[q])

TypeInv == TypeOK /\ RunsNamed

-----------------------------------------------------------------------------
(* What every step does to the runs: none is forgotten, none that is over  *)
(* becomes active again, and each stays in its turn.                       *)
RunsKept ==
    /\ DOMAIN runs \subseteq DOMAIN runs'
    /\ \A r \in DOMAIN runs :
          /\ runs'[r].turn = runs[r].turn
          /\ runs[r].status \notin Active => runs'[r].status \notin Active

RunsTyped == runs' \in Seq(Runs) /\ Len(runs') <= MaxRuns

LEMMA StatusKept ==
    ASSUME TypeOK, NEW r \in ActiveRuns,
           NEW status \in Active \cup {"success", "error", "interrupted"},
           StatusTo(r, status)
    PROVE  /\ RunsKept /\ RunsTyped
           /\ Len(runs') = Len(runs)
           /\ \A s \in DOMAIN runs : runs'[s].status = IF s = r THEN status ELSE runs[s].status
<1>1. runs \in Seq(Runs) /\ runs \in [1 .. Len(runs) -> Runs] /\ Len(runs) <= MaxRuns
  BY DEF TypeOK
<1>2. r \in 1 .. Len(runs) /\ runs[r].status \in Active
  BY <1>1 DEF ActiveRuns
<1>3. runs' = [runs EXCEPT ![r].status = status]
  BY DEF StatusTo
<1>4. [runs[r] EXCEPT !.status = status] \in Runs
  BY <1>1, <1>2 DEF Runs
<1>5. runs' \in Seq(Runs) /\ Len(runs') = Len(runs)
  BY <1>1, <1>2, <1>3, <1>4
<1>6. \A s \in 1 .. Len(runs) :
          runs'[s] = IF s = r THEN [runs[r] EXCEPT !.status = status] ELSE runs[s]
  BY <1>1, <1>2, <1>3
<1>7. \A s \in 1 .. Len(runs) : runs[s] \in Runs
  BY <1>1
<1> QED  BY <1>1, <1>2, <1>5, <1>6, <1>7 DEF RunsKept, RunsTyped, Runs

LEMMA SameRuns ==
    ASSUME TypeOK, runs' = runs
    PROVE  RunsKept /\ RunsTyped
BY DEF TypeOK, RunsKept, RunsTyped

LEMMA HaltedRuns ==
    ASSUME TypeOK
    PROVE  /\ Halted \in Seq(Runs) /\ Len(Halted) = Len(runs)
           /\ \A r \in DOMAIN runs :
                 /\ Halted[r].turn = runs[r].turn
                 /\ Halted[r].status = IF r \in ActiveRuns THEN "interrupted"
                                       ELSE runs[r].status
<1>1. \A r \in 1 .. Len(runs) : runs[r] \in Runs
  BY DEF TypeOK
<1>2. Halted \in [1 .. Len(runs) -> Runs]
  BY <1>1 DEF Halted, TypeOK, Runs
<1>3. Halted \in Seq(Runs) /\ Len(Halted) = Len(runs)
  BY <1>2 DEF TypeOK
<1> QED  BY <1>1, <1>3 DEF Halted, TypeOK, Runs

LEMMA AppendKept ==
    ASSUME TypeOK, Len(runs) < MaxRuns, NEW new \in Runs,
           runs' = Append(runs, new) \/ runs' = Append(Halted, new)
    PROVE  /\ RunsKept /\ RunsTyped
           /\ Len(runs') = Len(runs) + 1 /\ runs'[Len(runs')] = new
           /\ \/ \A r \in DOMAIN runs : runs'[r] = runs[r]
              \/ \A r \in DOMAIN runs : runs'[r].status \notin Active
           /\ \A r \in DOMAIN runs : runs'[r].status = runs[r].status
                                      \/ runs'[r].status = "interrupted"
<1>1. CASE runs' = Append(runs, new)
  BY <1>1, BoundsAssumption DEF TypeOK, RunsKept, RunsTyped
<1>2. CASE runs' = Append(Halted, new)
  <2>1. /\ runs' \in Seq(Runs) /\ Len(runs') = Len(runs) + 1 /\ runs'[Len(runs')] = new
        /\ \A r \in DOMAIN runs : runs'[r] = Halted[r]
    BY <1>2, HaltedRuns DEF TypeOK
  <2>2. \A r \in DOMAIN runs :
            /\ runs'[r].status \notin Active
            /\ runs'[r].status = runs[r].status \/ runs'[r].status = "interrupted"
            /\ runs'[r].turn = runs[r].turn
    BY <2>1, HaltedRuns DEF ActiveRuns, Active
  <2>3. DOMAIN runs' = 1 .. Len(runs) + 1 /\ DOMAIN runs = 1 .. Len(runs) /\ Len(runs) \in Nat
    BY <2>1 DEF TypeOK
  <2> QED  BY <2>1, <2>2, <2>3, BoundsAssumption DEF RunsKept, RunsTyped
<1> QED  BY <1>1, <1>2

-----------------------------------------------------------------------------
(* Types.                                                                  *)
LEMMA InitTyped == Init => TypeInv
<1> SUFFICES ASSUME Init PROVE TypeInv
  OBVIOUS
<1>1. runs \in Seq(Runs) /\ Len(runs) <= MaxRuns
  BY BoundsAssumption DEF Init
<1>2. task \in [Tasks -> TaskStates] /\ recent = {}
  BY DEF Init, TaskStates, Stages
<1>3. Idle \in Locals
  BY DEF Idle, Locals
<1>4. request \in [Requests -> Locals] /\ seen \in [Requests -> Seen]
  BY <1>3 DEF Init, Seen, NothingSeen
<1>5. TypeOK
  BY <1>1, <1>2, <1>4 DEF Init, TypeOK
<1>6. RunsNamed
  BY DEF Init, RunsNamed, Named, Idle
<1> QED  BY <1>5, <1>6 DEF TypeInv

LEMMA RunsTypeStep ==
    ASSUME TypeInv, RunsKept, RunsTyped, UNCHANGED <<task, recent, request, seen>>,
           thread' \in [exists : BOOLEAN, waiting : BOOLEAN]
    PROVE  TypeInv'
<1>1. TypeOK'
  BY DEF TypeInv, TypeOK, RunsTyped, Exists
<1>2. RunsNamed'
  BY DEF TypeInv, RunsNamed, Named, RunsKept
<1> QED  BY <1>1, <1>2 DEF TypeInv

LEMMA ServerTypeStep ==
    ASSUME TypeInv, StartRun \/ FinishRun
    PROVE  TypeInv' /\ RunsKept
<1>1. PICK r \in ActiveRuns, status \in Active \cup {"success", "error", "interrupted"} :
          StatusTo(r, status)
  BY DEF StartRun, FinishRun, ActiveRuns, Active
<1>2. RunsKept /\ RunsTyped
  BY <1>1, StatusKept DEF TypeInv
<1>3. thread' \in [exists : BOOLEAN, waiting : BOOLEAN]
  BY DEF StartRun, FinishRun, TypeInv, TypeOK
<1> QED  BY <1>2, <1>3, RunsTypeStep DEF StartRun, FinishRun

(* A step of one researcher Thread, for each way the search sees it.       *)
TaskGoes(t) ==
    /\ task' \in [Tasks -> TaskStates]
    /\ \A u \in Tasks \ {t} : task'[u] = task[u]
    /\ task'[t].stage # "none" => task'[t].by \in DOMAIN runs
    /\ Exists(t) => Exists(t)' \/ recent' = Others(t)
    /\ recent' = recent \/ recent' = Others(t) \/ (Exists(t)' /\ Touch(t))

LEMMA TaskTypeStep ==
    ASSUME TypeInv, NEW t \in Tasks, TaskGoes(t), UNCHANGED runs,
           request' \in [Requests -> Locals], seen' \in [Requests -> Seen],
           UNCHANGED thread, \A q \in Requests : Named(request'[q])
    PROVE  TypeInv'
<1>1. \A u \in Tasks \ {t} : Exists(u)' <=> Exists(u)
  BY DEF TaskGoes, Exists
<1>2. \A p \in recent' : p \in Tasks \X Tasks /\ p[1] # p[2] /\ Exists(p[1])' /\ Exists(p[2])'
  <2>0. \A p \in recent : p \in Tasks \X Tasks /\ p[1] # p[2] /\ Exists(p[1]) /\ Exists(p[2])
    BY DEF TypeInv, TypeOK
  <2>1. \A p \in Others(t) : p \in recent /\ p[1] # t /\ p[2] # t
    BY DEF Others
  <2>2. \A p \in Others(t) : p \in Tasks \X Tasks /\ p[1] # p[2] /\ Exists(p[1])' /\ Exists(p[2])'
    BY <2>0, <2>1, <1>1
  <2>3. CASE recent' = Others(t)
    BY <2>2, <2>3
  <2>4. CASE Exists(t)' /\ Touch(t)
    <3>1. \A u \in Tasks \ {t} : Exists(u) => Exists(u)'
      BY <1>1
    <3> QED  BY <2>2, <2>4, <3>1 DEF Touch
  <2>5. CASE recent' = recent /\ (Exists(t) => Exists(t)')
    BY <2>0, <2>5, <1>1
  <2> QED  BY <2>3, <2>4, <2>5 DEF TaskGoes
<1>3. recent' \subseteq {p \in Tasks \X Tasks : p[1] # p[2] /\ Exists(p[1])' /\ Exists(p[2])'}
  BY <1>2
<1>4. TypeOK'
  BY <1>3 DEF TypeInv, TypeOK, TaskGoes
<1>5. RunsNamed'
  <2>1. \A u \in Tasks : task'[u].stage # "none" => task'[u].by \in DOMAIN runs
    BY DEF TaskGoes, TypeInv, RunsNamed
  <2> QED  BY <2>1 DEF RunsNamed, Named
<1> QED  BY <1>4, <1>5 DEF TypeInv

LEMMA WorkGoes ==
    ASSUME TypeInv, NEW t \in Tasks, Work(t)
    PROVE  TaskGoes(t)
<1>1. task \in [Tasks -> TaskStates] /\ task[t] \in TaskStates
  BY DEF TypeInv, TypeOK
<1>2. ASSUME NEW stage \in Stages, TaskTo(t, stage)
      PROVE  /\ task' \in [Tasks -> TaskStates]
             /\ \A u \in Tasks \ {t} : task'[u] = task[u]
             /\ task'[t].stage = stage /\ task'[t].by = task[t].by
  BY <1>1, <1>2 DEF TaskTo, TaskStates
<1>3. task[t].stage # "none" => task[t].by \in DOMAIN runs
  BY DEF TypeInv, RunsNamed
<1>4. CASE Launch(t)
  <2>1. PICK r \in DOMAIN runs : task' = [task EXCEPT ![t] = [stage |-> "makingThread", by |-> r]]
    BY <1>4 DEF Launch
  <2>2. r \in RunIds
    BY BoundsAssumption DEF TypeInv, TypeOK, RunIds
  <2> QED  BY <1>1, <1>4, <2>1, <2>2 DEF Launch, TaskGoes, Exists, TaskStates, Stages
<1>5. CASE MakeThread(t)
  BY <1>2, <1>3, <1>5 DEF MakeThread, TaskGoes, Exists, Stages
<1>6. CASE MakeRun(t)
  BY <1>2, <1>3, <1>6 DEF MakeRun, TaskGoes, Exists, Stages
<1>7. CASE LaunchFails(t)
  BY <1>2, <1>3, <1>7 DEF LaunchFails, TaskGoes, Exists, Stages
<1>8. CASE ProgressTask(t)
  BY <1>1, <1>3, <1>8 DEF ProgressTask, TaskGoes, Exists
<1>9. CASE EndTask(t)
  BY <1>2, <1>3, <1>9 DEF EndTask, TaskGoes, Exists, Stages
<1> QED  BY <1>4, <1>5, <1>6, <1>7, <1>8, <1>9 DEF Work

LEMMA WorkTypeStep ==
    ASSUME TypeInv, NEW t \in Tasks, Work(t)
    PROVE  TypeInv'
<1>1. UNCHANGED <<thread, runs, request, seen>>
  BY DEF Work, Launch, MakeThread, MakeRun, LaunchFails, ProgressTask, EndTask
<1> QED  BY <1>1, WorkGoes, TaskTypeStep DEF TypeInv, TypeOK, RunsNamed

(* A step of a request that leaves the researchers alone: its locals and   *)
(* its history keep their types and its run, if any, exists.               *)
LEMMA RequestTypeStep ==
    ASSUME TypeInv, RunsKept, RunsTyped, UNCHANGED <<task, recent>>,
           thread' \in [exists : BOOLEAN, waiting : BOOLEAN],
           NEW q \in Requests, NEW l \in Locals, NEW h \in Seen,
           request' = [request EXCEPT ![q] = l], seen' = [seen EXCEPT ![q] = h],
           Named(l)
    PROVE  TypeInv'
<1>1. TypeOK'
  BY DEF TypeInv, TypeOK, RunsTyped, Exists
<1>2. \A p \in Requests : request'[p] = IF p = q THEN l ELSE request[p]
  BY DEF TypeInv, TypeOK
<1>3. RunsNamed'
  <2>1. \A t \in Tasks : task'[t].stage # "none" => task'[t].by \in DOMAIN runs'
    BY DEF TypeInv, RunsNamed, RunsKept
  <2>2. \A p \in Requests : Named(request'[p])
    BY <1>2 DEF TypeInv, RunsNamed
  <2>3. \A p \in Requests : Named(request[p])'
    BY <2>2 DEF Named, RunsKept
  <2> QED  BY <2>1, <2>3 DEF RunsNamed
<1> QED  BY <1>1, <1>3 DEF TypeInv

LEMMA SeenSame ==
    ASSUME TypeInv, NEW q \in Requests, seen' = seen
    PROVE  seen' = [seen EXCEPT ![q] = seen[q]] /\ seen[q] \in Seen
BY DEF TypeInv, TypeOK

LEMMA Ended ==
    ASSUME TypeInv, RunsKept, RunsTyped, UNCHANGED <<task, recent>>,
           thread' \in [exists : BOOLEAN, waiting : BOOLEAN],
           NEW q \in Requests, End(q),
           seen' = seen \/ seen' = [seen EXCEPT ![q] = NothingSeen]
    PROVE  TypeInv'
<1>1. Idle \in Locals /\ NothingSeen \in Seen
  BY DEF Idle, Locals, NothingSeen, Seen
<1>2. PICK h \in Seen : seen' = [seen EXCEPT ![q] = h]
  BY <1>1, SeenSame
<1> QED  BY <1>1, <1>2, RequestTypeStep DEF End, Idle, Named

LEMMA RunsAreIds ==
    ASSUME TypeInv
    PROVE  DOMAIN runs = 1 .. Len(runs) /\ Len(runs) \in Nat /\ DOMAIN runs \subseteq RunIds
<1>1. runs \in Seq(Runs) /\ Len(runs) <= MaxRuns /\ MaxRuns \in Nat
  BY BoundsAssumption DEF TypeInv, TypeOK
<1>2. DOMAIN runs = 1 .. Len(runs) /\ Len(runs) \in Nat
  BY <1>1
<1> QED  BY <1>1, <1>2 DEF RunIds

LEMMA SeeTyped ==
    ASSUME TypeInv, NEW q \in Requests, NEW over \in SUBSET DOMAIN runs, See(q, over)
    PROVE  \E h \in Seen : seen' = [seen EXCEPT ![q] = h]
<1>1. [over |-> over, launches |-> {t \in Tasks : Launching(t)}] \in Seen
  BY RunsAreIds DEF Seen
<1> QED  BY <1>1 DEF See

LEMMA LocalsOf ==
    ASSUME TypeInv, NEW q \in Requests
    PROVE  /\ request[q] \in Locals /\ Named(request[q])
           /\ thread \in [exists : BOOLEAN, waiting : BOOLEAN]
BY DEF TypeInv, TypeOK, RunsNamed

LEMMA BeginTypeStep ==
    ASSUME TypeInv, NEW q \in Requests,
           \/ BeginCreate(q) \/ BeginDelete(q)
           \/ \E r \in DOMAIN runs : BeginResume(q, r) \/ BeginCancel(q, r)
    PROVE  TypeInv' /\ RunsKept
<1>0. Idle \in Locals /\ request[q] \in Locals
  BY LocalsOf DEF Idle, Locals
<1>1. UNCHANGED <<thread, runs, task, recent, seen>> /\ request[q].step = "idle"
  BY DEF BeginCreate, BeginDelete, BeginResume, BeginCancel
<1>2. RunsKept /\ RunsTyped /\ thread' \in [exists : BOOLEAN, waiting : BOOLEAN]
  BY <1>1, SameRuns DEF TypeInv, TypeOK
<1>3. CASE BeginCreate(q)
  <2> DEFINE l == [request[q] EXCEPT !.step = "creating"]
  <2>1. l \in Locals /\ Named(l)
    BY <1>0, <1>1, LocalsOf DEF Locals, Named
  <2>2. request' = [request EXCEPT ![q] = l]
    BY <1>3 DEF BeginCreate, RequestTo
  <2> QED  BY <1>1, <1>2, <2>1, <2>2, LocalsOf, SeenSame, RequestTypeStep
<1>4. CASE BeginDelete(q)
  <2> DEFINE l == [Idle EXCEPT !.step = "finding", !.delete = TRUE]
  <2>1. l \in Locals /\ Named(l)
    BY <1>0 DEF Locals, Idle, Named
  <2> QED  BY <1>1, <1>2, <1>4, <2>1, SeenSame, RequestTypeStep DEF BeginDelete
<1>5. ASSUME NEW r \in DOMAIN runs, BeginResume(q, r) \/ BeginCancel(q, r)
      PROVE  TypeInv' /\ RunsKept
  <2>0. r \in RunIds
    BY RunsAreIds
  <2>1. PICK step \in {"resuming", "stopping"} :
            request' = [request EXCEPT ![q] = [Idle EXCEPT !.step = step, !.run = r]]
    BY <1>5 DEF BeginResume, BeginCancel
  <2> DEFINE l == [Idle EXCEPT !.step = step, !.run = r]
  <2>2. l \in Locals /\ Named(l)
    BY <2>0 DEF Locals, Idle, Named
  <2> QED  BY <1>1, <1>2, <2>1, <2>2, SeenSame, RequestTypeStep
<1> QED  BY <1>3, <1>4, <1>5

(* Both handlers that enqueue append one pending run.                      *)
LEMMA Enqueued ==
    ASSUME TypeInv, NEW q \in Requests, CreateRun(q) \/ ResumeRun(q)
    PROVE  /\ Len(runs) < MaxRuns
           /\ \E new \in Runs :
                 /\ new.status = "pending"
                 /\ runs' = Append(runs, new) \/ runs' = Append(Halted, new)
<1>0. runs \in Seq(Runs) /\ Len(runs) \in Nat /\ Len(runs) < MaxRuns /\ MaxRuns \in Nat
  BY BoundsAssumption DEF CreateRun, ResumeRun, TypeInv, TypeOK
<1>1. CASE CreateRun(q)
  <2>1. [status |-> "pending", turn |-> Len(runs) + 1, parent |-> 0] \in Runs
    BY <1>0 DEF Runs, RunIds, Active
  <2> QED  BY <1>0, <1>1, <2>1 DEF CreateRun
<1>2. CASE ResumeRun(q)
  <2>1. request[q].run \in DOMAIN runs
    BY <1>2 DEF ResumeRun, TypeInv, RunsNamed, Named
  <2>2. request[q].run \in RunIds /\ runs[request[q].run] \in Runs
    BY <1>0, <2>1 DEF RunIds
  <2>3. [status |-> "pending", turn |-> runs[request[q].run].turn,
         parent |-> request[q].run] \in Runs
    BY <2>2 DEF Runs, Active
  <2> QED  BY <1>0, <1>2, <2>3 DEF ResumeRun
<1> QED  BY <1>1, <1>2

LEMMA EnqueueTypeStep ==
    ASSUME TypeInv, NEW q \in Requests, CreateRun(q) \/ ResumeRun(q)
    PROVE  TypeInv' /\ RunsKept
<1>1. RunsKept /\ RunsTyped
  BY Enqueued, AppendKept DEF TypeInv
<1>2. End(q) /\ UNCHANGED <<thread, task, recent, seen>>
  BY DEF CreateRun, ResumeRun
<1> QED  BY <1>1, <1>2, Ended DEF TypeInv, TypeOK

LEMMA StopTypeStep ==
    ASSUME TypeInv, NEW q \in Requests, CancelRun(q) \/ FindRuns(q) \/ CancelFound(q)
    PROVE  TypeInv' /\ RunsKept
<1>0. /\ UNCHANGED <<thread, task, recent>> /\ thread' \in [exists : BOOLEAN, waiting : BOOLEAN]
      /\ request[q].step \in {"stopping", "finding", "stoppingAll"}
      /\ request[q] \in Locals /\ Named(request[q])
  BY LocalsOf DEF CancelRun, FindRuns, CancelFound
<1>1. ASSUME NEW r, r \in ActiveRuns => StatusTo(r, "interrupted"),
             r \notin ActiveRuns => runs' = runs
      PROVE  RunsKept /\ RunsTyped
  BY <1>1, StatusKept, SameRuns DEF TypeInv
<1>2. CASE CancelRun(q)
  <2> DEFINE l == [request[q] EXCEPT !.step = "paging"]
             over == (DOMAIN runs \ ActiveRuns) \cup {request[q].run}
  <2>1. l \in Locals /\ Named(l) /\ request' = [request EXCEPT ![q] = l]
    BY <1>0, <1>2 DEF CancelRun, RequestTo, Locals, Named
  <2>2. RunsKept /\ RunsTyped
    BY <1>1, <1>2 DEF CancelRun
  <2>3. over \in SUBSET DOMAIN runs /\ See(q, over)
    BY <1>0, <1>2 DEF CancelRun, Named
  <2>4. PICK h \in Seen : seen' = [seen EXCEPT ![q] = h]
    BY <2>3, SeeTyped
  <2> QED  BY <1>0, <2>1, <2>2, <2>4, RequestTypeStep
<1>3. CASE FindRuns(q)
  <2> DEFINE l == [request[q] EXCEPT !.step = "stoppingAll", !.live = ActiveRuns]
  <2>1. ActiveRuns \subseteq DOMAIN runs /\ ActiveRuns \subseteq RunIds
    BY RunsAreIds DEF ActiveRuns
  <2>2. l \in Locals /\ Named(l) /\ request' = [request EXCEPT ![q] = l]
    BY <1>0, <1>3, <2>1 DEF FindRuns, Locals, Named
  <2>3. RunsKept /\ RunsTyped
    BY <1>3, SameRuns DEF FindRuns, TypeInv
  <2>4. PICK h \in Seen : seen' = [seen EXCEPT ![q] = h]
    BY <1>3, SeeTyped DEF FindRuns
  <2> QED  BY <1>0, <2>2, <2>3, <2>4, RequestTypeStep
<1>4. CASE CancelFound(q)
  <2>1. PICK l \in Locals : Named(l) /\ request' = [request EXCEPT ![q] = l]
    <3> DEFINE Cut(r) == [request[q] EXCEPT !.live = @ \ {r}]
               Done == [request[q] EXCEPT !.step = "paging"]
    <3>1. Done \in Locals /\ Named(Done)
      BY <1>0 DEF Locals, Named
    <3>2. \A r : Cut(r) \in Locals /\ Named(Cut(r))
      BY <1>0 DEF Locals, Named
    <3>3. request' = [request EXCEPT ![q] = Done]
          \/ \E r : request' = [request EXCEPT ![q] = Cut(r)]
      BY <1>4 DEF CancelFound, RequestTo
    <3> QED  BY <3>1, <3>2, <3>3
  <2>2. RunsKept /\ RunsTyped
    <3>1. runs' = runs \/ \E r : IF r \in ActiveRuns THEN StatusTo(r, "interrupted")
                                 ELSE runs' = runs
      BY <1>4 DEF CancelFound
    <3> QED  BY <1>1, <3>1, SameRuns DEF TypeInv
  <2>3. PICK h \in Seen : seen' = [seen EXCEPT ![q] = h]
    <3>1. seen[q].over \subseteq RunIds
      BY DEF TypeInv, TypeOK, Seen
    <3>2. [over |-> seen[q].over, launches |-> {t \in Tasks : Launching(t)}] \in Seen
      BY <3>1 DEF Seen
    <3> QED  BY <1>4, <3>2 DEF CancelFound, See
  <2> QED  BY <1>0, <2>1, <2>2, <2>3, RequestTypeStep
<1> QED  BY <1>2, <1>3, <1>4

LEMMA WalkTypeStep ==
    ASSUME TypeInv, NEW q \in Requests, ListPage(q) \/ VisitTask(q) \/ AllVisited(q)
    PROVE  TypeInv' /\ RunsKept
<1>0. /\ UNCHANGED <<thread, runs, task, recent, seen>>
      /\ thread' \in [exists : BOOLEAN, waiting : BOOLEAN]
      /\ request[q].step \in {"paging", "visiting"}
      /\ request[q] \in Locals /\ Named(request[q])
  BY LocalsOf DEF ListPage, VisitTask, AllVisited
<1>1. RunsKept /\ RunsTyped
  BY <1>0, SameRuns DEF TypeInv
<1>2. \E l \in Locals : Named(l) /\ request' = [request EXCEPT ![q] = l]
  <2>1. CASE ListPage(q)
    <3> DEFINE last == Cardinality(Page(q)) < PageSize
               l == [request[q] EXCEPT
                        !.todo = @ \cup Page(q),
                        !.offset = IF last THEN 0 ELSE @ + PageSize,
                        !.step = IF last THEN "visiting" ELSE "paging"]
    <3>1. Page(q) \subseteq Tasks
      BY DEF Page
    <3>2. request' = [request EXCEPT ![q] = l]
      BY <2>1 DEF ListPage
    <3>3. l \in Locals /\ Named(l)
      <4> HIDE DEF last
      <4>1. PICK step \in {"paging", "visiting"}, offset \in Nat :
                l = [request[q] EXCEPT !.todo = @ \cup Page(q), !.offset = offset, !.step = step]
        <5>1. request[q].offset + PageSize \in Nat
          BY <1>0, BoundsAssumption DEF Locals
        <5> QED  BY <5>1
      <4> QED  BY <1>0, <3>1, <4>1 DEF Locals, Named
    <3> QED  BY <3>2, <3>3
  <2>2. CASE VisitTask(q)
    <3>1. PICK t \in request[q].todo :
              request' = [request EXCEPT
                ![q].todo = @ \ {t},
                ![q].task = IF task[t].stage = "active" \/ request[q].delete
                            THEN t ELSE NoTask,
                ![q].step = IF task[t].stage = "active" THEN "stoppingTask"
                            ELSE IF request[q].delete THEN "deletingTask"
                            ELSE "visiting"]
      BY <2>2 DEF VisitTask
    <3> DEFINE l == [request[q] EXCEPT
                !.todo = @ \ {t},
                !.task = IF task[t].stage = "active" \/ request[q].delete
                         THEN t ELSE NoTask,
                !.step = IF task[t].stage = "active" THEN "stoppingTask"
                         ELSE IF request[q].delete THEN "deletingTask"
                         ELSE "visiting"]
    <3>2. t \in Tasks
      BY <1>0 DEF Locals
    <3>3. l \in Locals /\ Named(l)
      BY <1>0, <3>2 DEF Locals, Named
    <3> QED  BY <3>1, <3>3
  <2>3. CASE AllVisited(q)
    <3>1. PICK step \in {"deletingThread", "answered"} :
              /\ step = "deletingThread" => request[q].delete
              /\ request' = [request EXCEPT ![q].step = step]
      BY <2>3 DEF AllVisited, RequestTo
    <3> DEFINE l == [request[q] EXCEPT !.step = step]
    <3>2. l \in Locals /\ Named(l)
      BY <1>0, <3>1 DEF Locals, Named
    <3> QED  BY <3>1, <3>2
  <2> QED  BY <2>1, <2>2, <2>3
<1> QED  BY <1>0, <1>1, <1>2, SeenSame, RequestTypeStep

(* The handler stops or deletes the researcher Thread it has come to.      *)
LEMMA TaskHandled ==
    ASSUME TypeInv, NEW q \in Requests, CancelTask(q) \/ DeleteTask(q)
    PROVE  /\ \E t \in Tasks : t = request[q].task /\ TaskGoes(t)
           /\ \E l \in Locals : Named(l) /\ request' = [request EXCEPT ![q] = l]
<1>0. /\ request[q].step \in {"stoppingTask", "deletingTask"} /\ Exists(request[q].task)
      /\ request[q] \in Locals /\ Named(request[q])
  BY LocalsOf DEF CancelTask, DeleteTask
<1> PICK t \in Tasks : t = request[q].task
  BY <1>0 DEF Named
<1>1. task[t] \in TaskStates /\ task[t].stage # "none" /\ task[t].by \in DOMAIN runs
  BY <1>0 DEF Named, TypeInv, TypeOK, RunsNamed, Exists
<1>2. TaskGoes(t)
  <2>1. CASE task' = task /\ recent' = recent
    BY <1>1, <2>1 DEF TaskGoes, Exists, TypeInv, TypeOK
  <2>2. ASSUME NEW stage \in {"ended", "deleted"}, TaskTo(t, stage),
               IF stage = "ended" THEN Touch(t) ELSE recent' = Others(t)
        PROVE  TaskGoes(t)
    BY <1>1, <2>2 DEF TaskGoes, Exists, TypeInv, TypeOK, TaskTo, TaskStates, Stages
  <2> QED  BY <2>1, <2>2 DEF CancelTask, DeleteTask
<1>3. CASE request' = [request EXCEPT ![q].step = "visiting", ![q].task = NoTask]
  <2> DEFINE l == [request[q] EXCEPT !.step = "visiting", !.task = NoTask]
  <2>1. l \in Locals /\ Named(l)
    BY <1>0 DEF Locals, Named
  <2> QED  BY <1>1, <1>2, <1>3, <2>1
<1>4. CASE request[q].delete /\ request' = [request EXCEPT ![q].step = "deletingTask"]
  <2> DEFINE l == [request[q] EXCEPT !.step = "deletingTask"]
  <2>1. l \in Locals /\ Named(l)
    BY <1>0, <1>1, <1>4 DEF Locals, Named
  <2> QED  BY <1>1, <1>2, <1>4, <2>1
<1> QED  BY <1>3, <1>4 DEF CancelTask, DeleteTask, RequestTo

LEMMA TaskHandledTypeStep ==
    ASSUME TypeInv, NEW q \in Requests, CancelTask(q) \/ DeleteTask(q)
    PROVE  TypeInv' /\ RunsKept
<1>1. PICK l \in Locals : Named(l) /\ request' = [request EXCEPT ![q] = l]
  BY TaskHandled
<1>2. request' \in [Requests -> Locals] /\ \A p \in Requests : Named(request'[p])
  BY <1>1 DEF TypeInv, TypeOK, RunsNamed
<1>3. UNCHANGED <<thread, runs, seen>> /\ seen' \in [Requests -> Seen]
  BY DEF CancelTask, DeleteTask, TypeInv, TypeOK
<1> QED  BY <1>2, <1>3, TaskHandled, TaskTypeStep, SameRuns DEF TypeInv

LEMMA LastTypeStep ==
    ASSUME TypeInv, NEW q \in Requests, DeleteThread(q) \/ Answer(q) \/ RequestRaises(q)
    PROVE  TypeInv' /\ RunsKept
<1>1. CASE DeleteThread(q)
  <2> DEFINE l == [request[q] EXCEPT !.step = "answered"]
  <2>1. l \in Locals /\ Named(l) /\ request' = [request EXCEPT ![q] = l]
    BY <1>1, LocalsOf DEF DeleteThread, RequestTo, Locals, Named
  <2>2. RunsKept /\ RunsTyped
    <3>1. runs' = Halted /\ DOMAIN runs' = DOMAIN runs
      BY <1>1, HaltedRuns DEF DeleteThread, TypeInv, TypeOK
    <3> QED  BY <3>1, HaltedRuns DEF TypeInv, TypeOK, RunsKept, RunsTyped, ActiveRuns, Active
  <2> QED  BY <1>1, <2>1, <2>2, SeenSame, RequestTypeStep DEF DeleteThread
<1>2. CASE Answer(q) \/ RequestRaises(q)
  <2>1. RunsKept /\ RunsTyped /\ thread' \in [exists : BOOLEAN, waiting : BOOLEAN]
    BY <1>2, SameRuns, LocalsOf DEF Answer, RequestRaises, TypeInv
  <2> QED  BY <1>2, <2>1, Ended DEF Answer, RequestRaises
<1> QED  BY <1>1, <1>2

LEMMA TypeStep ==
    ASSUME TypeInv, [Next]_vars
    PROVE  TypeInv' /\ RunsKept
<1>1. CASE UNCHANGED vars
  BY <1>1, SameRuns, RunsTypeStep DEF vars, TypeInv, TypeOK
<1>2. CASE StartRun \/ FinishRun
  BY <1>2, ServerTypeStep
<1>3. ASSUME NEW t \in Tasks, Work(t) PROVE TypeInv' /\ RunsKept
  <2>1. runs' = runs
    BY <1>3 DEF Work, Launch, MakeThread, MakeRun, LaunchFails, ProgressTask, EndTask
  <2> QED  BY <1>3, <2>1, WorkTypeStep, SameRuns DEF TypeInv
<1>4. ASSUME NEW q \in Requests, Handle(q) PROVE TypeInv' /\ RunsKept
  BY <1>4, BeginTypeStep, EnqueueTypeStep, StopTypeStep, WalkTypeStep,
     TaskHandledTypeStep, LastTypeStep DEF Handle
<1> QED  BY <1>1, <1>2, <1>3, <1>4 DEF Next

THEOREM TypesHold == Spec => []TypeInv
<1>1. TypeInv /\ [Next]_vars => TypeInv'
  BY TypeStep
<1> QED  BY InitTyped, <1>1, PTL DEF Spec

(* Type correctness: every state holds runs, researcher Threads, handlers' *)
(* locals and histories of their types; the search of routes/threads.py    *)
(* orders researcher Threads that exist.                                   *)
THEOREM TypeCorrect == Spec => []TypeOK
<1>1. TypeInv => TypeOK
  BY DEF TypeInv
<1> QED  BY TypesHold, <1>1, PTL

-----------------------------------------------------------------------------
(* The queue of the Thread.                                                *)

(* The runs stand in order: behind one that is active stand only runs that *)
(* wait for it or were stopped; a Thread that waits for input has one that *)
(* succeeded, or none behind it but such runs, and none that executes.     *)
InOrder ==
    /\ \A r, s \in DOMAIN runs :
          r < s /\ runs[r].status \in Active => runs[s].status \in {"pending", "interrupted"}
    /\ thread.waiting =>
          /\ Len(runs) > 0
          /\ runs[Len(runs)].status \in {"success", "pending", "interrupted"}
          /\ \A r \in DOMAIN runs : runs[r].status # "running"

LEMMA OrderStep ==
    ASSUME TypeInv, InOrder, [Next]_vars
    PROVE  InOrder'
<1>0. /\ DOMAIN runs = 1 .. Len(runs) /\ Len(runs) \in Nat
      /\ thread \in [exists : BOOLEAN, waiting : BOOLEAN]
  BY RunsAreIds DEF TypeInv, TypeOK
<1>1. CASE runs' = runs /\ thread' = thread
  BY <1>1 DEF InOrder
<1>2. CASE StartRun
  <2>1. PICK r \in ActiveRuns : StatusTo(r, "running") /\ \A s \in ActiveRuns : r <= s
    BY <1>2 DEF StartRun
  <2>2. /\ Len(runs') = Len(runs)
        /\ \A s \in DOMAIN runs : runs'[s].status = IF s = r THEN "running" ELSE runs[s].status
    BY <2>1, StatusKept DEF TypeInv, Active
  <2>3. runs' \in Seq(Runs)
    BY <2>1, StatusKept DEF TypeInv, Active, RunsTyped
  <2>4. DOMAIN runs' = DOMAIN runs
    BY <1>0, <2>2, <2>3
  <2>5. ~thread'.waiting
    BY <1>0, <1>2 DEF StartRun
  <2>6. \A s, u \in DOMAIN runs : s < u /\ runs'[s].status \in Active
            => runs'[u].status \in {"pending", "interrupted"}
    <3> SUFFICES ASSUME NEW s \in DOMAIN runs, NEW u \in DOMAIN runs, s < u,
                        runs'[s].status \in Active
                 PROVE  runs'[u].status \in {"pending", "interrupted"}
      OBVIOUS
    <3>1. runs[s].status \in Active /\ r <= s
      BY <2>1, <2>2 DEF ActiveRuns
    <3>2. u # r
      BY <1>0, <2>1, <3>1 DEF ActiveRuns
    <3> QED  BY <2>2, <3>1, <3>2 DEF InOrder
  <2> QED  BY <2>4, <2>5, <2>6 DEF InOrder
<1>3. CASE FinishRun
  <2>1. PICK r \in DOMAIN runs, status \in {"success", "error"} :
            /\ runs[r].status = "running" /\ StatusTo(r, status)
            /\ status = "error" => thread' = thread
    BY <1>3 DEF FinishRun
  <2>2. /\ Len(runs') = Len(runs) /\ runs' \in Seq(Runs)
        /\ \A s \in DOMAIN runs : runs'[s].status = IF s = r THEN status ELSE runs[s].status
    BY <2>1, StatusKept DEF TypeInv, Active, ActiveRuns, RunsTyped
  <2>3. DOMAIN runs' = DOMAIN runs
    BY <1>0, <2>2
  <2>4. \A s \in DOMAIN runs : s < r => runs[s].status \notin Active
    BY <2>1 DEF InOrder
  <2>5. \A s \in DOMAIN runs : r < s => runs[s].status \in {"pending", "interrupted"}
    BY <2>1 DEF InOrder, Active
  <2>6. \A s, u \in DOMAIN runs : s < u /\ runs'[s].status \in Active
            => runs'[u].status \in {"pending", "interrupted"}
    <3> SUFFICES ASSUME NEW s \in DOMAIN runs, NEW u \in DOMAIN runs, s < u,
                        runs'[s].status \in Active
                 PROVE  runs'[u].status \in {"pending", "interrupted"}
      OBVIOUS
    <3>1. s # r /\ runs[s].status \in Active
      BY <2>1, <2>2 DEF Active
    <3>2. r < s
      BY <1>0, <2>4, <3>1
    <3> QED  BY <1>0, <2>2, <2>5, <3>1, <3>2
  <2>7. thread'.waiting => /\ Len(runs) > 0
                          /\ runs'[Len(runs)].status \in {"success", "pending", "interrupted"}
                          /\ \A s \in DOMAIN runs : runs'[s].status # "running"
    <3>1. thread.waiting => FALSE
      BY <2>1 DEF InOrder
    <3>2. thread'.waiting => status = "success"
      BY <2>1, <3>1
    <3>3. \A s \in DOMAIN runs : runs'[s].status # "running"
      BY <1>0, <2>1, <2>2, <2>4, <2>5 DEF Active
    <3>4. Len(runs) > 0 /\ Len(runs) \in DOMAIN runs /\ (Len(runs) = r \/ r < Len(runs))
      BY <1>0, <2>1
    <3> QED  BY <2>2, <2>5, <3>2, <3>3, <3>4
  <2> QED  BY <2>2, <2>3, <2>6, <2>7 DEF InOrder
<1>4. ASSUME NEW q \in Requests, CreateRun(q) \/ ResumeRun(q)
      PROVE  InOrder'
  <2>1. PICK new \in Runs : /\ new.status = "pending"
                            /\ runs' = Append(runs, new) \/ runs' = Append(Halted, new)
    BY <1>4, Enqueued
  <2>2. /\ runs' \in Seq(Runs) /\ Len(runs') = Len(runs) + 1 /\ runs'[Len(runs) + 1] = new
        /\ \/ \A r \in DOMAIN runs : runs'[r] = runs[r]
           \/ \A r \in DOMAIN runs : runs'[r].status \notin Active
    BY <1>4, <2>1, Enqueued, AppendKept DEF TypeInv, RunsTyped
  <2>3. DOMAIN runs' = 1 .. Len(runs) + 1
    BY <1>0, <2>2
  <2>4. thread' = thread
    BY <1>4 DEF CreateRun, ResumeRun
  <2>5. \A s, u \in 1 .. Len(runs) + 1 : s < u /\ runs'[s].status \in Active
            => runs'[u].status \in {"pending", "interrupted"}
    <3> SUFFICES ASSUME NEW s \in 1 .. Len(runs) + 1, NEW u \in 1 .. Len(runs) + 1, s < u,
                        runs'[s].status \in Active
                 PROVE  runs'[u].status \in {"pending", "interrupted"}
      OBVIOUS
    <3>1. s \in DOMAIN runs /\ (u = Len(runs) + 1 \/ u \in DOMAIN runs)
      BY <1>0
    <3> QED  BY <2>1, <2>2, <3>1 DEF InOrder
  <2>6. thread.waiting => \A s \in 1 .. Len(runs) + 1 : runs'[s].status # "running"
    <3> SUFFICES ASSUME thread.waiting, NEW s \in 1 .. Len(runs) + 1
                 PROVE  runs'[s].status # "running"
      OBVIOUS
    <3>1. s \in DOMAIN runs \/ s = Len(runs) + 1
      BY <1>0
    <3> QED  BY <2>1, <2>2, <3>1 DEF InOrder, Active
  <2> QED  BY <1>0, <2>1, <2>2, <2>3, <2>4, <2>5, <2>6 DEF InOrder
<1>5. ASSUME NEW r \in ActiveRuns, StatusTo(r, "interrupted"), thread' = thread
      PROVE  InOrder'
  <2>1. /\ Len(runs') = Len(runs) /\ runs' \in Seq(Runs)
        /\ \A s \in DOMAIN runs :
              runs'[s].status = IF s = r THEN "interrupted" ELSE runs[s].status
    BY <1>5, StatusKept DEF TypeInv, RunsTyped
  <2>2. DOMAIN runs' = DOMAIN runs
    BY <1>0, <2>1
  <2>3. \A s \in DOMAIN runs : runs'[s].status \in Active => runs[s].status \in Active
    BY <2>1 DEF Active
  <2> QED  BY <1>0, <1>5, <2>1, <2>2, <2>3 DEF InOrder
<1>6. ASSUME NEW q \in Requests, CancelRun(q) \/ CancelFound(q)
      PROVE  InOrder'
  <2>1. thread' = thread /\ (runs' = runs \/ \E r \in ActiveRuns : StatusTo(r, "interrupted"))
    BY <1>6 DEF CancelRun, CancelFound
  <2> QED  BY <1>1, <1>5, <2>1
<1>7. ASSUME NEW q \in Requests, DeleteThread(q)
      PROVE  InOrder'
  <2>1. runs' \in Seq(Runs) /\ Len(runs') = Len(runs) /\ ~thread'.waiting
        /\ \A r \in DOMAIN runs : runs'[r].status \notin Active
    BY <1>7, HaltedRuns DEF DeleteThread, TypeInv, ActiveRuns, Active
  <2>2. DOMAIN runs' = DOMAIN runs
    BY <1>0, <2>1
  <2> QED  BY <2>1, <2>2 DEF InOrder
<1>8. ASSUME NEW t \in Tasks, Work(t)
      PROVE  runs' = runs /\ thread' = thread
  BY <1>8 DEF Work, Launch, MakeThread, MakeRun, LaunchFails, ProgressTask, EndTask
<1>9. ASSUME NEW q \in Requests, Handle(q)
      PROVE  InOrder'
  <2>1. \/ CreateRun(q) \/ ResumeRun(q) \/ CancelRun(q) \/ CancelFound(q) \/ DeleteThread(q)
        \/ runs' = runs /\ thread' = thread
    BY <1>9 DEF Handle, BeginCreate, BeginDelete, BeginResume, BeginCancel, FindRuns,
                ListPage, VisitTask, AllVisited, CancelTask, DeleteTask, Answer, RequestRaises
  <2> QED  BY <1>1, <1>4, <1>6, <1>7, <2>1
<1> QED  BY <1>1, <1>2, <1>3, <1>8, <1>9 DEF Next, vars

(* A Thread that waits for input, with no run under way, shows the run to  *)
(* resume (create_run of routes/runs.py refuses a message until then).     *)
THEOREM WaitingShown == Spec => []WaitingIsShown
<1>1. Init => InOrder
  BY DEF Init, InOrder
<1>2. TypeInv /\ InOrder /\ [Next]_vars => InOrder'
  BY OrderStep
<1>3. TypeInv /\ InOrder => WaitingIsShown
  <2> SUFFICES ASSUME TypeInv, InOrder, thread.waiting, ActiveRuns = {}
               PROVE  \E r \in DOMAIN runs :
                          ShownInterrupted(r) \/ runs[Len(runs)].status = "interrupted"
    BY DEF WaitingIsShown
  <2>1. Len(runs) \in DOMAIN runs
    BY RunsAreIds DEF InOrder
  <2>2. runs[Len(runs)].status # "pending"
    BY <2>1 DEF ActiveRuns, Active
  <2> QED  BY <2>1, <2>2 DEF InOrder, ShownInterrupted
<1> QED  BY TypesHold, <1>1, <1>2, <1>3, PTL DEF Spec

-----------------------------------------------------------------------------
(* The walk over the researchers of a cancellation or a deletion.          *)

(* The handler of q has stopped its runs.                                  *)
Stopped(q) ==
    request[q].step \in {"paging", "visiting", "stoppingTask", "deletingTask",
                         "deletingThread", "answered"}

(* The runs a request has seen over stay so; a deletion has still to stop  *)
(* those it has found live.                                                *)
OverStays(q) ==
    Stopped(q) \/ request[q].step = "stoppingAll" =>
        /\ seen[q].over \subseteq DOMAIN runs
        /\ \A r \in seen[q].over \cap ActiveRuns :
              request[q].step = "stoppingAll" /\ r \in request[q].live

(* No launch of theirs is in flight but those seen then.                   *)
LaunchesSeen(q) ==
    Stopped(q) => \A t \in Tasks :
        Launching(t) /\ task[t].by \in seen[q].over => t \in seen[q].launches

(* A researcher that q has to stop, or to delete.                          *)
Due(q, t) ==
    /\ task[t].by \in seen[q].over
    /\ t \notin seen[q].launches
    /\ IF request[q].delete THEN Exists(t)
       ELSE /\ task[t].stage = "active"
            /\ runs[task[t].by].turn = runs[request[q].run].turn

(* Where q still has t before it: the page that lists it, or its visit.    *)
Ahead(q, t) ==
    \/ request[q].step = "paging" /\ request[q].offset = 0
    \/ request[q].step \in {"paging", "visiting", "stoppingTask", "deletingTask"}
          /\ t \in request[q].todo
    \/ request[q].step \in {"stoppingTask", "deletingTask"} /\ t = request[q].task

Reached(q) == Stopped(q) => \A t \in Tasks : Due(q, t) => Ahead(q, t)

(* The walk begins with the first page.                                    *)
FirstPage(q) ==
    request[q].step \in {"stopping", "finding", "stoppingAll"} => request[q].offset = 0

Reach(q) == OverStays(q) /\ LaunchesSeen(q) /\ Reached(q) /\ FirstPage(q)

(* The search returns every researcher Thread of the Thread in one page.   *)
OnePage == IsFiniteSet(Tasks) /\ Cardinality(Tasks) <= PageSize

(* What a step does to a researcher: a run that executes launches it, or   *)
(* it stays that run's and only a launch in flight brings it to life.      *)
Launched(t) ==
    /\ task'[t].by \in ActiveRuns
    /\ task'[t].stage = "makingThread"

TaskKept(t) ==
    \/ Launched(t)
    \/ /\ task'[t].by = task[t].by
       /\ Launching(t)' => Launching(t)
       /\ Exists(t)' => Exists(t) \/ Launching(t)
       /\ task'[t].stage = "active" => task[t].stage = "active" \/ Launching(t)

LEMMA StageKept ==
    ASSUME TypeInv, NEW t \in Tasks, NEW stage \in Stages, TaskTo(t, stage),
           stage \in {"makingThread", "makingRun"} => Launching(t),
           stage \in {"bare", "active", "ended"} => Exists(t) \/ Launching(t),
           stage = "active" => task[t].stage = "active" \/ Launching(t)
    PROVE  \A u \in Tasks : TaskKept(u)
<1>1. task \in [Tasks -> TaskStates] /\ task[t] \in TaskStates
  BY DEF TypeInv, TypeOK
<1>2. \A u \in Tasks \ {t} : task'[u] = task[u]
  BY <1>1 DEF TaskTo
<1>3. task'[t].stage = stage /\ task'[t].by = task[t].by
  BY <1>1 DEF TaskTo, TaskStates
<1>4. \A u \in Tasks \ {t} : TaskKept(u)
  BY <1>2 DEF TaskKept, Launching, Exists
<1>5. TaskKept(t)
  BY <1>3 DEF TaskKept, Launching, Exists
<1> QED  BY <1>4, <1>5

LEMMA TasksKept ==
    ASSUME TypeInv, [Next]_vars
    PROVE  \A u \in Tasks : TaskKept(u)
<1>1. CASE task' = task
  BY <1>1 DEF TaskKept, Launching, Exists
<1>2. ASSUME NEW t \in Tasks, Work(t)
      PROVE  \A u \in Tasks : TaskKept(u)
  <2>1. CASE Launch(t)
    <3>1. PICK r \in ActiveRuns : task' = [task EXCEPT ![t] = [stage |-> "makingThread", by |-> r]]
      BY <2>1 DEF Launch, ActiveRuns, Active
    <3>2. \A u \in Tasks : IF u = t THEN Launched(u) ELSE task'[u] = task[u]
      BY <3>1 DEF TypeInv, TypeOK, Launched
    <3> QED  BY <3>2 DEF TaskKept, Launching, Exists
  <2>2. CASE MakeThread(t)
    BY <2>2, StageKept DEF MakeThread, Launching, Stages
  <2>3. CASE MakeRun(t)
    BY <2>3, StageKept DEF MakeRun, Launching, Stages
  <2>4. CASE LaunchFails(t)
    BY <2>4, StageKept DEF LaunchFails, Launching, Stages
  <2>5. CASE ProgressTask(t)
    BY <1>1, <2>5 DEF ProgressTask
  <2>6. CASE EndTask(t)
    BY <2>6, StageKept DEF EndTask, Exists, Stages
  <2> QED  BY <1>2, <2>1, <2>2, <2>3, <2>4, <2>5, <2>6 DEF Work
<1>3. ASSUME NEW q \in Requests, Handle(q)
      PROVE  \A u \in Tasks : TaskKept(u)
  <2>1. CASE CancelTask(q) \/ DeleteTask(q)
    <3>1. PICK t \in Tasks : t = request[q].task
      BY <2>1, TaskHandled
    <3>2. \/ task' = task
          \/ Exists(t) /\ \E stage \in {"ended", "deleted"} : TaskTo(t, stage)
      BY <2>1, <3>1 DEF CancelTask, DeleteTask
    <3> QED  BY <1>1, <3>2, StageKept DEF Stages
  <2>2. CancelTask(q) \/ DeleteTask(q) \/ task' = task
    BY <1>3 DEF Handle, BeginCreate, BeginDelete, BeginResume, BeginCancel, CreateRun, ResumeRun,
                CancelRun, CancelFound, FindRuns, ListPage, VisitTask, AllVisited,
                DeleteThread, Answer, RequestRaises
  <2> QED  BY <1>1, <2>1, <2>2
<1> QED  BY <1>1, <1>2, <1>3 DEF Next, vars, StartRun, FinishRun

LEMMA OverNow ==
    ASSUME TypeInv, RunsKept
    PROVE  \A r \in DOMAIN runs : r \in ActiveRuns' => r \in ActiveRuns
BY DEF RunsKept, ActiveRuns

(* Nothing new is due to a handler that has stopped its runs.              *)
LEMMA Walking ==
    ASSUME TypeInv, RunsKept, \A u \in Tasks : TaskKept(u),
           NEW q \in Requests, Reach(q), Stopped(q), Stopped(q)', seen'[q] = seen[q],
           request'[q].delete = request[q].delete, request'[q].run = request[q].run
    PROVE  /\ OverStays(q)' /\ LaunchesSeen(q)' /\ FirstPage(q)'
           /\ \A t \in Tasks : Due(q, t)' => Due(q, t) /\ Ahead(q, t)
<1>1. seen[q].over \subseteq DOMAIN runs /\ seen[q].over \cap ActiveRuns = {}
  BY DEF Reach, OverStays, Stopped
<1>2. OverStays(q)'
  BY <1>1, OverNow DEF OverStays, RunsKept
<1>3. \A t \in Tasks : task'[t].by \in seen[q].over => ~Launched(t)
  BY <1>1 DEF Launched
<1>4. LaunchesSeen(q)'
  BY <1>3 DEF Reach, LaunchesSeen, TaskKept
<1>5. ASSUME NEW t \in Tasks, Due(q, t)'
      PROVE  Due(q, t) /\ Ahead(q, t)
  <2>1. task'[t].by = task[t].by /\ task[t].by \in seen[q].over /\ ~Launching(t)
    BY <1>3, <1>5 DEF Due, TaskKept, Reach, LaunchesSeen
  <2>2. /\ Exists(t)' => Exists(t)
        /\ task'[t].stage = "active" => task[t].stage = "active"
    BY <1>3, <1>5, <2>1 DEF Due, TaskKept
  <2>3. task[t].by \in DOMAIN runs /\ (~request[q].delete => request[q].run \in DOMAIN runs)
    BY <1>1, <2>1, LocalsOf DEF Named, Stopped
  <2>4. Due(q, t)
    BY <1>5, <2>1, <2>2, <2>3 DEF Due, RunsKept
  <2> QED  BY <2>4 DEF Reach, Reached
<1> QED  BY <1>2, <1>4, <1>5 DEF FirstPage, Stopped

(* A step that leaves a request alone leaves it what it had to reach.      *)
LEMMA Elsewhere ==
    ASSUME TypeInv, RunsKept, \A u \in Tasks : TaskKept(u),
           NEW q \in Requests, Reach(q), request'[q] = request[q], seen'[q] = seen[q]
    PROVE  Reach(q)'
<1>1. CASE Stopped(q)
  <2>1. Stopped(q)' /\ \A t \in Tasks : Ahead(q, t)' <=> Ahead(q, t)
    BY <1>1 DEF Stopped, Ahead
  <2> QED  BY <1>1, <2>1, Walking DEF Reach, Reached
<1>2. CASE ~Stopped(q)
  <2>1. OverStays(q)'
    BY OverNow DEF Reach, OverStays, Stopped, RunsKept
  <2> QED  BY <1>2, <2>1 DEF Reach, LaunchesSeen, Reached, FirstPage, Stopped
<1> QED  BY <1>1, <1>2

LEMMA StopReach ==
    ASSUME TypeInv, RunsKept, NEW q \in Requests, Reach(q),
           CancelRun(q) \/ FindRuns(q) \/ CancelFound(q)
    PROVE  Reach(q)'
<1>0. /\ task' = task /\ request[q].offset = 0 /\ request[q] \in Locals /\ Named(request[q])
      /\ request \in [Requests -> Locals] /\ seen \in [Requests -> Seen]
      /\ \A t \in Tasks : Launching(t)' <=> Launching(t)
      /\ runs \in Seq(Runs)
  BY LocalsOf DEF CancelRun, FindRuns, CancelFound, Reach, FirstPage, Launching, TypeInv, TypeOK
<1>1. ASSUME NEW r \in DOMAIN runs,
             IF r \in ActiveRuns THEN StatusTo(r, "interrupted") ELSE runs' = runs
      PROVE  DOMAIN runs' = DOMAIN runs /\ ActiveRuns' = ActiveRuns \ {r}
  <2>1. CASE r \in ActiveRuns
    <3>1. /\ Len(runs') = Len(runs) /\ runs' \in Seq(Runs)
          /\ \A s \in DOMAIN runs :
                runs'[s].status = IF s = r THEN "interrupted" ELSE runs[s].status
      BY <1>1, <2>1, StatusKept DEF TypeInv, RunsTyped
    <3>2. DOMAIN runs' = DOMAIN runs
      BY <1>0, <3>1
    <3> QED  BY <3>1, <3>2 DEF ActiveRuns, Active
  <2>2. CASE r \notin ActiveRuns
    BY <1>1, <2>2 DEF ActiveRuns
  <2> QED  BY <2>1, <2>2
<1>2. CASE CancelRun(q)
  <2>1. request'[q] = [request[q] EXCEPT !.step = "paging"]
    BY <1>0, <1>2 DEF CancelRun, RequestTo
  <2>2. seen'[q] = [over |-> (DOMAIN runs \ ActiveRuns) \cup {request[q].run},
                    launches |-> {t \in Tasks : Launching(t)}]
    BY <1>0, <1>2 DEF CancelRun, See
  <2>3. request[q].run \in DOMAIN runs
    BY <1>0, <1>2 DEF CancelRun, Named
  <2>4. DOMAIN runs' = DOMAIN runs /\ ActiveRuns' = ActiveRuns \ {request[q].run}
    BY <1>1, <1>2, <2>3 DEF CancelRun
  <2>5. /\ seen'[q].over = (DOMAIN runs \ ActiveRuns) \cup {request[q].run}
        /\ seen'[q].launches = {t \in Tasks : Launching(t)}
        /\ request'[q].step = "paging" /\ request'[q].offset = 0
    BY <1>0, <2>1, <2>2 DEF Locals
  <2>6. OverStays(q)'
    BY <2>3, <2>4, <2>5 DEF OverStays
  <2>7. LaunchesSeen(q)' /\ Reached(q)' /\ FirstPage(q)'
    BY <1>0, <2>5 DEF LaunchesSeen, Reached, Ahead, FirstPage
  <2> QED  BY <2>6, <2>7 DEF Reach
<1>3. CASE FindRuns(q)
  <2>1. request'[q] = [request[q] EXCEPT !.step = "stoppingAll", !.live = ActiveRuns]
    BY <1>0, <1>3 DEF FindRuns
  <2>2. request'[q].step = "stoppingAll" /\ request'[q].live = ActiveRuns /\ request'[q].offset = 0
    BY <1>0, <2>1 DEF Locals
  <2>3. seen'[q].over = DOMAIN runs /\ runs' = runs
    BY <1>0, <1>3 DEF FindRuns, See
  <2> QED  BY <2>2, <2>3 DEF Reach, OverStays, LaunchesSeen, Reached, FirstPage, Stopped, ActiveRuns
<1>4. CASE CancelFound(q)
  <2>0. /\ seen'[q].over = seen[q].over /\ seen'[q].launches = {t \in Tasks : Launching(t)}
        /\ seen[q].over \subseteq DOMAIN runs
        /\ seen[q].over \cap ActiveRuns \subseteq request[q].live
        /\ request[q].step = "stoppingAll"
    BY <1>0, <1>4 DEF CancelFound, See, Reach, OverStays
  <2>1. ASSUME NEW r \in request[q].live,
               IF r \in ActiveRuns THEN StatusTo(r, "interrupted") ELSE runs' = runs,
               request' = [request EXCEPT ![q].live = @ \ {r}]
        PROVE  Reach(q)'
    <3>1. request'[q] = [request[q] EXCEPT !.live = @ \ {r}]
      BY <1>0, <2>1
    <3>2. /\ request'[q].step = "stoppingAll" /\ request'[q].live = request[q].live \ {r}
          /\ request'[q].offset = 0
      BY <1>0, <2>0, <3>1 DEF Locals
    <3>3. DOMAIN runs' = DOMAIN runs /\ ActiveRuns' = ActiveRuns \ {r}
      BY <1>0, <1>1, <2>1 DEF Named
    <3> QED  BY <2>0, <3>2, <3>3 DEF Reach, OverStays, LaunchesSeen, Reached, FirstPage, Stopped
  <2>2. ASSUME request[q].live = {}, RequestTo(q, "paging"), runs' = runs
        PROVE  Reach(q)'
    <3>1. request'[q].step = "paging" /\ request'[q].offset = 0
      BY <1>0, <2>2 DEF RequestTo, Locals
    <3>2. seen[q].over \cap ActiveRuns = {}
      BY <2>0, <2>2
    <3> QED  BY <1>0, <2>0, <2>2, <3>1, <3>2
             DEF Reach, OverStays, LaunchesSeen, Reached, Ahead, FirstPage, ActiveRuns
  <2> QED  BY <1>4, <2>1, <2>2 DEF CancelFound
<1> QED  BY <1>2, <1>3, <1>4

(* A first page holds every researcher Thread wanted.                      *)
LEMMA PageHoldsAll ==
    ASSUME TypeInv, OnePage, NEW q \in Requests, request[q].offset = 0,
           NEW t \in Tasks, Exists(t), Wanted(q, t)
    PROVE  t \in Page(q)
<1> DEFINE found == {u \in Tasks : Exists(u) /\ Wanted(q, u)}
           newer == {u \in found : <<u, t>> \in recent}
<1>1. newer \subseteq Tasks \ {t}
  BY DEF TypeInv, TypeOK
<1>2. IsFiniteSet(Tasks \ {t}) /\ Cardinality(Tasks \ {t}) = Cardinality(Tasks) - 1
  BY FS_RemoveElement DEF OnePage
<1>3. Cardinality(newer) <= Cardinality(Tasks) - 1 /\ Cardinality(newer) \in Nat
  BY <1>1, <1>2, FS_Subset, FS_CardinalityType
<1>4. Cardinality(Tasks) \in Nat /\ Cardinality(Tasks) <= PageSize /\ PageSize \in Nat
  BY BoundsAssumption, FS_CardinalityType DEF OnePage
<1>5. 0 <= Cardinality(newer) /\ Cardinality(newer) < 0 + PageSize
  BY <1>3, <1>4
<1> QED  BY <1>5 DEF Page

LEMMA WalkReach ==
    ASSUME TypeInv, OnePage, RunsKept, \A u \in Tasks : TaskKept(u),
           NEW q \in Requests, Reach(q),
           \/ ListPage(q) \/ VisitTask(q) \/ AllVisited(q)
           \/ CancelTask(q) \/ DeleteTask(q) \/ DeleteThread(q)
    PROVE  Reach(q)'
<1>0. /\ request \in [Requests -> Locals] /\ request[q] \in Locals /\ Stopped(q)
      /\ seen' = seen /\ Named(request[q])
  BY LocalsOf
     DEF ListPage, VisitTask, AllVisited, CancelTask, DeleteTask, DeleteThread,
         Stopped, TypeInv, TypeOK
<1>1. ASSUME Stopped(q)', request'[q].delete = request[q].delete,
             request'[q].run = request[q].run,
             \A t \in Tasks : Due(q, t)' /\ Due(q, t) /\ Ahead(q, t) => Ahead(q, t)'
      PROVE  Reach(q)'
  BY <1>0, <1>1, Walking DEF Reach, Reached
<1>2. CASE ListPage(q)
  <2> DEFINE last == Cardinality(Page(q)) < PageSize
  <2>1. request'[q] = [request[q] EXCEPT
              !.todo = @ \cup Page(q),
              !.offset = IF last THEN 0 ELSE @ + PageSize,
              !.step = IF last THEN "visiting" ELSE "paging"]
    BY <1>0, <1>2 DEF ListPage
  <2> HIDE DEF last
  <2>2. /\ request'[q].todo = request[q].todo \cup Page(q)
        /\ request'[q].step \in {"paging", "visiting"}
        /\ request'[q].delete = request[q].delete /\ request'[q].run = request[q].run
    BY <1>0, <2>1 DEF Locals
  <2>3. ASSUME NEW t \in Tasks, Due(q, t), Ahead(q, t)
        PROVE  t \in request'[q].todo
    <3>1. CASE request[q].offset = 0
      <4>1. Exists(t) /\ Wanted(q, t)
        BY <2>3 DEF Due, Wanted, Exists
      <4> QED  BY <2>2, <3>1, <4>1, PageHoldsAll
    <3>2. CASE t \in request[q].todo
      BY <2>2, <3>2
    <3> QED  BY <1>2, <2>3, <3>1, <3>2 DEF Ahead, ListPage
  <2> QED  BY <1>1, <2>2, <2>3 DEF Stopped, Ahead
<1>3. CASE VisitTask(q)
  <2>1. PICK t \in request[q].todo :
            request'[q] = [request[q] EXCEPT
                !.todo = @ \ {t},
                !.task = IF task[t].stage = "active" \/ request[q].delete
                         THEN t ELSE NoTask,
                !.step = IF task[t].stage = "active" THEN "stoppingTask"
                         ELSE IF request[q].delete THEN "deletingTask"
                         ELSE "visiting"]
    BY <1>0, <1>3 DEF VisitTask
  <2>2. /\ request'[q].todo = request[q].todo \ {t}
        /\ request'[q].step \in {"stoppingTask", "deletingTask", "visiting"}
        /\ request'[q].delete = request[q].delete /\ request'[q].run = request[q].run
        /\ task[t].stage = "active" \/ request[q].delete
              => request'[q].task = t /\ request'[q].step \in {"stoppingTask", "deletingTask"}
    BY <1>0, <2>1 DEF Locals
  <2>3. ASSUME NEW u \in Tasks, Due(q, u), Ahead(q, u)
        PROVE  Ahead(q, u)'
    <3>1. u \in request[q].todo
      BY <1>3, <2>3 DEF Ahead, VisitTask
    <3>2. u = t => task[t].stage = "active" \/ request[q].delete
      BY <2>3 DEF Due
    <3> QED  BY <2>2, <3>1, <3>2 DEF Ahead
  <2> QED  BY <1>1, <2>2, <2>3 DEF Stopped
<1>4. CASE AllVisited(q)
  <2>1. /\ request'[q].step \in {"deletingThread", "answered"}
        /\ request'[q].delete = request[q].delete /\ request'[q].run = request[q].run
    BY <1>0, <1>4 DEF AllVisited, RequestTo, Locals
  <2>2. \A t \in Tasks : ~Ahead(q, t)
    BY <1>4 DEF AllVisited, Ahead
  <2> QED  BY <1>1, <2>1, <2>2 DEF Stopped
<1>5. CASE CancelTask(q) \/ DeleteTask(q)
  <2>1. PICK t \in Tasks : t = request[q].task /\ task[t] \in TaskStates
    BY <1>5, TaskHandled DEF TypeInv, TypeOK
  <2>2. \/ /\ request'[q] = [request[q] EXCEPT !.step = "visiting", !.task = NoTask]
           /\ task'[t].stage = "deleted" \/ (~request[q].delete /\ task'[t].stage # "active")
        \/ request'[q] = [request[q] EXCEPT !.step = "deletingTask"]
    <3>1. task \in [Tasks -> TaskStates]
      BY DEF TypeInv, TypeOK
    <3>2. ASSUME NEW stage, TaskTo(t, stage)
          PROVE  task'[t].stage = stage
      BY <2>1, <3>1, <3>2 DEF TaskTo, TaskStates
    <3>3. CASE CancelTask(q)
      <4>1. task[t].stage = "active" => task'[t].stage = "ended"
        BY <2>1, <3>2, <3>3 DEF CancelTask
      <4>2. task[t].stage # "active" => task' = task
        BY <2>1, <3>3 DEF CancelTask
      <4> QED  BY <1>0, <3>3, <4>1, <4>2 DEF CancelTask, RequestTo
    <3>4. CASE DeleteTask(q)
      <4>1. task'[t].stage = "deleted"
        BY <2>1, <3>2, <3>4 DEF DeleteTask
      <4> QED  BY <1>0, <3>4, <4>1 DEF DeleteTask
    <3> QED  BY <1>5, <3>3, <3>4
  <2>3. /\ request'[q].step \in {"visiting", "deletingTask"}
        /\ request'[q].delete = request[q].delete /\ request'[q].run = request[q].run
        /\ request'[q].todo = request[q].todo
        /\ request'[q].step = "deletingTask" => request'[q].task = t
    BY <1>0, <2>1, <2>2 DEF Locals
  <2>4. request'[q].step = "visiting" => ~Due(q, t)'
    BY <1>0, <2>2, <2>3 DEF Due, Exists, Locals
  <2>5. ASSUME NEW u \in Tasks, Due(q, u)', Ahead(q, u)
        PROVE  Ahead(q, u)'
    <3>1. u \in request[q].todo \/ u = t
      BY <1>5, <2>1, <2>5 DEF Ahead, CancelTask, DeleteTask
    <3> QED  BY <2>3, <2>4, <2>5, <3>1 DEF Ahead
  <2> QED  BY <1>1, <2>3, <2>5 DEF Stopped
<1>6. CASE DeleteThread(q)
  <2>1. /\ request'[q].step = "answered"
        /\ request'[q].delete = request[q].delete /\ request'[q].run = request[q].run
    BY <1>0, <1>6 DEF DeleteThread, RequestTo, Locals
  <2>2. \A t \in Tasks : ~Ahead(q, t)
    BY <1>6 DEF DeleteThread, Ahead
  <2> QED  BY <1>1, <2>1, <2>2 DEF Stopped
<1> QED  BY <1>2, <1>3, <1>4, <1>5, <1>6

LEMMA ReachStep ==
    ASSUME TypeInv, OnePage, \A q \in Requests : Reach(q), [Next]_vars
    PROVE  \A q \in Requests : Reach(q)'
<1>1. RunsKept /\ \A u \in Tasks : TaskKept(u)
  BY TypeStep, TasksKept
<1>2. CASE UNCHANGED <<request, seen>>
  BY <1>1, <1>2, Elsewhere
<1>3. ASSUME NEW q \in Requests, Handle(q)
      PROVE  \A p \in Requests : Reach(p)'
  <2>1. \A p \in Requests \ {q} : request'[p] = request[p] /\ seen'[p] = seen[p]
    <3>1. request \in [Requests -> Locals] /\ seen \in [Requests -> Seen]
      BY DEF TypeInv, TypeOK
    <3> QED  BY <1>3, <3>1
             DEF Handle, BeginCreate, CreateRun, BeginResume, BeginCancel, ResumeRun, CancelRun,
                 BeginDelete, FindRuns, CancelFound, ListPage, VisitTask, AllVisited, CancelTask,
                 DeleteTask, DeleteThread, Answer, RequestRaises, End, RequestTo, See
  <2>2. Reach(q)'
    <3>1. CASE CancelRun(q) \/ FindRuns(q) \/ CancelFound(q)
      BY <1>1, <3>1, StopReach
    <3>2. CASE \/ ListPage(q) \/ VisitTask(q) \/ AllVisited(q)
               \/ CancelTask(q) \/ DeleteTask(q) \/ DeleteThread(q)
      BY <1>1, <3>2, WalkReach
    <3>3. CASE \/ BeginCreate(q) \/ CreateRun(q) \/ ResumeRun(q) \/ BeginDelete(q)
               \/ \E r \in DOMAIN runs : BeginResume(q, r) \/ BeginCancel(q, r)
               \/ Answer(q) \/ RequestRaises(q)
      <4>1. request \in [Requests -> Locals]
        BY DEF TypeInv, TypeOK
      <4>2. \/ request'[q] = Idle
            \/ request'[q] = [request[q] EXCEPT !.step = "creating"]
            \/ request'[q] = [Idle EXCEPT !.step = "finding", !.delete = TRUE]
            \/ \E r \in DOMAIN runs, step \in {"resuming", "stopping"} :
                  request'[q] = [Idle EXCEPT !.step = step, !.run = r]
        BY <3>3, <4>1
           DEF BeginCreate, CreateRun, ResumeRun, BeginDelete, BeginResume, BeginCancel,
               Answer, RequestRaises, End, RequestTo
      <4>3. /\ request'[q].step \in {"idle", "creating", "resuming", "stopping", "finding"}
            /\ request'[q].step \in {"stopping", "finding"} => request'[q].offset = 0
        <5>1. CASE request'[q] = [request[q] EXCEPT !.step = "creating"]
          <6>1. request[q] \in Locals
            BY <4>1
          <6> QED  BY <5>1, <6>1 DEF Locals
        <5>2. CASE \E r \in DOMAIN runs, step \in {"resuming", "stopping"} :
                      request'[q] = [Idle EXCEPT !.step = step, !.run = r]
          BY <5>2 DEF Idle
        <5>3. CASE request'[q] = Idle
          BY <5>3 DEF Idle
        <5>4. CASE request'[q] = [Idle EXCEPT !.step = "finding", !.delete = TRUE]
          BY <5>4 DEF Idle
        <5> QED  BY <4>2, <5>1, <5>2, <5>3, <5>4
      <4> QED  BY <4>3 DEF Reach, OverStays, LaunchesSeen, Reached, FirstPage, Stopped
    <3> QED  BY <1>3, <3>1, <3>2, <3>3 DEF Handle
  <2> QED  BY <1>1, <2>1, <2>2, Elsewhere
<1>4. ASSUME NEW t \in Tasks, Work(t)
      PROVE  UNCHANGED <<request, seen>>
  BY <1>4 DEF Work, Launch, MakeThread, MakeRun, LaunchFails, ProgressTask, EndTask
<1> QED  BY <1>2, <1>3, <1>4 DEF Next, vars, StartRun, FinishRun

LEMMA AlwaysReach ==
    ASSUME OnePage
    PROVE  Spec => [](TypeInv /\ \A q \in Requests : Reach(q))
<1> DEFINE Inv == TypeInv /\ \A q \in Requests : Reach(q)
<1>1. Init => Inv
  BY InitTyped DEF Init, Idle, Reach, OverStays, LaunchesSeen, Reached, FirstPage, Stopped
<1>2. Inv /\ [Next]_vars => Inv'
  BY TypeStep, ReachStep
<1> QED  BY <1>1, <1>2, PTL DEF Spec

(* When a cancellation answers, no researcher of its turn that its run had *)
(* launched is still active, with any number of other requests under way   *)
(* (cancel_run of routes/runs.py).                                         *)
THEOREM CancelReaches ==
    ASSUME OnePage
    PROVE  Spec => []CancelReachesTurn
<1>1. TypeInv /\ (\A q \in Requests : Reach(q)) => CancelReachesTurn
  BY DEF CancelReachesTurn, Reach, Reached, Stopped, Due, Ahead
<1> QED  BY <1>1, AlwaysReach, PTL

(* When a deletion answers, the researchers it had to find are deleted     *)
(* (delete_thread of routes/threads.py).                                   *)
THEOREM DeletionReaches ==
    ASSUME OnePage
    PROVE  Spec => []DeletionReachesKnown
<1>1. TypeInv /\ (\A q \in Requests : Reach(q)) => DeletionReachesKnown
  BY DEF DeletionReachesKnown, Reach, Reached, Stopped, Due, Ahead
<1> QED  BY <1>1, AlwaysReach, PTL
=============================================================================
