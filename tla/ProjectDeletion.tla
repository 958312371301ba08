--------------------------- MODULE ProjectDeletion ----------------------------
(***************************************************************************)
(* DELETE /projects/{id} (delete_project of                                *)
(* src/langalpha/server/routes/projects.py) beside the hosts of            *)
(* SandboxBinding.  A request that fails part way answers 502 and may be   *)
(* sent again, and several requests may be in flight.                      *)
(***************************************************************************)
EXTENDS SandboxBinding

CONSTANTS Requests  \* deletion requests that may be in flight together

VARIABLES
    deletion  \* deletion[d]: the handler's step, and the row as it read it

allVars == <<vars, deletion>>

DeletionSteps == {"idle", "marking", "stopping", "removing", "finishing"}

Deletions == [step : DeletionSteps, project : Rows]

NoDeletion == [step |-> "idle", project |-> NewProject]

DeletionGoTo(d, step) == deletion' = [deletion EXCEPT ![d].step = step]

DeletionEnd(d) == deletion' = [deletion EXCEPT ![d] = NoDeletion]

DeletionInit ==
    /\ Init
    /\ deletion = [d \in Requests |-> NoDeletion]

----------------------------------------------------------------------------
(* require_project(allow_deleting=True): the row as read here is what the  *)
(* rest of the handler goes by.                                            *)
AcceptActive(d) ==
    /\ deletion[d].step = "idle"
    /\ row.status = "active"
    /\ deletion' = [deletion EXCEPT ![d] = [step |-> "marking", project |-> row]]
    /\ UNCHANGED vars

Accept(d) ==
    /\ deletion[d].step = "idle"
    /\ Visible(row)
    /\ deletion' = [deletion EXCEPT ![d] =
          [step |-> IF row.status = "active" THEN "marking" ELSE "stopping",
           project |-> row]]
    /\ UNCHANGED vars

(* mark_deleting: raises when the row is already a tombstone.              *)
Mark(d) ==
    /\ deletion[d].step = "marking"
    /\ IF Visible(row)
       THEN row' = MarkDeleting(row) /\ DeletionGoTo(d, "stopping")
       ELSE row' = row /\ DeletionEnd(d)
    /\ UNCHANGED <<life, restored, contexts, cache, host>>

(* The runs of every Thread are cancelled and the Threads deleted.  A tool *)
(* call already on a worker thread goes on, and a request that passed      *)
(* require_project before Mark may still enqueue its run.                  *)
StopRuns(d) ==
    /\ deletion[d].step = "stopping"
    /\ contexts' \in SUBSET contexts
    /\ DeletionGoTo(d, "removing")
    /\ UNCHANGED <<row, life, restored, cache, host>>

(* delete_daytona_sandbox on the sandbox of the row as first read: client  *)
(* .get raises when it is already gone.                                    *)
RemoveNothing(d) ==
    /\ deletion[d].step = "removing"
    /\ DeletionGoTo(d, "finishing")
    /\ UNCHANGED vars

RemoveSandbox(d) ==
    /\ deletion[d].step = "removing"
    /\ LET s == deletion[d].project.sandbox IN
       \/ /\ s = NoSandbox
          /\ DeletionGoTo(d, "finishing")
          /\ life' = life
       \/ /\ s # NoSandbox /\ Alive(s)
          /\ life' = [life EXCEPT ![s] = "deleted"]
          /\ DeletionGoTo(d, "finishing")
       \/ /\ s # NoSandbox /\ ~Alive(s)
          /\ DeletionEnd(d)
          /\ life' = life
    /\ UNCHANGED <<row, restored, contexts, cache, host>>

(* delete_project of the store.                                            *)
FinishDeletion(d) ==
    /\ deletion[d].step = "finishing"
    /\ row' = IF Visible(row) THEN Tombstone(row) ELSE row
    /\ DeletionEnd(d)
    /\ UNCHANGED <<life, restored, contexts, cache, host>>

(* Any call of the handler raises, or its reply is lost: 502, and what was *)
(* done stays done.                                                        *)
Abort(d) ==
    /\ deletion[d].step # "idle"
    /\ DeletionEnd(d)
    /\ UNCHANGED vars

Delete(d) ==
    \/ Accept(d) \/ Mark(d) \/ StopRuns(d)
    \/ RemoveSandbox(d) \/ FinishDeletion(d)

DeletionNext ==
    \/ Next /\ UNCHANGED deletion
    \/ \E d \in Requests : Delete(d) \/ Abort(d)

DeletionSpec == DeletionInit /\ [][DeletionNext]_allVars

----------------------------------------------------------------------------
(* Properties.                                                             *)

DeletionTypeOK ==
    /\ TypeOK
    /\ deletion \in [Requests -> Deletions]

(* A request that reaches the tombstone has seen the sandbox it read off   *)
(* the row, if any, disappear: no path to the last statement leaves the    *)
(* verified sandbox running.                                               *)
FinishesOnlyWithoutItsSandbox ==
    \A d \in Requests :
        deletion[d].step = "finishing" =>
            \/ deletion[d].project.sandbox = NoSandbox
            \/ Gone(deletion[d].project.sandbox)

(* Once a Project is being deleted a recovery can no longer move its       *)
(* binding: a host that finds the sandbox missing because the deletion     *)
(* removed it does not bind a new one in its place.                        *)
NoRecoveryWhileDeleting ==
    [][row.status = "deleting" /\ row.sandbox # NoSandbox
         => row'.sandbox = row.sandbox \/ row'.status = "deleted"]_allVars

(* Until the tombstone, hosts agree on one live workspace, with deletion   *)
(* requests removing sandboxes under them.                                 *)
OneWorkspaceUntilDeleted == Visible(row) => OneWorkspace

(* The sandbox a Project is bound to when its row becomes a tombstone is   *)
(* gone from Daytona (docs/architecture.md:168-170).                       *)
SandboxDeletedWithProject ==
    [][Visible(row) /\ ~Visible(row)'
         => row.sandbox = NoSandbox \/ Gone(row.sandbox)]_allVars

(* The most a caller can hope for: the request is always sent again, and   *)
(* each call of the handler answers if it is made again and again.         *)
DeletionFairness ==
    \A d \in Requests :
        /\ WF_allVars(Accept(d))
        /\ SF_allVars(Mark(d))
        /\ SF_allVars(StopRuns(d))
        /\ SF_allVars(RemoveSandbox(d))
        /\ SF_allVars(FinishDeletion(d))

FairDeletionSpec == DeletionSpec /\ DeletionFairness

(* A deletion that keeps being requested completes, unless Daytona no      *)
(* longer has the bound sandbox, which delete_daytona_sandbox takes for a  *)
(* failure every time: neither a host still binding and recovering, nor    *)
(* requests that fail after any of their steps, keep it from completing    *)
(* (docs/architecture.md:168-170).                                         *)
DeletionCompletesOrSandboxGone ==
    row.status = "deleting" ~>
        \/ row.status = "deleted"
        \/ row.sandbox \in Sandboxes /\ Gone(row.sandbox)
=============================================================================
