---------------------------- MODULE SandboxBinding ----------------------------
(***************************************************************************)
(* How Agent hosts find, create, recover and bind the Daytona sandbox of   *)
(* one Project: get_daytona_backend_for_project                            *)
(* (src/langalpha/backends/daytona.py) run by several hosts against one    *)
(* Project row and one Daytona account.                                    *)
(*                                                                         *)
(* A step is one remote call with the decision taken on its answer.  A     *)
(* host holds _LOCK from the first step to the last, so it runs one        *)
(* resolution at a time; different hosts interleave at every call.  Every  *)
(* call may raise, a host may restart at any moment, and Daytona may lose  *)
(* a sandbox at any moment.                                                *)
(***************************************************************************)
EXTENDS ProjectRow

CONSTANTS Hosts,        \* Agent Server processes
          UniqueNames,  \* Daytona refuses a second sandbox of one name
          LostReplies   \* a call may take effect and still raise

ASSUME ConfigAssumption == UniqueNames \in BOOLEAN /\ LostReplies \in BOOLEAN

VARIABLES
    row,        \* the Project row
    life,       \* life[s]: what Daytona knows of sandbox s
    restored,   \* sandboxes _restore_project_assets has completed on
    contexts,   \* expected_sandbox_id of the runs that may call a tool
    cache,      \* cache[h]: the entry of _RESOLVED_BACKENDS on host h
    host        \* host[h]: the locals of the resolution host h is in

vars == <<row, life, restored, contexts, cache, host>>

----------------------------------------------------------------------------
(* A sandbox is "lost" when it disappears without the host asking, and     *)
(* "deleted" when the code deletes it.                                     *)
Life == {"unused", "alive", "lost", "deleted"}

Alive(s) == life[s] = "alive"

Gone(s) == life[s] \in {"lost", "deleted"}

(* The steps inside the `try` that deletes a created replacement when an   *)
(* exception passes through it.                                            *)
GuardedSteps == {"preparing", "restoring", "bindReading", "bindWriting",
                 "bindRereading", "replacing", "replaceRereading"}

Steps == GuardedSteps \cup {"idle", "getting", "listing", "creating",
                            "discarding", "adopting", "cleaning"}

(* The steps that work on a sandbox.                                       *)
HoldingSteps == GuardedSteps \cup {"discarding", "adopting", "cleaning"}

(* expected: expected_sandbox_id; missing: missing_sandbox_id is set (to   *)
(* expected); sandbox: `existing`; replacement: created_replacement;       *)
(* winner: the binding read back after a lost replace.                     *)
HostStates == [step : Steps, expected : MaybeSandbox, missing : BOOLEAN,
               sandbox : MaybeSandbox, replacement : BOOLEAN,
               winner : MaybeSandbox]

IdleHost == [step |-> "idle", expected |-> NoSandbox, missing |-> FALSE,
             sandbox |-> NoSandbox, replacement |-> FALSE,
             winner |-> NoSandbox]

GoTo(h, step) == host' = [host EXCEPT ![h].step = step]

Finish(h) == host' = [host EXCEPT ![h] = IdleHost]

(* The host works on sandbox s from now on.                                *)
Hold(h, s, own) ==
    host' = [host EXCEPT ![h].step = "preparing", ![h].sandbox = s,
                         ![h].replacement = own]

(* An exception inside the `try` first deletes a created replacement.      *)
ThrowAway(h) ==
    IF host[h].step \in GuardedSteps /\ host[h].replacement
    THEN GoTo(h, "cleaning")
    ELSE Finish(h)

Init ==
    /\ row = NewProject
    /\ life = [s \in Sandboxes |-> "unused"]
    /\ restored = {}
    /\ contexts = {}
    /\ cache = [h \in Hosts |-> NoSandbox]
    /\ host = [h \in Hosts |-> IdleHost]

----------------------------------------------------------------------------
(* Runs.                                                                   *)

(* The BFF reads the Project and copies its binding into the RunContext of *)
(* the run it enqueues; the run keeps that copy however long it waits.     *)
CreateRun ==
    /\ row.status = "active"
    /\ contexts' = contexts \cup {row.sandbox}
    /\ UNCHANGED <<row, life, restored, cache, host>>

(* The first tool call of a run that reaches a host with nothing cached.   *)
StartGetting(h, e) ==
    /\ host[h].step = "idle"
    /\ cache[h] = NoSandbox
    /\ e \in contexts
    /\ host' = [host EXCEPT ![h] =
          [IdleHost EXCEPT !.step = "getting", !.expected = e]]
    /\ UNCHANGED <<row, life, restored, contexts, cache>>

StartUncached(h, e) ==
    /\ host[h].step = "idle"
    /\ cache[h] = NoSandbox
    /\ e \in contexts
    /\ host' = [host EXCEPT ![h] =
          [IdleHost EXCEPT !.step = IF e = NoSandbox THEN "listing" ELSE "getting",
                           !.expected = e]]
    /\ UNCHANGED <<row, life, restored, contexts, cache>>

(* A tool call on a host with a cached backend: it answers from the cache, *)
(* or raises when both the run and the row name another sandbox.  Neither  *)
(* outcome changes the cache, and no outcome asks Daytona.                 *)
StartCached(h) ==
    /\ host[h].step = "idle"
    /\ cache[h] # NoSandbox
    /\ contexts # {}
    /\ UNCHANGED vars

----------------------------------------------------------------------------
(* Finding a sandbox.                                                      *)

(* client.get(expected_sandbox_id); DaytonaNotFoundError makes it missing. *)
GetExpected(h) ==
    /\ host[h].step = "getting"
    /\ IF Alive(host[h].expected)
       THEN Hold(h, host[h].expected, FALSE)
       ELSE host' = [host EXCEPT ![h].step = "listing", ![h].missing = TRUE]
    /\ UNCHANGED <<row, life, restored, contexts, cache>>

(* client.list(labels): any sandbox carrying the Project's labels.         *)
ListLabelled(h) ==
    /\ host[h].step = "listing"
    /\ \/ \E s \in Sandboxes : Alive(s) /\ Hold(h, s, FALSE)
       \/ /\ \A s \in Sandboxes : ~Alive(s)
          /\ GoTo(h, "creating")
    /\ UNCHANGED <<row, life, restored, contexts, cache>>

(* client.create: outside the `try`, so a lost reply leaves the sandbox.   *)
Create(h) ==
    /\ host[h].step = "creating"
    /\ UniqueNames => \A s \in Sandboxes : ~Alive(s)
    /\ \E s \in Sandboxes :
          /\ life[s] = "unused"
          /\ life' = [life EXCEPT ![s] = "alive"]
          /\ \/ Hold(h, s, host[h].missing)
             \/ LostReplies /\ Finish(h)
    /\ UNCHANGED <<row, restored, contexts, cache>>

(* _ensure_started and `mkdir -p /workspace`.                              *)
Prepare(h) ==
    /\ host[h].step = "preparing"
    /\ Alive(host[h].sandbox)
    /\ GoTo(h, IF host[h].missing THEN "restoring" ELSE "bindReading")
    /\ UNCHANGED <<row, life, restored, contexts, cache>>

(* _restore_project_assets: every ready Asset is in the sandbox, or it     *)
(* raised (Raise).                                                         *)
SkipRestore(h) ==
    /\ host[h].step = "restoring"
    /\ GoTo(h, "replacing")
    /\ UNCHANGED <<row, life, restored, contexts, cache>>

Restore(h) ==
    /\ host[h].step = "restoring"
    /\ Alive(host[h].sandbox)
    /\ restored' = restored \cup {host[h].sandbox}
    /\ GoTo(h, "replacing")
    /\ UNCHANGED <<row, life, contexts, cache>>

----------------------------------------------------------------------------
(* bind_sandbox: read, compare-and-set on null, read back.                 *)

(* The resolution ends with the backend in _RESOLVED_BACKENDS.             *)
CacheAndFinish(h, s) ==
    /\ cache' = [cache EXCEPT ![h] = s]
    /\ Finish(h)

BindRead(h) ==
    /\ host[h].step = "bindReading"
    /\ IF Visible(row) /\ row.sandbox = host[h].sandbox
       THEN CacheAndFinish(h, host[h].sandbox)
       ELSE /\ cache' = cache
            /\ IF Visible(row) /\ Unbound(row)
               THEN GoTo(h, "bindWriting")
               ELSE ThrowAway(h)
    /\ UNCHANGED <<row, life, restored, contexts>>

BindWrite(h) ==
    /\ host[h].step = "bindWriting"
    /\ IF BindMatches(row)
       THEN /\ row' = WithSandbox(row, host[h].sandbox)
            /\ \/ CacheAndFinish(h, host[h].sandbox)
               \/ LostReplies /\ ThrowAway(h) /\ cache' = cache
       ELSE /\ GoTo(h, "bindRereading")
            /\ UNCHANGED <<row, cache>>
    /\ UNCHANGED <<life, restored, contexts>>

BindReread(h) ==
    /\ host[h].step = "bindRereading"
    /\ IF Visible(row) /\ row.sandbox = host[h].sandbox
       THEN CacheAndFinish(h, host[h].sandbox)
       ELSE ThrowAway(h) /\ cache' = cache
    /\ UNCHANGED <<row, life, restored, contexts>>

----------------------------------------------------------------------------
(* replace_sandbox and what follows a lost race.                           *)

Replace(h) ==
    /\ host[h].step = "replacing"
    /\ IF ReplaceMatches(row, host[h].expected)
       THEN /\ row' = WithSandbox(row, host[h].sandbox)
            /\ \/ CacheAndFinish(h, host[h].sandbox)
               \/ LostReplies /\ ThrowAway(h) /\ cache' = cache
       ELSE /\ GoTo(h, "replaceRereading")
            /\ UNCHANGED <<row, cache>>
    /\ UNCHANGED <<life, restored, contexts>>

(* The row names our sandbox (another host found it by its labels), names  *)
(* a winner, or names none or the missing one, which raises.               *)
CacheOwnOnReread(h) ==
    /\ host[h].step = "replaceRereading"
    /\ Visible(row)
    /\ row.sandbox # host[h].expected
    /\ CacheAndFinish(h, host[h].sandbox)
    /\ UNCHANGED <<row, life, restored, contexts>>

ReplaceReread(h) ==
    /\ host[h].step = "replaceRereading"
    /\ \/ /\ Visible(row)
          /\ row.sandbox = host[h].sandbox
          /\ CacheAndFinish(h, host[h].sandbox)
       \/ /\ Visible(row)
          /\ row.sandbox \notin {host[h].sandbox, host[h].expected}
          /\ host' = [host EXCEPT ![h].step = "discarding",
                                  ![h].winner = row.sandbox]
          /\ cache' = cache
       \/ /\ ~Visible(row) \/ row.sandbox = host[h].expected
          /\ ThrowAway(h)
          /\ cache' = cache
    /\ UNCHANGED <<row, life, restored, contexts>>

(* A host that lost the race deletes the replacement it created, if it     *)
(* created one.  An exception of that delete is swallowed.                 *)
DeleteOwn(h) ==
    \/ host[h].replacement /\ Alive(host[h].sandbox)
       /\ life' = [life EXCEPT ![host[h].sandbox] = "deleted"]
    \/ UNCHANGED life

Discard(h) ==
    /\ host[h].step = "discarding"
    /\ DeleteOwn(h)
    /\ IF host[h].winner = NoSandbox THEN Finish(h) ELSE GoTo(h, "adopting")
    /\ UNCHANGED <<row, restored, contexts, cache>>

(* The loser goes on with the winner's sandbox.                            *)
Adopt(h) ==
    /\ host[h].step = "adopting"
    /\ Alive(host[h].winner)
    /\ CacheAndFinish(h, host[h].winner)
    /\ UNCHANGED <<row, life, restored, contexts>>

----------------------------------------------------------------------------
(* Failure.                                                                *)

(* The call of the current step raised without effect.                     *)
Raise(h) ==
    /\ host[h].step \notin {"idle", "discarding", "cleaning"}
    /\ ThrowAway(h)
    /\ UNCHANGED <<row, life, restored, contexts, cache>>

(* `except Exception`: delete the created replacement, swallow a failure   *)
(* to do so, and raise.                                                    *)
CleanUp(h) ==
    /\ host[h].step = "cleaning"
    /\ DeleteOwn(h)
    /\ Finish(h)
    /\ UNCHANGED <<row, restored, contexts, cache>>

(* The process ends and another takes its place with an empty cache.       *)
Restart(h) ==
    /\ cache' = [cache EXCEPT ![h] = NoSandbox]
    /\ Finish(h)
    /\ UNCHANGED <<row, life, restored, contexts>>

(* Daytona loses a sandbox.                                                *)
Lose(s) ==
    /\ Alive(s)
    /\ life' = [life EXCEPT ![s] = "lost"]
    /\ UNCHANGED <<row, restored, contexts, cache, host>>

----------------------------------------------------------------------------
Resolve(h) ==
    \/ \E e \in MaybeSandbox : StartUncached(h, e)
    \/ StartCached(h)
    \/ GetExpected(h) \/ ListLabelled(h) \/ Create(h)
    \/ Prepare(h) \/ Restore(h)
    \/ BindRead(h) \/ BindWrite(h) \/ BindReread(h)
    \/ Replace(h) \/ ReplaceReread(h) \/ Discard(h) \/ Adopt(h)
    \/ Raise(h) \/ CleanUp(h)

Next ==
    \/ CreateRun
    \/ \E h \in Hosts : Resolve(h) \/ Restart(h)
    \/ \E s \in Sandboxes : Lose(s)

Spec == Init /\ [][Next]_vars

----------------------------------------------------------------------------
(* Properties.                                                             *)

(* The locals each step of a resolution relies on.                         *)
LocalsTyped(r) ==
    /\ r.step = "getting" \/ r.missing => r.expected \in Sandboxes
    /\ r.step \in HoldingSteps => r.sandbox \in Sandboxes
    /\ r.step = "adopting" => r.winner \in Sandboxes

HostTyped ==
    /\ host \in [Hosts -> HostStates]
    /\ \A h \in Hosts : LocalsTyped(host[h])

(* Types: a host only asks Daytona for a sandbox it was told of, and only  *)
(* works on one it was given (the steps of                                 *)
(* get_daytona_backend_for_project).                                       *)
TypeOK ==
    /\ row \in Rows
    /\ life \in [Sandboxes -> Life]
    /\ restored \subseteq Sandboxes
    /\ contexts \subseteq MaybeSandbox
    /\ cache \in [Hosts -> MaybeSandbox]
    /\ HostTyped

(* What a host has cached is what the Project row names, unless Daytona no *)
(* longer has it: the cache may outlive a sandbox, but it never sends work *)
(* to a live sandbox the Project is not bound to.  Breaks if a binding     *)
(* could move while its sandbox lives, or if a host cached a sandbox it    *)
(* failed to bind.                                                         *)
CacheFollowsBinding ==
    \A h \in Hosts :
        cache[h] # NoSandbox => cache[h] = row.sandbox \/ Gone(cache[h])

(* All Threads of a Project share one workspace, on whichever hosts their  *)
(* runs land: two hosts never answer with two different live sandboxes.    *)
OneWorkspace ==
    \A h, k \in Hosts :
        (cache[h] \in Sandboxes /\ cache[k] \in Sandboxes
            /\ Alive(cache[h]) /\ Alive(cache[k])) => cache[h] = cache[k]

(* The binding of an active Project is never to a sandbox the host itself  *)
(* deleted: the cleanup of a failed or lost recovery only removes          *)
(* sandboxes nobody was bound to.                                          *)
CleanupSparesBinding ==
    row.status = "active" /\ row.sandbox \in Sandboxes
        => life[row.sandbox] # "deleted"

(* Every step is a step of Workspace, or leaves it unchanged: the binding  *)
(* is set once, and moves only from a sandbox that is gone to one that     *)
(* holds the durable Assets.                                               *)
Promise == INSTANCE Workspace
    WITH binding <- row.sandbox,
         gone <- {s \in Sandboxes : Gone(s)},
         hydrated <- restored

ImplementsWorkspace == Promise!Spec
=============================================================================
