------------------------ MODULE ProjectDeletionProofs -------------------------
(***************************************************************************)
(* What holds of the hosts of a Project, with and without its deletion,    *)
(* for every number of hosts, sandboxes and requests: first SandboxBinding *)
(* alone, then beside deletion requests.  Its invariant survives their     *)
(* steps: they only remove sandboxes, forget runs and clear a row that     *)
(* nothing speaks of any more.                                             *)
(***************************************************************************)
EXTENDS ProjectDeletion, TLAPS

(* The Project is bound to s, or s has disappeared.                        *)
Settled(s) == s = row.sandbox \/ Gone(s)

(* Daytona has handed s out, if s is a sandbox at all.                     *)
Known(s) == s \in Sandboxes => life[s] # "unused"

KnownOK ==
    /\ Known(row.sandbox)
    /\ \A e \in contexts : Known(e)
    /\ \A h \in Hosts : Known(host[h].expected) /\ Known(host[h].sandbox)

(* A host's locals r are right about the world: a sandbox found missing    *)
(* stays gone, a replacement about to be bound has been restored, and the  *)
(* winner read back is the binding unless it has disappeared since.        *)
Right(r) ==
    /\ r.missing => Gone(r.expected)
    /\ r.step \in {"restoring", "replacing", "replaceRereading"} => r.missing
    /\ r.step \in {"replacing", "replaceRereading"} => r.sandbox \in restored
    /\ (/\ r.step \in {"discarding", "adopting"}
        /\ r.winner \in Sandboxes
        /\ Visible(row))
          => Settled(r.winner)

LocalsOK == \A h \in Hosts : Right(host[h])

(* The strengthening of CacheFollowsBinding.  It is stated of a visible    *)
(* row so that ProjectDeletion, where the row may become a tombstone, can  *)
(* use the same lemmas.                                                    *)
BindingInv ==
    /\ TypeOK
    /\ KnownOK
    /\ LocalsOK
    /\ Visible(row) => CacheFollowsBinding

USE NoSandboxAssumption, ConfigAssumption

----------------------------------------------------------------------------
LEMMA InitBindingInv == Init => BindingInv
  <1> SUFFICES ASSUME Init
               PROVE  BindingInv
    OBVIOUS
  <1>1. TypeOK
    BY DEF Init, TypeOK, HostTyped, LocalsTyped, Rows, NewProject, Status,
           MaybeSandbox, Life, HostStates, Steps, GuardedSteps, HoldingSteps,
           IdleHost
  <1>2. \A h \in Hosts : host[h] = IdleHost /\ cache[h] = NoSandbox
    BY DEF Init
  <1>3. Right(IdleHost)
    BY DEF Right, IdleHost
  <1>4. KnownOK
    BY <1>2, NoSandboxAssumption DEF Init, KnownOK, Known, NewProject, IdleHost
  <1>5. CacheFollowsBinding
    BY <1>2 DEF CacheFollowsBinding
  <1>6. QED
    BY <1>1, <1>2, <1>3, <1>4, <1>5 DEF BindingInv, LocalsOK

(* Whatever a step does to Daytona, a sandbox that is gone stays gone.     *)
LEMMA GoneStaysGone ==
  ASSUME TypeOK, [Next]_vars, NEW s \in Sandboxes, Gone(s)
  PROVE  Gone(s)'
  <1> USE DEF TypeOK, HostTyped, Gone, Alive, Life
  <1>1. CASE \E h \in Hosts : Create(h)
    BY <1>1 DEF Create
  <1>2. CASE \E h \in Hosts : Discard(h) \/ CleanUp(h)
    BY <1>2 DEF Discard, CleanUp, DeleteOwn, HostStates
  <1>3. CASE \E t \in Sandboxes : Lose(t)
    BY <1>3 DEF Lose
  <1>4. CASE UNCHANGED life
    BY <1>4
  <1>5. QED
    BY <1>1, <1>2, <1>3, <1>4
       DEF Next, Resolve, vars, CreateRun, StartUncached, StartCached,
           GetExpected, ListLabelled, Prepare, Restore, BindRead, BindWrite,
           BindReread, Replace, ReplaceReread, Adopt, Raise, Restart

(* A step of one host leaves the locals of the others alone.               *)
LEMMA OnlyOneHostMoves ==
  ASSUME TypeOK, NEW h \in Hosts, Resolve(h) \/ Restart(h)
  PROVE  /\ \A k \in Hosts \ {h} : host'[k] = host[k] /\ cache'[k] = cache[k]
         /\ DOMAIN host' = Hosts /\ DOMAIN cache' = Hosts
  <1> USE DEF TypeOK, HostTyped, GoTo, Finish, Hold, ThrowAway, CacheAndFinish
  <1>1. QED
    BY DEF Resolve, vars, StartUncached, StartCached, GetExpected,
           ListLabelled, Create, Prepare, Restore, BindRead, BindWrite,
           BindReread, Replace, ReplaceReread, Discard, Adopt, Raise,
           CleanUp, Restart

----------------------------------------------------------------------------
(* The ways a step changes the locals of its host keep them typed.         *)
LEMMA IdleTyped == IdleHost \in HostStates /\ LocalsTyped(IdleHost)
  BY DEF IdleHost, HostStates, Steps, GuardedSteps, HoldingSteps,
         MaybeSandbox, LocalsTyped

LEMMA HostUpdateTyped ==
  ASSUME HostTyped, NEW h \in Hosts, NEW r \in HostStates, LocalsTyped(r),
         host' = [host EXCEPT ![h] = r]
  PROVE  HostTyped'
  BY DEF HostTyped

LEMMA FinishTyped ==
  ASSUME HostTyped, NEW h \in Hosts, Finish(h)
  PROVE  HostTyped'
  BY IdleTyped, HostUpdateTyped DEF Finish

LEMMA GoToTyped ==
  ASSUME HostTyped, NEW h \in Hosts, NEW step \in Steps, GoTo(h, step),
         step # "getting",
         step \in HoldingSteps => host[h].sandbox \in Sandboxes,
         step = "adopting" => host[h].winner \in Sandboxes
  PROVE  HostTyped'
  <1> DEFINE r == [host[h] EXCEPT !.step = step]
  <1>1. host[h] \in HostStates /\ LocalsTyped(host[h])
    BY DEF HostTyped
  <1>2. r \in HostStates /\ LocalsTyped(r)
    BY <1>1 DEF HostStates, LocalsTyped
  <1>3. host' = [host EXCEPT ![h] = r]
    BY DEF GoTo, HostTyped
  <1>4. QED
    BY <1>2, <1>3, HostUpdateTyped

LEMMA HoldTyped ==
  ASSUME HostTyped, NEW h \in Hosts, NEW s \in Sandboxes,
         NEW own \in BOOLEAN, Hold(h, s, own)
  PROVE  HostTyped'
  <1> DEFINE r == [host[h] EXCEPT !.step = "preparing", !.sandbox = s,
                                  !.replacement = own]
  <1>1. host[h] \in HostStates /\ LocalsTyped(host[h])
    BY DEF HostTyped
  <1>2. r \in HostStates /\ LocalsTyped(r)
    BY <1>1 DEF HostStates, Steps, GuardedSteps, HoldingSteps, MaybeSandbox,
                LocalsTyped
  <1>3. host' = [host EXCEPT ![h] = r]
    BY DEF Hold, HostTyped
  <1>4. QED
    BY <1>2, <1>3, HostUpdateTyped

LEMMA ThrowAwayTyped ==
  ASSUME HostTyped, NEW h \in Hosts, ThrowAway(h)
  PROVE  HostTyped'
  <1>1. CASE host[h].step \in GuardedSteps /\ host[h].replacement
    <2>1. GoTo(h, "cleaning") /\ host[h].sandbox \in Sandboxes
      BY <1>1 DEF ThrowAway, HostTyped, LocalsTyped, HoldingSteps
    <2>2. QED
      BY <2>1, GoToTyped DEF Steps
  <1>2. CASE ~(host[h].step \in GuardedSteps /\ host[h].replacement)
    BY <1>2, FinishTyped DEF ThrowAway
  <1>3. QED
    BY <1>1, <1>2

(* What a step of a resolution may rely on of its own host.                *)
LEMMA HostHolds ==
  ASSUME HostTyped, NEW h \in Hosts
  PROVE  /\ host[h] \in HostStates
         /\ host[h].step \in Steps
         /\ host[h].missing \in BOOLEAN
         /\ host[h].winner \in MaybeSandbox
         /\ host[h].step \in GuardedSteps \cup {"discarding", "adopting", "cleaning"}
               => host[h].sandbox \in Sandboxes
         /\ host[h].step = "adopting" => host[h].winner \in Sandboxes
  BY DEF HostTyped, HostStates, LocalsTyped, HoldingSteps

----------------------------------------------------------------------------
(* Types are preserved, one step per action.                               *)
LEMMA TypePreserved == TypeOK /\ [Next]_vars => TypeOK'
  <1> SUFFICES ASSUME TypeOK, [Next]_vars
               PROVE  TypeOK'
    OBVIOUS
  <1> DEFINE Others == /\ row \in Rows /\ life \in [Sandboxes -> Life]
                       /\ restored \subseteq Sandboxes
                       /\ contexts \subseteq MaybeSandbox
                       /\ cache \in [Hosts -> MaybeSandbox]
  <1>0. Others /\ HostTyped
    BY DEF TypeOK
  <1>s. SUFFICES Others' /\ HostTyped'
    BY DEF TypeOK
  <1>1. CASE CreateRun
    BY <1>0, <1>1 DEF CreateRun, Rows, HostTyped
  <1>2. ASSUME NEW h \in Hosts, NEW e \in MaybeSandbox, StartUncached(h, e)
        PROVE  Others' /\ HostTyped'
    <2> DEFINE r == [IdleHost EXCEPT
                       !.step = IF e = NoSandbox THEN "listing" ELSE "getting",
                       !.expected = e]
    <2>1. r \in HostStates /\ LocalsTyped(r)
      BY DEF IdleHost, HostStates, Steps, GuardedSteps, HoldingSteps,
             MaybeSandbox, LocalsTyped
    <2>2. host' = [host EXCEPT ![h] = r]
      BY <1>2 DEF StartUncached
    <2>3. HostTyped'
      BY <1>0, <2>1, <2>2, HostUpdateTyped
    <2>4. QED
      BY <1>0, <1>2, <2>3 DEF StartUncached
  <1>3. ASSUME NEW h \in Hosts, GetExpected(h)
        PROVE  Others' /\ HostTyped'
    <2>1. host[h] \in HostStates /\ LocalsTyped(host[h])
          /\ host[h].expected \in Sandboxes
      BY <1>0, <1>3 DEF GetExpected, HostTyped, LocalsTyped
    <2> DEFINE r == [host[h] EXCEPT !.step = "listing", !.missing = TRUE]
    <2>2. ASSUME Hold(h, host[h].expected, FALSE)
          PROVE  HostTyped'
      BY <1>0, <2>1, <2>2, HoldTyped
    <2>3. ASSUME host' = [host EXCEPT ![h].step = "listing", ![h].missing = TRUE]
          PROVE  HostTyped'
      <3>1. r \in HostStates /\ LocalsTyped(r)
        BY <1>3, <2>1 DEF HostStates, Steps, GuardedSteps, HoldingSteps,
                          LocalsTyped
      <3>2. host' = [host EXCEPT ![h] = r]
        BY <1>0, <2>3 DEF HostTyped
      <3>3. QED
        BY <1>0, <3>1, <3>2, HostUpdateTyped
    <2>4. HostTyped'
      BY <1>3, <2>2, <2>3 DEF GetExpected
    <2>5. QED
      BY <1>0, <1>3, <2>4 DEF GetExpected
  <1>4. ASSUME NEW h \in Hosts, ListLabelled(h)
        PROVE  Others' /\ HostTyped'
    <2>1. HostTyped'
      BY <1>0, <1>4, HoldTyped, GoToTyped
         DEF ListLabelled, Steps, HoldingSteps, GuardedSteps
    <2>2. QED
      BY <1>0, <1>4, <2>1 DEF ListLabelled
  <1>5. ASSUME NEW h \in Hosts, Create(h)
        PROVE  Others' /\ HostTyped'
    <2>1. HostTyped'
      BY <1>0, <1>5, HostHolds, HoldTyped, FinishTyped DEF Create
    <2>2. QED
      BY <1>0, <1>5, <2>1 DEF Create, Life
  <1>6. ASSUME NEW h \in Hosts, Prepare(h)
        PROVE  Others' /\ HostTyped'
    <2>1. HostTyped'
      BY <1>0, <1>6, HostHolds, GoToTyped DEF Prepare, GuardedSteps, Steps
    <2>2. QED
      BY <1>0, <1>6, <2>1 DEF Prepare
  <1>7. ASSUME NEW h \in Hosts, Restore(h)
        PROVE  Others' /\ HostTyped'
    <2>1. HostTyped' /\ host[h].sandbox \in Sandboxes
      BY <1>0, <1>7, HostHolds, GoToTyped DEF Restore, GuardedSteps, Steps
    <2>2. QED
      BY <1>0, <1>7, <2>1 DEF Restore
  <1>8. ASSUME NEW h \in Hosts, BindRead(h)
        PROVE  Others' /\ HostTyped'
    <2>1. HostTyped' /\ host[h].sandbox \in Sandboxes
      BY <1>0, <1>8, HostHolds, GoToTyped, FinishTyped, ThrowAwayTyped
         DEF BindRead, CacheAndFinish, GuardedSteps, Steps
    <2>2. QED
      BY <1>0, <1>8, <2>1 DEF BindRead, CacheAndFinish, MaybeSandbox
  <1>9. ASSUME NEW h \in Hosts, BindWrite(h)
        PROVE  Others' /\ HostTyped'
    <2>1. HostTyped' /\ host[h].sandbox \in Sandboxes
      BY <1>0, <1>9, HostHolds, GoToTyped, FinishTyped, ThrowAwayTyped
         DEF BindWrite, CacheAndFinish, GuardedSteps, Steps
    <2>2. QED
      BY <1>0, <1>9, <2>1
         DEF BindWrite, CacheAndFinish, MaybeSandbox, WithSandbox, Rows
  <1>10. ASSUME NEW h \in Hosts, BindReread(h)
         PROVE  Others' /\ HostTyped'
    <2>1. HostTyped' /\ host[h].sandbox \in Sandboxes
      BY <1>0, <1>10, HostHolds, FinishTyped, ThrowAwayTyped
         DEF BindReread, CacheAndFinish, GuardedSteps
    <2>2. QED
      BY <1>0, <1>10, <2>1 DEF BindReread, CacheAndFinish, MaybeSandbox
  <1>11. ASSUME NEW h \in Hosts, Replace(h)
         PROVE  Others' /\ HostTyped'
    <2>1. HostTyped' /\ host[h].sandbox \in Sandboxes
      BY <1>0, <1>11, HostHolds, GoToTyped, FinishTyped, ThrowAwayTyped
         DEF Replace, CacheAndFinish, GuardedSteps, Steps
    <2>2. QED
      BY <1>0, <1>11, <2>1
         DEF Replace, CacheAndFinish, MaybeSandbox, WithSandbox, Rows
  <1>12. ASSUME NEW h \in Hosts, ReplaceReread(h)
         PROVE  Others' /\ HostTyped'
    <2> DEFINE r == [host[h] EXCEPT !.step = "discarding", !.winner = row.sandbox]
    <2>1. host[h] \in HostStates /\ LocalsTyped(host[h])
          /\ host[h].sandbox \in Sandboxes
      BY <1>0, <1>12 DEF ReplaceReread, HostTyped, LocalsTyped, HoldingSteps,
                         GuardedSteps
    <2>2. r \in HostStates /\ LocalsTyped(r)
      BY <1>0, <2>1 DEF HostStates, Steps, GuardedSteps, HoldingSteps,
                        LocalsTyped, Rows
    <2>3. ASSUME host' = [host EXCEPT ![h].step = "discarding",
                                      ![h].winner = row.sandbox]
          PROVE  HostTyped'
      <3>1. host' = [host EXCEPT ![h] = r]
        BY <1>0, <2>3 DEF HostTyped
      <3>2. QED
        BY <1>0, <2>2, <3>1, HostUpdateTyped
    <2>4. HostTyped'
      BY <1>0, <1>12, <2>3, FinishTyped, ThrowAwayTyped
         DEF ReplaceReread, CacheAndFinish
    <2>5. QED
      BY <1>0, <1>12, <2>1, <2>4 DEF ReplaceReread, CacheAndFinish, MaybeSandbox
  <1>13. ASSUME NEW h \in Hosts, Discard(h)
         PROVE  Others' /\ HostTyped'
    <2>1. HostTyped' /\ host[h].sandbox \in Sandboxes
      BY <1>0, <1>13, HostHolds, GoToTyped, FinishTyped
         DEF Discard, Steps, HoldingSteps, MaybeSandbox
    <2>2. QED
      BY <1>0, <1>13, <2>1 DEF Discard, DeleteOwn, Life
  <1>14. ASSUME NEW h \in Hosts, Adopt(h)
         PROVE  Others' /\ HostTyped'
    <2>1. HostTyped' /\ host[h].winner \in Sandboxes
      BY <1>0, <1>14, HostHolds, FinishTyped DEF Adopt, CacheAndFinish
    <2>2. QED
      BY <1>0, <1>14, <2>1 DEF Adopt, CacheAndFinish, MaybeSandbox
  <1>15. ASSUME NEW h \in Hosts, Raise(h)
         PROVE  Others' /\ HostTyped'
    BY <1>0, <1>15, ThrowAwayTyped DEF Raise
  <1>16. ASSUME NEW h \in Hosts, CleanUp(h)
         PROVE  Others' /\ HostTyped'
    <2>1. HostTyped' /\ host[h].sandbox \in Sandboxes
      BY <1>0, <1>16, HostHolds, FinishTyped DEF CleanUp, HoldingSteps
    <2>2. QED
      BY <1>0, <1>16, <2>1 DEF CleanUp, DeleteOwn, Life
  <1>17. ASSUME NEW h \in Hosts, Restart(h)
         PROVE  Others' /\ HostTyped'
    <2>1. HostTyped'
      BY <1>0, <1>17, FinishTyped DEF Restart
    <2>2. QED
      BY <1>0, <1>17, <2>1 DEF Restart, MaybeSandbox
  <1>18. ASSUME NEW s \in Sandboxes, Lose(s)
         PROVE  Others' /\ HostTyped'
    BY <1>0, <1>18 DEF Lose, Life, HostTyped
  <1>19. CASE UNCHANGED vars
    BY <1>0, <1>19 DEF vars, HostTyped
  <1>20. QED
    BY <1>1, <1>2, <1>3, <1>4, <1>5, <1>6, <1>7, <1>8, <1>9, <1>10, <1>11,
       <1>12, <1>13, <1>14, <1>15, <1>16, <1>17, <1>18, <1>19
       DEF Next, Resolve, StartCached

(* Spec keeps its types.                                                   *)
THEOREM TypeCorrect == Spec => []TypeOK
  <1>1. Init => TypeOK
    BY InitBindingInv DEF BindingInv
  <1>2. QED
    BY <1>1, TypePreserved, PTL DEF Spec

----------------------------------------------------------------------------
(* The binding is written once, and moves only from a sandbox that is gone *)
(* to one that has been restored.                                          *)
LEMMA BindingMoves ==
  ASSUME TypeOK, LocalsOK, [Next]_vars
  PROVE  \/ row' = row
         \/ \E s \in Sandboxes :
               /\ row' = [row EXCEPT !.sandbox = s]
               /\ \/ row.sandbox = NoSandbox
                  \/ row.sandbox \in Sandboxes /\ Gone(row.sandbox) /\ s \in restored
  <1>1. ASSUME NEW h \in Hosts, BindWrite(h), row' # row
        PROVE  /\ host[h].sandbox \in Sandboxes
               /\ row' = [row EXCEPT !.sandbox = host[h].sandbox]
               /\ row.sandbox = NoSandbox
    BY <1>1, HostHolds
       DEF TypeOK, BindWrite, BindMatches, Unbound, WithSandbox, GuardedSteps
  <1>2. ASSUME NEW h \in Hosts, Replace(h), row' # row
        PROVE  /\ host[h].sandbox \in Sandboxes
               /\ row' = [row EXCEPT !.sandbox = host[h].sandbox]
               /\ row.sandbox \in Sandboxes /\ Gone(row.sandbox)
               /\ host[h].sandbox \in restored
    <2>1. host[h].sandbox \in Sandboxes
          /\ (host[h].missing => host[h].expected \in Sandboxes)
      BY <1>2 DEF TypeOK, HostTyped, LocalsTyped, Replace, HoldingSteps, GuardedSteps
    <2>2. host[h].missing /\ host[h].sandbox \in restored /\ Gone(host[h].expected)
      BY <1>2 DEF LocalsOK, Right, Replace
    <2>3. QED
      BY <1>2, <2>1, <2>2 DEF Replace, ReplaceMatches, WithSandbox
  <1>3. CASE row' = row
    BY <1>3
  <1>4. CASE \E h \in Hosts : BindWrite(h)
    BY <1>1, <1>3, <1>4
  <1>5. CASE \E h \in Hosts : Replace(h)
    BY <1>2, <1>3, <1>5
  <1>6. QED
    BY <1>3, <1>4, <1>5
       DEF Next, Resolve, vars, CreateRun, StartUncached, StartCached,
           GetExpected, ListLabelled, Create, Prepare, Restore, BindRead,
           BindReread, ReplaceReread, Discard, Adopt, Raise, CleanUp,
           Restart, Lose

(* So a settled sandbox stays settled.                                     *)
LEMMA SettledStaysSettled ==
  ASSUME TypeOK, LocalsOK, [Next]_vars, NEW s \in Sandboxes, Settled(s)
  PROVE  Settled(s)'
  <1>1. CASE Gone(s)
    BY <1>1, GoneStaysGone DEF Settled
  <1>2. CASE s = row.sandbox /\ row' # row
    BY <1>2, BindingMoves, GoneStaysGone, NoSandboxAssumption DEF Settled
  <1>3. CASE s = row.sandbox /\ row' = row
    BY <1>3 DEF Settled
  <1>4. QED
    BY <1>1, <1>2, <1>3 DEF Settled

(* A host caches a sandbox only when it is settled.                        *)
LEMMA CachesSettled ==
  ASSUME BindingInv, [Next]_vars, Visible(row), NEW h \in Hosts,
         cache'[h] # cache[h], cache'[h] # NoSandbox
  PROVE  \E s \in Sandboxes : cache'[h] = s /\ Settled(s)'
  <1> USE DEF BindingInv, TypeOK, HostTyped, CacheAndFinish, Settled
  <1>1. ASSUME BindRead(h) \/ BindWrite(h) \/ BindReread(h) \/ Replace(h)
        PROVE  cache'[h] = host[h].sandbox /\ row'.sandbox = host[h].sandbox
    BY <1>1 DEF BindRead, BindWrite, BindReread, Replace, WithSandbox, Rows
  <1>2. ASSUME ReplaceReread(h)
        PROVE  cache'[h] = host[h].sandbox /\ row'.sandbox = host[h].sandbox
    BY <1>2 DEF ReplaceReread
  <1>3. ASSUME Adopt(h)
        PROVE  \E s \in Sandboxes : cache'[h] = s /\ Settled(s)'
    <2>1. host[h].winner \in Sandboxes /\ Settled(host[h].winner)
      BY <1>3 DEF Adopt, LocalsTyped, LocalsOK, Right
    <2>2. cache'[h] = host[h].winner
      BY <1>3 DEF Adopt
    <2>3. QED
      BY <2>1, <2>2, SettledStaysSettled
  <1>4. \/ BindRead(h) \/ BindWrite(h) \/ BindReread(h) \/ Replace(h)
        \/ ReplaceReread(h) \/ Adopt(h)
    BY OnlyOneHostMoves
       DEF Next, Resolve, vars, CreateRun, StartUncached, StartCached,
           GetExpected, ListLabelled, Create, Prepare, Restore, Discard,
           Raise, CleanUp, Restart, Lose
  <1>5. ~Adopt(h) => host[h].sandbox \in Sandboxes
    BY <1>4 DEF LocalsTyped, HoldingSteps, GuardedSteps, BindRead, BindWrite,
                BindReread, Replace, ReplaceReread
  <1>6. QED
    BY <1>1, <1>2, <1>3, <1>4, <1>5

----------------------------------------------------------------------------------------------------------------------------------------------
(* How a step may change the locals r of a host to q.                      *)
Keeps(r, q) ==
    q.expected = r.expected /\ q.missing = r.missing /\ q.sandbox = r.sandbox

LocalMove(r, q) ==
    \/ q = r
    \/ q.step = "idle" /\ ~q.missing /\ q.expected = NoSandbox /\ q.sandbox = NoSandbox
    \/ /\ q.step \in {"listing", "getting"} /\ ~q.missing
       /\ q.expected \in contexts /\ q.sandbox = NoSandbox
    \/ /\ r.step = "getting" /\ ~Alive(r.expected) /\ q.step = "listing"
       /\ q.expected = r.expected /\ q.sandbox = r.sandbox
    \/ /\ q.step = "preparing" /\ life'[q.sandbox] = "alive"
       /\ q.expected = r.expected /\ q.missing = r.missing
    \/ /\ Keeps(r, q)
       /\ \/ q.step \in {"creating", "bindReading", "bindWriting",
                         "bindRereading", "cleaning"}
          \/ q.step = "restoring" /\ r.missing
          \/ q.step = "replacing" /\ r.step = "restoring" /\ r.sandbox \in restored'
          \/ q.step = "replaceRereading" /\ r.step = "replacing"
          \/ /\ q.step = "discarding" /\ row' = row /\ q.winner = row.sandbox
          \/ /\ q.step = "adopting" /\ r.step = "discarding" /\ q.winner = r.winner

LEMMA HostMoves ==
  ASSUME TypeOK, [Next]_vars, NEW h \in Hosts
  PROVE  LocalMove(host[h], host'[h])
  <1> USE DEF LocalMove, Keeps, HostStates, TypeOK, HostTyped, GoTo, Finish, Hold, ThrowAway,
              CacheAndFinish
  <1>1. CASE host'[h] = host[h]
    BY <1>1
  <1>2. ASSUME NEW e \in MaybeSandbox, StartUncached(h, e)
        PROVE  LocalMove(host[h], host'[h])
    BY <1>2 DEF StartUncached, IdleHost
  <1>3. CASE GetExpected(h)
    BY <1>3 DEF GetExpected, Alive, LocalsTyped
  <1>4. CASE ListLabelled(h)
    <2>1. ASSUME NEW s \in Sandboxes, Alive(s), Hold(h, s, FALSE)
          PROVE  LocalMove(host[h], host'[h])
      <3>1. life' = life
        BY <1>4 DEF ListLabelled
      <3>2. QED
        BY <2>1, <3>1 DEF Alive
    <2>2. CASE GoTo(h, "creating")
      BY <2>2
    <2>3. QED
      BY <1>4, <2>1, <2>2 DEF ListLabelled
  <1>5. CASE Create(h)
    BY <1>5 DEF Create, IdleHost
  <1>6. CASE Prepare(h)
    BY <1>6 DEF Prepare
  <1>7. CASE Restore(h)
    BY <1>7 DEF Restore
  <1>8. CASE BindRead(h) \/ BindWrite(h) \/ BindReread(h)
    BY <1>8 DEF BindRead, BindWrite, BindReread, IdleHost
  <1>9. CASE Replace(h)
    BY <1>9 DEF Replace, IdleHost
  <1>10. CASE ReplaceReread(h)
    BY <1>10 DEF ReplaceReread, IdleHost
  <1>11. CASE Discard(h)
    BY <1>11 DEF Discard, IdleHost
  <1>12. CASE Adopt(h) \/ Raise(h) \/ CleanUp(h) \/ Restart(h)
    BY <1>12 DEF Adopt, Raise, CleanUp, Restart, IdleHost
  <1>13. ASSUME NEW k \in Hosts, k # h, Resolve(k) \/ Restart(k)
         PROVE  host'[h] = host[h]
    BY <1>13, OnlyOneHostMoves
  <1>14. QED
    BY <1>1, <1>2, <1>3, <1>4, <1>5, <1>6, <1>7, <1>8, <1>9, <1>10, <1>11,
       <1>12, <1>13
       DEF Next, Resolve, vars, CreateRun, StartCached, Lose

----------------------------------------------------------------------------
LEMMA KnownPreserved ==
  ASSUME BindingInv, [Next]_vars
  PROVE  KnownOK'
  <1>0. TypeOK /\ KnownOK /\ LocalsOK
    BY DEF BindingInv
  <1>1. \A s : Known(s) => Known(s)'
    <2> SUFFICES ASSUME NEW s \in Sandboxes, life[s] # "unused"
                 PROVE  life'[s] # "unused"
      BY DEF Known
    <2>1. CASE Gone(s)
      BY <1>0, <2>1, GoneStaysGone DEF Gone
    <2>2. CASE Alive(s)
      BY <1>0, <2>2
         DEF Next, Resolve, vars, CreateRun, StartUncached, StartCached,
             GetExpected, ListLabelled, Create, Prepare, Restore, BindRead,
             BindWrite, BindReread, Replace, ReplaceReread, Discard,
             DeleteOwn, Adopt, Raise, CleanUp, Restart, Lose, Alive, TypeOK
    <2>3. QED
      BY <1>0, <2>1, <2>2 DEF TypeOK, Life, Gone, Alive
  <1>2. Known(row.sandbox)'
    <2>1. CASE row' = row
      BY <1>0, <1>1, <2>1 DEF KnownOK
    <2>2. ASSUME NEW h \in Hosts, BindWrite(h) \/ Replace(h)
          PROVE  Known(row.sandbox)'
      BY <1>0, <1>1, <2>2
         DEF KnownOK, BindWrite, Replace, WithSandbox, TypeOK, Rows
    <2>3. QED
      BY <2>1, <2>2
         DEF Next, Resolve, vars, CreateRun, StartUncached, StartCached,
             GetExpected, ListLabelled, Create, Prepare, Restore, BindRead,
             BindReread, ReplaceReread, Discard, Adopt, Raise, CleanUp,
             Restart, Lose
  <1>3. \A e \in contexts' : Known(e)'
    <2>1. contexts' = contexts \/ contexts' = contexts \cup {row.sandbox}
      BY DEF Next, Resolve, vars, CreateRun, StartUncached, StartCached,
             GetExpected, ListLabelled, Create, Prepare, Restore, BindRead,
             BindWrite, BindReread, Replace, ReplaceReread, Discard, Adopt,
             Raise, CleanUp, Restart, Lose
    <2>2. QED
      BY <1>0, <1>1, <2>1 DEF KnownOK
  <1>4. ASSUME NEW h \in Hosts
        PROVE  Known(host[h].expected)' /\ Known(host[h].sandbox)'
    <2>1. PICK r : r = host[h]
      OBVIOUS
    <2>2. PICK q : q = host'[h]
      OBVIOUS
    <2>3. /\ r \in HostStates /\ LocalMove(r, q)
          /\ Known(r.expected) /\ Known(r.sandbox)
      BY <1>0, <2>1, <2>2, HostMoves DEF TypeOK, HostTyped, KnownOK
    <2>4. q.expected \in {r.expected, NoSandbox} \cup contexts
      BY <2>3 DEF LocalMove, Keeps
    <2>5. q.sandbox \in {r.sandbox, NoSandbox} \/ life'[q.sandbox] = "alive"
      BY <2>3 DEF LocalMove, Keeps
    <2>6. Known(NoSandbox)' /\ Known(r.expected)' /\ Known(r.sandbox)'
          /\ \A e \in contexts : Known(e)'
      BY <1>0, <1>1, <2>3, NoSandboxAssumption DEF KnownOK, Known
    <2>7. Known(q.expected)' /\ Known(q.sandbox)'
      BY <2>4, <2>5, <2>6 DEF Known
    <2>8. QED
      BY <2>2, <2>7 DEF Known
  <1>5. QED
    BY <1>2, <1>3, <1>4 DEF KnownOK

(* The locals of every host stay right.                                    *)
LEMMA LocalsPreserved ==
  ASSUME BindingInv, [Next]_vars
  PROVE  LocalsOK'
  <1>0. TypeOK /\ KnownOK /\ LocalsOK
    BY DEF BindingInv
  <1> SUFFICES ASSUME NEW h \in Hosts
               PROVE  Right(host[h])'
    BY DEF LocalsOK
  <1>1. PICK r : r = host[h]
    OBVIOUS
  <1>2. PICK q : q = host'[h]
    OBVIOUS
  <1>3. /\ r \in HostStates /\ LocalsTyped(r) /\ LocalMove(r, q)
        /\ Right(r) /\ Known(r.expected)
    BY <1>0, <1>1, <1>2, HostMoves DEF TypeOK, HostTyped, LocalsOK, KnownOK
  <1>4. /\ \A s \in Sandboxes : Gone(s) => Gone(s)'
        /\ \A s \in Sandboxes : Settled(s) => Settled(s)'
    BY <1>0, GoneStaysGone, SettledStaysSettled
  <1>5. restored \subseteq restored'
    BY DEF Next, Resolve, vars, CreateRun, StartUncached, StartCached,
           GetExpected, ListLabelled, Create, Prepare, Restore, BindRead,
           BindWrite, BindReread, Replace, ReplaceReread, Discard, Adopt,
           Raise, CleanUp, Restart, Lose
  <1>6. Visible(row)' => Visible(row)
    BY <1>0, BindingMoves DEF Visible, TypeOK, Rows
  <1>7. q.missing => Gone(q.expected)'
    <2>1. q.missing => \/ r.missing /\ q.expected = r.expected
                       \/ /\ r.step = "getting" /\ ~Alive(r.expected)
                          /\ q.expected = r.expected
      BY <1>3 DEF LocalMove, Keeps
    <2>2. q.missing => r.expected \in Sandboxes /\ Gone(r.expected)
      BY <1>0, <1>3, <2>1
         DEF Right, LocalsTyped, Known, Alive, Gone, TypeOK, Life
    <2>3. QED
      BY <1>4, <2>1, <2>2
  <1>8. q.step \in {"restoring", "replacing", "replaceRereading"} => q.missing
    BY <1>3 DEF LocalMove, Keeps, Right
  <1>9. q.step \in {"replacing", "replaceRereading"} => q.sandbox \in restored'
    BY <1>3, <1>5 DEF LocalMove, Keeps, Right
  <1>10. ASSUME q.step \in {"discarding", "adopting"}, q.winner \in Sandboxes,
                Visible(row)'
         PROVE  Settled(q.winner)'
    <2>1. \/ /\ r.step \in {"discarding", "adopting"}
             /\ q.winner = r.winner
          \/ row' = row /\ q.winner = row.sandbox
      BY <1>3, <1>10 DEF LocalMove, Keeps
    <2>2. Settled(q.winner)
      BY <1>3, <1>6, <1>10, <2>1 DEF Right, Settled
    <2>3. QED
      BY <1>4, <1>10, <2>2
  <1>11. Right(q)'
    BY <1>7, <1>8, <1>9, <1>10 DEF Right
  <1>12. QED
    BY <1>2, <1>11 DEF Right, Settled, Gone

----------------------------------------------------------------------------
(* The invariant is inductive.                                             *)
LEMMA BindingPreserved == BindingInv /\ [Next]_vars => BindingInv'
  <1> SUFFICES ASSUME BindingInv, [Next]_vars
               PROVE  BindingInv'
    OBVIOUS
  <1>1. TypeOK' /\ KnownOK' /\ LocalsOK'
    BY TypePreserved, KnownPreserved, LocalsPreserved DEF BindingInv
  <1>2. ASSUME Visible(row)', NEW h \in Hosts, cache'[h] # NoSandbox
        PROVE  cache'[h] = row'.sandbox \/ Gone(cache[h])'
    <2>1. Visible(row)
      BY <1>2, BindingMoves DEF BindingInv, Visible, TypeOK, Rows
    <2>2. CASE cache'[h] # cache[h]
      <3>1. PICK s \in Sandboxes : cache'[h] = s /\ Settled(s)'
        BY <1>2, <2>1, <2>2, CachesSettled
      <3>2. QED
        BY <3>1 DEF Settled, Gone
    <2>3. CASE cache'[h] = cache[h]
      <3>1. PICK s \in Sandboxes : s = cache[h]
        BY <1>2, <2>3 DEF BindingInv, TypeOK, MaybeSandbox
      <3>2. Settled(s)
        BY <1>2, <2>1, <2>3, <3>1 DEF BindingInv, CacheFollowsBinding, Settled
      <3>3. Settled(s)'
        BY <3>2, SettledStaysSettled DEF BindingInv
      <3>4. QED
        BY <2>3, <3>1, <3>3 DEF Settled, Gone
    <2>4. QED
      BY <2>2, <2>3
  <1>3. Visible(row)' => CacheFollowsBinding'
    BY <1>2 DEF CacheFollowsBinding
  <1>4. QED
    BY <1>1, <1>3 DEF BindingInv

----------------------------------------------------------------------------
(* The theorems.                                                           *)

LEMMA SpecBindingInv == Spec => []BindingInv
  BY InitBindingInv, BindingPreserved, PTL DEF Spec

(* No host of this module deletes the Project, so its row is always        *)
(* visible to get_project.                                                 *)
LEMMA AlwaysVisible == Spec => []Visible(row)
  <1>1. Init => Visible(row)
    BY DEF Init, NewProject, Visible
  <1>2. BindingInv /\ Visible(row) /\ [Next]_vars => Visible(row)'
    BY BindingMoves DEF BindingInv, TypeOK, Rows, Visible
  <1>3. QED
    BY <1>1, <1>2, SpecBindingInv, PTL DEF Spec

(* A host's cache never sends work to a live sandbox the Project is not    *)
(* bound to, for any number of hosts and sandboxes                         *)
(* (get_daytona_backend_for_project caches after binding).                 *)
THEOREM CacheFollows == Spec => []CacheFollowsBinding
  <1>1. BindingInv /\ Visible(row) => CacheFollowsBinding
    BY DEF BindingInv
  <1>2. QED
    BY <1>1, SpecBindingInv, AlwaysVisible, PTL

(* All hosts with a live cached sandbox share it: one workspace for the    *)
(* Project's Threads.                                                      *)
LEMMA FollowingMakesOne == CacheFollowsBinding => OneWorkspace
  BY NoSandboxAssumption DEF CacheFollowsBinding, OneWorkspace, Gone, Alive

THEOREM OneWorkspaceHolds == Spec => []OneWorkspace
  BY FollowingMakesOne, CacheFollows, PTL

(* The hosts implement Workspace: the binding is written once and moves    *)
(* only from a missing sandbox to a restored one, whatever the hosts'      *)
(* steps interleave with.                                                  *)
THEOREM HostsImplementWorkspace == Spec => ImplementsWorkspace
  <1>1. Init => Promise!Init
    BY DEF Init, Promise!Init, NewProject, Gone
  <1>2. BindingInv /\ [Next]_vars => [Promise!Next]_(Promise!vars)
    <2> SUFFICES ASSUME BindingInv, [Next]_vars
                 PROVE  [Promise!Next]_(Promise!vars)
      OBVIOUS
    <2> DEFINE G == {s \in Sandboxes : Gone(s)}
    <2>0. TypeOK /\ LocalsOK
      BY DEF BindingInv
    <2>1. ASSUME NEW s \in Sandboxes, row' = row, restored' = restored,
                 life' = [life EXCEPT ![s] = "lost"]
                    \/ life' = [life EXCEPT ![s] = "deleted"]
          PROVE  Promise!Next
      <3>1. G' = G \cup {s}
        BY <2>0, <2>1 DEF Gone, TypeOK
      <3>2. Promise!Disappear(s)
        BY <2>1, <3>1 DEF Promise!Disappear
      <3>3. QED
        BY <3>2 DEF Promise!Next
    <2>2. ASSUME NEW s \in Sandboxes, life[s] = "unused", row' = row,
                 restored' = restored, life' = [life EXCEPT ![s] = "alive"]
          PROVE  UNCHANGED Promise!vars
      <3>1. G' = G
        BY <2>0, <2>2 DEF Gone, TypeOK
      <3>2. QED
        BY <2>2, <3>1 DEF Promise!vars
    <2>3. ASSUME NEW s \in Sandboxes, row' = row, life' = life,
                 restored' = restored \cup {s}
          PROVE  Promise!Next
      <3>1. Promise!Hydrate(s)
        BY <2>3 DEF Promise!Hydrate, Gone
      <3>2. QED
        BY <3>1 DEF Promise!Next
    <2>4. ASSUME life' = life, restored' = restored
          PROVE  [Promise!Next]_(Promise!vars)
      <3>1. G' = G
        BY <2>4 DEF Gone
      <3>2. CASE row' = row
        BY <2>4, <3>1, <3>2 DEF Promise!vars
      <3>3. ASSUME NEW s \in Sandboxes, row' = [row EXCEPT !.sandbox = s],
                   row.sandbox = NoSandbox
            PROVE  Promise!Next
        <4>1. Promise!FirstBinding(s)
          BY <2>0, <2>4, <3>1, <3>3 DEF Promise!FirstBinding, TypeOK, Rows
        <4>2. QED
          BY <4>1 DEF Promise!Next
      <3>4. ASSUME NEW s \in Sandboxes, row' = [row EXCEPT !.sandbox = s],
                   row.sandbox \in Sandboxes, Gone(row.sandbox), s \in restored
            PROVE  Promise!Next
        <4>1. Promise!Recovery(s)
          BY <2>0, <2>4, <3>1, <3>4 DEF Promise!Recovery, TypeOK, Rows
        <4>2. QED
          BY <4>1 DEF Promise!Next
      <3>5. QED
        BY <2>0, <3>2, <3>3, <3>4, BindingMoves
    <2>5. ASSUME NEW h \in Hosts, Create(h)
          PROVE  UNCHANGED Promise!vars
      BY <2>2, <2>5 DEF Create
    <2>6. ASSUME NEW h \in Hosts, Restore(h)
          PROVE  Promise!Next
      BY <2>0, <2>3, <2>6, HostHolds DEF Restore, GuardedSteps, TypeOK
    <2>7. ASSUME NEW h \in Hosts, Discard(h) \/ CleanUp(h)
          PROVE  [Promise!Next]_(Promise!vars)
      BY <2>0, <2>1, <2>4, <2>7, HostHolds
         DEF Discard, CleanUp, DeleteOwn, TypeOK
    <2>8. ASSUME NEW s \in Sandboxes, Lose(s)
          PROVE  Promise!Next
      BY <2>1, <2>8 DEF Lose
    <2>9. QED
      BY <2>4, <2>5, <2>6, <2>7, <2>8
         DEF Next, Resolve, vars, CreateRun, StartUncached, StartCached,
             GetExpected, ListLabelled, Prepare, BindRead, BindWrite,
             BindReread, Replace, ReplaceReread, Adopt, Raise, Restart
  <1>3. QED
    BY <1>1, <1>2, SpecBindingInv, PTL DEF Spec, ImplementsWorkspace, Promise!Spec

----------------------------------------------------------------------------
(* The hosts beside deletion requests.                                     *)

DeletionInv ==
    /\ BindingInv
    /\ deletion \in [Requests -> Deletions]

LEMMA InitDeletionInv == DeletionInit => DeletionInv /\ FinishesOnlyWithoutItsSandbox
  <1> SUFFICES ASSUME DeletionInit
               PROVE  DeletionInv /\ FinishesOnlyWithoutItsSandbox
    OBVIOUS
  <1>1. BindingInv
    BY InitBindingInv DEF DeletionInit
  <1>2. NoDeletion \in Deletions /\ NoDeletion.step = "idle"
    BY DEF NoDeletion, Deletions, DeletionSteps, NewProject, Rows, Status, MaybeSandbox
  <1>3. QED
    BY <1>1, <1>2 DEF DeletionInit, DeletionInv, FinishesOnlyWithoutItsSandbox

----------------------------------------------------------------------------
(* What a request may change of the Project, and how.                      *)
LEMMA DeletionTouches ==
  ASSUME TypeOK, deletion \in [Requests -> Deletions],
         NEW d \in Requests, Delete(d) \/ Abort(d)
  PROVE  /\ UNCHANGED <<host, cache, restored>>
         /\ contexts' \subseteq contexts
         /\ (row' = row \/ row' = Tombstone(row) \/ (Visible(row) /\ row' = MarkDeleting(row)))
         /\ \/ life' = life
            \/ \E s \in Sandboxes : Alive(s) /\ life' = [life EXCEPT ![s] = "deleted"]
  <1>1. deletion[d].project.sandbox \in MaybeSandbox
    BY DEF Deletions, Rows
  <1>2. CASE RemoveSandbox(d)
    BY <1>1, <1>2 DEF RemoveSandbox, MaybeSandbox
  <1>3. CASE Accept(d) \/ Abort(d)
    BY <1>3 DEF Accept, Abort, vars
  <1>4. CASE Mark(d) \/ StopRuns(d) \/ FinishDeletion(d)
    BY <1>4 DEF Mark, StopRuns, FinishDeletion
  <1>5. QED
    BY <1>2, <1>3, <1>4 DEF Delete

(* A request never brings a sandbox back.                                  *)
LEMMA GoneStaysGoneInDeletion ==
  ASSUME DeletionInv, [DeletionNext]_allVars, NEW s \in Sandboxes, Gone(s)
  PROVE  Gone(s)'
  <1>1. TypeOK
    BY DEF DeletionInv, BindingInv
  <1>2. CASE [Next]_vars
    BY <1>1, <1>2, GoneStaysGone
  <1>3. ASSUME NEW d \in Requests, Delete(d) \/ Abort(d)
        PROVE  Gone(s)'
    BY <1>1, <1>3, DeletionTouches DEF DeletionInv, Gone, Alive, TypeOK
  <1>4. QED
    BY <1>2, <1>3 DEF DeletionNext, allVars, vars

(* BindingInv is kept by a request.                                        *)
LEMMA RequestKeepsBinding ==
  ASSUME DeletionInv, NEW d \in Requests, Delete(d) \/ Abort(d)
  PROVE  BindingInv'
  <1>1. TypeOK /\ KnownOK /\ LocalsOK
    BY DEF DeletionInv, BindingInv
  <1>2. /\ UNCHANGED <<host, cache, restored>>
        /\ contexts' \subseteq contexts
        /\ (row' = row \/ row' = Tombstone(row) \/ (Visible(row) /\ row' = MarkDeleting(row)))
        /\ \/ life' = life
           \/ \E s \in Sandboxes : Alive(s) /\ life' = [life EXCEPT ![s] = "deleted"]
    BY <1>1, DeletionTouches DEF DeletionInv
  <1>3. row' \in Rows
    BY <1>1, <1>2 DEF TypeOK, Rows, Status, MaybeSandbox, MarkDeleting, Tombstone
  <1>4. life' \in [Sandboxes -> Life]
    BY <1>1, <1>2 DEF TypeOK, Life
  <1>5. TypeOK'
    BY <1>1, <1>2, <1>3, <1>4 DEF TypeOK, HostTyped
  <1>6. \A s \in Sandboxes : /\ Gone(s) => Gone(s)'
                             /\ life[s] # "unused" => life'[s] # "unused"
    BY <1>1, <1>2 DEF TypeOK, Gone, Alive
  <1>7. /\ row'.sandbox \in {row.sandbox, NoSandbox}
        /\ Visible(row)' => Visible(row) /\ row'.sandbox = row.sandbox
    BY <1>1, <1>2 DEF TypeOK, Rows, MarkDeleting, Tombstone, Visible
  <1>8. KnownOK'
    BY <1>1, <1>2, <1>6, <1>7, NoSandboxAssumption DEF KnownOK, Known
  <1>9. ASSUME NEW h \in Hosts
        PROVE  Right(host[h])'
    <2>1. Right(host[h]) /\ LocalsTyped(host[h]) /\ host[h] \in HostStates
      BY <1>1 DEF LocalsOK, TypeOK, HostTyped
    <2>2. host[h].missing => Gone(host[h].expected)'
      BY <1>2, <1>6, <2>1 DEF Right, LocalsTyped, Gone
    <2>3. host[h].winner \in Sandboxes /\ Settled(host[h].winner) /\ Visible(row)'
            => Settled(host[h].winner)'
      BY <1>2, <1>6, <1>7 DEF Settled, Gone
    <2>4. QED
      BY <1>2, <1>7, <2>1, <2>2, <2>3 DEF Right, Gone, Settled
  <1>10. Visible(row)' => CacheFollowsBinding'
    <2> SUFFICES ASSUME Visible(row)', NEW h \in Hosts, cache'[h] # NoSandbox
                 PROVE  cache'[h] = row'.sandbox \/ Gone(cache[h])'
      BY DEF CacheFollowsBinding
    <2>1. cache[h] \in Sandboxes /\ (cache[h] = row.sandbox \/ Gone(cache[h]))
      BY <1>1, <1>2, <1>7
         DEF DeletionInv, BindingInv, CacheFollowsBinding, TypeOK, MaybeSandbox
    <2>2. QED
      BY <1>2, <1>6, <1>7, <2>1
  <1>11. QED
    BY <1>5, <1>8, <1>9, <1>10 DEF BindingInv, LocalsOK

----------------------------------------------------------------------------
LEMMA DeletionPreserved == DeletionInv /\ [DeletionNext]_allVars => DeletionInv'
  <1> SUFFICES ASSUME DeletionInv, [DeletionNext]_allVars
               PROVE  DeletionInv'
    OBVIOUS
  <1>1. CASE [Next]_vars /\ UNCHANGED deletion
    BY <1>1, BindingPreserved DEF DeletionInv
  <1>2. ASSUME NEW d \in Requests, Delete(d) \/ Abort(d)
        PROVE  DeletionInv'
    <2>1. BindingInv'
      BY <1>2, RequestKeepsBinding
    <2>2. row \in Rows /\ NoDeletion \in Deletions
      BY DEF DeletionInv, BindingInv, TypeOK, NoDeletion, Deletions,
             DeletionSteps, NewProject, Rows, Status, MaybeSandbox
    <2>3. Accept(d) => deletion' \in [Requests -> Deletions]
      BY <2>2 DEF DeletionInv, Accept, Deletions, DeletionSteps
    <2>4. Mark(d) \/ StopRuns(d) \/ RemoveSandbox(d)
            => deletion' \in [Requests -> Deletions]
      BY <2>2 DEF DeletionInv, Mark, StopRuns, RemoveSandbox, DeletionGoTo,
                  DeletionEnd, Deletions, DeletionSteps
    <2>5. FinishDeletion(d) \/ Abort(d) => deletion' \in [Requests -> Deletions]
      BY <2>2 DEF DeletionInv, FinishDeletion, Abort, DeletionEnd
    <2>6. deletion' \in [Requests -> Deletions]
      BY <1>2, <2>3, <2>4, <2>5 DEF Delete, DeletionInv
    <2>7. QED
      BY <2>1, <2>6 DEF DeletionInv
  <1>3. QED
    BY <1>1, <1>2 DEF DeletionNext, allVars, vars

LEMMA SpecDeletionInv == DeletionSpec => []DeletionInv
  BY InitDeletionInv, DeletionPreserved, PTL DEF DeletionSpec

(* Types of the composition, for any number of requests (delete_project    *)
(* keeps a row it read).                                                   *)
THEOREM DeletionTypeCorrect == DeletionSpec => []DeletionTypeOK
  <1>1. DeletionInv => DeletionTypeOK
    BY DEF DeletionInv, BindingInv, DeletionTypeOK
  <1>2. QED
    BY <1>1, SpecDeletionInv, PTL

(* Hosts share one live workspace up to the tombstone, however many        *)
(* deletion requests remove sandboxes under them.                          *)
THEOREM OneWorkspaceUnderDeletion == DeletionSpec => []OneWorkspaceUntilDeleted
  <1>1. DeletionInv => OneWorkspaceUntilDeleted
    BY FollowingMakesOne DEF DeletionInv, BindingInv, OneWorkspaceUntilDeleted
  <1>2. QED
    BY <1>1, SpecDeletionInv, PTL

(* No request comes to the tombstone past the sandbox it read, whatever    *)
(* other requests and hosts do (delete_daytona_sandbox before the store's  *)
(* delete_project).                                                        *)
THEOREM TombstoneAfterSandbox == DeletionSpec => []FinishesOnlyWithoutItsSandbox
  <1>1. ASSUME DeletionInv, FinishesOnlyWithoutItsSandbox, [DeletionNext]_allVars
        PROVE  FinishesOnlyWithoutItsSandbox'
    <2> SUFFICES ASSUME NEW e \in Requests, deletion'[e].step = "finishing"
                 PROVE  \/ deletion'[e].project.sandbox = NoSandbox
                        \/ Gone(deletion[e].project.sandbox)'
      BY DEF FinishesOnlyWithoutItsSandbox
    <2>1. deletion[e].project.sandbox \in MaybeSandbox /\ deletion[e] \in Deletions
      BY <1>1 DEF DeletionInv, Deletions, Rows
    <2>2. CASE deletion'[e] = deletion[e]
      BY <1>1, <2>1, <2>2, GoneStaysGoneInDeletion
         DEF FinishesOnlyWithoutItsSandbox, MaybeSandbox
    <2>3. CASE RemoveSandbox(e)
      <3>1. /\ deletion'[e].project = deletion[e].project
            /\ \/ deletion[e].project.sandbox = NoSandbox
               \/ life' = [life EXCEPT ![deletion[e].project.sandbox] = "deleted"]
        BY <1>1, <2>1, <2>3
           DEF RemoveSandbox, DeletionGoTo, DeletionEnd, NoDeletion, DeletionInv,
               Deletions
      <3>2. life \in [Sandboxes -> Life]
        BY <1>1 DEF DeletionInv, BindingInv, TypeOK
      <3>3. QED
        BY <2>1, <2>3, <3>1, <3>2 DEF Gone, MaybeSandbox
    <2>4. ASSUME deletion'[e] # deletion[e]
          PROVE  RemoveSandbox(e)
      <3>1. PICK d \in Requests : Delete(d) \/ Abort(d)
        BY <1>1, <2>4 DEF DeletionNext, allVars
      <3>2. deletion' = [deletion EXCEPT ![d] = deletion'[d]]
        BY <1>1, <3>1
           DEF DeletionInv, Delete, Accept, Mark, StopRuns, RemoveSandbox,
               FinishDeletion, Abort, DeletionGoTo, DeletionEnd
      <3>3. d = e
        BY <1>1, <2>4, <3>2 DEF DeletionInv
      <3>4. QED
        <4>1. deletion \in [Requests -> Deletions]
          BY <1>1 DEF DeletionInv
        <4>2. ~Accept(e)
          BY <4>1 DEF Accept
        <4>3. ~Mark(e) /\ ~StopRuns(e)
          BY <2>1, <4>1 DEF Mark, StopRuns, DeletionGoTo, DeletionEnd,
                            NoDeletion, Deletions
        <4>4. ~FinishDeletion(e) /\ ~Abort(e)
          BY <4>1 DEF FinishDeletion, Abort, DeletionEnd, NoDeletion
        <4>5. QED
          BY <3>1, <3>3, <4>2, <4>3, <4>4 DEF Delete
    <2>5. QED
      BY <2>2, <2>3, <2>4
  <1>2. QED
    BY <1>1, InitDeletionInv, SpecDeletionInv, PTL DEF DeletionSpec

(* Recovery stops where deletion begins: the binding of a Project under    *)
(* deletion is not moved, whatever hosts were doing when it was marked     *)
(* (the status in replace_sandbox's WHERE clause).                         *)
THEOREM DeletionStopsRecovery == DeletionSpec => NoRecoveryWhileDeleting
  <1>1. ASSUME DeletionInv, [DeletionNext]_allVars,
               row.status = "deleting", row.sandbox # NoSandbox
        PROVE  row'.sandbox = row.sandbox \/ row'.status = "deleted"
    <2>1. TypeOK
      BY <1>1 DEF DeletionInv, BindingInv
    <2>2. ASSUME NEW d \in Requests, Delete(d) \/ Abort(d)
          PROVE  row'.sandbox = row.sandbox \/ row'.status = "deleted"
      BY <1>1, <2>1, <2>2, DeletionTouches
         DEF DeletionInv, TypeOK, Rows, MarkDeleting, Tombstone
    <2>3. ASSUME NEW h \in Hosts, BindWrite(h) \/ Replace(h)
          PROVE  row' = row
      BY <1>1, <2>3 DEF BindWrite, BindMatches, Unbound, Replace, ReplaceMatches
    <2>4. CASE [Next]_vars
      BY <2>3, <2>4
         DEF Next, Resolve, vars, CreateRun, StartUncached, StartCached,
             GetExpected, ListLabelled, Create, Prepare, Restore, BindRead,
             BindReread, ReplaceReread, Discard, Adopt, Raise, CleanUp,
             Restart, Lose
    <2>5. QED
      BY <1>1, <2>2, <2>4 DEF DeletionNext, allVars, vars
  <1>2. QED
    BY <1>1, SpecDeletionInv, PTL DEF DeletionSpec, NoRecoveryWhileDeleting
=============================================================================
