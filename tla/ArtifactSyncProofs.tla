--------------------------- MODULE ArtifactSyncProofs --------------------------
(***************************************************************************)
(* What ArtifactSync guarantees for every number of tool calls, artifacts, *)
(* inputs, lost sandboxes and restarts: hydration leaves out no input of a *)
(* run, the sandbox and the published artifacts agree, and no answer hides *)
(* a file that was written and not published.                              *)
(***************************************************************************)
EXTENDS ArtifactSync, TLAPS

(* Past its first step a call has the sandbox of the process.              *)
CallsResolved ==
    \A c \in Calls : ~Ended(c) /\ call[c].pc # "resolve" => cached # 0

TypeInv ==
    /\ TypeOK
    /\ CallsResolved
    /\ ~sandbox.alive => sandbox.id <= MaxLosses

Sandboxes == [id : 1 .. MaxLosses + 1, alive : BOOLEAN, files : Files,
              inputs : SUBSET Inputs, spoiled : SUBSET Inputs]

-----------------------------------------------------------------------------
(* What each step of a call makes of the call: its record becomes new.     *)
Becomes(c, new) ==
    /\ new \in CallStates
    /\ call' \in [Calls -> CallStates]
    /\ call'[c] = new
    /\ \A d \in Calls \ {c} : call'[d] = call[d]

LEMMA Kinds ==
    ASSUME TypeInv
    PROVE  /\ sandbox \in Sandboxes /\ sandbox.files \in Files
           /\ call \in [Calls -> CallStates] /\ \A c \in Calls : call[c] \in CallStates
           /\ published \in Files /\ NoFiles \in Files
           /\ clock \in Versions /\ Versions \subseteq Nat /\ 0 \in Versions
           /\ \A f \in Files, p \in Artifacts : f[p] \in Versions
BY Bounds DEF TypeInv, TypeOK, Sandboxes, Files, NoFiles, Versions

LEMMA BecomesNew ==
    ASSUME TypeInv, NEW c \in Calls, NEW new \in CallStates, call' = [call EXCEPT ![c] = new]
    PROVE  Becomes(c, new)
BY Kinds DEF Becomes

(* A record that ends keeps what it wrote, if it returns.                  *)
EndsWith(new, pc, wrote, version) ==
    /\ new.pc = pc /\ new.wrote = wrote /\ new.version = version
    /\ new.todo = {} /\ new.mine = {} /\ new.held = 0 /\ new.seen = NoFiles

LEMMA EndBecomes ==
    ASSUME TypeInv, NEW c \in Calls, NEW pc \in Steps, NEW wrote \in SUBSET Artifacts,
           NEW version \in Versions, call' = [call EXCEPT ![c] = End(pc, wrote, version)]
    PROVE  \E new : Becomes(c, new) /\ EndsWith(new, pc, wrote, version)
<1>1. PICK new : new = End(pc, wrote, version)
  OBVIOUS
<1>2. new \in CallStates /\ EndsWith(new, pc, wrote, version)
  BY <1>1, Kinds DEF End, CallStates, EndsWith
<1> QED  BY <1>1, <1>2, BecomesNew

LEMMA ReturnBecomes ==
    ASSUME TypeInv, NEW c \in Calls, Return(c)
    PROVE  \E new : Becomes(c, new) /\ EndsWith(new, "returned", call[c].wrote, call[c].version)
<1>1. call[c].wrote \in SUBSET Artifacts /\ call[c].version \in Versions
  BY Kinds DEF CallStates
<1>2. call' = [call EXCEPT ![c] = End("returned", call[c].wrote, call[c].version)]
  BY Kinds DEF Return
<1> QED  BY <1>1, <1>2, EndBecomes DEF Steps

LEMMA RaisesBecomes ==
    ASSUME TypeInv, NEW c \in Calls, call' = [call EXCEPT ![c] = End("raised", {}, 0)]
    PROVE  \E new : Becomes(c, new) /\ EndsWith(new, "raised", {}, 0)
BY Kinds, EndBecomes DEF Steps

(* The steps before the writing, and the look at the manifest.             *)
EarlySteps == {"resolve", "fetch", "put", "mark", "raised", "work", "run"}

LEMMA EarlyBecomes ==
    ASSUME TypeInv, NEW c \in Calls,
           \/ Begin(c) \/ Resolve(c) \/ Fetch(c) \/ Put(c) \/ Mark(c) \/ Before(c)
    PROVE  \E new :
              /\ Becomes(c, new)
              /\ \/ Begin(c) /\ new = Started("resolve", new.inputs)
                 \/ /\ ~Ended(c) /\ new.inputs = call[c].inputs
                    /\ \E pc \in EarlySteps, seen \in {call[c].seen, sandbox.files, NoFiles} :
                          new = [call[c] EXCEPT !.pc = pc, !.seen = seen]
              /\ Resolve(c) => new.pc = IF call[c].inputs = {} \/ Marker(c) \in hydrated
                                        THEN "work" ELSE "fetch"
              /\ Fetch(c) => new.pc = "put"
              /\ Put(c) => new.pc \in {"mark", "raised"}
              /\ Mark(c) => new.pc = "work"
              /\ Before(c) => new.pc = "run"
<1>0. call[c] \in CallStates /\ sandbox.files \in Files
  BY Kinds
<1>1. CASE Begin(c)
  <2>1. PICK inputs \in RunInputs : call' = [call EXCEPT ![c] = Started("resolve", inputs)]
    BY <1>1 DEF Begin
  <2>2. PICK new : new = Started("resolve", inputs)
    OBVIOUS
  <2>3. new \in CallStates /\ new.inputs = inputs
    BY <2>2, Kinds, InputSets DEF Started, CallStates, Steps
  <2>4. Becomes(c, new)
    BY <2>1, <2>2, <2>3, BecomesNew
  <2>5. ~Resolve(c) /\ ~Fetch(c) /\ ~Put(c) /\ ~Mark(c) /\ ~Before(c)
    BY <1>1 DEF Begin, Resolve, Fetch, Put, Mark, Before, Works, Ended
  <2> QED  BY <1>1, <2>2, <2>3, <2>4, <2>5
<1>2. ASSUME NEW pc \in EarlySteps, NEW seen \in {call[c].seen, sandbox.files, NoFiles},
             call' = [call EXCEPT ![c].pc = pc, ![c].seen = seen]
      PROVE  LET new == [call[c] EXCEPT !.pc = pc, !.seen = seen]
             IN  Becomes(c, new) /\ new.inputs = call[c].inputs /\ new.pc = pc
  <2>1. PICK new : new = [call[c] EXCEPT !.pc = pc, !.seen = seen]
    OBVIOUS
  <2>2. new \in CallStates /\ new.inputs = call[c].inputs /\ new.pc = pc
    BY <1>0, <2>1, Kinds DEF CallStates, EarlySteps, Steps
  <2>3. call' = [call EXCEPT ![c] = new]
    BY <1>2, <2>1, Kinds
  <2> QED  BY <2>1, <2>2, <2>3, BecomesNew
<1>3. ASSUME NEW pc \in EarlySteps, call' = [call EXCEPT ![c].pc = pc]
      PROVE  call' = [call EXCEPT ![c].pc = pc, ![c].seen = call[c].seen]
  BY <1>0, <1>3, Kinds DEF CallStates
<1>4. CASE Resolve(c) \/ Fetch(c) \/ Put(c) \/ Mark(c)
  <2>1. PICK pc \in EarlySteps :
            /\ call' = [call EXCEPT ![c].pc = pc]
            /\ Resolve(c) => pc = IF call[c].inputs = {} \/ Marker(c) \in hydrated
                                  THEN "work" ELSE "fetch"
            /\ Fetch(c) => pc = "put"
            /\ Put(c) => pc \in {"mark", "raised"}
            /\ Mark(c) => pc = "work"
    <3>1. CASE Resolve(c)
      <4>1. ~Fetch(c) /\ ~Put(c) /\ ~Mark(c)
        BY <3>1 DEF Resolve, Fetch, Put, Mark
      <4> QED  BY <3>1, <4>1 DEF Resolve, EarlySteps
    <3>2. CASE Fetch(c) \/ Put(c) \/ Mark(c)
      BY <3>2 DEF Resolve, Fetch, Put, Mark, EarlySteps
    <3> QED  BY <1>4, <3>1, <3>2
  <2>2. ~Ended(c) /\ ~Before(c)
    BY <1>4 DEF Resolve, Fetch, Put, Mark, Before, Works, Ended
  <2>3. PICK new : new = [call[c] EXCEPT !.pc = pc, !.seen = call[c].seen]
    OBVIOUS
  <2>4. Becomes(c, new) /\ new.inputs = call[c].inputs /\ new.pc = pc
    BY <1>2, <1>3, <2>1, <2>3
  <2> QED  BY <2>1, <2>2, <2>3, <2>4
<1>5. CASE Before(c)
  <2>1. PICK seen \in {sandbox.files, NoFiles} :
            call' = [call EXCEPT ![c].pc = "run", ![c].seen = seen]
    BY <1>5 DEF Before, Manifests
  <2>2. ~Ended(c) /\ ~Resolve(c) /\ ~Fetch(c) /\ ~Put(c) /\ ~Mark(c)
    BY <1>5 DEF Resolve, Fetch, Put, Mark, Before, Works, Ended
  <2>3. PICK new : new = [call[c] EXCEPT !.pc = "run", !.seen = seen]
    OBVIOUS
  <2>4. "run" \in EarlySteps
    BY DEF EarlySteps
  <2>5. Becomes(c, new) /\ new.inputs = call[c].inputs /\ new.pc = "run"
    BY <1>2, <2>1, <2>3, <2>4
  <2> QED  BY <2>2, <2>3, <2>4, <2>5
<1> QED  BY <1>1, <1>4, <1>5

(* An input of a box is in it, or a tool call has spoiled it.              *)
Accounted(box) == box.inputs \cup box.spoiled

(* The steps that write: the operation of the sandbox has written and      *)
(* deleted artifacts, and may have spoiled inputs.                         *)
Wrote(written, deleted) ==
    /\ sandbox' \in Sandboxes
    /\ sandbox'.id = sandbox.id /\ sandbox'.alive = sandbox.alive
    /\ Accounted(sandbox') = Accounted(sandbox)
    /\ \A p \in Artifacts :
          sandbox'.files[p] = IF p \in written THEN clock'
                              ELSE IF p \in deleted THEN 0 ELSE sandbox.files[p]
    /\ clock' \in Versions
    /\ clock' = IF written = {} THEN clock ELSE clock + 1

LEMMA ChangeWrites ==
    ASSUME TypeInv, NEW c \in Calls, NEW written \in SUBSET Artifacts,
           NEW deleted \in SUBSET Artifacts, NEW inputs \in SUBSET Inputs,
           Change(c, written, deleted, inputs)
    PROVE  Wrote(written, deleted)
<1> DEFINE version == IF written = {} THEN clock ELSE clock + 1
           files == [p \in Artifacts |-> IF p \in written THEN version
                                         ELSE IF p \in deleted THEN 0 ELSE sandbox.files[p]]
<1>1. version \in Versions
  BY Kinds, Bounds DEF Change, Versions
<1>2. clock' = version
      /\ sandbox' = [sandbox EXCEPT !.files = files, !.inputs = @ \ inputs,
                                    !.spoiled = @ \cup (inputs \cap sandbox.inputs)]
  BY Kinds DEF Change
<1>3. files \in Files
  BY <1>1, Kinds DEF Files
<1> HIDE DEF files
<1>4. /\ sandbox' \in Sandboxes /\ sandbox'.id = sandbox.id /\ sandbox'.alive = sandbox.alive
      /\ Accounted(sandbox') = Accounted(sandbox) /\ sandbox'.files = files
  BY <1>2, <1>3, Kinds DEF Sandboxes, Accounted
<1>5. \A p \in Artifacts : files[p] = IF p \in written THEN version
                                      ELSE IF p \in deleted THEN 0 ELSE sandbox.files[p]
  BY DEF files
<1> QED  BY <1>1, <1>2, <1>4, <1>5 DEF Wrote

(* What becomes of the call that writes, and of the history.               *)
Writes(c, new, written, deleted) ==
    /\ written \subseteq Artifacts /\ deleted \subseteq Artifacts /\ written \cap deleted = {}
    /\ Wrote(written, deleted)
    /\ Becomes(c, new)
    /\ excused \cup Overtaken(c, written, deleted) \subseteq excused'
    /\ excused' \subseteq excused \cup Artifacts
    /\ \/ EndsWith(new, "raised", {}, 0) /\ written \subseteq excused'
       \/ /\ EndsWith(new, "returned", new.wrote, new.version) /\ written = {}
          /\ new.wrote \in {{}, call[c].wrote} /\ new.version \in {call[c].version, clock'}
       \/ /\ new.wrote = written /\ new.version = clock' /\ new.inputs = call[c].inputs
          /\ \/ /\ call[c].pc = "run" /\ new.pc = "after"
                /\ new.seen = call[c].seen /\ new.todo = call[c].todo
                /\ new.mine = call[c].mine /\ new.held = call[c].held
             \/ /\ call[c].pc = "work" /\ new.pc = "copy" /\ new.seen = call[c].seen
                /\ new.todo = written /\ new.mine = call[c].mine /\ new.held = call[c].held
             \/ /\ call[c].pc = "work" /\ new.pc = "publish" /\ new.seen = call[c].seen
                /\ new.mine = written /\ new.todo = call[c].todo /\ new.held = clock'
                /\ written # {}

LEMMA RunWrites ==
    ASSUME TypeInv, NEW c \in Calls, Run(c)
    PROVE  \E new, written, deleted : Writes(c, new, written, deleted)
<1>1. PICK written, deleted \in SUBSET Artifacts, inputs \in SUBSET Inputs :
          /\ written \cap deleted = {}
          /\ Change(c, written, deleted, inputs)
          /\ \/ /\ call' = [call EXCEPT ![c].pc = "after", ![c].wrote = written,
                                        ![c].version = clock']
                /\ excused' = excused \cup Overtaken(c, written, deleted)
             \/ /\ call' = [call EXCEPT ![c] = End("raised", {}, 0)]
                /\ excused' = excused \cup Overtaken(c, written, deleted) \cup written
  BY DEF Run
<1>2. Wrote(written, deleted) /\ Overtaken(c, written, deleted) \subseteq Artifacts
  BY <1>1, ChangeWrites DEF Overtaken
<1>3. CASE call' = [call EXCEPT ![c].pc = "after", ![c].wrote = written, ![c].version = clock']
  <2>1. PICK new : new = [call[c] EXCEPT !.pc = "after", !.wrote = written, !.version = clock']
    OBVIOUS
  <2>2. /\ new \in CallStates
        /\ new.pc = "after" /\ new.wrote = written /\ new.version = clock'
        /\ new.inputs = call[c].inputs /\ new.seen = call[c].seen /\ new.todo = call[c].todo
        /\ new.mine = call[c].mine /\ new.held = call[c].held
    BY <1>2, <2>1, Kinds DEF Wrote, CallStates, Steps
  <2>3. call' = [call EXCEPT ![c] = new]
    BY <1>3, <2>1, Kinds
  <2>4. Becomes(c, new)
    BY <2>2, <2>3, BecomesNew
  <2>5. excused' = excused \cup Overtaken(c, written, deleted)
        \/ excused' = excused \cup Overtaken(c, written, deleted) \cup written
    BY <1>1
  <2> QED  BY <1>1, <1>2, <2>2, <2>4, <2>5 DEF Run, Writes
<1>4. CASE /\ call' = [call EXCEPT ![c] = End("raised", {}, 0)]
           /\ excused' = excused \cup Overtaken(c, written, deleted) \cup written
  BY <1>1, <1>2, <1>4, RaisesBecomes DEF Writes
<1> QED  BY <1>1, <1>3, <1>4

LEMMA GivenWrites ==
    ASSUME TypeInv, NEW c \in Calls, call[c].pc = "work",
           NEW written \in SUBSET Artifacts, NEW inputs \in SUBSET Inputs,
           Change(c, written, {}, inputs),
           PublishGiven(c, written, written), excused' = excused \cup Overtaken(c, written, {})
    PROVE  \E new : Writes(c, new, written, {})
<1>1. Wrote(written, {}) /\ Overtaken(c, written, {}) \subseteq Artifacts
  BY ChangeWrites DEF Overtaken
<1>2. CASE written = {}
  <2>1. PICK new : Becomes(c, new) /\ EndsWith(new, "returned", written, clock')
    BY <1>1, <1>2, EndBecomes DEF PublishGiven, Steps, Wrote
  <2> QED  BY <1>1, <1>2, <2>1 DEF Writes, EndsWith
<1>3. CASE written # {}
  <2>1. PICK new : new = [call[c] EXCEPT !.pc = "publish", !.mine = written, !.held = clock',
                                         !.wrote = written, !.version = clock']
    OBVIOUS
  <2>2. /\ new \in CallStates
        /\ new.pc = "publish" /\ new.wrote = written /\ new.version = clock'
        /\ new.inputs = call[c].inputs /\ new.seen = call[c].seen /\ new.todo = call[c].todo
        /\ new.mine = written /\ new.held = clock'
    BY <1>1, <2>1, Kinds DEF Wrote, CallStates, Steps
  <2>3. call' = [call EXCEPT ![c] = new]
    BY <1>3, <2>1, Kinds DEF PublishGiven
  <2>4. Becomes(c, new)
    BY <2>2, <2>3, BecomesNew
  <2> QED  BY <1>1, <1>3, <2>2, <2>4 DEF Writes
<1> QED  BY <1>2, <1>3

LEMMA WriteWrites ==
    ASSUME TypeInv, NEW c \in Calls, Write(c)
    PROVE  \E new, written, deleted : Writes(c, new, written, deleted)
<1>1. ASSUME NEW p \in Artifacts \cup Inputs, NEW written, written = {p} \cap Artifacts,
             Change(c, written, {}, {p} \cap Inputs), PublishGiven(c, written, written),
             excused' = excused \cup Overtaken(c, written, {})
      PROVE  \E new, paths, deleted : Writes(c, new, paths, deleted)
  <2>1. /\ written \in SUBSET Artifacts /\ {p} \cap Inputs \in SUBSET Inputs
        /\ call[c].pc = "work"
    BY <1>1 DEF Write, Works
  <2> QED  BY <1>1, <2>1, GivenWrites
<1>2. CASE Return(c) /\ UNCHANGED <<sandbox, excused, clock>>
  <2>1. PICK new : Becomes(c, new) /\ EndsWith(new, "returned", call[c].wrote, call[c].version)
    BY <1>2, ReturnBecomes
  <2>2. Wrote({}, {})
    BY <1>2, Kinds DEF Wrote, Sandboxes, Accounted
  <2>3. Overtaken(c, {}, {}) = {}
    BY DEF Overtaken
  <2> QED  BY <1>2, <2>1, <2>2, <2>3 DEF Writes, EndsWith
<1> QED  BY <1>1, <1>2 DEF Write

(* The answers are those of the valid files, so what is to be published is *)
(* what the sandbox has stored.                                            *)
LEMMA UploadWrites ==
    ASSUME TypeInv, NEW c \in Calls, Upload(c)
    PROVE  \E new, written, deleted : Writes(c, new, written, deleted)
<1>1. PICK p \in Artifacts \cup Inputs \cup {Outside}, q \in Artifacts \cup Inputs \cup {Outside} :
          \E delegated \in [1 .. Rank(<<p, q>>, 2) -> {"ok", "error"}] :
             LET paths == <<p, q>>
                 stored == {paths[i] : i \in {j \in 1 .. 2 :
                               Physical(paths[j]) /\ delegated[Rank(paths, j)] = "ok"}}
                 written == stored \cap Artifacts
                 answers == Responses(paths, delegated)
                 todo == {paths[i] : i \in {j \in 1 .. 2 : answers[j] = "ok"}}
             IN  /\ Change(c, written, {}, stored \cap Inputs)
                 /\ PublishGiven(c, written, todo \cap Artifacts)
                 /\ excused' = excused \cup Overtaken(c, written, {})
  BY DEF Upload
<1> DEFINE paths == <<p, q>>
<1>2. PICK delegated \in [1 .. Rank(paths, 2) -> {"ok", "error"}] :
             LET stored == {paths[i] : i \in {j \in 1 .. 2 :
                               Physical(paths[j]) /\ delegated[Rank(paths, j)] = "ok"}}
                 written == stored \cap Artifacts
                 answers == Responses(paths, delegated)
                 todo == {paths[i] : i \in {j \in 1 .. 2 : answers[j] = "ok"}}
             IN  /\ Change(c, written, {}, stored \cap Inputs)
                 /\ PublishGiven(c, written, todo \cap Artifacts)
                 /\ excused' = excused \cup Overtaken(c, written, {})
  BY <1>1
<1> DEFINE stored == {paths[i] : i \in {j \in 1 .. 2 :
                         Physical(paths[j]) /\ delegated[Rank(paths, j)] = "ok"}}
           answers == Responses(paths, delegated)
           todo == {paths[i] : i \in {j \in 1 .. 2 : answers[j] = "ok"}}
<1>3. \A i \in 1 .. 2 : answers[i] = "ok" <=> Physical(paths[i]) /\ delegated[Rank(paths, i)] = "ok"
  BY DEF Responses
<1>4. todo = stored
  <2> HIDE DEF answers
  <2> QED  BY <1>3
<1>5. call[c].pc = "work"
  BY DEF Upload, Works
<1>6. /\ Change(c, stored \cap Artifacts, {}, stored \cap Inputs)
      /\ PublishGiven(c, stored \cap Artifacts, stored \cap Artifacts)
      /\ excused' = excused \cup Overtaken(c, stored \cap Artifacts, {})
  BY <1>2, <1>4
<1> HIDE DEF stored
<1>7. stored \cap Artifacts \in SUBSET Artifacts /\ stored \cap Inputs \in SUBSET Inputs
  OBVIOUS
<1> QED  BY <1>5, <1>6, <1>7, GivenWrites

LEMMA EditWrites ==
    ASSUME TypeInv, NEW c \in Calls, Edit(c)
    PROVE  \E new, written, deleted : Writes(c, new, written, deleted)
<1>1. CASE \E p \in Artifacts :
             /\ Change(c, {p}, {}, {})
             /\ call' = [call EXCEPT ![c].pc = "copy", ![c].todo = {p},
                                     ![c].wrote = {p}, ![c].version = clock']
             /\ excused' = excused \cup Overtaken(c, {p}, {})
  <2>1. PICK p \in Artifacts :
            /\ Change(c, {p}, {}, {})
            /\ call' = [call EXCEPT ![c].pc = "copy", ![c].todo = {p},
                                    ![c].wrote = {p}, ![c].version = clock']
            /\ excused' = excused \cup Overtaken(c, {p}, {})
    BY <1>1
  <2>2. Wrote({p}, {}) /\ Overtaken(c, {p}, {}) \subseteq Artifacts
    BY <2>1, ChangeWrites DEF Overtaken
  <2>3. PICK new : new = [call[c] EXCEPT !.pc = "copy", !.todo = {p}, !.wrote = {p},
                                         !.version = clock']
    OBVIOUS
  <2>4. /\ new \in CallStates
        /\ new.pc = "copy" /\ new.wrote = {p} /\ new.version = clock'
        /\ new.inputs = call[c].inputs /\ new.seen = call[c].seen /\ new.todo = {p}
        /\ new.mine = call[c].mine /\ new.held = call[c].held
    BY <2>2, <2>3, Kinds DEF Wrote, CallStates, Steps
  <2>5. call' = [call EXCEPT ![c] = new]
    BY <2>1, <2>3, Kinds
  <2>6. Becomes(c, new)
    BY <2>4, <2>5, BecomesNew
  <2>7. Writes(c, new, {p}, {})
    BY <2>1, <2>2, <2>4, <2>6 DEF Edit, Works, Writes
  <2> QED  BY <2>7
<1>2. CASE \E a \in sandbox.inputs :
             Change(c, {}, {}, {a}) /\ Return(c) /\ excused' = excused
  <2>1. PICK a \in sandbox.inputs :
            Change(c, {}, {}, {a}) /\ Return(c) /\ excused' = excused
    BY <1>2
  <2>2. {a} \in SUBSET Inputs
    BY Kinds DEF Sandboxes
  <2>3. Wrote({}, {}) /\ Overtaken(c, {}, {}) = {}
    BY <2>1, <2>2, ChangeWrites DEF Overtaken
  <2>4. PICK new : Becomes(c, new) /\ EndsWith(new, "returned", call[c].wrote, call[c].version)
    BY <2>1, ReturnBecomes
  <2> QED  BY <2>1, <2>3, <2>4 DEF Writes, EndsWith
<1> QED  BY <1>1, <1>2 DEF Edit

LEMMA DeleteWrites ==
    ASSUME TypeInv, NEW c \in Calls, Delete(c) \/ Look(c)
    PROVE  \E new, written, deleted : Writes(c, new, written, deleted)
<1>1. PICK new : Becomes(c, new) /\ EndsWith(new, "returned", call[c].wrote, call[c].version)
  BY ReturnBecomes DEF Delete, Look
<1>2. CASE Delete(c)
  <2>1. PICK deleted \in SUBSET Artifacts, inputs \in SUBSET Inputs :
            /\ Change(c, {}, deleted, inputs)
            /\ excused' = excused \cup Overtaken(c, {}, deleted)
    BY <1>2 DEF Delete
  <2>2. Wrote({}, deleted) /\ Overtaken(c, {}, deleted) \subseteq Artifacts
    BY <2>1, ChangeWrites DEF Overtaken
  <2>3. Writes(c, new, {}, deleted)
    BY <1>1, <2>1, <2>2 DEF Writes, EndsWith
  <2> QED  BY <2>3
<1>3. CASE Look(c)
  <2>1. Wrote({}, {}) /\ Overtaken(c, {}, {}) = {}
    BY <1>3, Kinds DEF Look, Wrote, Sandboxes, Accounted, Overtaken
  <2>2. Writes(c, new, {}, {})
    BY <1>1, <1>3, <2>1 DEF Look, Writes, EndsWith
  <2> QED  BY <2>2
<1> QED  BY <1>2, <1>3

LEMMA WorkWrites ==
    ASSUME TypeInv, NEW c \in Calls,
           Run(c) \/ Write(c) \/ Upload(c) \/ Edit(c) \/ Delete(c) \/ Look(c)
    PROVE  /\ call[c].pc \in {"work", "run"}
           /\ UNCHANGED <<published, ready, cached, hydrated>>
           /\ \E new, written, deleted : Writes(c, new, written, deleted)
<1>1. call[c].pc \in {"work", "run"} /\ UNCHANGED <<published, ready, cached, hydrated>>
  BY DEF Run, Write, Upload, Edit, Delete, Look, Works
<1> QED  BY <1>1, RunWrites, WriteWrites, UploadWrites, EditWrites, DeleteWrites

(* What a record keeps when only its progress with the publication changes.*)
Same(new, old) == new.inputs = old.inputs /\ new.wrote = old.wrote /\ new.version = old.version

LEMMA AfterBecomes ==
    ASSUME TypeInv, NEW c \in Calls, After(c)
    PROVE  \E manifest \in Manifests : \E new :
              /\ Becomes(c, new)
              /\ excused' = excused \cup IF manifest = sandbox.files THEN {} ELSE call[c].wrote
              /\ LET changed == Changed(call[c].seen, manifest)
                 IN  IF changed = {}
                     THEN EndsWith(new, "returned", call[c].wrote, call[c].version)
                     ELSE /\ Same(new, call[c]) /\ new.pc = "copy" /\ new.seen = NoFiles
                          /\ new.todo = changed /\ new.mine = call[c].mine
                          /\ new.held = call[c].held
<1>1. PICK manifest \in Manifests :
          /\ LET changed == Changed(call[c].seen, manifest)
             IN  IF changed = {} THEN Return(c)
                 ELSE call' = [call EXCEPT ![c] =
                                  [@ EXCEPT !.pc = "copy", !.seen = NoFiles, !.todo = changed]]
          /\ excused' = excused \cup IF manifest = sandbox.files THEN {} ELSE call[c].wrote
  BY DEF After
<1> DEFINE changed == Changed(call[c].seen, manifest)
<1>2. changed \subseteq Artifacts
  BY DEF Changed
<1> HIDE DEF changed
<1>3. CASE changed = {}
  <2>1. Return(c)
    BY <1>1, <1>3 DEF changed
  <2>2. PICK new : Becomes(c, new) /\ EndsWith(new, "returned", call[c].wrote, call[c].version)
    BY <2>1, ReturnBecomes
  <2> QED  BY <1>1, <1>3, <2>2 DEF changed
<1>4. CASE changed # {}
  <2>1. PICK new : new = [call[c] EXCEPT !.pc = "copy", !.seen = NoFiles, !.todo = changed]
    OBVIOUS
  <2>2. /\ new \in CallStates
        /\ Same(new, call[c]) /\ new.pc = "copy" /\ new.seen = NoFiles
        /\ new.todo = changed /\ new.mine = call[c].mine /\ new.held = call[c].held
    BY <1>2, <2>1, Kinds DEF CallStates, Steps, Same
  <2>3. call' = [call EXCEPT ![c] = new]
    BY <1>1, <1>4, <2>1, Kinds DEF changed
  <2>4. Becomes(c, new)
    BY <2>2, <2>3, BecomesNew
  <2> QED  BY <1>1, <1>4, <2>2, <2>4 DEF changed
<1> QED  BY <1>3, <1>4

LEMMA CopyBecomes ==
    ASSUME TypeInv, NEW c \in Calls, Copy(c)
    PROVE  \E new, p :
              /\ Becomes(c, new) /\ Same(new, call[c])
              /\ p \in call[c].todo /\ p \in Artifacts /\ sandbox.files[p] # 0
              /\ new.pc = "publish" /\ new.seen = call[c].seen /\ new.todo = call[c].todo \ {p}
              /\ new.mine = {p} /\ new.held = sandbox.files[p]
<1>1. PICK p \in call[c].todo :
          /\ sandbox.files[p] # 0
          /\ call' = [call EXCEPT ![c].pc = "publish", ![c].todo = @ \ {p},
                                  ![c].mine = {p}, ![c].held = sandbox.files[p]]
  BY DEF Copy, Downloaded
<1>2. p \in Artifacts /\ sandbox.files[p] \in Versions
  BY Kinds DEF CallStates
<1>3. PICK new : new = [call[c] EXCEPT !.pc = "publish", !.todo = @ \ {p}, !.mine = {p},
                                       !.held = sandbox.files[p]]
  OBVIOUS
<1>4. /\ new \in CallStates /\ Same(new, call[c])
      /\ new.pc = "publish" /\ new.seen = call[c].seen /\ new.todo = call[c].todo \ {p}
      /\ new.mine = {p} /\ new.held = sandbox.files[p]
  BY <1>2, <1>3, Kinds DEF CallStates, Steps, Same
<1>5. call' = [call EXCEPT ![c] = new]
  BY <1>1, <1>3, Kinds
<1> QED  BY <1>1, <1>2, <1>4, <1>5, BecomesNew

LEMMA PublishBecomes ==
    ASSUME TypeInv, NEW c \in Calls, Publish(c)
    PROVE  \E new, p :
              /\ Becomes(c, new) /\ p \in call[c].mine /\ p \in Artifacts
              /\ published' \in Files /\ published'[p] = call[c].held
              /\ \A q \in Artifacts \ {p} : published'[q] = published[q]
              /\ excused' = IF Settled(c, p) THEN excused \ {p} ELSE excused
              /\ \/ /\ call[c].mine = {p} /\ call[c].todo = {}
                    /\ EndsWith(new, "returned", call[c].wrote, call[c].version)
                 \/ /\ Same(new, call[c]) /\ new.seen = call[c].seen
                    /\ new.todo = call[c].todo /\ new.mine = call[c].mine \ {p}
                    /\ new.held = call[c].held
                    /\ new.pc = IF call[c].mine = {p} THEN "copy" ELSE "publish"
<1>1. PICK p \in call[c].mine :
          /\ published' = [published EXCEPT ![p] = call[c].held]
          /\ excused' = IF Settled(c, p) THEN excused \ {p} ELSE excused
          /\ IF call[c].mine = {p} /\ call[c].todo = {}
             THEN Return(c)
             ELSE call' = [call EXCEPT ![c].mine = @ \ {p},
                              ![c].pc = IF call[c].mine = {p} THEN "copy" ELSE "publish"]
  BY DEF Publish
<1>2. p \in Artifacts /\ call[c].held \in Versions
  BY Kinds DEF CallStates
<1>3. /\ published' \in Files /\ published'[p] = call[c].held
      /\ \A q \in Artifacts \ {p} : published'[q] = published[q]
  BY <1>1, <1>2, Kinds DEF Files
<1>4. CASE call[c].mine = {p} /\ call[c].todo = {}
  BY <1>1, <1>2, <1>3, <1>4, ReturnBecomes
<1>5. CASE ~(call[c].mine = {p} /\ call[c].todo = {})
  <2> DEFINE pc == IF call[c].mine = {p} THEN "copy" ELSE "publish"
  <2>1. PICK new : new = [call[c] EXCEPT !.mine = @ \ {p}, !.pc = pc]
    OBVIOUS
  <2>2. /\ new \in CallStates /\ Same(new, call[c]) /\ new.seen = call[c].seen
        /\ new.todo = call[c].todo /\ new.mine = call[c].mine \ {p}
        /\ new.held = call[c].held /\ new.pc = pc
    BY <2>1, Kinds DEF CallStates, Steps, Same
  <2>3. call' = [call EXCEPT ![c] = new]
    BY <1>1, <1>5, <2>1, Kinds
  <2>4. Becomes(c, new)
    BY <2>2, <2>3, BecomesNew
  <2> QED  BY <1>1, <1>2, <1>3, <2>2, <2>4
<1> QED  BY <1>4, <1>5

-----------------------------------------------------------------------------
(* Types.                                                                  *)
LEMMA InitTyped == Init => TypeInv
<1> SUFFICES ASSUME Init PROVE TypeInv
  OBVIOUS
<1>1. Started("idle", {}) \in CallStates /\ NoFiles \in Files /\ 0 \in Versions
  BY Bounds DEF Started, CallStates, Steps, NoFiles, Files, Versions
<1>2. \A c \in Calls : call[c].pc = "idle" /\ call[c] \in CallStates
  BY <1>1 DEF Init, Started
<1>3. sandbox.id = 1 /\ sandbox.alive /\ sandbox \in Sandboxes
  BY <1>1, Bounds DEF Init, Sandboxes
<1>4. TypeOK
  BY <1>1, <1>2, <1>3, Bounds DEF Init, TypeOK, Sandboxes
<1> QED  BY <1>2, <1>3, <1>4 DEF TypeInv, CallsResolved, Ended

(* A step of one call keeps the types, if what it makes of the call, of    *)
(* the sandbox and of what the process remembers is of its kind.           *)
LEMMA CallTypeStep ==
    ASSUME TypeInv, NEW c \in Calls, NEW new, Becomes(c, new),
           new.pc = "publish" => new.mine # {} /\ new.held # 0,
           sandbox' \in Sandboxes, ~sandbox'.alive => sandbox'.id <= MaxLosses,
           cached' \in 0 .. sandbox'.id, cached' = cached \/ cached' # 0,
           hydrated' \subseteq (1 .. sandbox'.id) \X SUBSET Inputs,
           new.pc \notin {"idle", "returned", "raised", "resolve"} => cached' # 0,
           published' \in Files, excused' \subseteq excused \cup Artifacts, clock' \in Versions,
           UNCHANGED <<ready>>
    PROVE  TypeInv'
<1>1. TypeOK'
  BY DEF TypeInv, TypeOK, Becomes, Sandboxes
<1>2. CallsResolved'
  BY DEF TypeInv, CallsResolved, Ended, Becomes
<1> QED  BY <1>1, <1>2 DEF TypeInv

LEMMA SandboxTyped ==
    ASSUME TypeInv
    PROVE  /\ sandbox \in Sandboxes /\ (~sandbox.alive => sandbox.id <= MaxLosses)
           /\ cached \in 0 .. sandbox.id /\ hydrated \subseteq (1 .. sandbox.id) \X SUBSET Inputs
           /\ published \in Files /\ excused \subseteq Artifacts /\ clock \in Versions
           /\ \A c \in Calls : call[c].inputs \subseteq Inputs
           /\ sandbox.id \in 1 .. MaxLosses + 1 /\ ready \subseteq Inputs
BY Kinds DEF TypeInv, TypeOK, Sandboxes, CallStates

LEMMA EarlyTypeStep ==
    ASSUME TypeInv, NEW c \in Calls,
           \/ Begin(c) \/ Resolve(c) \/ Fetch(c) \/ Put(c) \/ Mark(c) \/ Before(c)
    PROVE  TypeInv'
<1>1. PICK new : /\ Becomes(c, new)
                 /\ \/ Begin(c) /\ new = Started("resolve", new.inputs)
                    \/ ~Ended(c) /\ new.pc \in EarlySteps
  <2>1. PICK new : /\ Becomes(c, new)
                   /\ \/ Begin(c) /\ new = Started("resolve", new.inputs)
                      \/ /\ ~Ended(c)
                         /\ \E pc \in EarlySteps, seen \in {call[c].seen, sandbox.files, NoFiles} :
                               new = [call[c] EXCEPT !.pc = pc, !.seen = seen]
    BY EarlyBecomes
  <2>2. ~Begin(c) => new.pc \in EarlySteps
    BY <2>1, Kinds DEF CallStates
  <2> QED  BY <2>1, <2>2 DEF Begin
<1>2. /\ new.pc # "publish" /\ UNCHANGED <<ready, published, excused, clock>>
      /\ Begin(c) => new.pc = "resolve"
  <2>1. UNCHANGED <<ready, published, excused, clock>>
    BY DEF Begin, Resolve, Fetch, Put, Mark, Before
  <2>2. Begin(c) => Ended(c)
    BY DEF Begin
  <2>3. Begin(c) => new.pc = "resolve"
    BY <1>1, <2>2 DEF Started
  <2> QED  BY <1>1, <2>1, <2>3 DEF EarlySteps, Started
<1>3. CASE Begin(c) \/ Fetch(c) \/ Before(c) \/ Mark(c) \/ Put(c)
  <2>1. call[c].pc # "resolve" /\ cached' = cached
    BY <1>3 DEF Begin, Fetch, Before, Mark, Put, Ended, Works
  <2>2. cached # 0 \/ new.pc = "resolve"
    BY <1>1, <1>2, <2>1 DEF TypeInv, CallsResolved
  <2>3. hydrated' \subseteq (1 .. sandbox.id) \X SUBSET Inputs
    <3>1. CASE Mark(c)
      <4>1. cached # 0
        BY <3>1 DEF Mark, TypeInv, CallsResolved, Ended
      <4> QED  BY <3>1, <4>1, SandboxTyped DEF Mark
    <3>2. CASE ~Mark(c)
      BY <1>3, <3>2, SandboxTyped DEF Begin, Fetch, Before, Put
    <3> QED  BY <3>1, <3>2
  <2>4. sandbox' \in Sandboxes /\ sandbox'.id = sandbox.id /\ sandbox'.alive = sandbox.alive
    <3>1. CASE Put(c)
      <4>1. PICK stored \in SUBSET call[c].inputs :
                sandbox' = [sandbox EXCEPT !.inputs = @ \cup stored, !.spoiled = @ \ stored]
        BY <3>1 DEF Put
      <4>2. stored \subseteq Inputs
        BY SandboxTyped
      <4> QED  BY <4>1, <4>2, SandboxTyped DEF Sandboxes
    <3>2. CASE ~Put(c)
      BY <1>3, <3>2, SandboxTyped DEF Begin, Fetch, Before, Mark
    <3> QED  BY <3>1, <3>2
  <2> QED  BY <1>1, <1>2, <2>1, <2>2, <2>3, <2>4, SandboxTyped, CallTypeStep
<1>4. CASE Resolve(c)
  <2>1. /\ sandbox' \in Sandboxes /\ sandbox.id <= sandbox'.id
        /\ ~sandbox'.alive => sandbox'.id <= MaxLosses
        /\ cached' \in 1 .. sandbox'.id
    <3>1. CASE cached # 0 \/ sandbox.alive
      BY <1>4, <3>1, SandboxTyped, Bounds DEF Resolve
    <3>2. CASE cached = 0 /\ ~sandbox.alive
      <4>1. sandbox' = Restored /\ cached' = sandbox'.id
        BY <1>4, <3>2 DEF Resolve
      <4>2. sandbox.id + 1 \in 1 .. MaxLosses + 1 /\ sandbox.id \in Nat
        BY <3>2, SandboxTyped, Bounds
      <4>3. /\ Restored \in Sandboxes /\ Restored.id = sandbox.id + 1 /\ Restored.alive
        BY <4>2, SandboxTyped DEF Restored, Sandboxes
      <4> QED  BY <4>1, <4>2, <4>3
    <3> QED  BY <3>1, <3>2
  <2>2. sandbox.id \in Nat /\ sandbox'.id \in Nat
    BY <2>1, SandboxTyped, Bounds DEF Sandboxes
  <2>3. 1 .. sandbox.id \subseteq 1 .. sandbox'.id /\ hydrated' = hydrated
    BY <1>4, <2>1, <2>2 DEF Resolve
  <2>4. hydrated' \subseteq (1 .. sandbox'.id) \X SUBSET Inputs
    BY <2>3, SandboxTyped
  <2>5. cached' \in 0 .. sandbox'.id /\ cached' # 0
    BY <2>1, <2>2
  <2> QED  BY <1>1, <1>2, <2>1, <2>4, <2>5, SandboxTyped, CallTypeStep
<1> QED  BY <1>3, <1>4

LEMMA WorkTypeStep ==
    ASSUME TypeInv, NEW c \in Calls,
           Run(c) \/ Write(c) \/ Upload(c) \/ Edit(c) \/ Delete(c) \/ Look(c)
    PROVE  TypeInv'
<1>1. PICK new, written, deleted : Writes(c, new, written, deleted)
  BY WorkWrites
<1>2. /\ Becomes(c, new) /\ Wrote(written, deleted) /\ excused' \subseteq excused \cup Artifacts
      /\ new.pc = "publish" => new.mine # {} /\ new.held # 0
  BY <1>1, Kinds DEF Writes, Wrote, EndsWith
<1>3. cached # 0
  BY WorkWrites DEF TypeInv, CallsResolved, Ended
<1>4. UNCHANGED <<published, ready, cached, hydrated>>
  BY WorkWrites
<1> QED  BY <1>2, <1>3, <1>4, SandboxTyped, CallTypeStep DEF Wrote

LEMMA PublicationTypeStep ==
    ASSUME TypeInv, NEW c \in Calls, After(c) \/ Copy(c) \/ Publish(c) \/ Raise(c)
    PROVE  TypeInv'
<1>1. UNCHANGED <<sandbox, ready, cached, hydrated, clock>> /\ ~Ended(c)
  BY DEF After, Copy, Publish, Raise, Ended
<1>2. call[c].pc # "resolve" => cached # 0
  BY <1>1 DEF TypeInv, CallsResolved
<1>3. CASE After(c)
  <2>1. PICK manifest \in Manifests, new \in CallStates :
              /\ Becomes(c, new)
              /\ excused' = excused \cup IF manifest = sandbox.files THEN {} ELSE call[c].wrote
              /\ new.pc \in {"returned", "copy"}
    BY <1>3, AfterBecomes DEF EndsWith, Becomes
  <2>2. excused' \subseteq excused \cup Artifacts /\ call[c].pc = "after" /\ published' = published
    BY <1>3, <2>1, Kinds DEF CallStates, After
  <2> QED  BY <1>1, <1>2, <2>1, <2>2, SandboxTyped, CallTypeStep
<1>4. CASE Copy(c)
  <2>1. PICK new, p : /\ Becomes(c, new) /\ new.mine = {p} /\ new.held = sandbox.files[p]
                      /\ sandbox.files[p] # 0
    BY <1>4, CopyBecomes
  <2>2. call[c].pc = "copy" /\ UNCHANGED <<published, excused>>
    BY <1>4 DEF Copy
  <2> QED  BY <1>1, <1>2, <2>1, <2>2, SandboxTyped, CallTypeStep
<1>5. CASE Publish(c)
  <2>1. PICK new, p :
              /\ Becomes(c, new) /\ p \in call[c].mine /\ published' \in Files
              /\ excused' \subseteq excused
              /\ new.pc = "publish" =>
                    new.mine = call[c].mine \ {p} /\ call[c].mine # {p}
                    /\ new.held = call[c].held
    BY <1>5, PublishBecomes DEF EndsWith
  <2>2. call[c].pc = "publish" /\ call[c].held # 0
    BY <1>5 DEF Publish, TypeInv, TypeOK
  <2> QED  BY <1>1, <1>2, <2>1, <2>2, SandboxTyped, CallTypeStep
<1>6. CASE Raise(c)
  <2>1. PICK new : Becomes(c, new) /\ EndsWith(new, "raised", {}, 0)
    BY <1>6, RaisesBecomes DEF Raise
  <2>2. excused' \subseteq excused \cup Artifacts /\ published' = published
    BY <1>6, Kinds DEF Raise, Owed, CallStates
  <2> QED  BY <1>1, <2>1, <2>2, SandboxTyped, CallTypeStep DEF EndsWith
<1> QED  BY <1>3, <1>4, <1>5, <1>6

LEMMA RestartBecomes ==
    ASSUME TypeInv, Restart
    PROVE  /\ call' \in [Calls -> CallStates]
           /\ \A d \in Calls : IF Ended(d) THEN call'[d] = call[d]
                               ELSE EndsWith(call'[d], "raised", {}, 0)
           /\ excused' = excused \cup UNION {Owed(c) : c \in Calls}
           /\ UNCHANGED <<sandbox, published, ready, clock>>
<1>1. PICK gone : gone = End("raised", {}, 0)
  OBVIOUS
<1>2. gone \in CallStates /\ EndsWith(gone, "raised", {}, 0)
  BY <1>1, Kinds DEF End, CallStates, Steps, EndsWith
<1>3. call' = [c \in Calls |-> IF Ended(c) THEN call[c] ELSE gone]
  BY <1>1 DEF Restart
<1> QED  BY <1>2, <1>3, Kinds DEF Restart

LEMMA OtherTypeStep ==
    ASSUME TypeInv,
           \/ LoseSandbox \/ Restart \/ (\E a \in Inputs : DeleteInput(a)) \/ UNCHANGED vars
    PROVE  TypeInv'
<1>1. CASE LoseSandbox
  <2>1. /\ sandbox' \in Sandboxes /\ sandbox'.id = sandbox.id /\ sandbox.id <= MaxLosses
    BY <1>1, Kinds DEF LoseSandbox, Sandboxes
  <2> QED  BY <1>1, <2>1 DEF LoseSandbox, TypeInv, TypeOK, CallsResolved, Ended, Sandboxes
<1>2. CASE Restart
  <2>1. \A c \in Calls : Owed(c) \subseteq Artifacts
    BY Kinds DEF Owed, CallStates
  <2>2. excused' \subseteq Artifacts
    BY <2>1, <1>2, RestartBecomes DEF TypeInv, TypeOK
  <2>3. \A c \in Calls : call'[c].pc \in {"idle", "returned", "raised"}
    BY <1>2, RestartBecomes DEF Ended, EndsWith
  <2>4. cached' = 0 /\ hydrated' = {}
    BY <1>2, Bounds DEF Restart, TypeInv, TypeOK
  <2>5. TypeOK' /\ CallsResolved'
    BY <1>2, <2>2, <2>3, <2>4, RestartBecomes, Bounds
       DEF TypeInv, TypeOK, CallsResolved, Ended
  <2> QED  BY <1>2, <2>5, RestartBecomes DEF TypeInv
<1>3. CASE \E a \in Inputs : DeleteInput(a)
  BY <1>3 DEF DeleteInput, TypeInv, TypeOK, CallsResolved, Ended
<1>4. CASE UNCHANGED vars
  BY <1>4 DEF vars, TypeInv, TypeOK, CallsResolved, Ended
<1> QED  BY <1>1, <1>2, <1>3, <1>4

LEMMA TypeStep ==
    ASSUME TypeInv, [Next]_vars
    PROVE  TypeInv'
BY EarlyTypeStep, WorkTypeStep, PublicationTypeStep, OtherTypeStep DEF Next, CallStep

LEMMA AlwaysTyped == Spec => []TypeInv
BY InitTyped, TypeStep, PTL DEF Spec

(* Type correctness, for every number of calls, artifacts and inputs; a    *)
(* call that publishes has something to publish, and its content.          *)
THEOREM TypeCorrect == Spec => []TypeOK
<1>1. TypeInv => TypeOK
  BY DEF TypeInv
<1> QED  BY <1>1, AlwaysTyped, PTL

-----------------------------------------------------------------------------
(* The process knows the Project's sandbox, and has marked only inputs     *)
(* that were put there: they are in it, or a tool call has spoiled them    *)
(* since; so it is with those about to be marked, and with those of an     *)
(* operation.                                                              *)
MarkersHold ==
    /\ cached \in {0, sandbox.id}
    /\ \A m \in hydrated : m[1] = sandbox.id /\ (sandbox.alive => m[2] \subseteq Accounted(sandbox))
    /\ cached = 0 => hydrated = {}

PutInPlace ==
    \A c \in Calls :
        sandbox.alive /\ call[c].pc = "mark" => call[c].inputs \subseteq Accounted(sandbox)

OperationsCovered ==
    \A c \in Calls :
        sandbox.alive /\ call[c].pc \in Working => call[c].inputs \subseteq Accounted(sandbox)

HydrationInv == MarkersHold /\ PutInPlace /\ OperationsCovered

SameInputs ==
    /\ sandbox'.id = sandbox.id /\ sandbox'.alive = sandbox.alive
    /\ Accounted(sandbox') = Accounted(sandbox)

(* A call goes on with its work, or ends.                                  *)
LEMMA WorkHydrates ==
    ASSUME HydrationInv, NEW c \in Calls, NEW new, Becomes(c, new), SameInputs,
           UNCHANGED <<cached, hydrated>>,
           \/ new.pc \in {"returned", "raised"}
           \/ call[c].pc \in Working /\ new.pc \in Working /\ new.inputs = call[c].inputs
    PROVE  HydrationInv'
<1>1. MarkersHold'
  BY DEF HydrationInv, MarkersHold, SameInputs
<1>2. PutInPlace' /\ OperationsCovered'
  BY DEF HydrationInv, PutInPlace, OperationsCovered, SameInputs, Becomes, Working
<1> QED  BY <1>1, <1>2 DEF HydrationInv

LEMMA WorkingHydrates ==
    ASSUME TypeInv, HydrationInv, NEW c \in Calls,
           \/ Run(c) \/ Write(c) \/ Upload(c) \/ Edit(c) \/ Delete(c) \/ Look(c)
           \/ After(c) \/ Copy(c) \/ Publish(c) \/ Raise(c)
    PROVE  HydrationInv'
<1>1. CASE Run(c) \/ Write(c) \/ Upload(c) \/ Edit(c) \/ Delete(c) \/ Look(c)
  <2>1. PICK new, written, deleted : Writes(c, new, written, deleted)
    BY <1>1, WorkWrites
  <2>2. /\ Becomes(c, new) /\ SameInputs
        /\ \/ new.pc \in {"returned", "raised"}
           \/ new.pc \in Working /\ new.inputs = call[c].inputs
    BY <2>1 DEF Writes, Wrote, SameInputs, EndsWith, Working
  <2>3. call[c].pc \in Working /\ UNCHANGED <<cached, hydrated>>
    BY <1>1, WorkWrites DEF Working
  <2> QED  BY <2>2, <2>3, WorkHydrates
<1>2. CASE After(c) \/ Copy(c) \/ Publish(c) \/ Raise(c)
  <2>1. SameInputs /\ UNCHANGED <<cached, hydrated>>
    BY <1>2 DEF SameInputs, After, Copy, Publish, Raise
  <2>2. ~Raise(c) => call[c].pc \in Working
    BY <1>2 DEF After, Copy, Publish, Working
  <2>3. \E new : /\ Becomes(c, new)
                 /\ \/ new.pc \in {"returned", "raised"}
                    \/ ~Raise(c) /\ new.pc \in Working /\ new.inputs = call[c].inputs
    <3>1. CASE Raise(c)
      BY <3>1, RaisesBecomes DEF Raise, EndsWith
    <3>2. CASE After(c) /\ ~Raise(c)
      BY <3>2, AfterBecomes DEF EndsWith, Same, Working
    <3>3. CASE Copy(c) /\ ~Raise(c)
      BY <3>3, CopyBecomes DEF Same, Working
    <3>4. CASE Publish(c) /\ ~Raise(c)
      BY <3>4, PublishBecomes DEF EndsWith, Same, Working
    <3> QED  BY <1>2, <3>1, <3>2, <3>3, <3>4
  <2> QED  BY <2>1, <2>2, <2>3, WorkHydrates
<1> QED  BY <1>1, <1>2

(* Before a call works on the sandbox it gets the sandbox of the process   *)
(* and puts the inputs there. A process that has no sandbox has marked     *)
(* nothing, and none of its calls is past its first step: a replacement    *)
(* cannot take inputs from them.                                           *)
LEMMA EarlyHydrates ==
    ASSUME TypeInv, HydrationInv, NEW c \in Calls,
           \/ Begin(c) \/ Resolve(c) \/ Fetch(c) \/ Put(c) \/ Mark(c) \/ Before(c)
    PROVE  HydrationInv'
<1>0. PICK new :
              /\ Becomes(c, new)
              /\ \/ Begin(c) /\ new = Started("resolve", new.inputs)
                 \/ ~Ended(c) /\ new.inputs = call[c].inputs
              /\ Resolve(c) => new.pc = IF call[c].inputs = {} \/ Marker(c) \in hydrated
                                        THEN "work" ELSE "fetch"
              /\ Fetch(c) => new.pc = "put"
              /\ Put(c) => new.pc \in {"mark", "raised"}
              /\ Mark(c) => new.pc = "work"
              /\ Before(c) => new.pc = "run"
  BY EarlyBecomes
<1>1. CASE Begin(c) \/ Fetch(c)
  <2>1. new.pc \in {"resolve", "put"}
    BY <1>0, <1>1 DEF Begin, Started, Ended
  <2>2. UNCHANGED <<sandbox, cached, hydrated>>
    BY <1>1 DEF Begin, Fetch
  <2> QED  BY <1>0, <2>1, <2>2
           DEF HydrationInv, MarkersHold, PutInPlace, OperationsCovered, Becomes, Working
<1>2. CASE Before(c)
  <2>1. call[c].pc = "work" /\ new.pc = "run" /\ new.inputs = call[c].inputs
    BY <1>0, <1>2 DEF Before, Works, Begin, Ended
  <2>2. SameInputs /\ UNCHANGED <<cached, hydrated>>
    BY <1>2 DEF Before, SameInputs
  <2> QED  BY <1>0, <2>1, <2>2, WorkHydrates DEF Working
<1>3. CASE Put(c)
  <2>1. PICK stored \in SUBSET call[c].inputs :
            /\ sandbox' = [sandbox EXCEPT !.inputs = @ \cup stored, !.spoiled = @ \ stored]
            /\ call' = [call EXCEPT ![c].pc =
                           IF stored = call[c].inputs THEN "mark" ELSE "raised"]
    BY <1>3 DEF Put
  <2>2. /\ sandbox'.id = sandbox.id /\ sandbox'.alive = sandbox.alive
        /\ Accounted(sandbox') = Accounted(sandbox) \cup stored
    BY <2>1, SandboxTyped DEF Sandboxes, Accounted
  <2>3. new.inputs = call[c].inputs /\ new.pc \in {"mark", "raised"}
        /\ (new.pc = "mark" => stored = call[c].inputs)
    BY <1>0, <1>3, <2>1, Kinds DEF Put, Begin, Ended, Becomes, CallStates
  <2>4. UNCHANGED <<cached, hydrated>>
    BY <1>3 DEF Put
  <2>5. MarkersHold'
    BY <2>2, <2>4 DEF HydrationInv, MarkersHold
  <2>6. PutInPlace' /\ OperationsCovered'
    BY <1>0, <2>2, <2>3 DEF HydrationInv, PutInPlace, OperationsCovered, Becomes, Working
  <2> QED  BY <2>5, <2>6 DEF HydrationInv
<1>4. CASE Mark(c)
  <2>1. call[c].pc = "mark" /\ new.inputs = call[c].inputs /\ new.pc = "work"
    BY <1>0, <1>4 DEF Mark, Begin, Ended
  <2>2. cached # 0
    BY <2>1 DEF TypeInv, CallsResolved, Ended
  <2>3. sandbox.alive => call[c].inputs \subseteq Accounted(sandbox)
    BY <2>1 DEF HydrationInv, PutInPlace
  <2>4. MarkersHold'
    BY <1>4, <2>2, <2>3 DEF Mark, HydrationInv, MarkersHold
  <2>5. PutInPlace' /\ OperationsCovered'
    BY <1>0, <1>4, <2>1, <2>3 DEF Mark, HydrationInv, PutInPlace, OperationsCovered, Becomes, Working
  <2> QED  BY <2>4, <2>5 DEF HydrationInv
<1>5. CASE Resolve(c)
  <2>0. call[c].pc = "resolve" /\ new.inputs = call[c].inputs
        /\ new.pc \in {"work", "fetch"} /\ hydrated' = hydrated
        /\ (new.pc = "work" => call[c].inputs = {} \/ <<cached', call[c].inputs>> \in hydrated)
    BY <1>0, <1>5 DEF Resolve, Begin, Ended, Marker
  <2>1. CASE cached # 0
    <3>1. UNCHANGED <<sandbox, cached>>
      BY <1>5, <2>1 DEF Resolve
    <3>2. MarkersHold' /\ PutInPlace'
      BY <1>0, <2>0, <3>1 DEF HydrationInv, MarkersHold, PutInPlace, Becomes
    <3>3. <<cached', call[c].inputs>> \in hydrated /\ sandbox.alive
              => call[c].inputs \subseteq Accounted(sandbox)
      BY <3>1 DEF HydrationInv, MarkersHold
    <3>4. OperationsCovered'
      BY <1>0, <2>0, <3>1, <3>3 DEF HydrationInv, OperationsCovered, Becomes, Working
    <3> QED  BY <3>2, <3>4 DEF HydrationInv
  <2>2. CASE cached = 0
    <3>1. hydrated = {} /\ cached' = sandbox'.id
      BY <1>5, <2>2 DEF Resolve, HydrationInv, MarkersHold
    <3>2. sandbox'.id \in 1 .. MaxLosses + 1
      BY <1>5, EarlyTypeStep, SandboxTyped DEF TypeInv, TypeOK
    <3>3. MarkersHold'
      BY <2>0, <3>1, <3>2, Bounds DEF MarkersHold
    <3>4. \A d \in Calls \ {c} : call'[d].pc \in {"idle", "returned", "raised", "resolve"}
      BY <1>0, <2>2 DEF TypeInv, CallsResolved, Ended, Becomes
    <3>5. new.pc = "fetch" \/ (new.pc = "work" /\ new.inputs = {})
      BY <2>0, <3>1
    <3>6. PutInPlace' /\ OperationsCovered'
      BY <1>0, <3>4, <3>5 DEF PutInPlace, OperationsCovered, Becomes, Working
    <3> QED  BY <3>3, <3>6 DEF HydrationInv
  <2> QED  BY <2>1, <2>2
<1> QED  BY <1>1, <1>2, <1>3, <1>4, <1>5

LEMMA OtherHydrates ==
    ASSUME TypeInv, HydrationInv,
           \/ LoseSandbox \/ Restart \/ (\E a \in Inputs : DeleteInput(a)) \/ UNCHANGED vars
    PROVE  HydrationInv'
<1>1. CASE LoseSandbox
  <2>1. sandbox'.id = sandbox.id /\ ~sandbox'.alive /\ UNCHANGED <<call, cached, hydrated>>
    BY <1>1, SandboxTyped DEF LoseSandbox, Sandboxes
  <2> QED  BY <2>1 DEF HydrationInv, MarkersHold, PutInPlace, OperationsCovered
<1>2. CASE Restart
  <2>1. \A c \in Calls : call'[c].pc \in {"idle", "returned", "raised"}
    BY <1>2, RestartBecomes DEF Ended, EndsWith
  <2>2. cached' = 0 /\ hydrated' = {}
    BY <1>2 DEF Restart
  <2> QED  BY <2>1, <2>2 DEF HydrationInv, MarkersHold, PutInPlace, OperationsCovered, Working
<1>3. CASE UNCHANGED <<sandbox, cached, hydrated, call>>
  BY <1>3 DEF HydrationInv, MarkersHold, PutInPlace, OperationsCovered
<1> QED  BY <1>1, <1>2, <1>3 DEF DeleteInput, vars

LEMMA HydrationInit == Init => HydrationInv
<1> SUFFICES ASSUME Init PROVE HydrationInv
  OBVIOUS
<1>1. \A c \in Calls : call[c].pc = "idle"
  BY DEF Init, Started
<1> QED  BY <1>1 DEF Init, HydrationInv, MarkersHold, PutInPlace, OperationsCovered, Working

LEMMA HydrationStep ==
    ASSUME TypeInv, HydrationInv, [Next]_vars
    PROVE  HydrationInv'
BY EarlyHydrates, WorkingHydrates, OtherHydrates DEF Next, CallStep

(* An operation of a tool works without an input of its run only if a tool *)
(* call has written or deleted it after it was put into that sandbox, for  *)
(* any number of overlapping calls, inputs, lost sandboxes and restarts    *)
(* (_backend, _HYDRATED_INPUTS).                                           *)
THEOREM InputsAreHydrated == Spec => []InputsHydrated
<1>1. TypeInv /\ HydrationInv /\ [Next]_vars => HydrationInv'
  BY HydrationStep
<1>2. HydrationInv => InputsHydrated
  BY DEF HydrationInv, OperationsCovered, InputsHydrated, Accounted
<1> QED  BY <1>1, <1>2, AlwaysTyped, HydrationInit, PTL DEF Spec

-----------------------------------------------------------------------------
(* A call that has not come to its writing has written nothing, and only   *)
(* one that publishes holds a content; no version is ahead of the clock,   *)
(* and what a command wrote is newer than the manifest taken before it.    *)
Dated(c) ==
    /\ call[c].pc \in {"idle", "resolve", "fetch", "put", "mark", "work", "run", "raised"}
          => call[c].wrote = {}
    /\ call[c].pc \notin {"copy", "publish"} => call[c].todo = {}
    /\ call[c].pc # "publish" => call[c].mine = {}
    /\ call[c].version <= clock /\ call[c].held <= clock
    /\ \A p \in Artifacts :
          /\ call[c].seen[p] <= clock
          /\ call[c].pc = "after" /\ p \in call[c].wrote => call[c].seen[p] < call[c].version

ClockAhead ==
    \A p \in Artifacts : sandbox.files[p] <= clock /\ published[p] <= clock

(* What a call wrote is there, or has been written over, or deleted; what  *)
(* it holds of its own writing is no older.                                *)
Written(c) ==
    \A p \in call[c].wrote :
        /\ p \notin excused \/ ~Ended(c)
              => sandbox.files[p] = 0 \/ sandbox.files[p] >= call[c].version
        /\ p \in call[c].mine => call[c].held >= call[c].version

(* A content about to be published, unless overtaken, is the one in the    *)
(* sandbox, and no older than what any call has written.                   *)
HeldIsCurrent(c) ==
    \A p \in call[c].mine :
        /\ p \notin excused => sandbox.files[p] \in {0, call[c].held}
        /\ \A d \in Calls :
              p \in call[d].wrote \ excused => call[c].held >= call[d].version

(* What a call wrote has been published, or will be: it is in the manifest *)
(* to come, or among the artifacts to publish.                             *)
WillBePublished(c) ==
    \A p \in call[c].wrote \ excused :
        \/ published[p] >= call[c].version
        \/ p \in call[c].todo \cup call[c].mine
        \/ call[c].pc = "after" /\ (sandbox.alive => sandbox.files[p] # 0)

SyncInv ==
    /\ ClockAhead
    /\ \A c \in Calls : Dated(c) /\ Written(c) /\ HeldIsCurrent(c) /\ WillBePublished(c)
    /\ InSync

(* The paths and the versions that the comparisons above are about.        *)
Numbers ==
    /\ clock \in Nat
    /\ \A p \in Artifacts : sandbox.files[p] \in Nat /\ published[p] \in Nat
    /\ \A c \in Calls :
          /\ call[c].wrote \subseteq Artifacts /\ call[c].mine \subseteq Artifacts
          /\ call[c].todo \subseteq Artifacts
          /\ call[c].version \in Nat /\ call[c].held \in Nat
          /\ \A p \in Artifacts : call[c].seen[p] \in Nat

LEMMA NumbersHold == TypeInv => Numbers
<1> SUFFICES ASSUME TypeInv PROVE Numbers
  OBVIOUS
<1>1. \A c \in Calls :
          /\ call[c].wrote \subseteq Artifacts /\ call[c].mine \subseteq Artifacts
          /\ call[c].todo \subseteq Artifacts /\ call[c].seen \in Files
          /\ call[c].version \in Versions /\ call[c].held \in Versions
  BY Kinds DEF CallStates
<1> QED  BY <1>1, Kinds DEF Numbers

LEMMA NumbersStep ==
    ASSUME TypeInv, [Next]_vars
    PROVE  Numbers /\ Numbers'
<1>1. TypeInv'
  BY TypeStep
<1>2. TypeInv' => Numbers'
  BY NumbersHold, PTL
<1> QED  BY <1>1, <1>2, NumbersHold

LEMMA SyncInit == Init => SyncInv
<1> SUFFICES ASSUME Init PROVE SyncInv
  OBVIOUS
<1>1. \A c \in Calls : call[c] = Started("idle", {})
  BY DEF Init
<1>2. \A c \in Calls :
          /\ call[c].pc = "idle" /\ call[c].wrote = {} /\ call[c].todo = {}
          /\ call[c].mine = {} /\ call[c].version = 0 /\ call[c].held = 0
          /\ \A p \in Artifacts : call[c].seen[p] = 0
  BY <1>1 DEF Started, NoFiles
<1>3. clock = 0 /\ \A p \in Artifacts : sandbox.files[p] = 0 /\ published[p] = 0
  BY DEF Init, NoFiles
<1> QED  BY <1>2, <1>3
         DEF SyncInv, ClockAhead, Dated, Written, HeldIsCurrent, WillBePublished, InSync

(* A step that writes. What it writes is newer than all there is; a call   *)
(* that holds an older content of it, or owes a deleted one, is overtaken. *)
LEMMA WritingKeepsSync ==
    ASSUME Numbers, Numbers', SyncInv, NEW c \in Calls, NEW new, NEW written, NEW deleted,
           Writes(c, new, written, deleted), call[c].pc \in {"work", "run"},
           published' = published
    PROVE  SyncInv'
<1>1. /\ Becomes(c, new) /\ Wrote(written, deleted) /\ excused \subseteq excused'
      /\ written \subseteq Artifacts /\ deleted \subseteq Artifacts
      /\ \A p \in written \cup deleted, d \in Calls \ {c} :
            p \in call[d].mine => p \in excused'
      /\ \A p \in deleted, d \in Calls \ {c} : p \in Owed(d) => p \in excused'
  BY DEF Writes, Overtaken, Holds
<1>2. call[c].wrote = {} /\ call[c].todo = {} /\ call[c].mine = {} /\ Dated(c)
  BY DEF SyncInv, Dated
<1>3. /\ clock <= clock' /\ (written # {} => clock' = clock + 1)
      /\ \A p \in Artifacts :
            /\ p \in written => sandbox'.files[p] = clock' /\ clock < sandbox'.files[p]
            /\ p \notin written /\ p \in deleted => sandbox'.files[p] = 0
            /\ p \notin written /\ p \notin deleted => sandbox'.files[p] = sandbox.files[p]
  BY <1>1 DEF Wrote, Numbers
<1>4. /\ sandbox'.alive = sandbox.alive /\ call'[c] = new
      /\ \A d \in Calls \ {c} : call'[d] = call[d]
  BY <1>1 DEF Wrote, Becomes
<1>5. \/ new.pc = "raised" /\ new.wrote = {} /\ written \subseteq excused'
      \/ new.pc = "returned" /\ new.wrote = {} /\ written = {}
      \/ new.pc \in {"after", "copy", "publish"} /\ new.wrote = written /\ new.version = clock'
  BY <1>2 DEF Writes, EndsWith
<1>6. /\ new.version <= clock' /\ new.held <= clock'
      /\ new.pc \notin {"copy", "publish"} => new.todo = {}
      /\ new.pc # "publish" => new.mine = {}
      /\ new.pc = "publish" => new.mine = written /\ new.held = clock'
      /\ new.pc = "copy" => new.todo = written
      /\ new.pc # "after" \/ new.seen = call[c].seen
  BY <1>2, <1>3 DEF Writes, EndsWith, Dated, Numbers
<1>7. \A p \in Artifacts : new.seen[p] <= clock
  BY <1>2 DEF Writes, EndsWith, Dated, Numbers, NoFiles
<1>8. ClockAhead'
  BY <1>3 DEF SyncInv, ClockAhead, Numbers
<1>9. \A d \in Calls : Dated(d)'
  <2>1. Dated(c)'
    BY <1>1, <1>3, <1>4, <1>5, <1>6, <1>7 DEF Dated, Numbers
  <2>2. ASSUME NEW d \in Calls \ {c} PROVE Dated(d)'
    BY <1>3, <1>4 DEF SyncInv, Dated, Numbers
  <2> QED  BY <2>1, <2>2
<1>10. \A d \in Calls : Written(d)'
  <2>1. Written(c)'
    BY <1>1, <1>3, <1>4, <1>5, <1>6 DEF Written, Numbers
  <2>2. ASSUME NEW d \in Calls \ {c} PROVE Written(d)'
    <3>1. call[d].version <= clock /\ Written(d) /\ call[d].wrote \subseteq Artifacts
      BY DEF SyncInv, Dated, Numbers
    <3> QED  BY <1>1, <1>3, <1>4, <3>1 DEF Written, Ended, Numbers
  <2> QED  BY <2>1, <2>2
<1>11. \A d \in Calls : HeldIsCurrent(d)'
  <2>1. HeldIsCurrent(c)'
    <3>1. \A d \in Calls : call'[d].version <= clock'
      BY <1>9 DEF Dated
    <3> QED  BY <1>1, <1>3, <1>4, <1>6, <3>1 DEF HeldIsCurrent, Numbers
  <2>2. ASSUME NEW d \in Calls \ {c} PROVE HeldIsCurrent(d)'
    <3>1. ASSUME NEW p \in call[d].mine, p \notin excused'
          PROVE  /\ sandbox'.files[p] \in {0, call[d].held}
                 /\ \A e \in Calls : p \in call'[e].wrote => call[d].held >= call'[e].version
      <4>1. p \notin written /\ p \notin deleted /\ p \notin excused /\ p \in Artifacts
        BY <1>1, <3>1 DEF Numbers
      <4>2. sandbox'.files[p] = sandbox.files[p] /\ HeldIsCurrent(d)
        BY <1>3, <4>1 DEF SyncInv
      <4>3. \A e \in Calls : p \in call'[e].wrote => e # c
        BY <1>4, <1>5, <4>1
      <4> QED  BY <1>4, <4>1, <4>2, <4>3 DEF HeldIsCurrent
    <3> QED  BY <1>4, <3>1 DEF HeldIsCurrent
  <2> QED  BY <2>1, <2>2
<1>12. \A d \in Calls : WillBePublished(d)'
  <2>1. WillBePublished(c)'
    BY <1>1, <1>3, <1>4, <1>5, <1>6 DEF WillBePublished, Numbers
  <2>2. ASSUME NEW d \in Calls \ {c} PROVE WillBePublished(d)'
    <3>1. ASSUME NEW p \in call[d].wrote, p \notin excused'
          PROVE  \/ published[p] >= call[d].version
                 \/ p \in call[d].todo \cup call[d].mine
                 \/ call[d].pc = "after" /\ (sandbox'.alive => sandbox'.files[p] # 0)
      <4>1. p \in Artifacts /\ p \notin excused /\ WillBePublished(d)
        BY <1>1, <3>1 DEF SyncInv, Numbers
      <4>2. CASE call[d].pc = "after" /\ (sandbox.alive => sandbox.files[p] # 0)
        <5>1. published[p] >= call[d].version \/ p \in Owed(d)
          BY <3>1, <4>1, <4>2 DEF Owed, Ended, Numbers
        <5> QED  BY <1>1, <1>3, <1>4, <3>1, <4>1, <4>2, <5>1 DEF Numbers
      <4> QED  BY <3>1, <4>1, <4>2 DEF WillBePublished
    <3> QED  BY <1>4, <3>1 DEF WillBePublished
  <2> QED  BY <2>1, <2>2
<1>13. InSync'
  <2>1. SUFFICES ASSUME NEW p \in Artifacts \ excused', sandbox'.files[p] # 0,
                        published[p] # sandbox'.files[p]
                 PROVE  \E d \in Calls : p \in Owed(d)'
    BY DEF InSync
  <2>2. CASE p \in written
    <3>1. new.wrote = written /\ new.version = clock' /\ new.pc \in {"after", "copy", "publish"}
      BY <1>5, <2>1, <2>2
    <3>2. published[p] <= clock
      BY DEF SyncInv, ClockAhead
    <3>3. published[p] < new.version
      BY <1>3, <2>2, <3>1, <3>2 DEF Numbers
    <3> QED  BY <1>4, <2>2, <3>1, <3>3 DEF Owed, Ended
  <2>3. CASE p \notin written
    <3>1. sandbox'.files[p] = sandbox.files[p] /\ p \notin excused
      BY <1>1, <1>3, <2>1, <2>3
    <3>2. PICK d \in Calls : p \in Owed(d)
      BY <2>1, <3>1 DEF SyncInv, InSync
    <3>3. d # c
      BY <1>2, <3>2 DEF Owed
    <3> QED  BY <1>4, <3>2, <3>3 DEF Owed, Ended
  <2> QED  BY <2>2, <2>3
<1> QED  BY <1>8, <1>9, <1>10, <1>11, <1>12, <1>13 DEF SyncInv

(* A step that changes neither the files nor what is published, and after  *)
(* which the call that takes it has written nothing.                       *)
LEMMA QuietKeepsSync ==
    ASSUME Numbers, Numbers', SyncInv, NEW c \in Calls,
           sandbox'.files = sandbox.files, sandbox'.alive = sandbox.alive,
           UNCHANGED <<published, clock>>, excused \cup Owed(c) \subseteq excused',
           \A d \in Calls \ {c} : call'[d] = call[d],
           call'[c].wrote = {}, call'[c].todo = {}, call'[c].mine = {},
           call'[c].version <= clock, call'[c].held <= clock,
           \A p \in Artifacts : call'[c].seen[p] <= clock
    PROVE  SyncInv'
<1>1. ClockAhead'
  BY DEF SyncInv, ClockAhead
<1>2. \A d \in Calls : Dated(d)'
  BY DEF SyncInv, Dated
<1>3. \A d \in Calls : Written(d)'
  BY DEF SyncInv, Written, Ended
<1>4. \A d \in Calls : HeldIsCurrent(d)'
  BY DEF SyncInv, HeldIsCurrent
<1>5. \A d \in Calls : WillBePublished(d)'
  BY DEF SyncInv, WillBePublished
<1>6. InSync'
  <2>1. SUFFICES ASSUME NEW p \in Artifacts \ excused', sandbox.files[p] # 0,
                        published[p] # sandbox.files[p]
                 PROVE  \E d \in Calls : p \in Owed(d)'
    BY DEF InSync
  <2>2. PICK d \in Calls : p \in Owed(d)
    BY <2>1 DEF SyncInv, InSync
  <2> QED  BY <2>1, <2>2 DEF Owed, Ended
<1> QED  BY <1>1, <1>2, <1>3, <1>4, <1>5, <1>6 DEF SyncInv

LEMMA EarlyKeepsSync ==
    ASSUME TypeInv, Numbers, Numbers', SyncInv, NEW c \in Calls,
           \/ Begin(c) \/ Resolve(c) \/ Fetch(c) \/ Put(c) \/ Mark(c) \/ Before(c)
    PROVE  SyncInv'
<1>1. PICK new :
          /\ Becomes(c, new)
          /\ \/ Begin(c) /\ new = Started("resolve", new.inputs)
             \/ /\ ~Ended(c)
                /\ \E pc \in EarlySteps, seen \in {call[c].seen, sandbox.files, NoFiles} :
                      new = [call[c] EXCEPT !.pc = pc, !.seen = seen]
          /\ Resolve(c) => new.pc \in {"work", "fetch"}
  BY EarlyBecomes
<1>2. UNCHANGED <<published, excused, clock>>
  BY DEF Begin, Resolve, Fetch, Put, Mark, Before
<1>3. Dated(c) /\ \A p \in Artifacts : sandbox.files[p] <= clock
  BY DEF SyncInv, ClockAhead
<1>4. /\ Owed(c) = {}
      /\ new.wrote = {} /\ new.todo = {} /\ new.mine = {}
      /\ new.version <= clock /\ new.held <= clock
      /\ \A p \in Artifacts : new.seen[p] <= clock
  <2>1. CASE Begin(c)
    <3>1. new = Started("resolve", new.inputs)
      BY <1>1, <2>1 DEF Begin
    <3> QED  BY <2>1, <3>1 DEF Begin, Started, NoFiles, Owed, Numbers
  <2>2. CASE ~Begin(c)
    <3>1. call[c].pc \in {"resolve", "fetch", "put", "mark", "work"}
      BY <2>2 DEF Resolve, Fetch, Put, Mark, Before, Works
    <3>2. call[c].wrote = {} /\ call[c].todo = {} /\ call[c].mine = {} /\ Owed(c) = {}
      BY <1>3, <3>1 DEF Dated, Owed
    <3>3. PICK pc \in EarlySteps, seen \in {call[c].seen, sandbox.files, NoFiles} :
              new = [call[c] EXCEPT !.pc = pc, !.seen = seen]
      BY <1>1, <2>2
    <3>4. \A p \in Artifacts : seen[p] <= clock
      BY <1>3, <3>3 DEF Dated, NoFiles, Numbers
    <3> QED  BY <1>3, <3>2, <3>3, <3>4, Kinds DEF Dated, CallStates
  <2> QED  BY <2>1, <2>2
<1>5. CASE sandbox'.files = sandbox.files /\ sandbox'.alive = sandbox.alive
  BY <1>1, <1>2, <1>4, <1>5, QuietKeepsSync DEF Becomes
<1>6. CASE Resolve(c) /\ cached = 0 /\ ~sandbox.alive
  <2>1. sandbox' = Restored
    BY <1>6 DEF Resolve
  <2>2. \A p \in Artifacts : sandbox'.files[p] = published[p]
    BY <2>1 DEF Restored
  <2>3. \A d \in Calls : call[d].pc \in {"idle", "returned", "raised", "resolve"}
    BY <1>6 DEF TypeInv, CallsResolved, Ended
  <2>4. \A d \in Calls \ {c} : call'[d] = call[d] /\ call[d].mine = {} /\ call[d].todo = {}
    BY <1>1, <2>3 DEF Becomes, SyncInv, Dated
  <2>5. call'[c] = new
    BY <1>1 DEF Becomes
  <2>6. ClockAhead' /\ InSync'
    BY <1>2, <2>2 DEF SyncInv, ClockAhead, InSync
  <2>7. \A d \in Calls : Dated(d)' /\ HeldIsCurrent(d)'
    BY <1>2, <1>4, <2>4, <2>5 DEF SyncInv, Dated, HeldIsCurrent
  <2>8. ASSUME NEW d \in Calls PROVE Written(d)' /\ WillBePublished(d)'
    <3>1. CASE d = c
      BY <1>4, <2>5, <3>1 DEF Written, WillBePublished
    <3>2. CASE d # c
      <4>1. \A p \in call[d].wrote \ excused : published[p] >= call[d].version
        BY <2>3, <2>4, <3>2 DEF SyncInv, WillBePublished
      <4>2. ~Ended(d) => call[d].wrote = {}
        BY <2>3 DEF Ended, SyncInv, Dated
      <4> QED  BY <1>2, <2>2, <2>4, <3>2, <4>1, <4>2 DEF Written, WillBePublished, Ended, Numbers
    <3> QED  BY <3>1, <3>2
  <2> QED  BY <2>6, <2>7, <2>8 DEF SyncInv
<1>7. Resolve(c) /\ ~(cached = 0 /\ ~sandbox.alive) => sandbox' = sandbox
  BY DEF Resolve
<1>8. ~Resolve(c) => sandbox'.files = sandbox.files /\ sandbox'.alive = sandbox.alive
  BY Kinds DEF Begin, Fetch, Put, Mark, Before, Sandboxes
<1> QED  BY <1>5, <1>6, <1>7, <1>8

LEMMA RaiseKeepsSync ==
    ASSUME TypeInv, Numbers, Numbers', SyncInv, NEW c \in Calls, Raise(c)
    PROVE  SyncInv'
<1>1. PICK new : Becomes(c, new) /\ EndsWith(new, "raised", {}, 0)
  BY RaisesBecomes DEF Raise
<1> QED  BY <1>1, QuietKeepsSync DEF Raise, Becomes, EndsWith, NoFiles, Numbers

(* A call that downloads nothing and publishes nothing: the manifest after *)
(* the command has what it wrote, or the diff is excused.                  *)
LEMMA AfterKeepsSync ==
    ASSUME TypeInv, Numbers, Numbers', SyncInv, NEW c \in Calls, After(c)
    PROVE  SyncInv'
<1> DEFINE Goes(manifest, new) ==
          /\ Becomes(c, new)
          /\ excused' = excused \cup IF manifest = sandbox.files THEN {} ELSE call[c].wrote
          /\ LET changed == Changed(call[c].seen, manifest)
             IN  IF changed = {}
                 THEN EndsWith(new, "returned", call[c].wrote, call[c].version)
                 ELSE /\ Same(new, call[c]) /\ new.pc = "copy" /\ new.seen = NoFiles
                      /\ new.todo = changed /\ new.mine = call[c].mine
                      /\ new.held = call[c].held
<1>0. PICK manifest \in Manifests : \E new : Goes(manifest, new)
  BY AfterBecomes
<1>1. PICK new : Goes(manifest, new)
  BY <1>0
<1>2. /\ call[c].pc = "after" /\ ~Ended(c) /\ sandbox.alive
      /\ UNCHANGED <<sandbox, published, clock>>
  BY DEF After, Ended
<1>3. /\ call'[c] = new /\ excused \subseteq excused'
      /\ \A d \in Calls \ {c} : call'[d] = call[d]
  BY <1>1 DEF Becomes
<1>4. Dated(c) /\ call[c].todo = {} /\ call[c].mine = {}
  BY <1>2 DEF SyncInv, Dated
<1>5. /\ new.wrote = call[c].wrote /\ new.version = call[c].version /\ new.mine = {}
      /\ new.held <= clock /\ new.seen = NoFiles
      /\ new.pc = "copy" \/ (new.pc = "returned" /\ new.todo = {})
  BY <1>1, <1>4 DEF EndsWith, Same, Numbers, Dated
(* What the call wrote and the diff does not excuse is in the diff.        *)
<1>6. ASSUME NEW p \in call[c].wrote, p \notin excused', published[p] < call[c].version
      PROVE  new.pc = "copy" /\ p \in new.todo
  <2>1. p \in Artifacts /\ p \notin excused /\ manifest = sandbox.files
    BY <1>1, <1>6 DEF Numbers
  <2>2. sandbox.files[p] # 0
    BY <1>2, <1>4, <1>6, <2>1 DEF SyncInv, WillBePublished, Numbers
  <2>3. sandbox.files[p] >= call[c].version /\ call[c].seen[p] < call[c].version
    BY <1>2, <1>4, <1>6, <2>1, <2>2 DEF SyncInv, Written, Dated
  <2>4. p \in Changed(call[c].seen, manifest)
    BY <2>1, <2>2, <2>3 DEF Changed, Numbers
  <2> QED  BY <1>1, <2>4
<1>7. ClockAhead'
  BY <1>2 DEF SyncInv, ClockAhead
<1>8. \A d \in Calls : Dated(d)'
  <2>1. Dated(c)'
    BY <1>2, <1>3, <1>4, <1>5 DEF Dated, NoFiles, Numbers
  <2>2. \A d \in Calls \ {c} : Dated(d)'
    BY <1>2, <1>3 DEF SyncInv, Dated
  <2> QED  BY <2>1, <2>2
<1>9. \A d \in Calls : Written(d)'
  BY <1>2, <1>3, <1>5 DEF SyncInv, Written, Ended
<1>10. \A d \in Calls : HeldIsCurrent(d)'
  BY <1>2, <1>3, <1>5 DEF SyncInv, HeldIsCurrent
<1>11. \A d \in Calls : WillBePublished(d)'
  <2>1. WillBePublished(c)'
    BY <1>2, <1>3, <1>5, <1>6 DEF WillBePublished, Numbers
  <2>2. \A d \in Calls \ {c} : WillBePublished(d)'
    BY <1>2, <1>3 DEF SyncInv, WillBePublished
  <2> QED  BY <2>1, <2>2
<1>12. InSync'
  <2>1. SUFFICES ASSUME NEW p \in Artifacts \ excused', sandbox.files[p] # 0,
                        published[p] # sandbox.files[p]
                 PROVE  \E d \in Calls : p \in Owed(d)'
    BY <1>2 DEF InSync
  <2>2. PICK d \in Calls : p \in Owed(d)
    BY <1>3, <2>1 DEF SyncInv, InSync
  <2>3. CASE d = c
    <3>1. p \in call[c].wrote /\ published[p] < call[c].version
      BY <2>2, <2>3 DEF Owed
    <3>2. new.pc = "copy"
      BY <1>6, <2>1, <3>1
    <3> QED  BY <1>2, <1>3, <1>5, <3>1, <3>2 DEF Owed, Ended
  <2>4. CASE d # c
    BY <1>2, <1>3, <2>2, <2>4 DEF Owed, Ended
  <2> QED  BY <2>3, <2>4
<1> QED  BY <1>7, <1>8, <1>9, <1>10, <1>11, <1>12 DEF SyncInv

LEMMA CopyKeepsSync ==
    ASSUME TypeInv, Numbers, Numbers', SyncInv, NEW c \in Calls, Copy(c)
    PROVE  SyncInv'
<1>1. PICK new, p :
          /\ Becomes(c, new) /\ Same(new, call[c])
          /\ p \in call[c].todo /\ p \in Artifacts /\ sandbox.files[p] # 0
          /\ new.pc = "publish" /\ new.seen = call[c].seen /\ new.todo = call[c].todo \ {p}
          /\ new.mine = {p} /\ new.held = sandbox.files[p]
  BY CopyBecomes
<1>2. /\ call[c].pc = "copy" /\ ~Ended(c)
      /\ UNCHANGED <<sandbox, published, excused, clock>>
  BY DEF Copy, Ended
<1>3. call'[c] = new /\ \A d \in Calls \ {c} : call'[d] = call[d]
  BY <1>1 DEF Becomes
<1>4. Dated(c) /\ call[c].mine = {} /\ sandbox.files[p] <= clock
  BY <1>1, <1>2 DEF SyncInv, Dated, ClockAhead
<1>5. \A d \in Calls :
          /\ call'[d].wrote = call[d].wrote /\ call'[d].version = call[d].version
          /\ Ended(d)' <=> Ended(d)
  BY <1>1, <1>2, <1>3 DEF Same, Ended
<1>6. ClockAhead'
  BY <1>2 DEF SyncInv, ClockAhead
<1>7. \A d \in Calls : Dated(d)'
  <2>1. Dated(c)'
    BY <1>1, <1>2, <1>3, <1>4 DEF Dated, Same
  <2>2. \A d \in Calls \ {c} : Dated(d)'
    BY <1>2, <1>3 DEF SyncInv, Dated
  <2> QED  BY <2>1, <2>2
<1>8. \A d \in Calls : Written(d)'
  <2>1. Written(c)'
    <3>1. Written(c)
      BY DEF SyncInv
    <3> QED  BY <1>1, <1>2, <1>3, <1>5, <3>1 DEF Written
  <2>2. \A d \in Calls \ {c} : Written(d)'
    BY <1>2, <1>3 DEF SyncInv, Written, Ended
  <2> QED  BY <2>1, <2>2
<1>9. \A d \in Calls : HeldIsCurrent(d)'
  <2>1. HeldIsCurrent(c)'
    <3>1. \A d \in Calls : p \in call[d].wrote \ excused => sandbox.files[p] >= call[d].version
      BY <1>1 DEF SyncInv, Written
    <3> QED  BY <1>1, <1>2, <1>3, <1>5, <3>1 DEF HeldIsCurrent
  <2>2. \A d \in Calls \ {c} : HeldIsCurrent(d)'
    BY <1>2, <1>3, <1>5 DEF SyncInv, HeldIsCurrent
  <2> QED  BY <2>1, <2>2
<1>10. \A d \in Calls : WillBePublished(d)'
  <2>1. WillBePublished(c)'
    <3>1. WillBePublished(c)
      BY DEF SyncInv
    <3>2. call[c].todo \cup call[c].mine \subseteq new.todo \cup new.mine
      BY <1>1, <1>4
    <3> QED  BY <1>2, <1>3, <1>5, <3>1, <3>2 DEF WillBePublished
  <2>2. \A d \in Calls \ {c} : WillBePublished(d)'
    BY <1>2, <1>3 DEF SyncInv, WillBePublished
  <2> QED  BY <2>1, <2>2
<1>11. InSync'
  BY <1>2, <1>5 DEF SyncInv, InSync, Owed
<1> QED  BY <1>6, <1>7, <1>8, <1>9, <1>10, <1>11 DEF SyncInv

(* A publication: the Asset of p has what the call holds. If that is the   *)
(* last there is of p, p is in order again; if not, p was excused before,  *)
(* or the call holds what is in the sandbox.                               *)
LEMMA PublishKeepsSync ==
    ASSUME TypeInv, Numbers, Numbers', SyncInv, NEW c \in Calls, Publish(c)
    PROVE  SyncInv'
<1>1. PICK new, p :
          /\ Becomes(c, new) /\ p \in call[c].mine /\ p \in Artifacts
          /\ published' \in Files /\ published'[p] = call[c].held
          /\ \A q \in Artifacts \ {p} : published'[q] = published[q]
          /\ excused' = IF Settled(c, p) THEN excused \ {p} ELSE excused
          /\ \/ /\ call[c].mine = {p} /\ call[c].todo = {}
                /\ EndsWith(new, "returned", call[c].wrote, call[c].version)
             \/ /\ Same(new, call[c]) /\ new.seen = call[c].seen
                /\ new.todo = call[c].todo /\ new.mine = call[c].mine \ {p}
                /\ new.held = call[c].held
                /\ new.pc = IF call[c].mine = {p} THEN "copy" ELSE "publish"
  BY PublishBecomes
<1>2. call[c].pc = "publish" /\ ~Ended(c) /\ UNCHANGED <<sandbox, clock>>
  BY DEF Publish, Ended
<1>3. call'[c] = new /\ \A d \in Calls \ {c} : call'[d] = call[d]
  BY <1>1 DEF Becomes
<1>4. Dated(c) /\ Written(c) /\ HeldIsCurrent(c)
  BY DEF SyncInv
<1>5. /\ new.wrote = call[c].wrote /\ new.version = call[c].version
      /\ new.mine \subseteq call[c].mine \ {p} /\ (new.mine # {} => new.held = call[c].held)
      /\ new.pc \in {"returned", "copy", "publish"} /\ new.held <= clock
      /\ \A q \in Artifacts : new.seen[q] <= clock
  BY <1>1, <1>4 DEF EndsWith, Same, Dated, Numbers, NoFiles
<1>7. /\ \A q \in Artifacts \ {p} : q \in excused' <=> q \in excused
      /\ Settled(c, p) \/ (p \in excused' <=> p \in excused)
  BY <1>1
(* No other call holds p or has written a later content of it, if p is in  *)
(* order now.                                                              *)
<1>8. ASSUME p \notin excused'
      PROVE  /\ sandbox.files[p] \in {0, call[c].held}
             /\ \A d \in Calls : p \in call[d].wrote => call[c].held >= call[d].version
             /\ p \in excused => \A d \in Calls \ {c} : p \notin call[d].mine
  <2>1. CASE Settled(c, p)
    BY <1>1, <1>4, <2>1 DEF Settled, Holds, Written, Numbers
  <2>2. CASE ~Settled(c, p)
    BY <1>1, <1>4, <1>8, <2>2 DEF HeldIsCurrent
  <2> QED  BY <2>1, <2>2
<1>9. ClockAhead'
  BY <1>1, <1>2, <1>4 DEF SyncInv, ClockAhead, Dated
<1>10. \A d \in Calls : Dated(d)'
  <2>1. Dated(c)'
    BY <1>1, <1>2, <1>3, <1>4, <1>5 DEF Dated, EndsWith
  <2>2. \A d \in Calls \ {c} : Dated(d)'
    BY <1>2, <1>3 DEF SyncInv, Dated
  <2> QED  BY <2>1, <2>2
<1>11. \A d \in Calls : Written(d)'
  <2>1. Written(c)'
    BY <1>2, <1>3, <1>4, <1>5 DEF Written
  <2>2. ASSUME NEW d \in Calls \ {c} PROVE Written(d)'
    <3>1. Written(d) /\ call[d].wrote \subseteq Artifacts
      BY DEF SyncInv, Numbers
    <3>2. ASSUME NEW q \in call[d].wrote, q \notin excused'
          PROVE  sandbox.files[q] = 0 \/ sandbox.files[q] >= call[d].version
      BY <1>7, <1>8, <3>1, <3>2 DEF Written
    <3> QED  BY <1>2, <1>3, <3>1, <3>2 DEF Written, Ended
  <2> QED  BY <2>1, <2>2
<1>12. \A d \in Calls : HeldIsCurrent(d)'
  <2>1. \A d \in Calls : call'[d].wrote = call[d].wrote /\ call'[d].version = call[d].version
    BY <1>3, <1>5
  <2>2. HeldIsCurrent(c)'
    BY <1>2, <1>3, <1>4, <1>5, <1>7, <2>1 DEF HeldIsCurrent, Numbers
  <2>3. ASSUME NEW d \in Calls \ {c} PROVE HeldIsCurrent(d)'
    <3>1. \A q \in call[d].mine : q \in Artifacts /\ (q \notin excused' => q \notin excused)
      BY <1>7, <1>8 DEF Numbers
    <3> QED  BY <1>2, <1>3, <2>1, <3>1 DEF SyncInv, HeldIsCurrent
  <2> QED  BY <2>2, <2>3
<1>13. ASSUME NEW d \in Calls PROVE WillBePublished(d)'
  <2>1. SUFFICES ASSUME NEW q \in call[d].wrote, q \notin excused'
                 PROVE  \/ published'[q] >= call[d].version
                        \/ q \in call'[d].todo \cup call'[d].mine
                        \/ call'[d].pc = "after" /\ (sandbox.alive => sandbox.files[q] # 0)
    BY <1>2, <1>3, <1>5 DEF WillBePublished
  <2>2. CASE q = p
    BY <1>1, <1>8, <2>1, <2>2
  <2>3. CASE q # p
    <3>1. q \in Artifacts /\ q \notin excused /\ published'[q] = published[q]
      BY <1>1, <1>7, <2>1, <2>3 DEF Numbers
    <3>2. CASE d = c
      BY <1>1, <1>2, <1>3, <2>1, <2>3, <3>1, <3>2 DEF SyncInv, WillBePublished
    <3>3. CASE d # c
      BY <1>3, <2>1, <3>1, <3>3 DEF SyncInv, WillBePublished
    <3> QED  BY <3>2, <3>3
  <2> QED  BY <2>2, <2>3
<1>14. InSync'
  <2>1. SUFFICES ASSUME NEW q \in Artifacts \ excused', sandbox.files[q] # 0,
                        published'[q] # sandbox.files[q]
                 PROVE  \E d \in Calls : q \in Owed(d)'
    BY <1>2 DEF InSync
  <2>2. q # p
    BY <1>1, <1>8, <2>1
  <2>3. q \notin excused /\ published'[q] = published[q]
    BY <1>1, <1>7, <2>1, <2>2
  <2>4. PICK d \in Calls : q \in Owed(d)
    BY <2>1, <2>3 DEF SyncInv, InSync
  <2>5. CASE d = c
    <3>1. q \in call[c].wrote /\ published[q] < call[c].version
      BY <2>4, <2>5 DEF Owed
    <3>2. q \in call[c].todo \cup call[c].mine
      BY <1>2, <2>3, <3>1 DEF SyncInv, WillBePublished, Numbers
    <3>3. new.pc # "returned"
      BY <1>1, <2>2, <3>2
    <3> QED  BY <1>3, <1>5, <2>3, <3>1, <3>3 DEF Owed, Ended
  <2>6. CASE d # c
    BY <1>3, <2>3, <2>4, <2>6 DEF Owed, Ended
  <2> QED  BY <2>5, <2>6
<1> QED  BY <1>9, <1>10, <1>11, <1>12, <1>13, <1>14 DEF SyncInv

LEMMA AroundKeepsSync ==
    ASSUME TypeInv, Numbers, Numbers', SyncInv,
           \/ LoseSandbox \/ Restart \/ (\E a \in Inputs : DeleteInput(a)) \/ UNCHANGED vars
    PROVE  SyncInv'
<1>1. CASE LoseSandbox
  <2>1. /\ ~sandbox'.alive /\ \A p \in Artifacts : sandbox'.files[p] = 0
        /\ UNCHANGED <<published, call, excused, clock>>
    BY <1>1, Kinds DEF LoseSandbox, Sandboxes, NoFiles
  <2> QED  BY <2>1 DEF SyncInv, ClockAhead, Dated, Written, HeldIsCurrent, WillBePublished,
                        InSync, Ended, Numbers
<1>2. CASE Restart
  <2>1. /\ \A d \in Calls :
              IF Ended(d) THEN call'[d] = call[d]
              ELSE /\ call'[d].pc = "raised" /\ call'[d].wrote = {} /\ call'[d].todo = {}
                   /\ call'[d].mine = {} /\ call'[d].version = 0 /\ call'[d].held = 0
                   /\ \A p \in Artifacts : call'[d].seen[p] = 0
        /\ excused \subseteq excused' /\ \A d \in Calls : Owed(d) \subseteq excused'
        /\ UNCHANGED <<sandbox, published, clock>>
    BY <1>2, RestartBecomes DEF EndsWith, NoFiles
  <2>2. \A d \in Calls : call'[d].mine = {}
    BY <2>1 DEF SyncInv, Dated, Ended
  <2>3. ClockAhead' /\ \A d \in Calls : Dated(d)' /\ Written(d)' /\ HeldIsCurrent(d)'
    BY <2>1, <2>2 DEF SyncInv, ClockAhead, Dated, Written, HeldIsCurrent, Ended, Numbers
  <2>4. \A d \in Calls : WillBePublished(d)'
    BY <2>1 DEF SyncInv, WillBePublished
  <2>5. InSync'
    BY <2>1 DEF SyncInv, InSync
  <2> QED  BY <2>3, <2>4, <2>5 DEF SyncInv
<1>3. CASE UNCHANGED <<sandbox, published, call, excused, clock>>
  BY <1>3 DEF SyncInv, ClockAhead, Dated, Written, HeldIsCurrent, WillBePublished, InSync,
              Ended, Owed
<1> QED  BY <1>1, <1>2, <1>3 DEF DeleteInput, vars

LEMMA SyncStep ==
    ASSUME TypeInv, SyncInv, [Next]_vars
    PROVE  SyncInv'
<1>1. Numbers /\ Numbers'
  BY NumbersStep
<1>2. ASSUME NEW c \in Calls,
             Run(c) \/ Write(c) \/ Upload(c) \/ Edit(c) \/ Delete(c) \/ Look(c)
      PROVE  SyncInv'
  <2>1. call[c].pc \in {"work", "run"} /\ published' = published
    BY <1>2, WorkWrites
  <2>2. PICK new, written, deleted : Writes(c, new, written, deleted)
    BY <1>2, WorkWrites
  <2> QED  BY <1>1, <2>1, <2>2, WritingKeepsSync
<1>3. ASSUME NEW c \in Calls, CallStep(c)
      PROVE  SyncInv'
  BY <1>1, <1>2, <1>3, EarlyKeepsSync, AfterKeepsSync, CopyKeepsSync, PublishKeepsSync,
     RaiseKeepsSync DEF CallStep
<1> QED  BY <1>1, <1>3, AroundKeepsSync DEF Next

LEMMA AlwaysInSync == Spec => []SyncInv
<1>1. TypeInv /\ SyncInv /\ [Next]_vars => SyncInv'
  BY SyncStep
<1> QED  BY <1>1, AlwaysTyped, SyncInit, PTL DEF Spec

(* The sandbox can be replaced at any time: what an artifact holds there   *)
(* is published, or a call that is under way will publish it, unless its   *)
(* last publication failed or was overtaken; for any number of overlapping *)
(* calls, artifacts, lost sandboxes and restarts (execute, write, edit,    *)
(* upload_files, _publish_artifact, _restore_project_assets).              *)
THEOREM ArtifactsInSync == Spec => []InSync
<1>1. SyncInv => InSync
  BY DEF SyncInv
<1> QED  BY <1>1, AlwaysInSync, PTL

(* An answer never hides a file that the diff of the manifests or the      *)
(* answers of an upload missed: what a call that has returned wrote has    *)
(* been published, with that content or a later one, under the same        *)
(* exceptions (execute, upload_files).                                     *)
THEOREM ReturnedIsPublished == Spec => []ReturnedMeansPublished
<1>1. SyncInv => ReturnedMeansPublished
  BY DEF SyncInv, ReturnedMeansPublished, Dated, WillBePublished
<1> QED  BY <1>1, AlwaysInSync, PTL
================================================================================
