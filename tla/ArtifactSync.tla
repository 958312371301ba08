------------------------------ MODULE ArtifactSync -----------------------------
(***************************************************************************)
(* The files of one Project's sandbox and what the Agent host publishes of *)
(* them (backends/daytona.py): ContextDaytonaSandbox puts the input Assets *)
(* of a run into the sandbox before its first operation, and after every   *)
(* operation publishes the artifacts it changed, from the content it wrote *)
(* or from the difference of two manifests around a command.               *)
(*                                                                         *)
(* Tool calls of the Project's runs overlap and may write or delete the    *)
(* inputs as well, every call to the sandbox or to the Asset store may     *)
(* fail, the sandbox may be lost and the process restarted. A publication  *)
(* is one step here; AssetStore has its calls.                             *)
(***************************************************************************)
EXTENDS Naturals, FiniteSets

CONSTANTS Calls,         \* tool calls under way at once
          Artifacts,     \* paths below /workspace/artifacts
          Outside,       \* a path that is not below /workspace
          Inputs,        \* input Assets of the Project, and their paths
          RunInputs,     \* the sets of them that runs are given
          MaxVersion,    \* bound: contents written
          MaxLosses      \* bound: sandboxes lost

ASSUME Paths == Outside \notin Artifacts \cup Inputs /\ Artifacts \cap Inputs = {}
ASSUME InputSets == RunInputs \subseteq SUBSET Inputs
ASSUME Bounds == MaxVersion \in Nat /\ MaxLosses \in Nat

VARIABLES
    sandbox,     \* the Project's sandbox: its files, by the version of their content,
                 \* the inputs in it, and those that a call has spoiled since
    published,   \* what the ready Asset of an artifact holds, 0 for none
    ready,       \* input Assets that exist and are ready
    cached,      \* the process: the sandbox of _RESOLVED_BACKENDS, 0 for none
    hydrated,    \* the process: _HYDRATED_INPUTS, without the Project
    call,        \* the tool calls
    excused,     \* history: artifacts whose publication failed or was overtaken
    clock        \* versions written so far

vars == <<sandbox, published, ready, cached, hydrated, call, excused, clock>>

Versions == 0 .. MaxVersion     \* 0: no such file
Files == [Artifacts -> Versions]
NoFiles == [p \in Artifacts |-> 0]

(* A call: seen, the manifest before the command; todo, the artifacts to   *)
(* download and publish; mine, those it has the content of, which is held; *)
(* wrote and version, what the call has written.                           *)
Steps == {"idle", "resolve", "fetch", "put", "mark", "work", "run", "after", "copy",
          "publish", "returned", "raised"}

CallStates == [pc : Steps, inputs : SUBSET Inputs, seen : Files,
               todo : SUBSET Artifacts, mine : SUBSET Artifacts, held : Versions,
               wrote : SUBSET Artifacts, version : Versions]

Started(pc, inputs) == [pc |-> pc, inputs |-> inputs, seen |-> NoFiles, todo |-> {},
                        mine |-> {}, held |-> 0, wrote |-> {}, version |-> 0]

Working == {"work", "run", "after", "copy", "publish"}

Ended(c) == call[c].pc \in {"idle", "returned", "raised"}

Init ==
    /\ sandbox = [id |-> 1, alive |-> TRUE, files |-> NoFiles, inputs |-> {}, spoiled |-> {}]
    /\ published = NoFiles
    /\ ready = Inputs
    /\ cached = 0
    /\ hydrated = {}
    /\ call = [c \in Calls |-> Started("idle", {})]
    /\ excused = {}
    /\ clock = 0

(***************************************************************************)
(* What a step of a call does to its record and to the history.            *)
(***************************************************************************)
Physical(path) == path # Outside    \* _physical_path is not None

(* c has the content of p that it is about to publish.                     *)
Holds(c, p) == p \in call[c].mine

(* What c has written and has not published.                               *)
Owed(c) == IF Ended(c) THEN {} ELSE {p \in call[c].wrote : published[p] < call[c].version}

(* An artifact that is written or deleted while another call is publishing *)
(* an older content of it, or deleted before it could be published.        *)
Overtaken(c, written, deleted) ==
    {p \in written \cup deleted : \E d \in Calls \ {c} : Holds(d, p)}
        \cup {p \in deleted : \E d \in Calls \ {c} : p \in Owed(d)}

(* What is kept of a call that has ended is what it wrote.                 *)
End(pc, wrote, version) ==
    [pc |-> pc, inputs |-> {}, seen |-> NoFiles, todo |-> {},
     mine |-> {}, held |-> 0, wrote |-> wrote, version |-> version]

Return(c) == call' = [call EXCEPT ![c] = End("returned", @.wrote, @.version)]

(* The operation of the sandbox writes artifacts and deletes others, and   *)
(* it writes or deletes inputs: those are no longer what was put there.    *)
Change(c, written, deleted, inputs) ==
    LET version == IF written = {} THEN clock ELSE clock + 1
    IN  /\ version <= MaxVersion
        /\ clock' = version
        /\ sandbox' = [sandbox EXCEPT
              !.files = [p \in Artifacts |-> IF p \in written THEN version
                                             ELSE IF p \in deleted THEN 0 ELSE @[p]],
              !.inputs = @ \ inputs,
              !.spoiled = @ \cup (inputs \cap sandbox.inputs)]

Works(c) == call[c].pc = "work" /\ sandbox.alive

(* download_files: the content, 0 when the answer has none.                *)
Downloaded(p) == sandbox.files[p]

(***************************************************************************)
(* ContextDaytonaSandbox._backend                                          *)
(***************************************************************************)
Begin(c) ==
    /\ Ended(c)
    /\ \E inputs \in RunInputs :
          call' = [call EXCEPT ![c] = Started("resolve", inputs)]
    /\ UNCHANGED <<sandbox, published, ready, cached, hydrated, excused, clock>>

Marker(c) == <<cached', call[c].inputs>>

(* _restore_project_assets: the replacement has what is published.         *)
Restored == [id |-> sandbox.id + 1, alive |-> TRUE, files |-> published,
             inputs |-> ready, spoiled |-> {}]

(* get_daytona_backend_for_project, then the look at the hydration marker. *)
Resolve(c) ==
    /\ call[c].pc = "resolve"
    /\ IF cached # 0
       THEN UNCHANGED <<sandbox, cached>>
       ELSE /\ sandbox' = IF sandbox.alive THEN sandbox ELSE Restored
            /\ cached' = sandbox'.id
    /\ call' = [call EXCEPT ![c].pc =
                   IF call[c].inputs = {} \/ Marker(c) \in hydrated THEN "work" ELSE "fetch"]
    /\ UNCHANGED <<published, ready, hydrated, excused, clock>>

(* Mutant: the marker is set when the inputs are known to be ready.        *)
FetchAndMark(c) ==
    /\ call[c].pc = "fetch"
    /\ call[c].inputs \subseteq ready
    /\ hydrated' = hydrated \cup {<<cached, call[c].inputs>>}
    /\ call' = [call EXCEPT ![c].pc = "put"]
    /\ UNCHANGED <<sandbox, published, ready, cached, excused, clock>>

(* require_ready_inputs and the downloads.                                 *)
Fetch(c) ==
    /\ call[c].pc = "fetch"
    /\ call[c].inputs \subseteq ready
    /\ call' = [call EXCEPT ![c].pc = "put"]
    /\ UNCHANGED <<sandbox, published, ready, cached, hydrated, excused, clock>>

(* upload_files; with an error in an answer, only some of them are there.  *)
Put(c) ==
    /\ call[c].pc = "put" /\ sandbox.alive
    /\ \E stored \in SUBSET call[c].inputs :
          /\ sandbox' = [sandbox EXCEPT !.inputs = @ \cup stored, !.spoiled = @ \ stored]
          /\ call' = [call EXCEPT ![c].pc =
                         IF stored = call[c].inputs THEN "mark" ELSE "raised"]
    /\ UNCHANGED <<published, ready, cached, hydrated, excused, clock>>

Mark(c) ==
    /\ call[c].pc = "mark"
    /\ hydrated' = hydrated \cup {<<cached, call[c].inputs>>}
    /\ call' = [call EXCEPT ![c].pc = "work"]
    /\ UNCHANGED <<sandbox, published, ready, cached, excused, clock>>

(***************************************************************************)
(* execute                                                                 *)
(***************************************************************************)

(* list_artifact_manifest: a command that fails gives an empty manifest.   *)
Manifests == {sandbox.files, NoFiles}

(* Mutant: only paths that were not there before.                          *)
ChangedNew(before, after) == {p \in Artifacts : after[p] # 0 /\ before[p] = 0}

(* after.items() that are not the same in before.                          *)
Changed(before, after) == {p \in Artifacts : after[p] # 0 /\ before[p] # after[p]}

Before(c) ==
    /\ Works(c)
    /\ \E manifest \in Manifests :
          call' = [call EXCEPT ![c].pc = "run", ![c].seen = manifest]
    /\ UNCHANGED <<sandbox, published, ready, cached, hydrated, excused, clock>>

(* The command, whatever its exit code; it may also raise half-way.        *)
Run(c) ==
    /\ call[c].pc = "run" /\ sandbox.alive
    /\ \E written, deleted \in SUBSET Artifacts, inputs \in SUBSET Inputs :
          /\ written \cap deleted = {}
          /\ Change(c, written, deleted, inputs)
          /\ \/ /\ call' = [call EXCEPT ![c].pc = "after", ![c].wrote = written,
                                        ![c].version = clock']
                /\ excused' = excused \cup Overtaken(c, written, deleted)
             \/ /\ call' = [call EXCEPT ![c] = End("raised", {}, 0)]
                /\ excused' = excused \cup Overtaken(c, written, deleted) \cup written
    /\ UNCHANGED <<published, ready, cached, hydrated>>

After(c) ==
    /\ call[c].pc = "after" /\ sandbox.alive
    /\ \E manifest \in Manifests :
          LET changed == Changed(call[c].seen, manifest)
          IN  /\ IF changed = {} THEN Return(c)
                 ELSE call' = [call EXCEPT ![c] =
                                  [@ EXCEPT !.pc = "copy", !.seen = NoFiles,
                                            !.todo = changed]]
              /\ excused' = excused \cup IF manifest = sandbox.files THEN {}
                                         ELSE call[c].wrote
    /\ UNCHANGED <<sandbox, published, ready, cached, hydrated, clock>>

(***************************************************************************)
(* write, edit, upload_files and delete                                    *)
(***************************************************************************)

(* The content to publish is the argument of the call; only artifacts are. *)
PublishGiven(c, written, todo) ==
    IF todo = {} THEN call' = [call EXCEPT ![c] = End("returned", written, clock')]
    ELSE call' = [call EXCEPT ![c] =
                     [@ EXCEPT !.pc = "publish", !.mine = todo, !.held = clock',
                               !.wrote = written, !.version = clock']]

Write(c) ==
    /\ Works(c)
    /\ \/ \E p \in Artifacts \cup Inputs :
             LET written == {p} \cap Artifacts
             IN  /\ Change(c, written, {}, {p} \cap Inputs)
                 /\ PublishGiven(c, written, written)
                 /\ excused' = excused \cup Overtaken(c, written, {})
       \/ Return(c) /\ UNCHANGED <<sandbox, excused, clock>>     \* an error
    /\ UNCHANGED <<published, ready, cached, hydrated>>

(* Mutant: the answers are taken by the position in the whole batch.       *)
ResponsesByPosition(paths, delegated) ==
    [i \in DOMAIN paths |->
        IF Physical(paths[i]) /\ i \in DOMAIN delegated THEN delegated[i] ELSE "error"]

(* Where the sandbox's answer for the i-th file stands among its answers.  *)
Rank(paths, i) == Cardinality({j \in 1 .. i : Physical(paths[j])})

(* upload_files answers for every file; the sandbox is asked for the valid *)
(* ones only, and answers in their order.                                  *)
Responses(paths, delegated) ==
    [i \in DOMAIN paths |->
        IF Physical(paths[i]) THEN delegated[Rank(paths, i)] ELSE "invalid_path"]

Upload(c) ==
    /\ Works(c)
    /\ \E p, q \in Artifacts \cup Inputs \cup {Outside} :
          LET paths == <<p, q>>
          IN  /\ p # q
              /\ \E delegated \in [1 .. Rank(paths, 2) -> {"ok", "error"}] :
                    LET stored == {paths[i] : i \in {j \in 1 .. 2 :
                                      Physical(paths[j]) /\ delegated[Rank(paths, j)] = "ok"}}
                        written == stored \cap Artifacts
                        answers == Responses(paths, delegated)
                        todo == {paths[i] : i \in {j \in 1 .. 2 : answers[j] = "ok"}}
                    IN  /\ Change(c, written, {}, stored \cap Inputs)
                        /\ PublishGiven(c, written, todo \cap Artifacts)
                        /\ excused' = excused \cup Overtaken(c, written, {})
    /\ UNCHANGED <<published, ready, cached, hydrated>>

Edit(c) ==
    /\ Works(c)
    /\ \/ \E p \in Artifacts :
             /\ sandbox.files[p] # 0
             /\ Change(c, {p}, {}, {})
             /\ call' = [call EXCEPT ![c].pc = "copy", ![c].todo = {p},
                                     ![c].wrote = {p}, ![c].version = clock']
             /\ excused' = excused \cup Overtaken(c, {p}, {})
       \/ \E a \in sandbox.inputs :
             Change(c, {}, {}, {a}) /\ Return(c) /\ excused' = excused
    /\ UNCHANGED <<published, ready, cached, hydrated>>

(* ls, read, grep, glob, download_files: an operation that only looks.     *)
Look(c) ==
    /\ Works(c)
    /\ Return(c)
    /\ UNCHANGED <<sandbox, published, ready, cached, hydrated, excused, clock>>

(* Nothing is withdrawn for what is deleted: neither the Asset of an       *)
(* artifact nor the marker of an input.                                    *)
Delete(c) ==
    /\ Works(c)
    /\ \E p \in Artifacts \cup Inputs :
          LET deleted == {p} \cap Artifacts
          IN  /\ Change(c, {}, deleted, {p} \cap Inputs)
              /\ excused' = excused \cup Overtaken(c, {}, deleted)
    /\ Return(c)
    /\ UNCHANGED <<published, ready, cached, hydrated>>

(***************************************************************************)
(* _publish_artifact                                                       *)
(***************************************************************************)
(* Mutant: a download without content is published.                        *)
CopyUnchecked(c) ==
    /\ call[c].pc = "copy" /\ sandbox.alive
    /\ \E p \in call[c].todo :
          call' = [call EXCEPT ![c].pc = "publish", ![c].todo = @ \ {p},
                               ![c].mine = {p}, ![c].held = Downloaded(p)]
    /\ UNCHANGED <<sandbox, published, ready, cached, hydrated, excused, clock>>

Copy(c) ==
    /\ call[c].pc = "copy" /\ sandbox.alive
    /\ \E p \in call[c].todo :
          /\ Downloaded(p) # 0
          /\ call' = [call EXCEPT ![c].pc = "publish", ![c].todo = @ \ {p},
                                  ![c].mine = {p}, ![c].held = Downloaded(p)]
    /\ UNCHANGED <<sandbox, published, ready, cached, hydrated, excused, clock>>

(* The last publication of p leaves nothing behind that would overtake it. *)
Settled(c, p) ==
    /\ call[c].held = sandbox.files[p]
    /\ \A d \in Calls \ {c} :
          ~Holds(d, p) /\ (p \in call[d].wrote => call[d].version <= call[c].held)

Publish(c) ==
    /\ call[c].pc = "publish"
    /\ \E p \in call[c].mine :
          /\ published' = [published EXCEPT ![p] = call[c].held]
          /\ excused' = IF Settled(c, p) THEN excused \ {p} ELSE excused
          /\ IF call[c].mine = {p} /\ call[c].todo = {}
             THEN Return(c)
             ELSE call' = [call EXCEPT ![c].mine = @ \ {p},
                              ![c].pc = IF call[c].mine = {p} THEN "copy" ELSE "publish"]
    /\ UNCHANGED <<sandbox, ready, cached, hydrated, clock>>

(* A call to the Asset store or to the sandbox raises, for example because *)
(* the sandbox is gone or the file to download is.                         *)
Raise(c) ==
    /\ ~Ended(c)
    /\ call' = [call EXCEPT ![c] = End("raised", {}, 0)]
    /\ excused' = excused \cup Owed(c)
    /\ UNCHANGED <<sandbox, published, ready, cached, hydrated, clock>>

(***************************************************************************)
(* Around the calls                                                        *)
(***************************************************************************)
LoseSandbox ==
    /\ sandbox.alive /\ sandbox.id <= MaxLosses
    /\ sandbox' = [sandbox EXCEPT !.alive = FALSE, !.files = NoFiles,
                                  !.inputs = {}, !.spoiled = {}]
    /\ UNCHANGED <<published, ready, cached, hydrated, call, excused, clock>>

Restart ==
    /\ cached' = 0
    /\ hydrated' = {}
    /\ call' = [c \in Calls |-> IF Ended(c) THEN call[c]
                                ELSE End("raised", {}, 0)]
    /\ excused' = excused \cup UNION {Owed(c) : c \in Calls}
    /\ UNCHANGED <<sandbox, published, ready, clock>>

DeleteInput(a) ==
    /\ a \in ready
    /\ ready' = ready \ {a}
    /\ UNCHANGED <<sandbox, published, cached, hydrated, call, excused, clock>>

CallStep(c) ==
    \/ Begin(c) \/ Resolve(c) \/ Fetch(c) \/ Put(c) \/ Mark(c)
    \/ Before(c) \/ Run(c) \/ After(c)
    \/ Write(c) \/ Upload(c) \/ Edit(c) \/ Delete(c) \/ Look(c)
    \/ Copy(c) \/ Publish(c) \/ Raise(c)

Next ==
    \/ \E c \in Calls : CallStep(c)
    \/ \E a \in Inputs : DeleteInput(a)
    \/ LoseSandbox
    \/ Restart

Spec == Init /\ [][Next]_vars

-----------------------------------------------------------------------------
(* Every variable holds values of its kind.                                *)
TypeOK ==
    /\ sandbox \in [id : 1 .. MaxLosses + 1, alive : BOOLEAN, files : Files,
                    inputs : SUBSET Inputs, spoiled : SUBSET Inputs]
    /\ published \in Files
    /\ ready \subseteq Inputs
    /\ cached \in 0 .. sandbox.id
    /\ hydrated \subseteq (1 .. sandbox.id) \X SUBSET Inputs
    /\ call \in [Calls -> CallStates]
    /\ \A c \in Calls :
          call[c].pc = "publish" => call[c].mine # {} /\ call[c].held # 0
    /\ excused \subseteq Artifacts
    /\ clock \in Versions

(* An artifact in the sandbox is what its ready Asset holds, so that the   *)
(* sandbox can be replaced at any time, unless a call that wrote it is     *)
(* still to publish it, or its last publication failed or was overtaken    *)
(* by another call's change (execute, write, edit, upload_files,           *)
(* _publish_artifact, _restore_project_assets).                            *)
InSync ==
    \A p \in Artifacts \ excused :
        sandbox.files[p] # 0 /\ published[p] # sandbox.files[p]
            => \E c \in Calls : p \in Owed(c)

(* When a tool call has answered, each artifact it wrote has been          *)
(* published with that content or a later one, under the same exceptions:  *)
(* an answer never hides a file that the diff or the answers of an upload  *)
(* missed (execute, upload_files).                                         *)
ReturnedMeansPublished ==
    \A c \in Calls : call[c].pc = "returned" =>
        \A p \in call[c].wrote \ excused : published[p] >= call[c].version

(* An input that an operation works without was in its sandbox, and a tool *)
(* call of the agent has written or deleted it since: hydration itself     *)
(* leaves out none, however calls that hydrate the same inputs overlap,    *)
(* fail, follow a restart or find the sandbox replaced. Later operations   *)
(* do not put back what is spoiled: nothing withdraws the marker           *)
(* (_backend, _HYDRATED_INPUTS).                                           *)
InputsHydrated ==
    \A c \in Calls :
        sandbox.alive /\ call[c].pc \in Working
            => call[c].inputs \subseteq sandbox.inputs \cup sandbox.spoiled
================================================================================
