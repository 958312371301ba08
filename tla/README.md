# A verification development for LangAlphaNext

LangAlphaNext is a research assistant: a browser application, a stateless FastAPI
backend (the BFF), a LangGraph Agent Server that runs the agent, Supabase (two
tables and a bucket) and Daytona sandboxes.  Almost every operation is a chain of
calls to services that other processes call at the same time, without transactions
across them.  What makes the system right is therefore the order of those calls, the
conditions in the few compare-and-set statements, and what each handler does when a
call fails.  That is what the modules here describe.

Paths below are relative to the repository; `langalpha/...` stands for
`src/langalpha/...` and `web/...` for the browser's sources.  Files:

| module | what it is |
| --- | --- |
| `ProjectRow` | the row of a Project and the statements run against it |
| `SandboxBinding` | hosts that find, create, recover and bind a Project's sandbox |
| `Workspace` | abstract: what the hosts promise about a Project's workspace |
| `ProjectDeletion` | `SandboxBinding` composed with overlapping deletion requests |
| `ProjectDeletionProofs` | theorems about `SandboxBinding` and `ProjectDeletion`, for any hosts, sandboxes and requests |
| `AssetStore` | one Asset, its row and its objects |
| `AssetStoreProofs` | theorems about `AssetStore` |
| `ThreadRuns`, `ThreadRunsProofs` | one Thread, its runs and researchers, and the requests on it, with theorems |
| `ThreadBranches`, `ThreadBranchesProofs` | the tree of checkpoints of a Thread and what the routes read out of it, with theorems |
| `EventStream` | one run streamed to a browser over connections that break, and its snapshots |
| `ResearchWorkspace` | the browser's workspace: selection, snapshots, streams, late answers |
| `ResearchWorkspaceProofs` | theorems about `ResearchWorkspace` |
| `ArtifactSync`, `ArtifactSyncProofs` | the files of a sandbox: hydration of inputs, publication of artifacts, with theorems |
| `ApiClient` | the browser's session, its refresh and retries |
| `BrowserProofs` | theorems about `EventStream` and `ApiClient` |
| `CapabilityGateway` | the budget of calls of a turn |
| `Capabilities` | the domain tools: admission, requests, retries, datasets; extends `CapabilityGateway` |
| `Selections`, `Excerpts` | which rows of a provider, and which pieces of a filing, the tools answer with |
| `TurnBudgets` | the budgets of a turn that are counted from its messages |
| `ResearcherTasks` | what the main agent knows of its researchers |
| `AgentProofs` | theorems about the six modules above |
| `MC...` | instances for TLC; the `.cfg` files give the constants their values |

## 1. Inventory

For each part: its state, its operations, how it interacts, what is hard, and what
makes it right.  The status of each part is in `PROJECT.json`.

**Project rows** (`langalpha/projects/store.py`, `projects` table).  State: status
(`active`, `deleting`, `deleted`) and `sandbox_id`.  Operations: create, rename,
`bind_sandbox` (read, update where null, read back), `replace_sandbox` (update where
active and still bound to the missing one, read back), `mark_deleting`,
`delete_project` (a tombstone without a sandbox).  Used by the BFF and by every Agent
host.  Hard: the three calls of a bind interleave with other hosts and with a deletion.
Right when: the binding is written once and moves only away from a missing sandbox.

**Sandbox resolution** (`langalpha/backends/daytona.py`, `get_daytona_backend_for_project`).
State: per process `_RESOLVED_BACKENDS` under `_LOCK`; in Daytona the sandboxes with the
Project's labels.  Operation: one long function that reads the cache, gets the expected
sandbox, lists by labels, creates, prepares, restores the durable Assets, binds or
replaces, and cleans up.  The expected sandbox comes from the `RunContext` the BFF made
when the run was enqueued, so it may be old.  Hard: several hosts, lost replies, crashes
between create and bind, sandboxes that vanish.  Right when: all Threads of a Project
share one live workspace, caches agree with the row, recovery loses no durable Asset.

**Project deletion** (`langalpha/server/routes/projects.py`).  State: none but the row;
a request keeps the row it read.  Operations: mark, cancel runs and delete Threads, delete
Assets, delete the sandbox, tombstone.  Hard: hosts go on binding meanwhile, any step may
fail, requests overlap and are retried.  Right when: a retried deletion completes, the
tombstone leaves no sandbox behind, no recovery revives a Project under deletion.

**Asset registry** (`langalpha/assets/store.py`, `web/features/assets/upload.ts`, `assets`
table and the private bucket).  State: a row (status, path and checksum of one content)
and immutable objects per content.  Operations: `publish_artifact` by hosts, `create_upload`
and `complete_upload` with the browser's direct upload in between, `delete_asset`.  Hard:
row and object are written in different services; writes to the row are by id alone; old
objects are removed after the fact.  Right when: a ready row names a stored object, a
failure takes nothing back, publishing can be retried.

**Artifact tracking and hydration** (`ContextDaytonaSandbox` in `daytona.py`).  State:
`_BOUND_EVENTS`, `_HYDRATED_INPUTS`; the artifact directory.  Operations: a manifest before
and after `execute`, publication of what differs, hydration of inputs once per (Project,
sandbox, inputs).  Hard: two tool calls at once, a manifest that fails reads as empty, a
marker that outlives the files.  Right when: a tool call that has answered has published
what it wrote, and hydration leaves out none of a run's inputs.  (Nothing puts back what a tool
call then deletes: section 10.)

**Threads and runs** (`langalpha/server/routes/runs.py`, `threads.py`, `agent_gateway.py`,
`async_task_lifecycle.py`; the Agent Server holds the state).  Operations: create, resume
and cancel a run, delete a Thread; the view of a run's status is computed from three
separate reads.  Hard: the check of a request and its effect are different calls; runs
start researchers while they are being cancelled; pages by offset over a changing order.
Right when: cancelling and deleting reach everything they know of, and a Thread that waits
for input can be answered.

**Researchers** (`langalpha/agent/async_subagents.py`).  State: a Thread with a run per
researcher, labelled with the parent's Thread and turn; in the main agent's state a record
per task.  Operations: start (two calls and a cleanup), check, Deep Agents' update and cancel,
cancellation and deletion from the parent's handlers.  Hard: the calls of one step of the
agent work on the records as the step found them and are merged afterwards; replies are
lost; a step is stopped.  Right when: a record never claims an end that was not, and says
which run is the newest.

**Thread branches** (`langalpha/server/thread_branches.py`).  Pure functions over the tree
of checkpoints: the leaves, the chain of a branch, its runs, the latest user message to
edit.  Right when: what they return belongs to the selected branch.

**Event stream** (`routes/runs.py: stream_run, get_snapshot`, `activity_projection.py`,
`public_projection.py`, `web/domain/agent-events.ts`).  State: the upstream cursor, the
browser's fold over events deduplicated by id.  Hard: reconnection in the middle of the
events of one part, snapshot and stream that overlap, terminal events.  Right when: messages
appear in order and once, nothing is lost behind the cursor, and the end of a run is shown.

**Research workspace of the browser** (`web/features/research/useResearchWorkspace.ts`).
State: selected Project and Thread in refs, the number of the latest snapshot request, one
EventSource.  Hard: answers that arrive after the selection has changed, cancel against
completion against a new submission.  Right when: what is shown belongs to what is selected.

**Capability gateway** (`langalpha/capabilities/gateway.py`).  State: an ordered map of at
most 2,000 (scope, capability) counters.  Right when: a run makes at most its budget of
calls, which holds only while its key is not forgotten.

**Capabilities** (`langalpha/capabilities/`, `langalpha/integrations/mcp.py`, the retry
middleware of `agent/factory.py`).  State: none of their own but the gateway's counters and
the dataset files in the sandbox.  Operations: ten domain tools over SEC, Massive and FRED;
web search and MCP tools, whose budgets are counted from the messages of the turn.  Hard:
requests of one attempt leave together and fail one by one, attempts are repeated, calls of
one message of the model run side by side; overlapping occurrences, limits and missing dates.
Right when: a budget bounds what a provider sees, an answer's dataset exists, and what a tool
leaves out is what it was asked to leave out.

**API client** (`web/shared/api/api-client.ts`).  State: session and one refresh promise.
Right when: overlapping requests share one refresh and none refreshes for ever.

The remaining parts (agent assembly, authentication, configuration, views, evaluations) compute one answer from one input or configure
libraries; they are listed in `PROJECT.json` with the reason they are left out.

## 2. Sandboxes: `ProjectRow`, `SandboxBinding`, `Workspace`

`ProjectRow` holds each SQL statement as a WHERE predicate and a SET function of the row,
so the modules that use it choose the step each is evaluated in.

`SandboxBinding` runs the resolution on several `Hosts` against one row and one Daytona
account.  **A step is one remote call with the decision taken on its answer.**  `host[h]`
is the local state of the resolution in progress (`step`, `expected_sandbox_id`,
`missing_sandbox_id`, `existing`, `created_replacement`, the winner read back).  `_LOCK` is
held from the cache lookup to the end, so a host has one resolution at a time; hosts
interleave at every call.  The steps follow the function from top to bottom:

| action | code in `daytona.py` / `store.py` |
| --- | --- |
| `StartUncached`, `StartCached` | the cache lookup at the head of the function |
| `GetExpected`, `ListLabelled`, `Create` | `client.get`, `client.list`, `client.create` |
| `Prepare`, `Restore` | `_ensure_started` and `mkdir`; `_restore_project_assets` |
| `BindRead`, `BindWrite`, `BindReread` | `bind_sandbox` |
| `Replace`, `ReplaceReread` | `replace_sandbox` |
| `Discard`, `Adopt` | the loser deletes its replacement and takes the winner's |
| `Raise`, `CleanUp` | any call raises; `except Exception` deletes the replacement |
| `Restart`, `Lose` | a process ends; Daytona loses a sandbox |
| `CreateRun` | the BFF copies the binding into a run's context |

Abstractions.  `contexts` is the set of `expected_sandbox_id`s of runs that may still call
a tool; runs are not told apart and never leave it.  `_restore_project_assets` is one
step whose only outcomes are "every ready Asset is there" and an exception.  Daytona's archive
and start states are inside `Prepare`.  Whether Daytona refuses a second sandbox with the
same (deterministic) name is a question about an external service: the name suggests it
does, `tests/test_daytona.py` (line 674) builds a case with two.  `UniqueNames` is a constant:
the theorems hold for both values, the run of `SandboxBinding` takes the weaker one (`FALSE`).  `LostReplies` lets an effect happen and the
call raise.

Properties.  `CacheFollowsBinding`: a live cached sandbox is the one the row names.
`OneWorkspace`: two hosts never answer with two different live sandboxes.
`ImplementsWorkspace`: with the row's binding, the sandboxes that are gone and those
restored into as the refinement mapping, every step is a step of `Workspace`, where the
binding is written once and moves only from a sandbox that is gone to one that holds the
durable Assets.

* `SandboxBinding.cfg` (pass): two hosts and four sandboxes (`s1` bound, then lost, and two
  rival replacements, with one to spare for a second recovery), lost replies, names that do
  not exclude each other.  Each property speaks of at most two hosts, and a rival a third host could
  create is one a host leaves behind when it restarts.  The theorems remove the bound.
* `CleanupRace.cfg` (violation): the cleanup of a failed recovery deletes the sandbox another
  host has meanwhile found by its labels and bound.  No lost reply is needed.

A cached backend is answered without a call to Daytona (`StartCached`), so a host whose cached
sandbox is gone does not find out until its process ends; `CacheFollowsBinding` therefore speaks of
live sandboxes only.

## 3. Proofs about sandboxes: `ProjectDeletionProofs`, first part

Proved for every set of hosts and of sandboxes, both values of `UniqueNames` and
`LostReplies`, and from the assumptions `NoSandbox \notin Sandboxes` and that those two are
Booleans:

* `TypeCorrect`: `Spec => []TypeOK`;
* `CacheFollows`: `Spec => []CacheFollowsBinding`;
* `OneWorkspaceHolds`: `Spec => []OneWorkspace`;
* `HostsImplementWorkspace`: `Spec => ImplementsWorkspace`.

`CacheFollowsBinding` is not inductive.  A host writes a sandbox into its cache on the
strength of locals it gathered several calls ago, and those must still mean something by
then.  The invariant is

    BindingInv == TypeOK /\ KnownOK /\ LocalsOK
                  /\ (Visible(row) => CacheFollowsBinding)

`KnownOK` says that every sandbox anyone remembers (the row, a run's context, a host's expected or
current sandbox) has been handed out by Daytona, so that `Create` can never hand it out again.
`LocalsOK` says what a host's locals are worth at each step: a sandbox found missing is still gone;
a sandbox about to be bound as a replacement has been restored into; the winner read
back is *settled*, that is, it is the binding or it is gone by now.  Settled is stable because the binding moves
only away from a sandbox that is gone (`BindingMoves`) and what is gone stays gone
(`GoneStaysGone`), which gives `SettledStaysSettled`.  `KnownPreserved` and `LocalsPreserved`
(with `OnlyOneHostMoves` for the hosts that do not take the step) and `CachesSettled` make up
`BindingPreserved`; each has one case per action.  `OneWorkspace` follows from
`CacheFollowsBinding` without another induction.  The last theorem maps each step: only
`BindWrite` and `Replace` change the binding, and there the invariant gives "unbound before", or
"gone before and restored now".

The status matters only for deletion, which is `ProjectDeletion`'s; in `Spec` the row is
always visible (`AlwaysVisible`).

## 4. Deleting a Project: `ProjectDeletion`

It extends `SandboxBinding`; the hosts' steps are unchanged and the deletion's are added, so the
two interleave at every call.  `deletion[d]` is a request's step and the row it read.
`Accept` is `require_project`, `Mark` is `mark_deleting`, `StopRuns` the loops that
cancel runs and delete Threads, `RemoveSandbox` is `delete_daytona_sandbox` *on the row as
first read*, `FinishDeletion` the tombstone, `Abort` an exception or lost reply in any of them.

Abstractions.  `StopRuns` is one step that leaves any subset of the contexts: a tool call
on a worker thread (`asyncio.to_thread`) survives the cancellation of its run.  The loop over
Assets is not in this module.  The BFF also drops its own process's cache entry, which in a
deployment where BFF and Agent Server are different processes is never the one that matters.

* `ProjectDeletion.cfg` (pass): two requests, two hosts, two sandboxes.
  `NoRecoveryWhileDeleting`, `FinishesOnlyWithoutItsSandbox`, `OneWorkspaceUntilDeleted`.
  Two sandboxes are what a recovery during a deletion takes (the bound one and the
  one that would take its place).
* `DeletionProgress.cfg` (pass): `DeletionCompletesOrSandboxGone` under `FairDeletionSpec`:
  the request is always sent again when it has failed (`WF` on `Accept`, the user or a
  retrying client) and each call is eventually answered if made again and again (`SF`).
  Hosts get no fairness: they may do anything at any time or nothing.  The disjunct "sandbox
  gone" is not a convenience: `delete_daytona_sandbox` asks Daytona for the sandbox first and
  an answer of "not found" is an exception there, so a deletion that failed between the
  removal of the sandbox and the tombstone fails at the same place every time it is repeated.
* `DeletionLeavesSandbox.cfg` (violation): a host binds a first sandbox after the handler has
  read the row; the tombstone then forgets a live sandbox.

The second part of `ProjectDeletionProofs` proves the safety properties of `ProjectDeletion.cfg` for any hosts,
sandboxes and requests: `DeletionTypeCorrect`, `OneWorkspaceUnderDeletion`,
`TombstoneAfterSandbox`, `DeletionStopsRecovery`.  The invariant is `BindingInv` of section 3 with the type of
the requests' locals.  A host's step keeps it by the lemmas there; a request's step
keeps it because it only removes sandboxes, forgets contexts, marks a visible row, or makes it a
tombstone (`DeletionTouches`), and `BindingInv` speaks of caches only while the row is visible.
`TombstoneAfterSandbox` is inductive over it by `GoneStaysGoneInDeletion`: only `RemoveSandbox`
leads to `finishing`.

## 5. Assets: `AssetStore`

One Asset.  For a fixed Asset only the checksum varies in an object's path, so a *content*
stands for a checksum and a path.  `asset` is the row, `stored[c]` the object at c's path
(`none`, `intact`, or `damaged` when the browser uploaded other bytes than announced).
`publish[p]`, `complete[u]` and `delete[d]` are calls in progress, one remote call per step;
`ticket` is the signed URL of `create_upload`.  The role (`input` or `artifact`) is chosen
initially and decides which operations apply.  Two history variables state exceptions in
the properties: `doomed` (contents a deletion set out to remove) and `contested` (contents
a publication was removing as superseded while another publication ran).

* `AssetStore.cfg` (pass): two publishers, one completion, one deletion, two contents.
  `ReadyMeansStored`, `ReadyIsNotWithdrawn`, and under `FairSpec` `PublishingSucceeds`: a
  *persistent* publisher `p1` keeps calling (the agent writes its artifact again) and its calls are
  eventually answered; `p2` and the deletion have no fairness and may interfere for ever.  Two contents are
  what a replacement takes, two publishers what an overlap takes.
* `ArtifactRace.cfg` (violation): the exception `contested` is needed.  Publication A replaces
  c1 by c2; before it removes c1, publication B makes c1 current again, finding its object
  already there; A then removes it.

`AssetStoreProofs` proves `TypeCorrect`, `ReadyIsStored` and `ReadyStays` (the safety
properties of `AssetStore.cfg`) for any numbers of contents and calls.  `ReadyMeansStored` is not
inductive; `StoreInv` adds why each writer of "ready" may write it and why each removal is harmless:
`RowExists` (whoever is past its first step works on a row that exists), `RolesApart` (an
Asset is uploaded or published, never both, so publications meet no damaged object),
`RemovalsOK` (what is about to be removed as superseded is neither the row's content nor wanted by a
publication under way, unless contested), and `VerdictsOK` (a content about to be marked ready is stored, one
about to be marked failed is damaged).  `KeptStaysKept` is the lemma all of them meet in: an object
disappears only when its content is one of the exceptions or is being superseded.

A deletion has a gap of its own that no document rules out, so no run is about it: `complete_upload`
writes its verdict by id, and an Asset deleted since its check comes back as ready without
an object (the reason for `doomed`).

## 6. Threads and runs: `ThreadRuns`

One main Thread.  `runs` is the sequence of runs the Agent Server keeps (status, turn, the
run it resumes), `thread.waiting` whether its state holds interrupts, `task[t]` a researcher's
Thread with its launch, `recent` the order in which searches return the researchers' Threads
(latest update first), as the set of pairs of which the first comes before the second, `request[q]` a handler with its locals.

The Agent Server is external and modelled from how the code uses it: it runs one run of a Thread
at a time in order (`StartRun`, `FinishRun`); `multitask_strategy="interrupt"` stops what is active
before it adds a run; a pause for input is a *successful* run that leaves interrupts
behind, and a cancelled run is `interrupted` (comment at `agent_gateway.py:27`).
`Launch`, `MakeThread`, `MakeRun`, `LaunchFails` are `start_async_task`; a call that
was sent still takes effect when its run has been stopped.  `BeginCreate`/`CreateRun`,
`BeginResume`/`ResumeRun`, `BeginCancel`/`CancelRun`, `BeginDelete`/`FindRuns`/`CancelFound`/`DeleteThread`
are the handlers, and `ListPage`, `VisitTask`, `AllVisited`, `CancelTask`, `DeleteTask` are
`child_threads` and `cancel_child_tasks`, shared by cancellation and deletion.

Abstractions.  The researchers on the list are visited in any order.  The three reads of
`gateway.run` are one step.  A list of runs has no limit (100 in the code), which the bound on runs
makes immaterial.  A researcher's Thread has one run.  Branches, edits and attached Assets of
`create_run` are in `ThreadBranches`.

* `ThreadRuns.cfg` (pass): two requests, two runs, two researchers, pages of two, so that a full
  page is followed by an empty one.  `CancelReachesTurn`: when a cancellation answers, no researcher
  of the turn is active that was launched by a run already over when the sweep began, unless its
  launch was in flight then.  `DeletionReachesKnown`: the same for the existence of Threads after a
  deletion.  Two requests are what an overlap takes (two deletions, a cancellation with a
  deletion); two runs allow a resumed run, whose turn has two runs, and a run enqueued behind a
  deletion's back.  Both properties except launches in flight because the code has no
  way to reach those: `docs/architecture.md:124-126` promises it without the exception.
  The page holds every researcher of the run.  With more researchers than a page (100 in the
  code) one that is updated between two pages moves to the front and is skipped, and neither
  property holds.
* In the same run, `WaitingIsShown`: a Thread that waits for an answer has a run shown as
  waiting for it, unless its newest run was stopped.  The exception is a behaviour of the code: a
  run enqueued before the question was asked and cancelled before it starts becomes the newest
  run, and what it shows is that it was stopped.

Seen and not stated as properties, for want of a source that says what should hold: while a
Thread waits, `gateway.run` shows *any* successful run as interrupted, so a resume may name an
old run and inherit its turn; and two resumes sent at once both pass the check, and the second
answers whatever question comes next.

`ThreadRunsProofs` proves the four invariants for any requests, runs and researchers.

* `TypeCorrect` needs `RunsNamed`, the runs that handlers and launches name exist, since a
  run is looked up under the number a handler took down some calls ago.
* `WaitingShown` rests on `InOrder`: behind an active run of the queue stand only pending or
  stopped ones, and a Thread that waits has no running run and its newest one succeeded, is
  pending or was stopped.
* `CancelReaches` and `DeletionReaches` share the invariant `Reach(q)` of each handler.  The runs
  it has stopped stay over (`OverStays`); a researcher they launch after that was in flight then
  (`LaunchesSeen`); so a researcher that is *due* to the handler (launched by one of these runs,
  not in flight then, and still active or, for a deletion, in existence) is already due when the
  walk begins, and stands on a page still to be read, on the list of Threads to visit, or is the
  Thread being visited (`Reached`).  `Walking` is the central lemma: no step of anybody makes a
  researcher due to a handler that walks.  Both theorems assume `OnePage`: the researchers are
  finitely many and fit in one page, the hypothesis without which the properties do not hold.

## 7. Branches: `ThreadBranches`

`states` is the tree of checkpoints a Thread has grown, numbered in the order of
`created_at`; `runs` the runs with the metadata `create_run` gives them; `request[q]` the
locals of a `create_run` between its calls.  The operators carry the names of the functions:
`LeafIds`, `BranchChain`, `BranchRunIds`, `EditSource`, `SourceRun`; `FiledUnder` is how
`snapshot_activities` files what it shows under the runs of a branch.  `Continue`,
`ContinueBranch`, `EditBranch`, `Fork`, `Create`, `ResumeRun` are the paths through the routes;
`StartRun`, `Reach`, `AnswerRun`, `PauseRun`, `EndRun` what the Agent Server does meanwhile.
A message is its role, the run that brought it in and its wording; nothing else about it
matters to a branch.  A history is a set of checkpoints, whose numbers are their order of
creation; the walk to the parents in `branch_chain` is the least set that has the selected
checkpoint and the parents of its members, "the oldest of the branch" a `CHOOSE` of the least.

* `ThreadBranches.cfg` (pass): two overlapping requests, three runs, five checkpoints: enough
  to ask, answer, edit, answer the edit and edit again or continue either branch.
  `AnswersStayReachable`: no edit, continuation or interruption takes an answer out of the
  branches the snapshot offers.  `EditRestartsTurn`: a fork keeps what was said before the
  edited question, and nothing after it.  `EditKeepsInputs`: the edited question runs on the
  files it was first asked with, however often it was edited.  `TurnsAttributed`: on a branch
  without resumed runs each question is filed under the run that asked it.

The history read is limited to the newest 1,000 checkpoints.  `HistoryLimit` equals
`MaxCheckpoints` in the run: a Thread longer than its history is not covered.  With a smaller
`HistoryLimit` three of the invariants do not hold: the oldest branches are not offered any
more (`AnswersStayReachable`), an edit whose first checkpoint is cut off takes the files of a
later run or of the request (`EditKeepsInputs`), and questions are filed under the runs of
other turns (`TurnsAttributed`).

`ThreadBranchesProofs` proves `TypeCorrect` for any bounds, and `AnswersStay`, `EditsKeepInputs`,
`EditsRestartTurn` and `TurnsAreAttributed` from the hypothesis `WholeHistory` (`MaxCheckpoints <= HistoryLimit`: the
history that is read is the whole one), which is the case they hold in.  The invariant
`BranchInv` has four ideas.  Every checkpoint `Follows` its parent: it adds the question of a new
run, at most an answer, or rewords its last question.  A question has one place in all the
checkpoints that hold it (`OnePlace`), and belongs to a run that has started
(`QuestionsOfRuns`).  A request under way and the run it enqueues start the turn they edit
(`StartsTurn`) with the files of that question (`RequestKeeps`, `RunKeeps`).  And every answer is
shown by some leaf (`AnswersShown`), because a checkpoint is only ever taken out of the leaves
by a child that keeps its answers.  From `Follows` and `OnePlace` the lemma about
`EditSource` follows: of the checkpoints that hold a question the first is the one in which it
is the last message.

`TurnsAreAttributed` needs `AskInv` on top of it, which tells the turns apart: a checkpoint that is
not of a loop ends with a question worded there, an answer bears the number of its loop's
checkpoint, and an edit forks a checkpoint of kind `input` (`Words`); runs loop one at a time, in
the order of their ids, each of a new turn from the checkpoint that words its question (`Looped`,
`LoopOrder`, `Asked`).  Along a chain, by induction over the parents (`ParentInduction`),
the wordings rise with their places (`WordingsRise`), each answer was given by a loop of the chain
(`AnswersOfLoops`), and the question a loop started from is never reworded behind it
(`LoopsKeepQuestions`).  So the answers of a branch map one to one into its runs and the runs,
in their order, one to one into its questions; with as many answers as questions both maps are
onto, and the run of a question has the rank of the question (`TurnsOfBranch`, `RanksKept`).

## 8. The event stream: `EventStream`

One run, the `EventSource` that follows it, the generator in `stream_run` and up to two
`loadSnapshot` calls.  A stream part is a message, tool calls or tool results; `source`
has the cursor the browser would continue from, the part the generator is at and the frames of
it delivered so far.  `PublicEvents` makes the events of a part in the order of the code
(messages, then activities), only the first of which has a cursor.  An activity has one of two
identities, a call or the task it names (`CallActivity`, `ResultActivity`, `TaskOf`), and a part
makes one event for each (`OneCall`, `OneResult`).  A snapshot makes the same events out of the
messages of a checkpoint, except that each result is a message of its own
(`SnapshotActivities`); `live` tells the events of a stream, whose ids no snapshot has, from
those.  `Record` drops an event whose id the view has, `MessagesShown` and `ActivitiesShown` are
the reducer.  `ReadState` and `ReadRuns` are the reads of `get_snapshot`, which run concurrently;
`Apply` is what `loadSnapshot` does with them.

* `EventStream.cfg` (pass, under `FairSpec`): three parts, a call that starts a task and two
  that check it.  `MessagesInOrderOnce`; `CursorCoversMessages` (what a broken connection
  loses is not lost behind the cursor: of a part cut short only activities are, never a
  message, because messages go first); `ResultsSettleCalls` (a call whose result has arrived is
  shown under one of its identities, and as running only while another check of the same task
  is); `EndIsShown` (once the run has ended the view comes to show its final state for good).

`BrowserProofs` proves the first three, and the types, for any calls, tasks, parts and snapshots.
What is shown is a fold over the events, so the proofs rest on lemmas about the folds:

* `LeastNatural`, from `WFMin` and `NatLessThanWellFounded`, says that a set of numbers has a
  least, and `InductionUpTo` that a property given as a set of numbers therefore holds up to a
  bound.  With it the recursive function behind `FoldLeft` and `FlattenSeq` is shown to exist and
  to be unfolded, which is what their definitions (a `CHOOSE` of such a function) give no access to.
* `StreamInvariant` is `Spec => []StreamInv`, with four parts beside the types.  `PartsInv`: a
  result is streamed after its call.  `SourceInv`: the cursor, the part the generator is at and
  the frames of it delivered fit together.  `ViewInv`: the messages of the view are in order,
  calls come before their results, nothing is of a part the stream has not reached
  (`Within`, `Reached`), and no message between the place the stream joined and its cursor is
  missing.  `LoadsInv`: no snapshot has read more than is saved, and the page follows its run in
  one way at a time, by an EventSource, a check of the session or a snapshot (`Alone`), until it
  has seen the end (`Over`).
* None of the three is inductive alone: a stream that joins must not bring a message the view
  has, which needs `Reached`; and a snapshot that is applied must not take the view back behind
  the stream, which needs `Alone`.

The assumptions are `CallKinds` (starts and checks are different calls, of which there are finitely
many) and `Bounds`.  `EndIsShown` is checked by TLC only.

Fairness: `WF` on accepting a connection and on each delivery (EventSource reconnects by
itself, `joinStream` produces what there is), on the reads and the application of a snapshot,
and on the snapshot begun at the end of the run; `SF` on a check of the session, which is made
again after each error and may fail in between.  Nothing is assumed of connections that break.
`EndIsShown` excepts a refused connection (`EventSource` is then closed and the handler
returns at its first line), a snapshot request that failed (it is reported, not repeated),
and a *torn* snapshot whose state was read before the run's last write and whose runs after it.

## 9. The browser's workspace: `ResearchWorkspace`

`selected`, `request`, `ref` are the refs of `useResearchWorkspace`, `view` what is shown,
reduced to whose events it holds, its active run and its question.  `sources` are the
EventSource objects alive (a closed one lives on while its session check is pending), `loads`
the snapshots requested, `posts[f]` the request a form has sent, one at a time for each of
composer, transcript and rail, which disable themselves while they submit.  Each handler is
two actions, up to its `await` and after it, and anything may happen in between, in
particular another selection.  `ConnectRun`, `Disconnect`, `BeginLoad` are the helpers the
handlers share, `Record` is `eventStatus`.

* `ResearchWorkspace.cfg` (pass): two Threads, two runs, two EventSource slots, two snapshots,
  request ids up to two, one session check and one request of the user at a time.  Two of each
  are the overlap that the properties speak of.  `OneStream`: only the EventSource in the ref
  is open.  `ViewIsOfSelected`: the view holds no events of another Thread, but for late
  answers.  `Followed`: while the view shows an active run something under way will tell it
  how the run ends.

The exceptions are behaviours of the code.  A submission, resume, edit or cancellation answered
after the user has selected another Thread records its events in the view shown by then, and
`connectRun` closes the stream of the new Thread for one of the old.  An edit answered late takes
a new request id and thereby drops the snapshot of the new Thread.  `submitMessage` looks at
`wasActive` before its request: when the run it saw has ended by the time of the answer the
new one is not connected.  A refused reconnect leaves the EventSource closed and nothing
replaces it.  Deleting the active Project neither closes the stream nor takes a new request id
(Projects are not in the module).

`ResearchWorkspaceProofs` proves the four properties for any Threads, slots, snapshots, runs and
bounds: `TypeCorrect`, `OneStreamHolds`, `ViewStaysWithSelection`, `ActiveRunFollowed`, from
the assumptions that Threads and slots are positive numbers and that there is a request id.
None is inductive alone.  `WorkspaceInv` adds `RefIsOpen` (the ref names an EventSource that is
open), `StreamsOwned` (an open stream is of the selected Thread or of one that strayed),
`LoadsNamed` and `PostsOwned` (a snapshot or request under way names a Thread, its run is of that
Thread), and `FollowedOrCancelled`, which says which run is followed.  One lemma per action.

## 10. Files of a sandbox: `ArtifactSync`

`sandbox` has the artifacts by the version of their content and the inputs put there; `spoiled`
has the inputs that a tool call has overwritten or deleted since they were put there: `execute`
(line 600), `write` (648), `edit`, `upload_files` and `delete` (702-706) reach any path of the
workspace, `/workspace/input` included. `published[p]` is the content of the ready Asset of an
artifact (one step; its calls are `AssetStore`'s); `cached` and `hydrated` the process's
`_RESOLVED_BACKENDS` and `_HYDRATED_INPUTS`. `call[c]` is a tool call: `Begin`, `Resolve`,
`Fetch`, `Put`, `Mark` are `_backend`; `Before`, `Run`, `After` are `execute` between its two
manifests; `Write`, `Upload`, `Edit`, `Delete`, `Look` the other operations; `Copy` and `Publish`
are `_publish_artifact`; `Raise` is any call that raises. `LoseSandbox` and the restore in
`Resolve` are the recovery of section 2 as one step.

* `ArtifactSync.cfg` (pass): two calls, two artifacts, three versions, one input, one lost
  sandbox, any number of restarts. Two artifacts are what a command that changes several takes,
  two calls what an overlap takes, three versions two changes of one artifact and one of the
  other. `InSync`: what the sandbox has is what is published, unless a call that wrote it is still
  to publish it. `ReturnedMeansPublished`: when a call has answered, what it wrote is published.
  `InputsHydrated`: an operation works only in a sandbox that all inputs of its run were put into,
  and each is there unless a tool call has spoiled it since.

`excused` holds the artifacts the first two except: a publication that failed or was overtaken.
The code does not make them good: a failing manifest after a command, a failed download or
publication, or a publication of an older content that ends last leave the artifact unpublished
until its next change.  What `InputsHydrated` excepts is not made good either: the marker in
`_HYDRATED_INPUTS` (line 589) is never withdrawn, so that an input which the agent's command,
write or delete takes away stays away for the operations that follow, of this run and of later
ones with the same inputs, until the sandbox is replaced or the process starts again.  The
property therefore says what the hydration does, and not that the files are there; the model has
the steps that take them away.  Two more facts: nothing withdraws the Asset of an artifact the agent
deletes, so that a recovery brings it back; and overlapping calls of one run both put the inputs
there, which does no harm.

`call[c].todo` are the artifacts that a call has yet to publish, `mine` the one whose content it
has downloaded and holds.

`ArtifactSyncProofs` proves the four invariants for any calls, artifacts, inputs and bounds.

* `InputsAreHydrated` is inductive only with `HydrationInv`: `MarkersHold` (the process
  knows the Project's sandbox or none, and marks only inputs that were put there),
  `PutInPlace` (so were those about to be marked) and `OperationsCovered` (and those of an
  operation); with it goes `CallsResolved` of the type invariant (a call past its first step has
  the sandbox of its process: so a process without one, the only kind that replaces a sandbox, has
  no calls at work in it).  `Accounted(box)` are the inputs in a sandbox or spoiled there;
  `WorkHydrates` shows that no step of a call at work makes that set smaller.
* `ArtifactsInSync` and `ReturnedIsPublished` rest on `SyncInv`, which says of each call what it
  owes.  `ClockAhead` and `Dated`: no version is ahead of the clock, and what a command wrote is
  newer than the manifest taken before it, so that the comparison of the manifests finds it.
  `Written`: what a call wrote is there, was written over or deleted.  `HeldIsCurrent`: a content
  about to be published is the one in the sandbox and no older than any that another call has
  written, unless the publication was overtaken.  `WillBePublished`: what a call wrote has been
  published with that version or a later one, is on its list, is held, or is found by the manifest
  still to come.

## 11. The API client: `ApiClient`

It has no run of its own: its properties are proved in `BrowserProofs`, for any number of requests.
Its definitions have names of their own (`ClientInit`, `ClientNext`, `ClientSpec`), as that module
extends `EventStream` too.

`ApiClient`: the session, the shared refresh and the requests of one page, with sign-in,
sign-out and a reload at any moment.  `PresentedOnce`: a refresh token is presented twice only if
a reload cut off its refresh (Supabase takes a second use for a stolen token).  `WaitersServed`:
who waits for a refresh waits for one under way.  `SentTwice`: a request is sent twice at most.
The invariant `ClientInv` says that the session holds no presented token but the one under way.
Behaviours the module shows: `request` marks the session as expired after a 401
(`expires_at: 0`, line 129), but `persistSession` takes 0 for a missing value and gives the
session a full lifetime (line 44), so that the second attempt goes out with the same token and
refreshes nothing; a refresh that ends after a sign-out or another sign-in replaces that
session; and any failure of a refresh, a lost connection included, signs the user out.

## 12. The agent's tools: `CapabilityGateway`, `Capabilities`, `Selections`, `Excerpts`, `TurnBudgets`, `ResearcherTasks`

These modules have no run either.  What they say is proved in `AgentProofs`, for every value of
their parameters; each theorem states what it takes of them as a hypothesis (`Parameters`,
`ToolParameters`, `BudgetParameters`, `ExcerptParameters`, `TaskParameters`: numbers are natural,
the map of budgets has room for a key, sets that a choice is made from are not empty, the
needles of a query have widths and places).

`CapabilityGateway`: one step per call of `admit_scope`, since a lock is held.  `BudgetIsKept`: a
key never forgotten has never been admitted past its budget.  `OnlyIdleForgotten`: a key is
forgotten only behind a map full of others used no earlier.  The invariant says that the count of
a key never forgotten is that of its calls.

`Capabilities` extends it with the calls of the domain tools.  An action for each tool says how
it checks its dates, what capability and provider it names, how many requests one attempt sends
together and which dataset it writes; `Try`, `Respond`, `GetNoResponse`, `Materialize` are the
attempt, `Raise` is `ToolRetryMiddleware`, which calls the tool again from its start.
`StatusVerdict` and the verdicts of the three providers are what a status and a body lead to: an
answer, another attempt, or a final error.  `RetriesStayInBudget`: of the attempts of a turn's
calls of a capability the provider sees the first `MaxCalls` and no more.  `AttemptsAreCounted`:
an attempt is admitted once, before its requests leave; one whose dates are out of order is not.
`Store` is the sandbox writing a dataset and `Materialize` the reply, which may be lost after the
file was written or be a refusal; `Remove` takes datasets away at any moment: the agent may
delete them, and a lost sandbox drops all of them, as only inputs and artifacts are restored
(`docs/architecture.md:155`).  `AnswersHaveDatasets`: the attempt that answers is the one that has
written the dataset, and the file is there, with what this call or a later one with the same
arguments wrote, unless it was removed.  An answer may thus name a dataset that is gone.
`ToolInv` ties the three parts together: the gateway's count of a
key is the number of attempts of its calls, admitted ones and refused ones apart; `FilesHeld`
says what is in the files, and `CallsPlaced` what is so at each place of a call.
Behaviours the modules show: a body that is no JSON is final for SEC and Massive (a `ValueError`)
and tried again for FRED; an attempt over the budget raises a `RuntimeError`, so it is repeated,
refused and counted twice more; a request for a filing or for facts that the sandbox already has
may be refused by `awrite` because the file exists, and is then repeated in vain
(`sec.py:458`).

`Selections` are the pure choices of rows.  `FilingsAreFirst`, `FactsAreLatest`, `MatchesAreBest`
say which rows are left out (those after the ones given, in the order of the provider's list, of
the filing date, of rank and ticker) and that none is below the limit; `MissingHaveNone` that a
concept is called missing exactly when no observation passes the filters.  They rest on one
lemma about any strict total order of a finite set (`FirstOfIsFirst`).  A query is cut into
terms at hyphens and points, so that such a ticker does not match its own row exactly and is
given the lowest rank.

`Excerpts` is `_query_snippets` for one query: the loop of `_all_occurrences`, then the choice of
spans.  The folded text and the text have positions of their own, since folding changes
lengths, and the properties hold for any relation of the two.  `ExcerptsAreWhole`,
`ExcerptsShareNothing` and `OccurrencesAreApart` say what an excerpt is.  `MatchesAreShown`
lists the reasons for which an occurrence of what was looked for has no excerpt over it: there
are as many excerpts as were asked for; it begins inside an earlier occurrence, and that one is
shown; or the search had stopped before it, at 100 occurrences of the query or 30 of a term
(`_all_occurrences`), so that a match far down a long filing can be missing with excerpts to
spare.  `ExcerptInv` says that every candidate behind the loop is shown or overlapped
(`ReachedShown`), that the hits found so far cover the occurrences before `from` (`HitsCover`), and
that the candidates cover what was looked for, up to those reasons (`Searched`).

`TurnBudgets`: the budgets counted from messages.  `Reach` is an attempt of a call that passes the
interceptor's checks or not, `McpAnswer` its end, `McpRaise` an attempt that raised and that
`ToolRetryMiddleware` repeats, after the server may have had it (an answer that cannot be
redacted or converted is outside the `try` of `mcp.py:86-94`).  `McpBudgetIsKept`: though the
calls of one message run side by side, none beyond the budget reaches the server, because the
whole message is counted before any of them runs; what is budgeted are the calls that the model
names, and each may reach the server `Repeats + 1` times, three in the code, without being
counted again.  The invariant says that every attempt that ran is one of a call among the first
`MaxMcpCalls` of the turn.  `SearchBudgetIsKept`: searches are
counted after the model's call that made them, so a turn may exceed its budget, by less than the
searches of one call.  Calls made by the code interpreter (`MCP_PTC_ALLOWLIST`, empty by default)
are in no message; they are not counted and not in the module.

`ResearcherTasks`: the tool calls of one step of the main agent, each on the record it found, and
the merge of what they give back in the order of the calls; the Agent Server's Threads and runs
go on meanwhile, replies are lost, the step is stopped (`Abandon`).  Start and check are this
code's; update, cancel, the merge and the Agent Server are external, and taken from how this code
uses them.  `TrackedEnds`: a task tracked as a success or an error has ended so, however old the
record a check started from.  `ChecksAnswerTheirRun`: a check of a success answers with the
values of its run, unless the task got a newer run.  `NewestIsTracked` and `ThreadsAreTracked`
name what goes wrong otherwise: an update whose reply is lost or whose step is stopped, and an
update followed by a check of the same task in one step, whose record wins with the old run; a
launch whose `threads.create` lost its reply, whose cleanup failed or whose step was stopped
leaves a Thread that no record names (the sweep by metadata in `ThreadRuns` still finds it).
`TaskInv` says of each call what it knows of its task at the place it has reached (`CallFine`).

Before their proofs the state machines were explored on small instances: the invariants
were checked for two or three calls, two keys or tasks and two or three runs.

## 13. Bounds

| bound | value | why it is enough |
| --- | --- | --- |
| `Hosts` | 2 (1 where a run is about one host) | each property relates at most two hosts |
| `Sandboxes` | 4, 3 or 2 | binding, two rival replacements, a spare; a sandbox is never reused |
| `Requests` | 2 (1 in the runs that show a violation or progress) | an overlap |
| `Publishers`, `Completers`, `Deleters` | 2, 1, 1 | overlap of publications; one of each other kind |
| `Contents` | 2 | replace and go back |
| `Tasks`, `PageSize` | 2, 2 | a full page |
| `MaxRuns` | 2; 3 in `ThreadBranches` | a run and its successor in the same or a later turn; a question, its edit and an edit or follow-up of that |
| `MaxCheckpoints`, `HistoryLimit` | 5, 5 | a question, its answer, a fork and its answer, one more |
| `MaxParts`, `MaxLoads` | 3, 2 | call, result and message in different parts; two snapshots that overlap |
| `Threads`, `Slots`, `Loads` | 2, 2, 2 | the old and the new selection, stream and snapshot |
| `MaxRequests`, `MaxChecks`, `MaxPosts` | 2, 1, 1 | one change of the request id; the forms are not told apart by a property |
| `Calls`, `Artifacts`, `MaxVersion` | 2, 2, 3 | an overlap; a change of each artifact and one more |
| `MaxLosses` | 1 | a recovery; restarts are not bounded |

Symmetry is used only in runs without liveness.  Deadlock is checked in `ArtifactSync`, where a call
can always begin.  The other runs have `CHECK_DEADLOCK FALSE`: a tombstone, a used-up pool of
sandboxes or of runs, an answered deletion or an ended run that is shown is a proper end.

## 14. What is proved, what is only checked

Proved, for all values of the constants (and, where named, from a hypothesis on them):

| invariants and steps of | theorems | section |
| --- | --- | --- |
| `SandboxBinding`, `Workspace` | `TypeCorrect`, `CacheFollows`, `OneWorkspaceHolds`, the refinement `HostsImplementWorkspace` | 3 |
| `ProjectDeletion` | `DeletionTypeCorrect`, `OneWorkspaceUnderDeletion`, `TombstoneAfterSandbox`, `DeletionStopsRecovery` | 4 |
| `AssetStore` | `TypeCorrect`, `ReadyIsStored`, `ReadyStays` | 5 |
| `ThreadRuns` | `TypeCorrect`, `WaitingShown`; from `OnePage`: `CancelReaches`, `DeletionReaches` | 6 |
| `ThreadBranches` | `TypeCorrect`; from `WholeHistory`: `AnswersStay`, `EditsKeepInputs`, `EditsRestartTurn`, `TurnsAreAttributed` | 7 |
| `ResearchWorkspace` | `TypeCorrect`, `OneStreamHolds`, `ViewStaysWithSelection`, `ActiveRunFollowed` | 9 |
| `ArtifactSync` | `TypeCorrect`, `InputsAreHydrated`, `ArtifactsInSync`, `ReturnedIsPublished` | 10 |
| `EventStream` | `StreamTypes`, `MessagesAreInOrderOnce`, `CursorIsCovered`, `ResultsDoSettleCalls`, from `StreamInvariant` | 8 |
| `ApiClient` | `PresentedOnce`, `WaitersServed`, `SentTwice` | 11 |
| the agent's tools | twenty theorems of `AgentProofs` | 12 |

The assumptions are those that the modules state as `ASSUME`: bounds are numbers, a null value is
not one of the values it stands beside, switches are Booleans.

Only checked by TLC:

* everything that rests on fairness (`DeletionCompletesOrSandboxGone`, `PublishingSucceeds`,
  `EndIsShown`): the prover has no rule for liveness under fairness nor for `ENABLED`;
* `CleanupSparesBinding`, `SandboxDeletedWithProject` and `ReadyCanBeRestored`, which do not hold:
  their runs show it.

Every invariant and action property of a passing run is stated by a theorem.  The library's
induction theorems take an operator and cannot be instantiated, so induction goes over sets:
a set of numbers has a least member (`WFMin` with `NatLessThanWellFounded`), hence a set that has a
number whenever it has those before it has them all (`InductionUpTo`, `ParentInduction`).
Nothing is proved about behaviours outside a hypothesis: a Thread with more checkpoints than its
history (`WholeHistory`) or more researchers than a page (`OnePage`).

The mutants listed in `PROJECT.json` show for every property of a passing run a plausible mistake
in the code that would break it.

## 15. Plan

What would be worth doing next, in this order:

* the evaluation runner (`src/evals/runner.py`): how it starts a run, waits for it and for its
  researchers, and gives up;
* Projects in `ResearchWorkspace`, and the loop over Assets in `ProjectDeletion`;
* a Thread with more checkpoints than its history and more runs than the list of 100 shows.

## 16. Not modelled

The schemas and wording of the tools, prompts and the assembly of the graph; authentication and
configuration; rendering; evaluation tooling; how paths between `/workspace` and
the sandbox's directory are rewritten (which are accepted is modelled); renames and read-only listings;
Projects, uploads and previews in the browser; the wording and the nesting of activities.  Each is in `PROJECT.json` with its
reason.  The internals of Daytona, Supabase and the Agent Server appear only as far as the code relies
on them.
