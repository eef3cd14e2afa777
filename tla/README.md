# Verification of comfyui-image-frontend

The application is one FastAPI process with one SQLite database in front of a pool
of ComfyUI instances. Users submit image jobs from published ComfyUI workflows; the
application accepts them durably, gives each to one worker of the pool, follows it,
archives its outputs and reports what happened, live, to the browser. It has language
models compose prompts and judge images, goes on by itself (automatic generation,
expectation checks, demo reels), manages LoRA model files on all instances, and is
updated in place by a release runner.

This directory holds TLA+ models of the parts of it where order, failure and
concurrency decide whether the result is right, the TLC configurations that check
them, and TLAPS proofs about eleven of them. Every definition is translated from the
source; `PROJECT.json` gives, per definition, the lines it stands for, and lists the
hazards, the findings and the properties that belong to them.

To check: `tlc -config lifecycle.cfg MCLifecycle.tla`, and likewise `progress.cfg` with
MCProgress, `queue.cfg` with MCQueue, `work.cfg` with MCWork, `services.cfg` with
MCServices, `platform.cfg` with MCPlatform; `v_status_table`, `v_duplicate_work` and
`v_stranded` with MCGenerationLifecycle, `v_event_lost` with MCEventStream,
`v_pinned_again` with MCModelRouting and `v_failed_prune` with MCProductionUpdate. To
prove: `tlapm M.tla` for each `M` whose name ends in `_proofs`.

## 1. The system

Paths are relative to `src/backend/app/` unless they start with `src/`. "Hard" names
what a test would hardly reach; "correct" what a model should show.

| Component | State | Modules |
|---|---|---|
| generation lifecycle (`services/queue_worker.py`, `generations.py`, `user_deletion.py`, `worker_pool.py`, `comfyui.py`) | `generations` rows, live executor tasks, ComfyUI prompts | GenerationLifecycle, GenerationPromise, LifecycleRefinement, LifecycleInvariant |
| assets (`services/assets.py`) | files, artifact rows, ComfyUI's files | ImageArchive |
| progress of a generation (`queue_worker.py`, `comfyui.py`, `generation_eta.py`) | sockets, trackers, progress of the row | ProgressRelay |
| compiler, results (`domain/compiler.py`, `results.py`) and published interfaces (`domain/publication.py`) | declarations, a request, a history | PublishedParameters, HistoryResult |
| request admission (`admission.py`) | counters, waiter queue, tickets | Admission |
| live events (`api/events.py`, `services/event_broker.py`, `services/events.py`, `src/frontend/src/app.mjs`) | `generation_events`, subscriber queues, last event id | EventStream |
| LoRA management (`services/lora_operations.py`, `src/comfyui_extension/.../lora_management.py`) | `lora_operations` rows, one journal per replica, publications, model file | LoraCompanion, LoraOperations |
| submission receipts (`services/submissions.py`, `src/frontend/src/generation-submissions.mjs`) | keys of a tab, receipts, runs | Submissions |
| claim order (`services/queue_worker.py`) | queue sequence, `scheduler_state` cursors | FairClaim |
| prompt generation (`services/prompt_generation.py`) | text runs; preparations that become images | TextRuns, TextPromise, Preparations |
| automatic generation (`services/auto_generation.py`) | settings with a revision, cycles, claims | AutoGeneration |
| expectation checks (`services/expectation_checks.py`) | checks and attempts, step tasks | ExpectationChecks |
| demo reels (`services/demo_reels.py`, `api/demo_reels.py`) | entries, background rows, foreground requests, quiet time | DemoReels |
| language-model routing (`services/llm_router.py`, `ollama.py`) | the router's document, slots, requests | ModelRouting, PromptComposition |
| workflow registry (`services/workflow_registry.py`) | current revisions, health of the catalog, discoveries | WorkflowRegistry |
| production update (`src/scripts/production-update.py`) | lock, record, archives, images, receipts, data | ProductionUpdate |
| blocking operations and database (`blocking.py`, `db.py`) | semaphores, SQLite writer | as atomicity of the above |
| the rest | see 1.10 | not modelled |

### 1.1 Generation lifecycle

State. One row per generation (`models.py`, `Generation`): status, ComfyUI prompt id,
instance, `pending_delete`, `cancel_sent_at`, the retry marker for absent outputs, its
artifacts and output failures. In memory: `_active` (one executor task per claimed
generation), the dispatcher between claim and start of the executor, the recovery plan
of a start. Outside: ComfyUI's queue, history and running prompts.

Operations. Accept; cancel (a queued row ends at once, an active one becomes
`cancel_requested`); delete (a terminal row at once, an active one is cancelled and
remembered as `pending_delete`); delete an account; claim; load and save the compiled
graph; submit; mark running; monitor; send a cancel once; archive outputs while the
prompt runs; finalize with a status or requeue once when the declared outputs were all
absent; reset the execution cache; delete after finalization; stop; start and recover.

Interactions. HTTP handlers, executor, dispatcher and recovery meet only in the
database, in `_active` and at ComfyUI. A transaction that starts with
`lock_user_state` holds SQLite's writer from its first statement; one that starts with
a SELECT takes it at its first UPDATE (pysqlite begins lazily), so that another
transaction may commit between its read and its write.

Hard. Cancellation between the read and the write of a status; an answer of `/prompt`
lost after ComfyUI took the job; a stop request that arrives inside the protected
submission section; a row offered to the dispatcher while its old executor is still
registered; recovery that plans before it takes the writer, while users already
cancel; a prompt that left the queue and is not in the history yet; a process that
ends between any two commits.

Correct. ComfyUI never works on a generation twice at once; who acts on a prompt owns
it; a success was really executed for this generation; what is terminal stays so;
`interrupted` means that nothing could be known; every accepted generation settles;
cancellations and deletions reach ComfyUI and the row.

### 1.2 Request admission

State: `active`, `media`, the deque of waiters, `closed`, a ticket with a future per
request; three coroutines per request (the middleware, the acquire task, the watcher of
a disconnect). Operations: acquire (at once, queued, or refused), timeout, release at
the response start (non-media), at the end and in the last `finally`, drain, close.
Hard: the timer and a grant in the same loop iteration; a disconnect that arrives with
the grant; a ticket released at three places; passing media that wait for a media
place without passing anyone else. Correct: the counters are exact, no place is lost or
idle, nobody of the same kind is overtaken.

### 1.3 Live events

State: `generation_events` (rows die with their generation), an in-process broker with
one bounded queue per subscriber, per connection a replay list and a high-water mark,
in the browser the last id seen. Operations: commit an event, publish it some steps
later, publish one without a row, subscribe, load the replay (`LIMIT 1000`), send
replay, send live events past the mark, disconnect, reconnect with
`Last-Event-ID` or the URL parameter. Hard: an event in the replay, the queue, both or
neither; publication in another order than commit; a full queue; ids that come back
after a deletion. Correct: delivered once, in order, and none lost.

### 1.4 LoRA management

State: the row of the operation, the coroutine that runs it, a Save & Publish lease per
replica; on each replica a journal, backups and the publications; on the shared disk
the model file, the staged upload and the quarantined file, changed by the one replica
that has `model_writer`. Operations of a companion: stage, prepare, commit, quarantine,
rollback, finalize, states, lease. Operations of the application: create, upload,
cancel/expire, run (preflight, check active generations, prepare all, commit all,
verify, quarantine, verify absent, finalize mirrors then writer, reconcile), roll back
and inspect, recover. Hard: every request may fail, be carried out with a lost reply,
or be cut in the middle; the application may stop or die anywhere; publications are
replaced by hand in the middle; generations that use the file are accepted meanwhile.
Correct: `failed` means as before, `succeeded` means complete on every replica,
pictures and selections are pruned only past the point of no return, no accepted
generation loses its file to a removal, no operation stays `running`.

### 1.5 Blocking operations and database

`run_blocking` runs each transaction in a worker thread under a semaphore. Once the
thread runs, a cancellation of the awaiting task is held back until it has ended and
then raised. It is in the models as atomicity: which read and write are one action, and
that a stop never leaves half a transaction. The semaphores themselves (a limit on
threads, held for one operation, never nested) are not modelled.

### 1.6 What enters the queue and leaves it

Submission receipts. A tab saves a key before it posts, repeats the POST after a
network error, and asks for the outcome of a saved key after a reload until it knows
it; the server takes a key once and answers a repetition from the receipt, also when the
rows were deleted since. Hard: repetition in flight, lost answers, copies that arrive
late, deletion of the result. Correct: one effect per key, and nothing reported refused
that has or will have an effect.

Claim order. Each iteration of the dispatcher offers the free slots of each worker work of
the owners in turn, after a cursor shared by the pool; within an owner work by hand goes
before automatic work, then the oldest, images and text runs together. Correct: no owner
waits for ever behind others.

Prompt generation. A preparation is an image that waits for a prompt: its text run goes
through ComfyUI as a generation does, a coordinator has the language model refine the
texts of a batch, and accepts them as one submission. Hard: a restart between sending a
text and recording it; a group that is dropped while its refinement is under way.

### 1.7 What goes on by itself

Automatic generation: a coordinator prepares, composes and accepts one cycle after
another under settings that are edited, switched and limited meanwhile (each change is a
new revision). Expectation checks: compose, generate one image, score it, revise; then
queue the rest of the batch. Demo reels: an image of each LoRA is rendered while nobody
uses the application, and is given up when a request arrives. All three run steps that
await a model or an image between two transactions, and are driven again after a restart.
Hard: settings, stops and account closures during an await; claims left by a dead step; a
request that arrives in the middle of a step. Correct: no late answer counts, nothing is
paid for twice, nobody waits for a background image, and each comes to an end.

### 1.8 What surrounds ComfyUI and the language models

Publications: a workflow is published on an instance as a manifest and an API graph;
discovery reads both, validates them and makes a revision current; an outage makes the
catalog unavailable and the health loop starts the discovery that is due. Parameters: a
request gives values for a published interface; defaults, companions, seeds and uploads
complete them, and the frozen graph is patched. Results: publishers report their files in
the history, malformed or not; each is found, archived, projected. Files: fetched,
stored under a new path, given a row; images of earlier stages are dropped, ComfyUI's
files removed, and what the crash of a process left is compacted at the next start.
Progress: events of a socket that may be lost, kept in memory, written now and then.
Language models: a document read from a router and pushed by it says which services
there are, by which names and with how many slots; a request chooses a name, waits for a slot
under it, is retried or falls back, and its answers are judged and redrawn.

### 1.9 Production update

One run at a time builds a candidate, stops the application, archives its database, cuts
over, verifies and prunes; whatever fails is rolled back. A run that was killed leaves its
lock, and the next run is refused until an operator has looked and removed it. Hard: failures during recovery, a kill anywhere, data
written by the candidate, archives that older rollbacks need. Correct: no release runs on
data of a later one, no answered write is lost, and what a run reports is so.

### 1.10 Not modelled

| Component | Why |
|---|---|
| prompt rerun | a third way to create preparations; it is the kind "rerun" there, its own source rows and browser state are left out |
| accounts and sessions | login, throttling and session validity; only the removal of an account is modelled |
| gallery and collections | queries, and moves of one transaction each; what deleting a folder does to automation and reruns (its first transaction) is an action of AutoGeneration |
| LoRA library, groups and pictures, thumbnails | queries, one-transaction changes and file I/O |
| estimates and activity | when an estimate is written is in ProgressRelay; the statistics decide nothing |
| speech to text | one forwarded request |
| HTTP routes, schemas, configuration, wiring | validation and conversion around the services; order of start and stop is in the models |
| browser application | only its keys and its reconnection are modelled |
| ComfyUI and its nodes | external: it takes, runs, reports and forgets prompts as this code assumes; of the extension the publisher and the LoRA companion are modelled |
| schema migrations | run once in order before the application starts |

## 2. The modules

### 2.1 GenerationLifecycle

| Variable | Code |
|---|---|
| `row` | the columns of `Generation` that dispatch and recovery decide by (status, prompt, instance, `pending_delete`, `cancel_sent_at`, retry marker, artifacts, output failures) |
| `task` | the executor in `_active`, as the place where it awaits, with the locals it will use afterwards |
| `disp` | a committed claim whose executor is not started yet |
| `rec` | startup recovery: stage and plan |
| `mode`, `pool` | the process (recovering, running, stopping, down) and the image workers it was started with |
| `notices` | prompts an HTTP handler still has to cancel on ComfyUI |
| `account` | the account an administrator deletes |
| `native` | ComfyUI's prompts: state, owner, instance, and whether ComfyUI still knows them |

| Actions | Code |
|---|---|
| `Accept`, `CancelQueued`, `RequestCancel`, `DeleteTerminal`, `NotifyCancel` | `GenerationService.accept`, `cancel_owned`, `delete_owned` and the ComfyUI cancel after their commit |
| `MarkAccountDeleting`, `RemoveAccount` | `UserDeletionService` |
| `ClaimNext`, `StartTask`, `RequeueClaimRead/Write` | `_dispatch_iteration`, `_claim_next`, `_start_generation_task`, `_requeue_unstarted_claim` |
| `LoadExecution`, `SaveGraph`, `SubmitAccepted`, `SubmitFails`, `AmbiguousNext` | `_execute` up to the answer of `/prompt` |
| `MarkRead`, `MarkWrite`, `CancelSubmitted` | `_submit_and_mark_running` and what follows a cancellation seen there |
| `MarkCancelSent`, `SendCancel`, `ObserveTerminal`, `ObserveMissing`, `ArchiveOutput` | `_monitor`, `_ensure_cancel_sent`, `_process_node_output` |
| `PersistFiles`, `CommitFinalization`, `ResetExecutionCache`, `DeleteTerminalIfPresent` | `_finalize` (`_normalize_generation_history`), `_commit_finalization`, `_reset_execution_cache`, `_delete_terminal_if_present` |
| `RequeueRead/Write`, `FailRead/Write` | `_requeue_after_outage`, `_fail_before_start`, `_fail_ambiguous_submission` |
| `RecoverRead`, `RecoverWrite`, `RecoverJob`, `FinishRecovery` | `_reconcile_startup` |
| `RequestStop`, `StopTask`, `StopRecovery`, `Halt`, `Crash`, `Restart` | `QueueWorker.stop`, task cancellation, the container runtime |
| `NativeFinish`, `NativeLost` | ComfyUI |

Where the code reads in one statement and takes the writer in a later one, there is a
Read and a Write action and anything may happen between them; where it holds the writer
from the start there is one. An executor cancelled inside the protected submission
section absorbs the request and goes on until the section ends (`ctx = "held"`).

Abstractions. Which claimable row is claimed is left open (claim order is
FairClaim). Health of a worker is not state: a worker may or may not be
chosen at any time. The with- and without-artifact forms of a terminal status are one,
with `arts` beside it. Database errors are not modelled. Several outputs are one, with
the outcomes archived, absent and failed.

`LifecycleInvariant` holds the inductive invariant `IInv`, `GenerationPromise` the
abstract service, `LifecycleRefinement` the mapping between them:
a generation waits, works, succeeds, ends otherwise or is gone; it goes back to waiting
only when ComfyUI does nothing for it; it succeeds only when ComfyUI made its result.

### 2.2 Admission

Each request is three coroutines; a step runs one of them up to its next await, and the
ready ones go in any order: that is all the event loop guarantees. `Admits`, `Drain`
and `Release` are the synchronous helpers; `Acquire*`, `Expire`, `CancelAcquiring` the
acquire task with `asyncio.wait_for` (where the timer may fire after the grant and
before the task resumes); `Watch`, `ClientGone` the watcher; `Arrive`, `StartApp`,
`Refuse`, `ResponseStart`, `BeginLeave`, `Finish`, `Leave`, `CancelHandler` the
middleware; `Close` the shutdown. Left out: the statistics of `snapshot()`. The short
await that cancels the watcher is part of `StartApp`.

### 2.3 EventStream

One account, one connection at a time, publishers that commit a row and publish it
later, in any order between them. `CommitEvent` gives the id SQLite gives: the largest
present plus one. `Connect`, `LoadReplay`, `SendReplay`, `GoLive`, `SendLive`,
`Disconnect` are the iterator and the browser; a session that expires is a
`Disconnect`. `log`, `excused`, `offered` and `issued` are history variables: what was
delivered, what the code drops on purpose (full queue, replay limit), and which ids
were given twice.

### 2.4 LoraCompanion and LoraOperations

`LoraCompanion` has a companion's requests as pairs of a condition (`Can...`) and an
effect, and `PartOf...`: what is there when the process dies or the disk fails inside.
The handlers never await, so that each is atomic unless it is cut. `LoraOperations`
extends it with the coroutine (`task`: kind, step, who is still to be asked, whether a
finalization succeeded, the error to raise after a rollback) and everything the
application does. A request has four outcomes: answered; refused; failed without
effect; failed with all or part of its effect. `Close` cancels the coroutine where it
waits, `Crash` drops it, `Restart` starts `recover()`.

Abstractions. The targets of an operation are one unit whose publication is `old`,
`mixed`, `new` or `other` (replaced by hand). A sync is an edit without a file. Saving
an answer is part of receiving it; a crash in between is a lost answer and a crash. One
operation is enough because a row that is not terminal excludes the next. A request
that was lost is carried out before the next one or never. Whether references or a busy
native queue refuse a request is left open. Left out: a disk that fails again while
`commit` takes its own partial work back, the idempotency receipts and the view of the
library.

### 2.5 ImageArchive, ProgressRelay

Two concerns that GenerationLifecycle abstracts (`arts`, and progress), each with the
executor, a stop, a kill and a restart. `ImageArchive`: `NodeExecuted` and `Finalize`
begin the archive of one file or all; `Fetch`, `Insert`, `Discard`, `Prune`, `Mark`,
`Clear`, `Fail` are the steps of `_persist_native_file` and `persist`; `CleanSources`,
`RecordCleaning`, `Commit`, `DeletePruned` the end of `_finalize`. The commit hands the paths
of the rows it dropped to the deletion, which is a step of its own behind two refreshes of
estimates: a stop or an error in between (`LosePruned`) leaves those files without an owner, as
a kill does anywhere, and the history `lost` names them. `Prepare` to `RecordAgain`
the maintenance of a start. Disk, rows and ComfyUI's files change one after the other. A
path is a number, of which a new file takes the least that nobody holds (the code draws a
random name), and bytes are told apart only by equality.

`ProgressRelay`: ComfyUI `Send`s a script of events into a buffer; the monitor takes one
(`Take`) and then one step at a time of what it asks for. It never has more than two things to
do, `doing` and `after` (what is pending of the node before goes first), so that a
step is `Queue`, `Moved`, `FlushPending`, `Load`, `WriteRow` and so on, each a handler or a
transaction of it. `Refresh`, `RefreshLook` to `RefreshNote` are the estimate another
generation's end asks for, of which two steps are transactions. `log` is the durable
events, `left` and `excuses` are history: what was shown last of a node, and what makes a
loss excusable. Of the script it is assumed that it begins with `execution_start` and that the
numbers ComfyUI tells of a node do not fall (`ScriptAssumption`), as the steps of a sampler
do not. Of a node that counts twice the application would tell the second count as it tells the
first; `NeverBack` is about the order in which it tells what it was told.

### 2.6 PublishedParameters, HistoryResult

The three handlers run without an await, and each is one action. `Validate` is
`_validate_interface` of a whole manifest (each contract is an operator); `Compile` is
`GenerationService._compile` of a whole request: the parameters are resolved with the
random seeds that are drawn, the strengths of chosen options filled in (`Effective`), the
copy of the graph patched (`Patched`) and the uploads verified (`Unusable`). `Recall`
compiles the recorded parameters again. Values of a type are few; texts and files are
model values.

`HistoryResult` is `normalize_history` as a function of a history (`Read`, by a fold over
its nodes and their publisher items). `Executed` is a node of the prompt: when its event is
received it is read alone. `Finish` reads the whole history and its status, and `Show` is
what a client is told (with any subset of the files archived, in any order).

### 2.7 Submissions, FairClaim

`Submissions` is the tab (`SubmitGeneration`, `TabStep`, `Reload`), the network (`Unanswered`,
`ServeStale`: a copy the tab has given up on) and the server (`Serve` inside them, one
transaction). `FairClaim` is one iteration of `_dispatch_iteration` (`BeginIteration`,
`Offer`, `Claim`) over a queue to which work is submitted, withdrawn, put back or ended;
`Turn`, `Before` and `Chosen` are the order.

### 2.8 TextRuns, TextPromise, Preparations, AutoGeneration

`TextRuns` is the execution of text runs on one instance with stops, crashes and recovery.
A start (`Begin`, with or without the instance) lists the active runs once (`List`, `Verdict`)
and then writes each as it was listed, in a transaction of its own (`Recover`), while routes and
preparations already run; a failure makes the supervisor do it all again (`RecoverAgain`), and
the dispatcher begins behind it (`Ready`). TextRuns implements `TextPromise`: at most one
submission, back to the queue only before it, success and failure final, and a run that was
discarded may yet be told as failed (`Retells`). That is all `Preparations` uses of a text run. `AutoGeneration`
extends `Preparations`, and composes settings, cycles and their coordinator with the
groups of preparations and the coordinator of these. `DeleteFolder` blocks the settings until they
are switched off and leaves what waits: it is discarded when it is next loaded. The legacy
batches of one row each (`advance` without a shared text) are left out.

Rows of a group share their fate and are one record. A transaction under
`lock_user_state` is one action; a coordinator's step is a stage of `task` or `step`.

### 2.9 ExpectationChecks, DemoReels

`ExpectationChecks`: a check is a record with its attempts; `StepOf` dispatches to the
step its status calls for (`Load`), whose answer arrives in a later action (`Composed`,
`Probe`, `Evaluated`), so that stops, closures and errors fall in between. Score
sheets are a score. `DemoReels`: a step of the loop
begins (`StepBegins` takes the flags of the process), and ends in a transaction that gives
way, waits, submits or is refused; `RequestArrives`, `Activity`, `RequestEnds` are a request of a
person in its three steps; the worker is as in GenerationLifecycle, without its detail. `calm`
is history: the steps since a request was admitted or a step that was carried out met somebody.

### 2.10 WorkflowRegistry, ModelRouting, PromptComposition, ProductionUpdate

`WorkflowRegistry`: discoveries for three callers (the start, the health loop, a
request), one at a time under `_refresh_lock`, which probe the instance, read what is
listed source by source, and commit; a health loop; outages; a publisher that writes the
graph before the manifest. `ModelRouting`: the watcher's document (services in the order of
capability, their names and slots) and its ETag, requests that choose a name, queue under it for
a slot, are sent, fall back, pause and end; a request counts and is excluded by the name it was
sent with, and the slots are those the document gives at each check. `PromptComposition`:
one composition as a sequence of candidates and budgets, with what the model may answer
left open. `ProductionUpdate`: two runs with every mode, step by step: preflights and the
restart of an application that is not ready (`Operational`), the candidate and its smoke test on data
of its own, the archive of the database (of the data, the only part that a rollback has to match) and its
verification, cutover, retention under the lock (`HoldsLock`); a step may fail,
the recovery may fail, and the process may be killed anywhere.

## 3. What is checked

Most parts share no state. A run therefore composes instances of several of them with a
variable `focus`, chosen once at the start: a behaviour follows one instance while the
variables of the others keep their one initial state, so that the states of a run are the
disjoint union and not the product. In each property `focus = "..." =>` selects the
behaviours it is about, and each fairness condition joins steps of different instances,
of which a behaviour has one. An instance whose properties are also theorems is the module
the MC module EXTENDS (GenerationLifecycle, ImageArchive and ProgressRelay in `lifecycle`; Submissions, TextRuns and FairClaim
in `queue`; ExpectationChecks and AutoGeneration in `work`; LoraOperations, DemoReels and
WorkflowRegistry in `services`; Admission, EventStream, ModelRouting, PromptComposition and
ProductionUpdate in `platform`), so that the formula TLC checks and the formula TLAPS proves
are the same definition; the others are named instances.

`CHECK_DEADLOCK FALSE` is set everywhere: the bounds make every system stop (a
generation that is deleted, requests that are answered, an operation that ended), and
nothing obliges users to act.

| Run | Instances | What it shows |
|---|---|---|
| `lifecycle` | "faults": 1 generation, 2 workers, 4 prompts, up to 3 of 8 kinds of fault | `TypeOK`, `MonitorOwnsPrompt`, `SuccessIsEarned`, `InterruptedOnlyIfUnknown`, `RunsOnce` (never two native runs at once, one retry), `KeepsPromise` (implements GenerationPromise, ends stay) |
| | "restarts": 1 generation pinned by an old release, 3 workers of which each start configures one or two, an account deleted at any time, 3 prompts, 2 faults with crashes and ambiguous submissions | `RestartsHold`: `IInv` (the inductive invariant) and the first four of the above |
| | "files": 4 images of 3 outputs, 2 mishaps (failed calls, an answer from the cache, stops, kills), 9 paths, more than are ever held | `FilesKept`: rows have their files, nothing is stranded but what a kill leaves, or a stop or an error between the commit and the deletion; no final image is lost, a success fails only for a missing file |
| | "relay": 7 events of 2 nodes, 2 disturbances | `ProgressTold`: progress of this attempt, final counters kept, never back |
| | "parameters": 3 of 17 inputs, 5 lists of outputs, requests and recalls | `RequestsHonoured`: what is asked is what runs and nothing else changes; a recall gives the same graph |
| | "results": 3 nodes, 2 outputs, up to 2 items a node, one of them odd | `ResultsRight`: no file lost or passed off, live and final reading agree, each shown once |
| `progress` | 1 generation, 1 worker, 2 of 8 kinds of fault | `AllSettle`, `DeletionsCarriedOut` |
| | 1 generation, 2 workers, prompts that need not end | `CancelsReachNative` |
| | 2 images, 1 request, 1 event | `ReelsComplete` |
| `queue` | 2 keys (one of two items), 2 lapses of the network or the tab | `KeysHold`, `Resolved` (a pending key that the server took is resolved) |
| | 3 owners, 3 rows, 1 setback | `OwnersInTurn`, `Resolved` (an owner is served) |
| | 2 text runs on 1 slot, 3 troubles, each start with or without the instance | `KeepsTextPromise` (implements TextPromise), `Resolved` (every run is settled) |
| `work` | 2 groups, cycles of 2 images with a limit of 3, 2 changes, 1 trouble | `OneCycle`, `EndsHold`, `AutoProceeds` |
| | 2 checks of 2 attempts, 2 errors | `ChecksKept` (a check that ended stays so among it), `ChecksSettle` |
| `services` | 3 replicas, 2 faults; install, remove, edit | `SettledInOrder`, `RemovalWaitsForWork`, `Released` |
| | 2 images, 2 rows, 1 request, 2 events | `ReelsGiveWay` |
| | 1 source of 2 versions, 3 troubles | `CatalogKept`, `CatalogRecovers` |
| `platform` | 2 media and 2 other requests, 2 places, 1 for media, queue of 2 | `PlacesKept` |
| | 2 publishers, 3 rows, 1 event without a row, 2 connections, queue and replay of 2, 1 deletion | `EventsArrive` |
| | 2 generations, 1 worker with 1 slot, 1 fault | `TwoCompete` |
| | 2 services with a further name, 6 documents with one or two slots, 2 requests of 2 attempts | `RoutedFairly` |
| | 3 candidates, 3 budgets | `NewPrompts` |
| | 2 runs of an update, 1 write of each release | `UpdateSafe` |
| `v_...` (6) | the smallest instance that shows it | the disagreements of section 5 |

Sizes, in distinct states: `lifecycle` 1.3 million, `progress` 78 thousand, `queue` 261
thousand, `work` 564 thousand, `services` 694 thousand, `platform` 1.3 million.
Each takes one to three minutes with two workers.

The composed properties are conjunctions of the named properties of the modules, which
say above their definitions what they mean and what they exclude; `PROJECT.json` names
for each a mutation of the code under which the run fails.

Why the bounds are enough. Lifecycle: hazards within one generation need one
generation, two workers (one that lost it and one that takes it over) and three for a
pool that changes; competition needs two generations. A generation runs at most twice
on purpose (once plus the retry for absent outputs) and once more per fault, so that
3 or 4 prompts never limit what 2 or 3 faults can cause. A crash in the middle of
recovery, and a second fault during the handling of the first, need two faults.
Admission: to be passed and to pass need two of a kind; two places with one for media
make both limits bite; the queue of two can be full. EventStream: queue, replay limit
and rows are chosen so that each limit is exceeded, and a second connection makes the
first one's effects visible. LoRA: one replica is the writer, a second a mirror, and a
third makes "some but not all mirrors" possible; two faults are one that starts a
rollback and one that hits it or recovery. Files: an undeclared file, a preview and a
batch of two finals are the ranks that supersede one another and the tie between them.
Progress: two nodes give one transition, the second only in the older protocol. Claims:
three owners make "the next after the cursor" differ from "the oldest" and from "the
other". Automatic work: a limit of three cuts the second cycle of two short. Checks: a
second attempt is a revision; a second check meets the first one's end. Routing: with two
services every choice has one alternative; both accounts may choose the further name, so that a
queue forms under a name of one slot; and the documents lower the slots, move the name to the
other service, take a service away and stop accepting.
Update: the second run meets what the first left, killed or not. Parameters and results:
each contract has a legal and an illegal declaration, and three inputs are a choice, its
companion strength and a prompt.

Limits to keep in mind. `RunsOnce` and `KeepsPromise` are checked without a crash and
without an ambiguous submission followed by a stop: with them the code can run a
generation twice at once (`v_duplicate_work`, and a crash between the answer of `/prompt`
and the commit of its id, which no client of an endpoint without idempotency keys can
avoid). `AllSettle` holds with one worker; with two it does not (`v_stranded`).
`KeepsTextPromise` excludes runs of an account that is being deleted. `NeverBack` and
`OfThisAttempt` of ProgressRelay exclude what a late refresh does, `NeverBack` an end of the
process as well, and `CountersKept` a late refresh and a write that was refused (section 5). `RequestsHonoured` takes three gaps of the validation for
granted (section 5). `RoutedFairly` says "not chosen again" only of choices that had a
document (`v_pinned_again`).

### Fairness

Weak fairness is assumed of coroutines and tasks, not of branches: the event loop
resumes a coroutine whose await is over, every call has a timeout and every transaction
runs in a worker thread; the dispatcher, recovery, coordinators and the health loop are
loops; the container runtime restarts a process that ended (`restart: unless-stopped`).
Nothing obliges a call to succeed, and users, browsers and faults are under no obligation,
but for these, each at its specification in the module: prompts and images end at some
time (not in `CancelsReachNative`); requests of people end (`ReelsComplete`); an instance that is down is
found healthy again (`Served`, in `Resolved`). That a pending key is resolved
(`KeyResolved`) needs only the steps of the tab, and is said only of keys the server took: then
every way it answers ends the doubt. Strong fairness is used where a step is enabled
again and again but not always: the dispatcher's claim of a free slot (TextRuns, DemoReels'
worker), the load of a group by its coordinator, and the deletion of a given-up row.
Safety needs none of it, and the specifications of Admission, EventStream, ModelRouting,
PromptComposition, ProductionUpdate, ImageArchive, ProgressRelay, HistoryResult and
PublishedParameters state none.

## 4. What is proved

A proof speaks of every value of the constants: any number of generations, workers,
requests, runs, prompts and faults. The theorems of a table are about the specification
`Spec` of its module (or the one it names), and the properties they state are the
definitions the runs check.

**`GenerationLifecycle_proofs`**, with every kind of fault, crashes, lost answers and the
removal of accounts included:

| Theorem | Statement |
|---|---|
| `Invariance` | `Spec => []IInv` |
| `TypeCorrectness` | `Spec => []TypeOK` |
| `PromptOwnership` | `Spec => []MonitorOwnsPrompt`: who acts on a prompt acts on the one its row records, and ComfyUI knows it as this generation's |
| `EarnedSuccess` | `Spec => []SuccessIsEarned`: a success was executed, for this generation, on the worker its row names |
| `InterruptionIsHonest` | `Spec => InterruptedOnlyIfUnknown`, an action property: a row becomes `interrupted` only when ComfyUI has no result of its prompt, or its worker is not configured |

Assumed is `ConstantsAssumption` (ranges of the constants, `NoInst` and `NoGen` outside
them); each run evaluates it.

The argument. `MonitorOwnsPrompt` alone is not inductive: whether the executor's prompt
is the row's depends on who else may write the row, which is a matter of stage.
`IInv` adds, per stage of the executor, what the row may be (`TaskInv`: before the mark
the row has no prompt, after it the executor's; while the executor is only ending or
resetting the cache, anything, because the row may have been claimed again), the same
for the dispatcher's claim (`DispInv`: its generation's executor is quiet) and for the
recovery plan (`RecInv`: the plan was read before the writer was taken, so that rows may
have become terminal since, but not active; the jobs it lists belong to nobody else),
and that a row's prompt is native to its worker (`RowInv`). The proof goes in
three layers: type lemmas per group of actions; frame lemmas, which split each step
into what the environment does (`EnvStep`: ComfyUI's prompts only grow and keep their
owner) and what touches one generation (`LocalStep`, `QuietMove`); and one lemma per
group of actions with one step per action. `InvNext` joins them and the theorems follow
by PTL. An interruption is decided two or three steps before it is written. `ReachInv`
carries the reason over: from the answer that the prompt is gone, or the restart without
the worker, to the write, the prompt stays out of reach (`OutOfReach`), because a process
does not change its pool and ComfyUI does not learn a prompt again.

**`LifecycleRefinement_proofs`**, on top of it:

| Theorem | Assumes | Statement |
|---|---|---|
| `OpenInvariance`, `FinalStatuses` | `NobodyRemoved` | `Spec => TerminalIsFinal`: nobody works on what has ended, so that no late executor, requeue, cancellation or recovery writes over an end, crashes included |
| `LiveInvariance`, `PromiseImplemented` | and `NothingCut` | `Spec => KeepsPromise`: every step is a step of GenerationPromise, or none |
| `AttemptInvariance`, `OneRun` | and `NothingCut` | `Spec => []RunsOnce`: ComfyUI never works on two prompts of a generation, and executes it once, or twice with the retry |

`NobodyRemoved` is `Doomed = {}` and `NothingCut` that neither a crash nor an ambiguous
submission is among the faults. They are hypotheses because the code does not have the
properties without them: while an account is removed, recovery may write `failed` over a
row that was just cancelled (section 5), and a submission that is cut off runs twice
(`v_duplicate_work`). `OpenInv` says that executors, claims and recovery jobs hold rows in
flight; `LiveInv` that every prompt ComfyUI may still work on is the row's or the one its
executor is about to record, and that there is one; `AttemptInv` what was executed before
the present attempt. A step's effect on one generation is one of a few moves (`StepMove`),
and each theorem needs only these.

**`Queue_proofs`** has what stands before the queue, in it and behind it. `TextPromiseKept` is `TextRunsSpec => KeepsTextPromise`, the
implementation of TextPromise: a prompt run reaches its model once, returns to the queue
only before that, and success and failure stay, although most writes of the row are blind. A
discarded run is not taken up again, and all that may still be written over it is `failed`, by
a recovery that had listed it. The invariant (`TextRunsInvariance`) says that stage and row follow each
other, and so do the rows and what recovery has still to write of them: the stages at which an
executor may requeue are reached only over rows that were never sent, and a row that was
listed is not claimed before recovery is through, since the dispatcher waits for it.

`KeysAreKept`, in the same module, is `SubmissionsSpec => []KeysHold`: a key has one
effect, a key the tab was told is refused has none, and the items of a run stay accounted
for, for any keys and numbers of items and any order in which requests and replies are lost,
repeated and served late. The tab knows little: `KnowledgeInv` says that while a key was
never offered, while its first attempt is alone, and once it was refused, the server has
nothing of it and no copy is on its way (`Quiet`); any doubt makes the call uncertain, and an
uncertain call refuses nothing. `EffectInv` gives each row one place of one receipt (the
accepted items of a batch are numbered without a gap, `PlacesInOrder`), and `RunsInv`
balances a run between the rows it has and the outcomes it retains. Assumed is
`SubmissionsAssumption` (a submission has an item, a call an attempt).

`TurnsAreKept` is `FairClaimSpec => OwnersInTurn`: of one owner work by hand is claimed before
automatic work and the oldest first, images and prompt runs taken together, and an owner
is served twice in a row only past others that came before it. It holds of every claim by
the way the candidate is chosen, once the queue, the cursors and the round are what
`FairClaimTypes` says. That needs an argument of its own: an iteration offers work to the
members of the pool by their load, and that a finite set of workers can be put in such an
order is proved by counting who comes before whom. `QueueTypes` is `Spec => []TypesOK` of the
run.

**`Platform_proofs`** has what the web server promises its clients, and the requests to the
language models. `PlacesAreKept` is `Spec => PlacesKept`: both limits, no idle place,
nothing held by who is over, and first come, first served, for any set of requests and any
limits. `AdmissionInv` relates the three coroutines of a request: who is in the queue waits
undecided (`QueueInv`), what an acquire task may hold at each stage (`AcquireInv`), and which
stages of the handler go with it (`HandlerInv`); the counters are the number of holders.
The waiters without one request (`Without`) are written by position and not with
`SelectSeq`, which is recursive and therefore opaque to the provers.

`EventsDoArrive`, in the same module, is `EventsSpec => []EventsArrive`: a connection delivers
no event twice, the rows of a coroutine in the order of their commits, and, once it has
caught up, every row past the id it asked for, unless the row's publication is still to
come, the queue was full, the replay was cut off or its id was in use before. For any number
of coroutines, events, deletions and reconnections, and any limits. The code keeps one
number for this, the high-water mark, so the invariant has to say why that is enough.
`NumberInv`: the events a connection can meet are numbered as they were made, and unless an
id came back later ones have larger ids. `BufferInv` and `ReplayInv`: what waits is there
once, the queue in the order of each coroutine and before what that coroutine has committed,
the replay by id and above the mark. `LogInv`: of what may still come, whatever was sent is
at or below the mark, and what is not skipped comes after what was sent of its coroutine.
`OwedInv`: every row owed was sent, is queued, is to be replayed, is to be published or is
excused, and every row that the mark covers, or will cover once the replay is through, was
sent or is to be replayed, so that skipping it loses nothing. That the replay is in order and
leaves out only newer rows than it keeps follows from the places of a finite set of ids
(`OldestIs`, `ReplayIs`). Assumed is `EventLimitsAssumption` (a queue holds an event).

Of the language models, `CompositionKeeps` is `CompositionSpec => []NewPrompts`: an accepted prompt is none that was excluded, a refusal
ends the composition, and it sends no more than its plan. What a mode excludes only grows;
the number of requests sent is pinned from both sides by the candidate and the rung that
come next.

`RoutingIsFair` is `ModelRoutingSpec => RoutedFairly`: a request gets under way only within the
slots that the document of that moment gives to the name it is sent with, the names give their slots
in the order in which the requests came, and a service that failed a request is not chosen for
it again before it has waited, as long as there is a document to choose by; for any services,
names, documents, slots, pins and requests. It does not bound what a service has under way:
a document that lowers the slots takes none back, and a service reached by two names has its
slots under each (section 5). `RoutingInv` is the types of documents, requests and lines
(`DocumentsOK`, `RequestsOK`, `LinesOK`); with them a request is sent in one place, behind the
count, and the order is the guard of that place. The third part is a matter of history: the
names that failed are remembered in `exclude`, which some answers clear and which is passed
to the choice only sometimes (`Excluded`). `RequestFits` says what makes that sound: what failed
since the last wait is among the excluded, and the choice is made without them only when
nothing did. A service is told from its names by `Identities`, so that a choice by capability
or by configured names avoids one that failed under another of them; a name that the account
chose is compared as it is (`Untried`). Assumed is `RoutingAssumption`: requests are finitely many, a
service's ID is one of its names, a document gives each service a slot at least (a count that is
missing or not positive is read as one), and there is an attempt.

**`Work_proofs`** has what goes on by itself. `ChecksAreKept` is `ChecksSpec => ChecksKept`: one image an attempt,
a verdict that follows from the scores, the rest of the batch queued once and with the
prompt that passed, and nothing changed of what has ended. `ChecksInv`: all attempts but the
last were scored and missed, and the status of the check fixes the status, the image and
the task of the last one. Assumed is `ChecksAssumption`: at least one attempt and one
failure allowed, scores from 0 to 100, which is what the score sheet's
schema admits (`domain/expectations.py:143`).

`CyclesApart` is `AutoSpec => []OneCycle` and `EndsAreKept` is
`AutoSpec => EndsHold`, in the same module. Cycles with a text source and cycles that are composed on their own
are accepted by two coordinators that do not know of each other: the first at the end of a
group's preparation, without looking for images under way, the second after such a look.
What keeps them apart is the revision. `AutoInv` says that whatever waits, group or cycle, is
of the revision in force, or of an older one once the folder is deleted (which leaves them to be
found invalid, `StepFits`); that the settings of a revision have a text source (`GroupsFit`) or
have none (`CyclesFit`), so that the two never wait together; and that beside a waiting group
nothing automatic runs and its images are within what is left of the limit. Most actions start
nothing (`NothingStarts`): they settle rows, or the settings change and nothing waits any
more. Assumed is `SizesAssumption`: sizes are whole numbers and there is a limit; settings without
a limit (`max_generations` null) are a limit that is never reached. `WorkTypes` is `Spec => []TypesOK` of the run.

**`Storage_proofs`** has what must stay on disk. `FilesAreKept` is `ArchiveSpec => FilesKept`: a row
never names a file that is gone and a result shows an image it kept, no file is left without
an owner but those a kill left, or a stop or an error between the commit and the deletion (the
history `lost` has them one by one), no final image is lost, and a success of ComfyUI fails
only for a final file that was not archived; for any files and any number of failed calls,
answers from the cache, stops, kills and starts. Disk, rows and ComfyUI change one after the
other, and `ArchiveInv` says what each order leaves true in between. `PathsFit`: a path is
held by one of the rows, the executor, the maintenance and the deletion of the result, and what
is about to be removed has no row. `SourcesFit`: ComfyUI is asked to remove only what was
archived, and an archived final image keeps its row, or another of its batch in a failure.
That rests on the choices themselves: an insertion replaces a final image only by itself
(`SupersededIs`), a file that is not worth a row has one if it is final (`UselessIs`), what is
best is final if anything is (`BestIs`), and a success keeps all of them (`KeptIs`). That a
latest and a best one exist is proved by counting who comes before whom, as in `TurnsAreKept`.
`FailuresFit`: in the last pass whatever has a row loses its failure before the commit.
Assumed are `ArchiveAssumption` (ranges of the constants) and `FinalsAssumption`: the final
images are those of one output and are told apart by their batch index, because a
publication has exactly one final image output (`domain/publication.py:598`).

`UpdateIsSafe`, in the same module, is `UpdateSpec => []UpdateSafe`: no release runs on
data of a later one, no answered write is lost, a reported outcome is the state of files,
record, container and data, and a rollback finds what it needs; for any number of runs,
releases and writes, wherever a run fails or is killed. The invariant fixes, for each stage
of a run, how far files, container, record and data have gone from the release before to
the target (`Holds`), that whatever is up serves data that are its own and complete
(`Serves`), and that a container that is down may be started when the files agree with it
(`Resumable`), which is what the preflight of the next run relies on.

**`ProgressRelay_proofs`** has what is told of progress. `ProgressIsTold` is
`RelaySpec => []ProgressTold`: a generation shows the progress of its own attempt and none when
it does not run, the last number of a node the monitor has gone on from is in a durable
event, and what durable events tell of a node never goes back, nor back to the older kind of
progress; for any script, buffer and number of disconnections, ends of the process,
cancellations, new attempts and refreshes. Each of the three holds until its own excuse
happens, and `RelayInv` has a part for each. `Timely` (no late refresh): the tracker, a write
under way and a refresh hold nothing of an attempt before. It carries over a new attempt
because the monitor is off then and its tracker gone, or made of a row that shows nothing.
`Counting` (and no refused write): the tracker's `audited` snapshot is in the log, and between
the flush of a node and the move to the next one the last number is, or is about to
be written. `TellsAhead` (no late refresh, no end of the process): of a node, whatever is in
the buffer or not sent yet is not behind the tracker and the log, and once `progress_state`
was seen of it the tracker remembers. For an event that is taken this follows from the script;
for a tracker that is made anew, from the row having no numbers yet. A comparison of
snapshots ignores the attempt (`Same`), which is why a late refresh spoils all three.
`Control` and `Tracking` say what may follow what, and that a snapshot on its way to a durable
event is the tracker's last. Assumed are `ScriptAssumption` (above) and that bounds are numbers.

**`Services_proofs`**: `OperationSettles` is `Spec => []SettledInOrder`: an operation
that reports failure has changed nothing, one that reports success is complete on every
replica, nothing is published before every replica has journaled how to take it back, and
pictures and selections are pruned when none can roll back; `RemovalWaits` is
`Spec => RemovalWaitsForWork`. For any replicas, any faults, stops and restarts, and
Save & Publish at any time. `SafeInv` says how far each loop over the replicas has come
(`Loops`), which coroutine may run at which status of the row (`TaskRow`), what was staged
when nothing has begun (`Freshness`), and that a removal that goes on has no user (`NoUser`):
the row is `running` before the check, and a generation is accepted only while it is not.
Each request of a companion, answered, refused or cut, is first reduced to what all of them
leave alone (`Effect`); what the coroutine makes of the outcome is proved once per way it
goes on (`RaiseLands`, `LeaveLands`, `ContinueLands`). `FullInv` adds what the journal of the
writer says about the files, and `Gone`: a removed file whose quarantine was unlinked. That
nothing rolls back then is the order of `_finalize`, and needs a replica besides the writer:
`OperationSettles` assumes `Mirrored`, and with the writer alone it is false (section 5).
`SafeInv` and `RemovalWaits` do not assume it.

`ReelsDoGiveWay` is `DemoReelsSpec => ReelsGiveWay`: an image of the background is begun only
after the quiet time (`QuietFirst`), there is one at a time and it is being cancelled while
anybody is admitted (`GivesWay`), a generation the entries forgot is one somebody deletes
(`NothingForgotten`), and an entry fails only by its own attempts (`FailuresAreItsOwn`); for any
images, rows, attempts and requests. A step revokes, reconciles and submits in one transaction,
so that each of the three is first reduced to what it makes of an entry and of its row. What
carries through is `ReelsFit`: every row that is to be kept is the attempt of exactly one entry
in the state its status calls for. For the quiet time, the stored age is at most one step ahead
of the quiet the loop has seen (`ClockInv`), whatever a restart or a step that fails forgets.
Assumed is that there is an attempt, and that the bounds are numbers (`ReelsAssumption`).

`CatalogIsKept` is `RegistrySpec => CatalogKept`: the catalog is available only as a completed discovery left
it, a current revision never goes back to an older manifest or API graph, and a source
keeps one until a discovery no longer finds it published; for any number of sources,
publications, outages and restarts. A discovery reads for long and commits at the end. Its
result is still no older than what is current then because one discovery at a time holds
the lock (`OneAtATime`), and because each thing it has read was no older than what was
current when it was read (`ReadInv`): the instance never goes back (`CurrentInv`). Assumed is
that a source can be published at all, and that what needs a node class is one
(`SourcesAssumption`).

`ServicesTypes` is `FocusSpec => []TypesOK`, the type invariant of the run over all three.

Only model-checked. Liveness, which is out of the prover's reach: `AllSettle`,
`DeletionsCarriedOut`, `CancelsReachNative`, `ReelsComplete`, `Resolved`, `AutoProceeds`,
`ChecksSettle`, `Released`, `CatalogRecovers`. The type invariant of the run `platform` as a
whole (`MCPlatform.TypesOK`): only the parts of it that the proofs above need are proved. And the safety of the modules without a
theorem: HistoryResult and PublishedParameters, which fold over lists (induction over data); `TwoCompete` is about two generations on one slot.

## 5. Findings

With a run:

1. `v_status_table`: a cancellation committed between the read and the write of the
   running mark is overwritten by `running`, against the table of allowed transitions
   (`domain/status.py:31`). The prompt is not cancelled and runs to its end.
2. `v_duplicate_work`: a graceful stop that reaches the executor while it closes the
   event channel after an ambiguous submission leaves the row `dispatching` without a
   prompt; the next start requeues it, although `queue_worker.py:863` says "never
   requeue this ambiguous submission".
3. `v_stranded`: a requeued row may be claimed for a second worker while its old
   executor is still registered; the new executor is discarded, and the row stays
   `dispatching` until the next restart (`queue_worker.py:401`).
4. `v_event_lost`: event ids come back after a deletion; a live event with such an id is
   taken for a replayed one and dropped (`api/events.py:158`).
5. `v_pinned_again`: while no document of the router can be read, the service an account
   chose is chosen again at once, every time, although it just answered that it is offline
   (`ollama.py:548`); no attempt is spent.
6. `v_failed_prune`: an update prunes older rollbacks before it has reported that it is
   complete; when that report fails it rolls back, with fewer rollbacks left
   (`src/scripts/production-update.py:909`).

Met while modelling, without a run of their own.

Lifecycle. With two workers the execution cache of a requeued job may be reset after
another worker claimed it; a stop between a terminal commit and the deletion it promised
loses the deletion; the mark that a cancel was sent is durable before the call and a
process that ends in between never sends it; `_fail_before_start` uses a `pending_delete`
it read before the commit; an account removed during a submission leaves a prompt that
belongs to nobody; recovery marks a prompt-less `cancel_requested` row cancelled without
carrying out its `pending_delete`, and may overwrite a terminal status committed since it
read its plan; an account stays `deleting` after a crash until an administrator asks
again; a cancel that is sent to the queue just as the prompt starts is a silent no-op.

Files. While a generation runs, `best_available_artifact_id` may name a row that was
pruned, until the finalization (`queue_worker.py:2058`). ComfyUI's files are removed
before the terminal commit, and the removal that is repeated after a failure names
locators that may have been used again. The commit and the compaction of a start choose
the shown one of several finals by different orders. A stop or an error between the terminal
commit and the deletion of the files it pruned (`queue_worker.py:2418` to `2437`: the commit's own
thread, the refresh of an estimate or of those of the batch) forgets their paths; the rows are
gone, so that no later start finds the files.

Progress. A refresh of an estimate that began in an earlier attempt may write that
attempt's snapshot to a row that waits again or runs again; it may also write an older
snapshot over a newer one. After a crash the older kind of event is taken again for a node
that `progress_state` was told of. A start that was buffered before a disconnect may
begin an observation although `docs/architecture.md` says "An uninterrupted WebSocket
observation".

Results. When one artifact of a publisher is valid and another malformed, the file of the
malformed one is not archived (an error is reported), although a comment of
`normalize_history` says that such must not make a useful partial image disappear. A
status text the code does not know with `completed` set gives a failure without an
execution error.

Parameters. Validation accepts: two parameters bound to one input (the last wins); an
option whose own strength its companion does not take (choosing it is refused, with an
error on a parameter that was not supplied); a positive prompt that is a number (it never
compiles).

Events: a gap opens for a browser that reconnects between two publications out of order,
and after a replay that hit its limit. Admission: a queue full of media refuses other
requests while their reserved places are free.

Claims and submissions: an owner whose oldest work fits only other workers of a pool may
wait behind others (`queue_worker.py:680` says so); a submission whose answer was
lost and that is refused each time it is repeated, for a passing reason or one that does not pass
(`generation-submissions.mjs:90` treats no refusal as final once the outcome is uncertain), stays
pending and keeps the tab from submitting anything else; the tab takes the codes of
DEFINITIVE_REJECTIONS for final although a copy of the request may still be on its way.
The executor of a text run may write over the "discarded" of an account's deletion. A start reads
the active text runs once and writes each as it was read (`prompt_generation.py:421` to `462`):
a queued run whose instance is no longer configured, and which its preparation discards in
between, is told as failed.

Routing: slots are counted by the name a request is sent with, against the current document
(`ollama.py:262` to `300`), so that a service that is sent requests under two of its names has its
slots twice, and one whose slots were lowered has more under way than it publishes, where the
docstring of `_ServiceSlots` and `docs/llm-router-contract.md` (section 7) promise no more than
the published slots; the router queues what is too much. A name an account chose is compared with
the names that failed, not with their services, so that it may lead to the same service again. A document that arrives on the stream leaves the stored ETag; a later poll that is
answered 304 keeps the other document (`ReadIsCurrent` in ModelRouting fails). The next
event repairs it.

Demo reels: a step that meets somebody and fails takes back what it recorded of the
activity; if all steps of the quiet time fail while a person works, an image may be begun right
after (`QuietFirst` counts the quiet by the steps that were carried out).

LoRA.
- With a single replica, a companion that dies between unlinking the quarantined file
  and saving `finalized` is rolled back without the file: the operation reports
  `failed` and the publications name a file that is gone. (`Settled` fails with
  `Replicas` of one; with a mirror, which is finalized first, it holds.)
- `_rollback` goes on after the writer failed, so that a mirror may publish its old
  graph while the weight is still in quarantine, against the comment at
  `services/lora_operations.py:1167` that the weight is restored first. The operation
  asks for repair.
- A lost reply of the first finalization, or an HTTP error of `probe()` after a
  rollback that restored everything, ends in `repair_required`, which no start can
  repair by itself and which blocks every further LoRA change.
- A graceful stop while `succeeded` is being written turns the row into
  `repair_required` until the next start.
- Only removals close admission: a generation accepted against a freshly verified
  installation loses its file when the installation is rolled back afterwards.
- A rollback on a replica without a journal leaves no trace, so that a prepare handled
  after it opens a journal nobody closes.

## 6. The plan

To model, where it adds most: prompt rerun on top of Submissions and Preparations;
sessions that are resolved while their user is reset (`services/auth.py`); the deletion of
a folder in two transactions (`services/collections.py`); the browser's synchronisation of
automatic settings (`src/frontend/src/auto-generation-sync.mjs`).

To prove next: `RequestsHonoured`, once the folds of `PublishedParameters` are stated by their
entries. No module declares a RECURSIVE operator, so that all of them can be proved about.
