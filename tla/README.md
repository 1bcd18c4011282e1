# Sheshnag: a TLA+ verification project

Sheshnag lets researchers submit files of inference prompts ("batches") that
are run on GPU workers other organizations lend. It has a control plane (a
FastAPI process with a PostgreSQL database, `backend/`) and a daemon on each
worker (`daemon/`). This directory holds TLA+ models of both, the TLC instances
that check them, and theorems about them checked by TLAPS.

Paths below are relative to the repository root. `workers.py` is
`backend/routers/workers.py`, `worker.py` is `daemon/daemon/worker.py`, and the
other files of `backend/` are named without their directory.

1. [The system](#1-the-system): components, and what is hard about each
2. [The modules](#2-the-modules): state, actions, and the code they stand for
3. [The runs](#3-the-runs): what is checked, the bounds, what they show
4. [Fairness](#4-fairness)
5. [The theorems](#5-the-theorems): what is proved and along which argument
6. [Disagreements](#6-disagreements-with-the-documentation) between code and
   documentation
7. [What is not modelled](#7-what-is-not-modelled)
8. [The plan](#8-the-plan)

## 1. The system

A batch is `validating` when it is created, then `validated` or `failed`; a
validated batch becomes `in_progress` when a worker polls it, and from there
`completed`, `validated` again (a failed attempt), or `failed` (the
MAX_BATCH_ATTEMPTS-th failed attempt). `VALID_TRANSITIONS` (workers.py:31-37)
is the table of it.

Everything in the control plane runs in **one process** (one uvicorn worker,
scripts/sheshnag-backend.service:14). That decides what can interleave:

- synchronous handlers run in a thread pool, each with a database session of
  its own: READ COMMITTED, autoflush off (database.py:29), no row is read FOR
  UPDATE. Python objects are read, decided upon and written back at the commit,
  so anything may happen between the read and the commit;
- asynchronous handlers (`create_batch`, `batch_events`) and the loop of the
  sweeper run on the event loop and are not interrupted between two awaits. The
  stale-worker sweep is synchronous code called from the event loop: while it
  runs no handler is dispatched, but handlers already in their threads go on;
- background tasks, SSE streams and their buffers live in memory only.

### Components

| component | state | operations | talks to |
|---|---|---|---|
| **dispatch** (workers.py, sweeper.py) | `batches.status`, `.attempts`, `.output_file_id`; `batch_assignments` (primary key `batch_id`, no foreign key: the row outlives the worker); `workers.status`, `.last_heartbeat` | poll, upload-results, report-failure, progress, register, heartbeat, model-download report; drain, undrain, remove; the stale sweep | daemons over HTTP; scheduler for the choice; usage accounting after an upload |
| **usage accounting** (services/usage_ingest.py, sweeper.py) | `usage_records`, the totals, `usage_ingestion_pending` and `_attempts` on the batch | background ingestion, the retry sweep | reads output files; flagged by uploads |
| **intake** (routers/batches.py, routers/files.py, services/sse_manager.py) | files table and disk, the batch row, one task per batch, SSE buffers and queues | upload, delete and download of files; create_batch; validate-and-notify; event streams | validator; dispatch takes over the validated batch; workers download inputs |
| **batch validator** (services/batch_validator.py) | accumulators of one pass over a file; the verdict and the required capabilities it stores | validate_batch_file | catalogue; online workers |
| **prompt pool** (worker.py:513-830) | queue, tasks, results by index, counters | partition, pool workers, embedding chunks, progress reports, filling what is left | runtimes (executors); the control plane's progress counters |
| **daemon loop** (worker.py, main.py, client.py, model_manager.py) | identity, current job, `_running`; `_runtime_live`, the model-to-runtime map, the lists of ModelManager | register, poll, execute, upload or report, shut down; probe and list runtimes, pull a model | control plane; runtimes |
| **inventory** (workers.py:95-361, reconciliation.py) | `worker_runtimes`, `runtime_models` and their states, `empty_inventory_beats` | registration, the inventory half of a heartbeat, reclassification | catalogue; scheduler reads what it leaves |
| **scheduler** (scheduler.py) | none | `can_serve`, windows, size limits, fit rules, `find_best_batch` | reads workers, inventory, catalogue |
| **organizations** (routers/organizations.py) | memberships with roles, invites, API keys, policies of workers | invite, accept, leave, transfer, change role, remove; worker policy | authentication |
| **authentication** (auth.py, routers/auth.py, rate_limit.py) | users, tokens, codes, keys | sign-up, login, resets, verification of keys | all handlers |
| **catalogue** (catalog_service.py, catalog_seed.py, identity_resolver.py, routers/models.py) | catalogue entries, artifact files, serving profiles | seeding, adoption | inventory, validator, scheduler |
| **pool view** (routers/pool.py) | a cached snapshot, shared by all callers | capacity, public counts | scheduler |
| **schema** (models.py, migrations.py, database.py) | the tables | start-up migrations | all |
| **executors** (daemon/daemon/executors) | per-runtime HTTP clients | generate, embed, list and pull models | third-party runtimes |
| **hardware, caches, configuration** | none shared | probing, parsing | daemon start-up |
| **dashboard** (app/) | user-interface state | reads the API | API |

### What is hard, and what correctness means

**Dispatch.** Two polls may read the same validated batch; a failure report, a
timed-out upload and the sweep may each hold a stale reading of the same row; a
requeue deletes the assignment row at once but changes the status at its
commit; a daemon may crash, be swept, give up on a call that still reaches the
server, or go on with a job that has been handed to somebody else. Correct
means: a batch in progress is somebody's; one holder at a time; a failed batch
had all its attempts; terminal statuses are final; a completed batch is
credited to the worker whose output it offers; a draining worker takes nothing;
every request ends; the batch of a dead worker is taken back.

**Usage accounting.** An ingestion is many transactions and can stop between
any two, overlap with the sweeper's of the same batch, or raise. Correct means:
a total is never that of half a file; when the flag is clear rows and totals
are those of the output; a pending batch is ingested or given up, whatever
older batches do.

**Intake.** The validation is a fire-and-forget task; the file may be deleted
under it; the commit of the verdict may fail; a stream may be opened at any
time. Correct means: an event never says what is not committed; a queued batch
has its input; a batch gets out of `validating`; who watches is told.

**Validator.** One pass with accumulators, where a refused line still leaves
its mark (its id, its model), then four gates that must be met together.
Correct means: the verdict is that of a definition without loop and
accumulators.

**Prompt pool.** Tasks interleave at every await, runtimes answer a chunk in
any order and partly, a task may break, SIGTERM may come at any time, reports
overtake each other. Correct means: each row exactly one result and its own;
counters that agree with the results; no row lost; displayed progress that only
rises; an end.

**Daemon loop.** The identity the backend knows and the one the daemon saved
may differ after a restart; two tasks rebuild the routing map, with an await at
each runtime, from listings that can fail one by one. Correct means: the map is
what the last listings said, in the order of the configuration; a runtime that
returns is listed again; a job runs where its model was listed, never on a
guess; whatever becomes of a job, it is run or reported.

**Inventory.** What a heartbeat leaves out may mean "gone", "could not be
listed" or "not asked"; the loaded names carry no runtime; adoption and the
seed change what rows mean. Correct means: a row's status is what its bytes are
to the catalogue; a model is filed under the runtime that lists it; one silent
beat delists nothing; a missing model returns only on evidence; what reports
have taught the catalogue is kept.

**Scheduler.** Windows that wrap past midnight, limits that may be absent,
capabilities, memory and size that must be met by the same runtime, and a name
read again after the commit. Correct means: a poll takes the first batch it can
serve, loaded ones first, in its provider's hours; the name it is given is one
it holds the pinned bytes under; the pool shows what would be dispatched, and to
nobody what is another organization's.

**Organizations, accounts, keys.** Every handler checks on one reading and
commits on another. Correct means: an organization keeps an owner, only owners
make and unmake owners, a revoked invite admits nobody; one account for an
address, one's own when signed in; one live reset link, which works once; no
window lets a user mint more keys than the limit, and a replaced secret is dead.

**Progress across attempts.** A report of one attempt may be served in the
next. Correct means: the counts shown belong to the attempt that runs.

PROJECT.json lists every hazard at its line with the properties that cover it,
or the reason none does yet.

## 2. The modules

| module | role |
|---|---|
| `BatchContract` | abstract: what the control plane promises of one validated batch |
| `Dispatch` | handlers, sweep, worker rows and daemon loops |
| `DispatchProofs` | theorems; those of its second half take transactions one at a time and end in Dispatch implementing BatchContract |
| `Usage`, `UsageProofs` | usage accounting |
| `Intake`, `IntakeProofs` | files, creation, validation task, events |
| `Validator`, `ValidatorProofs` | the verdict on one file |
| `PromptPool`, `PromptPoolProofs` | the daemon's pool |
| `Routing` | the daemon's choice of a runtime for a job |
| `JobsProofs` | theorems about Routing, and about the three modules of `MCJobs` together |
| `Matching` | the rules of scheduler.py, as operators |
| `Scheduling` | policies, polls and the pool's snapshot, over Matching |
| `Inventory` | registrations, heartbeats, adoption and seed, over Matching |
| `FleetProofs` | theorems about Matching, Scheduling and Inventory |
| `Membership` | organizations, members, invites |
| `Accounts` | sign-up, sign-in, domains, password reset |
| `Keys` | API keys, their rate limit, what a secret stands for |
| `PeopleProofs` | theorems about Membership, Accounts and Keys, and the three together |
| `Absent` | the constant `None`, which modules extended together share |
| `MCJobs` | Intake, Routing and PromptPool side by side |
| `MCFleet` | Inventory and Scheduling side by side |
| `MCPeople` | Membership, Accounts and Keys side by side |
| other `MC*` | constants of the TLC instances |

The modules meet at the status of a batch: Intake ends where Dispatch starts
(`validated`), and has a one-step-per-transition summary of Dispatch for what
depends on it (deleting and downloading a file). Validator is the inside of
Intake's `ValidateJudge`. Usage starts at the commit of an upload,
`UploadCommit` in Dispatch. PromptPool is what a daemon does between
`PollCommit`'s reply and `SendUpload`, and Routing what it does before the first
prompt. Scheduling has the choice that Dispatch leaves open, from rows that
Inventory has and Scheduling takes as given: Inventory's `HandedBytesArePinned`
asks Matching for the name of a poll over the rows that its own reports led to.

`MCJobs`, `MCFleet` and `MCPeople` put modules that share no variable side by
side and let a constant `side`, chosen at the start, say which one moves. One
behaviour is a behaviour of one module: nothing is checked there about their
interplay that the shared operators do not express. They
*extend* their modules, so that a run checks the very definitions the theorems
are about; this is why the operators of those modules carry names of their own
(`PoolNext`, `RouteSpec`, `AccountInit`, `KeySpec`, ...).

"map" in PROJECT.json gives the source lines of every definition. Operators
marked "Bug variant" belong to no behaviour of a module: each is a way the code
could plausibly be wrong, which the properties must then detect.

### Dispatch

State: `status`, `attempts`, `assigned`, `output` are the batch row and its
assignment row; `wstatus`, `stale` the worker row (`stale` says that
`last_heartbeat` is older than the cutoff: the clock is abstracted to that
bit); `req` the HTTP requests of the job loops; `sweep` the sweeper's
transaction; `daemon` the loop of each daemon; `handed` and `drained` are
history variables.

A handler is split where the code is: a request is **sent**; the handler
**reads** (`PollRead`, `UploadRead`, `ReportRead`: everything it decides on,
including its early returns, is this step); `requeue_or_fail_batch`'s bulk
DELETE goes to the database at once and takes a row lock (`ReportVoid`,
`SweepVoid`); the **commit** writes what was decided from what was read
(`ReportCommit` writes `seen + 1`, whatever attempts are by now). `PollCommit`
is the UPDATE and INSERT of poll_job: the primary key refuses a second row. A
poll whose INSERT waits for a voided row while its owner waits for the batch
row is a deadlock the database breaks, in favour of either (`PollDeadlock`,
`ReportDeadlock`, `SweepDeadlock`). The sweep is a transaction of its own,
worker by worker and batch by batch, with one commit. `MayOpen` says that no
handler is dispatched during a sweep. Registration, heartbeats and the
operator's actions are one short transaction each and one step each.

Abstractions:

- the batch and its assignment row are read in one step. The handlers read them
  back to back, and a commit between the two shows as a refusal, as the earlier
  reading or as the later one;
- the choice of the scheduler is open: `PollRead` may take any validated batch,
  `PollNothing` may refuse at any time, so every choice is covered;
- the model starts with batches validated;
- a removed worker id does not return: its daemon registers under a new id,
  which is another worker. A finite instance may therefore come to rest, and
  runs without the deadlock check;
- HTTP requests are delayed and lost but not duplicated: the client does not
  retry them;
- counting stops at bounds that no comparison can see beyond: `attempts` at
  `MaxAttempts + 1`, the history `handed` at `MaxAttempts`.

`Overlap = TRUE` is the deployed server. `Overlap = FALSE` is the server one
transaction at a time: requests may still be in transit, late and abandoned,
only no two transactions are open at once. The properties that hold only then
say exactly what the code relies on without asking the database for it.

### BatchContract

`Assign`, `Complete`, `Requeue`, `Fail` on one batch, each with status,
assignment row, attempts and output together. A step moves any number of
batches (one sweep takes back several).

### Usage

`files` are the outputs uploaded for a batch, `records` its rows in
`usage_records`, `rollup` the totals. A total is represented by the rows it
sums, so that two totals are equal only if they are of the same rows. `task`
holds the ingestions under way, one of which is the sweeper's thread. Actions:
`Upload`, `Replay` (the idempotent re-upload), `DeleteFile`; `Begin`,
`WriteChunk` (one per CHUNK_SIZE rows, committed), `Sum`, `Done`, `EndEmpty`,
`Raise`, `CountRead`/`CountCommit`/`CountFails` (`_record_failed_attempt`, read
and written back); `SweepSelect`, `SweepTake`, `SweepFails`; `Restart`.

Abstractions: lines that the code skips one by one are left out; a `Poison` row
is one that raises where a skip is meant; ids are distinct within an output,
which the validator and the pool guarantee; `Uploads = 1` in runs and theorems:
one upload commits per batch, which Dispatch shows for transactions that do not
overlap (a completed batch is never taken back).

### Intake

`row`, `disk`, `holds`, `del` are a file (table row, bytes, what its content
comes to, its delete handler); `status`, `input`, `org` the batch; `task` its
`_validate_and_notify`; `buffer` and `stream` the SSE side. `delete_file` is
three steps (check, unlink, commit), `create_batch` two, the task up to six,
including the fallback of `_persist_result` when its commit raises.

Abstractions: the content of a file is good, bad, or raises; the gates may
refuse a good file (they depend on who is online); one event per batch, so the
trimming of the SSE buffer is out of reach; one delete handler per file at a
time; a commit that succeeds but whose acknowledgement is lost is not modelled.
`Restarts`, `DbFails`, `Overlap` switch the respective faults on.

### Validator

A line is blank, no JSON object, an empty object or an object with what the
checks distinguish of it. One action per way through the loop body, then
`EndOfFile` and `Judge` with the set of hosts online left open. `Acceptable` is
the reference: what a good file is, without loop. The worker reads of the two
host gates are one; the error list is abstracted to `valid`,
`context.first_model` and `result.model` are one variable (they are assigned
from the same expression).

### PromptPool

A row is its custom_id and its class for the partition (`chat`, `embed`,
`list`, `stream`). `Partition` refuses duplicates and streams and makes units;
`Take`, `Answer`, `Report`, `Leave` are the pool's tasks: between the answer of
a runtime and the report there is no await, so recording is one step and the
lock is never contended; what a runtime answers (some rows of the unit, in any
order, or an exception, which is the answer that names none) and whether the
throttle lets a report through are open. A report arrives or is lost
(`report_progress` swallows its errors). `Breaks` lets a task die in its loop
after counting, as the tests do. `Fill` and `Return` end the job. Lines that
`_parse_input` skips are left out.

### Routing

`up`, `has` are the world: which runtime answers and what it holds; both change
at any moment. `live` and `routes` are `_runtime_live` and `_model_runtimes`;
`scan[t]` the map that a task, the heartbeat or the job, is building, one
`List` per runtime (one await each); `known` ModelManager's lists, which nothing
invalidates; `job` the phases of `_execute_job`'s steps 0 and 0b: `Route`,
`Resolve` (after its own scan), `Ensure`, `Pull`, `Verify`, `Run`. A listing
that fails is empty: every executor's `list_models` swallows its errors, so the
branch that carries old models over (worker.py:875-882) is never taken.
ModelManager's lists start from what was listed at the start (`RefreshModels`).
`everListed` is history: that a job runs where its model "was listed" speaks of
it, because the code never promises more (a route may be older than the last
listing, and `known` never forgets).

### Matching and Scheduling

Matching is scheduler.py: an operator per function, with sets where the order of
rows is the database's. RAM is counted in fifths of a GB, because the headroom is
a fifth of the machine. The week of a policy is a day of `Day` minutes.
Scheduling is who uses the rules: `SetPolicyRead`/`SetPolicyCommit` (only columns
that differ are written), `Ping` (a heartbeat
of a daemon that sends no inventory), `Silence`, `Sweep`, `Drain`, `Undrain`, `PollMatch` and `PollAnswer` (the name is
resolved after the commit, on rows read again), `Ask`, `Store`, `Expire`,
`Reply` (one snapshot for all callers, computed outside the lock). A poll and a
snapshot take place at any of `Minutes`. The properties' reference (`InHours`,
`Holds`, `Memory`, `FirstHolds`) is written from the words of the source and
shares no operator with Matching. A snapshot has the minute it was made at and
all that was servable then (`at`, `all`) as history: `ShownRuns` asks for a
worker who is online, fresh and in its hours at that minute.

Two PATCHes that overlap tear a window (start without timezone, or equal ends;
models.py:245 says "All three window columns are set or none is"). `in_window`
then raises and with it every poll of that worker (`Raises`); the properties are
stated of polls that do not.

### Inventory

`catalog` entries with pin, file hashes, legacy name and profiles with the names
they were taught; `runtimes` the rows of each worker by name. `Register` replaces
the rows. `Heartbeat` is the handler's four parts in their order: liveness
(`Probed`), loaded names (`Lit`), `apply_inventory` item by item and then what
was not listed (`Applied`), empty beats (`Counted`). `AdoptByAdmin`, `AutoRead`
and `AutoAdopt` (the pass reads the hashes once), `Seed`. The registries are the
constant `Public`. `heard`, `silent`, `quiet`, `listed` are history: the last
listing of a runtime, the beats since, the beats since a listing that came with
the runtime's liveness, and all names it ever listed. Not there: the renames of
the seed.

`StockAssumption` and the guard `Sends` say what a daemon of this repository may
send: each engine once (executors are a dictionary by engine), a name once to an
engine (an executor lists a directory, or drops what it has seen), and items
tagged with an engine it has registered, or none tagged (older daemons). A
listing that fails is empty, and a liveness probe that fails as a whole leaves
the beat without liveness while its inventory is sent (heartbeat.py:
`_fetch_runtime_statuses` answers `[]`); beats of both kinds are in the instance.

### Membership, Accounts, Keys

A request is two steps: the handler's checks, which leave its unit of work in
`open` (`task` in Accounts), and `Commit` (`CommitTask`), which flushes it. An
UPDATE that finds its row gone raises and rolls back, a DELETE does not; a unique
constraint raises at the flush. Histories: `outdated` organizations, where a
commit rested on readings another commit had overtaken; `stale` addresses alike.

In Accounts an address is a person and the way it was typed, a domain a sequence
of labels. A sign-in that the domains refuse (403) is a step too: `issued` is the
last answer to a sign-in, who came and the account of the token they got, or
`None` for a refusal.

Keys takes who is an officer, and which workers are `busy`, as free. `granted` is
the history of each user's grants; `stamps`, the list of rate_limit.py, says which
of them are still on it, and a request that is let through is on the list even
when the handler then refuses it.

## 3. The runs

| run | instance | properties |
|---|---|---|
| `dispatch_overlap` | 1 worker, 1 batch, 2 requests, 2 attempts, `Overlap`; fair | TypeOK, InProgressIsAssigned, FailedWasTried, EveryRequestEnds |
| `dispatch_serial` | 2 workers under an operator, 1 batch, 2 requests, 2 attempts, symmetry | ValidatedIsFree, CompletedIsCredited, TerminalIsFinal, DrainingTakesNothing, ImplementsContract |
| `dispatch_reclaim` | 1 worker under an operator; fair | DeadIsReclaimed |
| `terminal_reopened` | `Overlap`, 3 attempts | TerminalIsFinal, violated |
| `abandoned_stuck` | fair, daemons stop crashing | AbandonedIsReclaimed, violated |
| `usage` | 2 batches, 1 task and the sweeper, outputs of 0 to 2 rows (one raises), chunks of 1; fair | TypeOK, TotalIsWhole, RecordedIsExact, IngestionEnds |
| `intake_raises` | a file whose reading raises; fair | ValidationEnds, violated |
| `intake_shared` | 1 file, 2 batches, 2 organizations | AssigneeMayRead, violated |
| `validator_verdict` | files of up to 4 of 14 lines, every set of 4 hosts, MAX_LINES 3 | TypeOK, VerdictIsRight, StoredAreNeeded |
| `jobs` | Intake: 1 file, 2 batches, 1 stream, restarts, failing commits. Routing: 2 runtimes of which one pulls, 2 models, 1 event, 1 job. PromptPool: 5 inputs, 2 tasks, chunks of 2, tasks that break, shutdown. Fair | JobsTypeOK, EventIsTrue, QueuedHasInput, AnswerIsOwn, CountsAreOfRows, EveryRowIsRun, RoutesAreListings, ShownOnlyRises, QuietValidationEnds, WatcherIsTold, JobEnds |
| `fleet` | Inventory: 2 workers with 2 and 1 runtimes, 3 hashes, 1 adoption, 1 new start. Scheduling: 2 workers, 3 batches, a day of 4 minutes, 2 admins, 2 callers, 2 requests | FleetTypeOK, RowsFollowReports, PicksInOrder, HandedIsHeld, ChangesOnEvidence, PoolTellsTheTruth |
| `people` | Membership: 3 users, 1 organization, 3 rows, 2 requests. Accounts: 2 persons, 2 identities, 2 links. Keys: 1 user, 2 keys, 2 an hour | PeopleTypeOK, OwnersHold, AccountsHold, KeysHold, OwnersDecide, OnlyOneself |

What they show:

- **dispatch_overlap**: with handlers and sweeps interleaving as the deployment
  lets them, a batch in progress always has a holder, so the sweeper can find
  it; no two overlapping requeues charge one hand-out twice; no handler waits
  for ever for a row lock.
- **dispatch_serial**: one transaction at a time, every other consistency
  between status, assignment row and output holds, and each batch lives the
  life of BatchContract. Together with `terminal_reopened` this locates the
  remaining races: they need two open transactions, not merely late requests.
- **dispatch_reclaim**: a daemon that dies and stays dead, on a worker row that
  says online or draining, loses its batch to the sweep.
- **usage**, **validator_verdict**, **jobs**, **fleet**, **people**: as section 1
  puts correctness, under the faults of the instance. `HandedIsHeld`
  says over Scheduling's rows that the name handed is one the worker holds when
  the answer is written; `RowsFollowReports` has over Inventory's that those
  bytes were last reported as the pinned ones (`HandedBytesArePinned`). Neither
  says that the runtime holding it is the one whose
  capabilities and memory were asked: `resolve_runtime_model_id` takes the rows of
  all runtimes, an alias first, while `can_serve` asks the first in order
  (executors/base.py:95-98 says the daemon's runtime is the one the backend
  matched). `ChangesOnEvidence` accepts an adoption as evidence: `reclassify_hash`
  also makes missing rows available (reconciliation.py:255-266), so what is
  "absent from a full inventory" is "never served" (:18-19) only until its hash
  is adopted.

**Bounds.** *Two requests and one worker* are enough for dispatch races: a late
request of a job and one of the next attempt, or one request and the sweep;
*two workers* add the stale holder against the new one. A batch is independent
of the others except within a sweep, whose single commit the theorems cover for
any number. *MaxAttempts 2* has both outcomes of a requeue; `attempts` is
counted to one above it, so a charge too many stays visible. *Two batches* in
Usage with `Limit = 1` are a backlog longer than a sweep takes; *chunks of 1
and outputs of 2* have a boundary between chunks, *Cap 1* both outcomes of a
failed attempt. *Two batches on one file* are the sharing Intake needs. *Files
of 4 lines* have a line after the limit of 3 requests, and lines after a
refused one; the theorem covers any length. In PromptPool the inputs have a
repeated id, an id that repeats a refused row's, a chunk and a half, and a row
that cannot share a request; two tasks suffice for reports that overtake each
other. In Routing one event beside the initial world, which is any, has a runtime
go, come or change at every point of a scan and a job; two events were run
once, with the same result. In Inventory four reports of a
worker of two runtimes have a name move between them, a runtime fall silent,
bytes change under a name and a listing come without liveness; the empty beats
saturate at 2. In Scheduling four
minutes have a window that wraps, one that ends at midnight and one that does
not wrap; two requests are one PATCH between two polls, or two that overlap. In
`people` the constraint `Followed` cuts a behaviour once a commit has rested on
outdated readings or an invite was accepted (what is claimed of such
organizations is claimed up to there), keeps rows and invites together at the
number of users, and follows reset links apart from domains.

`CHECK_DEADLOCK FALSE` is set where the system may really stop: a worker id
that was removed, files uploaded and deleted, a job that has returned.

## 4. Fairness

- *Handlers* (`SF` of a request's steps): a thread pool serves the requests in
  turn; a row lock is held by a transaction that ends. Strong, because
  `MayOpen` is disabled by each sweep again and again.
- *Sweeper* (`SF` of its start, `WF` of its steps): a loop with a sleep
  (sweeper.py:157-188) that catches what a sweep raises.
- *Restarts* of the backend stop eventually: liveness is about what happens
  once they do.
- *Daemons*: a live one beats (heartbeat.py), times its calls out (every client
  call has a timeout), ends or fails the job it runs. A dead one is not assumed
  to come back, and crashing is not assumed to stop, except in
  `abandoned_stuck`, which shows that even then the batch stays.
- *Ingestion tasks and validation tasks* (`WF`): threads run on. Ingestions may
  raise for ever; only counting a failure and the sweep's own queries stop
  failing.
- *Pool tasks, scans and the job* (`WF`): the event loop runs each that can go
  on, and calls to runtimes have timeouts. Shutdown, breaking, probes and what
  becomes of the runtimes are never assumed.

Inventory, Scheduling, Membership, Accounts and Keys promise nothing that must
happen, and have no fairness. Nothing assumes that a worker polls, that an operator acts, or that the
scheduler ever picks a batch.

## 5. The theorems

All are for every value of the constants that satisfies the modules' named
assumptions (`DispatchAssumption` and so on, which TLC evaluates on every run).
The assumptions only give constants their types, except for three the code
justifies: the distinct ids of an output (Usage), that a line without fields says
nothing (Validator), and that a daemon registers an engine once and an executor
lists a name once (Inventory).

- **DispatchProofs**: `TypeCorrect`, `InProgressAlwaysAssigned`,
  `FailedAlwaysTried`, with overlapping transactions. A batch becomes "in
  progress" only by a `PollCommit`, which writes the assignment row with it,
  and a commit that deletes the row also takes the status away (a sweep deletes
  only rows of batches it takes: `sweep.held \subseteq sweep.taken`). "Failed
  only after MaxAttempts hand-outs" is not inductive: a requeue decides on the
  attempts it has *read*. The strengthening (`TriedInv`) bounds what is stored,
  and what every open requeue and the sweep have read, by the hand-outs
  (`Covered`): what is read of a batch in progress is less than its hand-outs,
  of which the last is not charged yet, and hand-outs never go down while the
  requeue is open. Two requeues that overlap then charge the same attempt, and
  lose one rather than charge one too many.
- **DispatchProofs, one transaction at a time**: with `~Overlap`, `ValidatedAlwaysFree`,
  `CompletedAlwaysCredited`, `DrainingNeverAssigned` and
  `DispatchImplementsContract`. The invariant is that *what an open transaction
  has read is still so* (`ReadsHold`, `SweepReadsHold`), together with
  `RowsAgree`; then each commit is one transition of BatchContract from the
  state it finds. `TerminalAlwaysFinal` follows from the refinement alone: no
  transition of the contract leaves "completed" or "failed".
- **UsageProofs**: with one committed upload per batch, `RecordedAlwaysExact`
  and `TotalAlwaysWhole`, for any number of runners, chunks and rows. Rows have
  distinct ids, so writing a chunk again changes nothing; a runner that has
  committed p rows finds them whatever others write; what is recorded is always
  the output's. At its last row the table is therefore the output's, and so is
  the sum.
- **IntakeProofs**: `EventsAlwaysTrue`, with every fault switched on or off;
  `QueuedAlwaysHasInput` with `~Overlap`. Only the one task moves its batch out
  of `validating` and it has committed before it publishes; a delete under way
  excludes the creation and every queued batch of its file.
- **ValidatorProofs**: `VerdictAlwaysRight`, `StoredAlwaysNeeded` for files of
  any length. After each line the accumulators are functions of the lines read
  (the set of ids, of models, of needs, the number of requests) and `valid`
  says those lines are in order. Once a line is refused the accumulators no
  longer need to be right, and the invariant does not say so after the loop.

- **PromptPoolProofs**: `AnswerAlwaysOwn`, `CountsAlwaysOfRows`,
  `EveryRowAlwaysRun` and the action property `ShownAlwaysRises`, for inputs of
  any length and classes, any number of tasks and any chunk size. The units that
  `Partition` cuts share no row and leave none out (a lemma about the sequence
  of chunks); from then on a row without a result is in the queue or with one
  task, and nowhere twice (`QueueOK`, `WorkOK`, `CoverOK`), so an answer is the
  first of its row and one count. What is left when a task broke or SIGTERM came
  is what `Fill` fills. A report carries counts that were true when it was taken
  and the counters only grow (`ShownOK`), so one that is overtaken lowers nothing.
- **JobsProofs**, of Routing: `RoutesAlwaysListings`, for any runtimes in any
  order of configuration. Every route, every entry of a map under construction and every
  list of ModelManager is of something that was listed (`Founded`); a live
  runtime was listed since it came back or the heartbeat's scan has it still
  before it (`ListedOrAhead`); as long as no two scans overlapped, the part of
  the map that is built is, model by model, the first runtime that listed it
  (`OneScan`).
- **PeopleProofs**, of Membership: `OwnersAlwaysHold` and the action property
  `OwnersAlwaysDecide`. The handlers check before they commit, and nothing stops
  two that overlap; the claim is of organizations where each commit rested on
  current reads (no owner left, an invite admitted, a member made twice there).
  The invariant is that what an open request has read still holds while it is
  fresh (`Sound`: those it adds are no members, an owner remains, its user is
  entitled), because a commit makes every other request on its organization
  stale and touches no row of another (`Within`).
- **PeopleProofs**, of Accounts: `AccountsAlwaysHold` and the action property
  `OnlyAlwaysOneself`. The same argument with an address for an organization: a
  commit makes the other tasks of its address outdated and touches no other
  address (`CommitChange`). While a task is fresh, what it read stands
  (`TasksFresh`): a sign-up's address is one the domains admit, the links that
  forgot-password is to retire are all there are, the link of a reset is unused.
  Links are of accounts there are, and a task's links of its own address
  (`AddressesSound`, `TasksSound`). That sign-in finds every account rests on
  addresses being stored in one form.
- **PeopleProofs**, of Keys: `KeysAlwaysHold`, for any limit and window. What a
  user was granted within the last window is still on the user's list whenever
  lists were swept (`GrantsListed`), so a grant the limit lets through is counted
  against every window that holds it (`LetThroughHolds`). A secret is minted after
  all those that were replaced and no two rows have one in common
  (`SecretsFresh`), so there is one row at most for the bearer's type to be of.
- **FleetProofs**, of Scheduling: `PicksAlwaysInOrder`, `HandedAlwaysHeld` and the
  action property `PoolAlwaysTrue`, for any fleet, catalogue, queue, heartbeats and
  policies of the schema's types. These are mostly about Matching: each of its
  operators is shown equal to the reference the documentation's words give. The
  comparisons of `in_window` find the minutes of a walk round the clock, whichever
  way the window wraps (`WindowIsWalk`); a row is the artifact by hash where both
  are known (`IsByHash`); `can_serve` is `Takes` (`ServesTakes`, from `FitsInMemory`
  and `ServesFirst`); the best batch is the first (`BestIsFirst`); the names that
  may be sent are those held, aliases first (`HandedAreHeld`). They need the rows'
  types in every reachable state (`SchedulingTypeCorrect`: a policy written column
  by column stays one), and that a snapshot in the cache or in a request is whole,
  whoever it was computed for (`SnapshotsWhole`). `PoolTellsTheTruth` needs that a
  limit is at least one prompt (`ServesOne`; WorkerPolicyRequest has `ge=1`).
- **FleetProofs**, of Inventory: `RowsFollowReportsAlways` and the action property
  `ChangesAlwaysOnEvidence`, for any workers, registrations, heartbeats of any
  length, manifests and adoptions. The inductive invariant (`StockInvariant`)
  relates, runtime by runtime, the rows to what is remembered of the reports
  (`RuntimeOK`): a row's name was listed there; its status is one that the pins of
  its hash, or of its name, allow (`Sound`); each item of the last listing has its
  row, with the item's hash, and with its flag as long as no beat went by without
  a listing; and the count of empty beats is at most the beats that were empty.
  It rests on three arguments. A heartbeat goes item by item: after k items the
  rows are those the first k items named, as they said, and all the others
  untouched (`RowsAfter`, `OneMore`), because no name comes twice to a runtime
  (`Once`). The catalogue changes under the rows of *other* workers in the same
  commit: what a report teaches changes neither pins nor files nor the names that
  classify (`Grown`), so their rows stay `Sound` (`GrownWorker`); an adoption adds
  a pin of one hash, and every row of that hash is classified again
  (`RecheckedKept`); a start may change every pin, and its rows claim nothing
  (`StaleKept`). And the guard of reproducibility goes from rows to names
  (`HandedIsPinned`): a name handed out for a pinned entry is of an available row
  whose hash is the pin or unknown, and the last listing does not contradict it.
  The invariant is stated of the variables' values under bound names (`StockInv`),
  which lets one lemma about a worker's step serve all actions.
- **The compositions**: `FleetTypeCorrect`, `JobsTypeCorrect`, `PeopleTypeCorrect`.
  A behaviour of `MCFleet`, `MCJobs` or `MCPeople` is a behaviour of each of its
  modules (`FleetIsOfBoth`, `JobsAreOfAll`, `PeopleAreOfAll`: the step of one part
  is a stutter of the others), so every theorem about a part holds of the run.

Some invariants were not what was first stated. Routing's "a job runs where
its model is listed" is false of the present, since ModelManager's lists are
never invalidated: the theorem is about what was ever listed. And `ShownRuns`
once asked only for *some* worker who would take the entry at some minute; it now
asks for the minute and the presence the snapshot was made with. `DelistsAfterTwo`
once counted the beats since the runtime last listed something: false, because a
listing that comes without liveness does not reset the code's count (section 6).
And a profile's own name may be among the names it has learned, once a manifest
renames it: `StockTypeOK` no longer denies it.

**Induction over data.** The library's induction theorems take the property as a
parameter, which the provers cannot instantiate. Where a proof needs induction it
is on a *set*: a well-founded ordering has a least element in every non-empty set
(`WFMin`), taken of the set of counterexamples. This way every set of numbers has
a least one and a finite one has a greatest one (`LeastNumber`,
`GreatestNumber`), which is what the CHOOSEs of Matching rest on, and a listing
that is found was made (`ListingExists`). A heartbeat's items are a recursive
function over their number (`Landings`): that the function exists, and what it
gives after each item, are shown in the same way, of the least number of items
for which it would fail (`LandingsAreSteps`, `ItemsLand`). It does not reach the
folds of the library, nor recursive operators.

**Only model-checked**, and why:

- every liveness property (`EveryRequestEnds`, `DeadIsReclaimed`,
  `IngestionEnds`, `QuietValidationEnds`, `WatcherIsTold`, `JobEnds`): the prover
  has no fairness and no ENABLED.

Every invariant and every action property of a passing run is a theorem. Where a
theorem has a hypothesis that its run meets by a constant (`~Overlap`, one upload
of a batch), the run has the same constant.

## 6. Disagreements with the documentation

Four runs end in a counterexample to a sentence of the code's own
documentation, listed with their quotes under "findings" in PROJECT.json:

- **terminal_reopened**: a late upload completes a batch between the read and
  the commit of a failure report, which then takes the completed batch back.
- **abandoned_stuck**: the reply to a poll is lost; the worker beats on, and
  nothing ever reclaims the batch.
- **intake_raises**: an exception in the validator (a first line `{}`, bytes
  that are no UTF-8) leaves the batch validating for ever.
- **intake_shared**: two batches on one input file, workers of two
  organizations: one is refused its own input.

The following hold of the same modules and can be reproduced by changing the
instance; the formulas are stated in the modules and not part of a run.

| formula | instance | what happens |
|---|---|---|
| Dispatch `ValidatedIsFree` | MCDispatch_serial, `Overlap = TRUE`, one worker, MaxAttempts 3 | "voids the assignment" (sweeper.py:35): a stale sweep makes a batch validated while the row of the next hand-out stays; every later poll of it fails on the primary key |
| Dispatch `CompletedIsCredited` | the same | the row "must survive" (workers.py:402-403): a requeue deletes it under an open upload, which then completes a batch without credit |
| Dispatch `DrainedTakesNothing` | 1 worker under an operator, 1 batch, 1 request | "Stop routing new jobs" (organizations.py:532): a re-registration (workers.py:169), or a silence and a heartbeat, ends a drain nobody ended |
| Dispatch `CrashedIsReclaimed` | 1 worker, 1 batch, 1 request, FairSpec | "never strands a batch" (sweeper.py:8-10): poll_job gives work to a worker whose row says offline, and the sweep looks at online and draining rows only |
| Usage `BadLineIsLocal` | a `Poison` row in `Outputs`, `Chunk = 2`, `Faults = FALSE` | "Every skip is local to its line" (usage_ingest.py:53-54): an infinite count raises OverflowError and one above 2^31-1 fails the INSERT; the chunk and all after it are lost |
| Usage `TotalIsOfOutput` | `Uploads = 2` | idempotency "across worker retries and requeued batches" (usage_ingest.py:182-183): the first ingestion clears the flag of the second upload |
| Intake `ValidationEnds` | MCIntake, good files, `Restarts` | "on its own" (docs/reference/api.md:525-526): nothing at start-up looks for batches still validating |
| Intake `DecidedIsTold` | MCIntake, `Restarts` | "late subscribers don't miss anything" (sse_manager.py:19): the buffer does not survive, and the endpoint does not look at the status |
| Intake `QueuedHasInput` | MCIntake, `Overlap = TRUE` | the 409 of delete_file (files.py:95-97): a creation between its check and its unlink |
| Validator, `verdict = "validated" => model \in Catalogue` | one line whose model is null | "Model must be a selectable catalogue entry" (batch_validator.py:568-569): a null or empty model passes all gates (`result.model` stays None), and find_best_batch skips the batch for ever |
| Scheduling, every window whole | 2 overlapping PATCHes | "All three window columns are set or none is" (models.py:245): each writes the columns that differ from what it read (organizations.py:649); with the timezone gone every poll of the worker raises |
| Scheduling, the runtime holding the handed name has the capabilities | 2 runtimes, an alias on the second | "the scheduler never offers such a batch to a runtime that cannot" (executors/base.py:95-98): the first that hosts the entry is asked, the name may be another's |
| Inventory, `DelistsAfterTwo` with `silent` for `quiet` | MCFleet | "for two beats running" (workers.py:314): an empty beat, a listing without liveness, an empty beat: the count is not reset by the one between (workers.py:338), and a runtime that listed its models one beat ago is delisted |
| Membership, every organization has an owner | two owners who leave at once | leave, demote and remove count the owners before they commit (organizations.py:83-87): each counts the other |

## 7. What is not modelled

- **Progress across attempts** (workers.py:446-455, sweeper.py:49-62):
  PromptPool has the counters of one attempt only.
- **Authentication**: password sign-in and change, hashing, signing of tokens
  and mail keep no state that another handler reads. Superadmins are a constant
  set, empty in the run.
- **Organizations**: renaming and listings. Organizations are never deleted.
- **Catalogue**: the registry lookups (the constant `Public`), the renames of
  the seed, requests of users for models, and who may see an entry beyond the
  pool's filter. No handler changes an entry's `enabled`, only the seed.
- **Inventory**: hardware and metrics columns, and the payload of older daemons
  that register without runtimes.
- **Pool view**: public counts and sums over hardware.
- **Listings, exports**: they change nothing.
- **Schema and migrations**: declarations; what they fix (isolation, keys,
  autoflush) is in the steps of the modules.
- **Executors**: translation for third-party servers; Routing and PromptPool
  take of them what the worker relies on.
- **Hardware probing, caches, configuration, logging, dashboard, scripts**: no
  state that other parts depend on.
- In Dispatch: which batch a poll picks (Scheduling has the choice); model
  routing (Routing; a job that cannot be routed is a failed attempt);
  wall-clock time.

## 8. The plan

Done: all modules of section 2, and theorems about all of them.

Next, in this order:

1. **Progress**: counters across attempts, resets, reports that arrive late;
   composed with the hand-out of Dispatch.
2. Scheduling's poll composed with Dispatch's `PollRead`, so that what is handed
   out can be served.
3. Theorems with weaker hypotheses: more than one committed upload of a batch
   (Usage), a delete that overlaps a creation (Intake), both of which need the
   code to change first (section 6).

A project of this kind stays useful only while its runs can be repeated
quickly: the instances are kept few, side by side where modules share nothing,
and a new module replaces a run that has become redundant before it adds one.
