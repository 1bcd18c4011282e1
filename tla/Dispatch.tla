------------------------------ MODULE Dispatch ------------------------------
(***************************************************************************)
(* How a validated batch is handed to a worker and comes back: the poll,   *)
(* upload-results and report-failure handlers, the stale-worker sweeper,   *)
(* the worker's liveness status and the operator's drain / undrain /       *)
(* remove on the control plane, and the poll-execute loop of the daemons.  *)
(*                                                                         *)
(* A handler runs in a thread of its own with a READ COMMITTED transaction *)
(* of its own, so it is two or three steps: it READS rows into Python      *)
(* objects, decides on what it read, and COMMITS (autoflush is off, so the *)
(* UPDATEs reach the database only then).  requeue_or_fail_batch's bulk    *)
(* DELETE is the exception: it goes to the database at once and holds a    *)
(* row lock until its transaction ends.  The sweeper runs ON the event     *)
(* loop: no handler starts while a sweep is open, but the handlers already *)
(* in their threads run on.                                                *)
(***************************************************************************)
EXTENDS Integers

CONSTANTS
    Workers,      \* worker rows; each is also the daemon that registered it
    Batches,      \* batches the validator has accepted
    Slots,        \* requests of the job loop that may be under way at once
    None,         \* no worker, no batch
    MaxAttempts,  \* MAX_BATCH_ATTEMPTS
    Operated,     \* the workers an operator drains, undrains and removes
    Overlap       \* may two transactions be open at once?  The deployment
                  \* says TRUE; FALSE is the one-at-a-time server of the tests

ASSUME DispatchAssumption ==
    /\ MaxAttempts \in Nat \ {0}
    /\ Overlap \in BOOLEAN
    /\ Operated \subseteq Workers
    /\ None \notin Workers \cup Batches

VARIABLES
    status,    \* batches.status
    attempts,  \* batches.attempts
    assigned,  \* the worker of the batch's batch_assignments row, None without one
    output,    \* the worker whose upload is the batch's output file
    handed,    \* history: how often the batch was handed out
    wstatus,   \* workers.status; "unregistered" and "removed" have no row
    stale,     \* is workers.last_heartbeat older than the sweeper's cutoff?
    drained,   \* history: drained by the operator and not undrained since
    req,       \* the requests of the daemons' job loops
    sweep,     \* the sweeper's transaction
    daemon     \* where the poll-execute loop of each daemon is

batchVars  == <<status, attempts, assigned, output, handed>>
workerVars == <<wstatus, stale, drained>>
vars       == <<status, attempts, assigned, output, handed,
                wstatus, stale, drained, req, sweep, daemon>>

BatchStatus  == {"validated", "in_progress", "completed", "failed"}
WorkerStatus == {"unregistered", "online", "draining", "offline", "removed"}

\* attempts is only ever compared with MaxAttempts, so counting stops one above
\* it; the history counts hand-outs up to MaxAttempts.
AttemptCap == MaxAttempts + 1
Plus1(n, cap) == IF n < cap THEN n + 1 ELSE cap

-----------------------------------------------------------------------------
\* Requests.  "sent": under way to the server or queued there, nothing read
\* yet; "open": the handler has read and not committed; "voided": a requeue
\* that has executed its DELETE.  wait says whether the daemon still listens;
\* seen is the attempts value the handler read, held whether its DELETE locked
\* an assignment row.
Free == [kind |-> "none", pc |-> "free", wait |-> FALSE,
         worker |-> None, batch |-> None, seen |-> 0, held |-> FALSE]

Request == [kind : {"none", "poll", "upload", "report"},
            pc : {"free", "sent", "open", "voided"}, wait : BOOLEAN,
            worker : Workers \cup {None}, batch : Batches \cup {None},
            seen : 0..AttemptCap, held : BOOLEAN]

Idle == [pc |-> "idle", job |-> None]

\* The sweep transaction.  left: stale workers whose assignments are still to
\* be read; todo: batches of the current worker still to be looked at; at: the
\* batch read and about to be requeued; taken: the batches requeued so far,
\* seen their attempts as read; held: the assignment rows it has locked.
NoSweep == [open |-> FALSE, dead |-> {}, left |-> {}, todo |-> {},
            at |-> None, taken |-> {}, held |-> {},
            seen |-> [b \in Batches |-> 0]]

Sweeps == [open : BOOLEAN, dead : SUBSET Workers, left : SUBSET Workers,
           todo : SUBSET Batches, at : Batches \cup {None},
           taken : SUBSET Batches, held : SUBSET Batches,
           seen : [Batches -> 0..AttemptCap]]

TypeOK ==
    /\ status \in [Batches -> BatchStatus]
    /\ attempts \in [Batches -> 0..AttemptCap]
    /\ assigned \in [Batches -> Workers \cup {None}]
    /\ output \in [Batches -> Workers \cup {None}]
    /\ handed \in [Batches -> 0..MaxAttempts]
    /\ wstatus \in [Workers -> WorkerStatus]
    /\ stale \in [Workers -> BOOLEAN]
    /\ drained \in [Workers -> BOOLEAN]
    /\ req \in [Slots -> Request]
    /\ sweep \in Sweeps
    /\ daemon \in [Workers -> [pc : {"down", "idle", "polling", "running",
                                     "uploading", "failing", "reporting"},
                               job : Batches \cup {None}]]

Init ==
    /\ status = [b \in Batches |-> "validated"]
    /\ attempts = [b \in Batches |-> 0]
    /\ assigned = [b \in Batches |-> None]
    /\ output = [b \in Batches |-> None]
    /\ handed = [b \in Batches |-> 0]
    /\ wstatus = [w \in Workers |-> "unregistered"]
    /\ stale = [w \in Workers |-> FALSE]
    /\ drained = [w \in Workers |-> FALSE]
    /\ req = [s \in Slots |-> Free]
    /\ sweep = NoSweep
    /\ daemon = [w \in Workers |-> [pc |-> "down", job |-> None]]

-----------------------------------------------------------------------------
\* Helpers.

HasRow(w) == wstatus[w] \in {"online", "draining", "offline"}

InTransaction(s) == req[s].pc \in {"open", "voided"}

\* A handler can open its transaction: never during a sweep, which holds the
\* event loop the handler would be dispatched from.
MayOpen ==
    /\ ~sweep.open
    /\ Overlap \/ \A s \in Slots : ~InTransaction(s)

\* Some uncommitted DELETE holds the lock of the batch's assignment row.
Locked(b) ==
    \/ \E s \in Slots : req[s].pc = "voided" /\ req[s].held /\ req[s].batch = b
    \/ b \in sweep.held

\* The handler of slot s ends: the daemon, if it still listens, goes on to d.
\* (Bug variant: a handler whose client has gone is never finished.)
ReplyLeaks(s, d) ==
    /\ req' = [req EXCEPT ![s] = IF req[s].wait THEN Free ELSE req[s]]
    /\ daemon' = IF req[s].wait THEN [daemon EXCEPT ![req[s].worker] = d]
                                ELSE daemon

Reply(s, d) ==
    /\ req' = [req EXCEPT ![s] = Free]
    /\ daemon' = IF req[s].wait THEN [daemon EXCEPT ![req[s].worker] = d]
                                ELSE daemon

\* What the daemon's loop does when its call raises: poll errors are logged,
\* a failed upload is an exception in the job (which is then reported), a
\* failure report is best effort.
AfterError(w) ==
    IF daemon[w].pc = "uploading"
    THEN [pc |-> "failing", job |-> daemon[w].job]
    ELSE Idle

\* validate_transition, to "completed", "failed" or "validated" alike: it asks
\* for a batch in progress.  (Bug variant: the check is left out.)
UnderWayUnchecked(b) == TRUE
UnderWay(b) == status[b] = "in_progress"

\* The target of a requeue that read n attempts.  (Bug variants: the requeue
\* leaves the status alone; it goes back to the validator; it fails the batch
\* one attempt early; one late.)
NextStatusKept(n)  == IF n + 1 >= MaxAttempts THEN "failed" ELSE "in_progress"
NextStatusAgain(n) == IF n + 1 >= MaxAttempts THEN "failed" ELSE "validating"
NextStatusEarly(n) == IF n + 2 >= MaxAttempts THEN "failed" ELSE "validated"
NextStatusLate(n)  == IF n >= MaxAttempts THEN "failed" ELSE "validated"
NextStatus(n) == IF n + 1 >= MaxAttempts THEN "failed" ELSE "validated"

\* _get_assigned_batch: is the job assigned to this worker now?  (Bug variant:
\* it only asks for the batch.)
IsAssigneeUnchecked(w, b) == TRUE
IsAssignee(w, b) == assigned[b] = w

-----------------------------------------------------------------------------
(* The daemon's poll-execute loop.                                         *)

Sent(w, kind) == [kind |-> kind, pc |-> "sent", wait |-> TRUE, worker |-> w,
                  batch |-> daemon[w].job, seen |-> 0, held |-> FALSE]

Send(w, kind, pc) ==
    \E s \in Slots :
        /\ req[s] = Free
        /\ req' = [req EXCEPT ![s] = Sent(w, kind)]
        /\ daemon' = [daemon EXCEPT ![w].pc = pc]
        /\ UNCHANGED <<batchVars, workerVars, sweep>>

SendPoll(w)   == daemon[w].pc = "idle" /\ Send(w, "poll", "polling")
SendUpload(w) == daemon[w].pc = "running" /\ Send(w, "upload", "uploading")
SendReport(w) == daemon[w].pc \in {"running", "failing"}
                 /\ Send(w, "report", "reporting")

\* The daemon's client times out or loses the connection; the request may
\* still reach the server, and a handler that has started runs on.
GiveUp(w) ==
    \E s \in Slots :
        /\ req[s].wait /\ req[s].worker = w
        /\ req' = [req EXCEPT ![s].wait = FALSE]
        /\ daemon' = [daemon EXCEPT ![w] = AfterError(w)]
        /\ UNCHANGED <<batchVars, workerVars, sweep>>

\* A request nobody waits for never reaches its handler.
Lose(s) ==
    /\ req[s].pc = "sent" /\ ~req[s].wait
    /\ req' = [req EXCEPT ![s] = Free]
    /\ UNCHANGED <<batchVars, workerVars, sweep, daemon>>

\* The process dies, or stops on a 401; whatever it had sent is under way.
Crash(w) ==
    /\ daemon[w].pc # "down"
    /\ daemon' = [daemon EXCEPT ![w] = [pc |-> "down", job |-> None]]
    /\ req' = [s \in Slots |-> IF req[s].worker = w
                               THEN [req[s] EXCEPT !.wait = FALSE] ELSE req[s]]
    /\ UNCHANGED <<batchVars, workerVars, sweep>>

\* The daemon comes up and its registration call fails: it goes on under the
\* worker id it saved when it registered before.
StartSaved(w) ==
    /\ daemon[w].pc = "down" /\ wstatus[w] # "unregistered"
    /\ daemon' = [daemon EXCEPT ![w] = Idle]
    /\ UNCHANGED <<batchVars, workerVars, req, sweep>>

-----------------------------------------------------------------------------
(* The worker row: registration, heartbeats, silence, the operator.        *)
(* Each is one short transaction and taken as one step.                    *)

\* register_worker: the row is created or updated, online and fresh; what is
\* assigned to it is not looked at.  A removed row never comes back: the
\* daemon registers as another worker.
RegisteredStatus(w) == "online"

Start(w) ==
    /\ MayOpen
    /\ daemon[w].pc = "down" /\ wstatus[w] # "removed"
    /\ daemon' = [daemon EXCEPT ![w] = Idle]
    /\ wstatus' = [wstatus EXCEPT ![w] = RegisteredStatus(w)]
    /\ stale' = [stale EXCEPT ![w] = FALSE]
    /\ UNCHANGED <<batchVars, drained, req, sweep>>

\* worker_heartbeat: online again unless draining.  Its handler may be the one
\* that is already in its thread when a sweep begins.
BeatStatus(w) == IF wstatus[w] = "draining" THEN "draining" ELSE "online"

Heartbeat(w) ==
    /\ Overlap \/ MayOpen
    /\ daemon[w].pc # "down" /\ HasRow(w)
    /\ wstatus' = [wstatus EXCEPT ![w] = BeatStatus(w)]
    /\ stale' = [stale EXCEPT ![w] = FALSE]
    /\ UNCHANGED <<batchVars, drained, req, sweep, daemon>>

\* report_model_download: refreshes last_heartbeat and leaves the status.
ModelProgress(w) ==
    /\ Overlap \/ MayOpen
    /\ daemon[w].pc = "running" /\ HasRow(w)
    /\ stale' = [stale EXCEPT ![w] = FALSE]
    /\ UNCHANGED <<batchVars, wstatus, drained, req, sweep, daemon>>

\* HEARTBEAT_TIMEOUT_SECONDS pass without a beat.
FallSilent(w) ==
    /\ HasRow(w) /\ ~stale[w]
    /\ stale' = [stale EXCEPT ![w] = TRUE]
    /\ UNCHANGED <<batchVars, wstatus, drained, req, sweep, daemon>>

Drain(w) ==
    /\ MayOpen /\ w \in Operated
    /\ wstatus[w] \in {"online", "draining"}
    /\ wstatus' = [wstatus EXCEPT ![w] = "draining"]
    /\ drained' = [drained EXCEPT ![w] = TRUE]
    /\ UNCHANGED <<batchVars, stale, req, sweep, daemon>>

Undrain(w) ==
    /\ MayOpen /\ w \in Operated
    /\ wstatus[w] = "draining"
    /\ wstatus' = [wstatus EXCEPT ![w] = "online"]
    /\ drained' = [drained EXCEPT ![w] = FALSE]
    /\ UNCHANGED <<batchVars, stale, req, sweep, daemon>>

\* remove_worker: only an offline row goes; its assignment rows stay.
Remove(w) ==
    /\ MayOpen /\ w \in Operated
    /\ wstatus[w] = "offline"
    /\ wstatus' = [wstatus EXCEPT ![w] = "removed"]
    /\ UNCHANGED <<batchVars, stale, drained, req, sweep, daemon>>

-----------------------------------------------------------------------------
(* /workers/poll                                                           *)

\* The row is gone, the worker is draining, nothing is validated, or the
\* scheduler finds no batch this worker can serve (it may refuse any).
PollNothing(s) ==
    /\ req[s].kind = "poll" /\ req[s].pc = "sent" /\ MayOpen
    /\ Reply(s, Idle)
    /\ UNCHANGED <<batchVars, workerVars, sweep>>

\* What poll_job asks of the worker and of the batch it picks.  (Bug variant:
\* the draining check is left out.)
MayTakeWorkAlways(w) == HasRow(w)
MayTakeWork(w) == HasRow(w) /\ wstatus[w] # "draining"
Pollable(b) == status[b] = "validated"

PollRead(s) ==
    /\ req[s].kind = "poll" /\ req[s].pc = "sent" /\ MayOpen
    /\ MayTakeWork(req[s].worker)
    /\ \E b \in Batches :
         /\ Pollable(b)
         /\ req' = [req EXCEPT ![s] = [@ EXCEPT !.pc = "open", !.batch = b]]
    /\ UNCHANGED <<batchVars, workerVars, sweep, daemon>>

\* The UPDATE of the status read as "validated" and the INSERT of the
\* assignment row commit together; the primary key on batch_id refuses the
\* second row of a batch, and the whole transaction with it.
Insertable(b) == assigned[b] = None

PollCommit(s) ==
    LET b == req[s].batch  w == req[s].worker IN
    /\ req[s].kind = "poll" /\ req[s].pc = "open" /\ ~Locked(b)
    /\ IF Insertable(b)
       THEN /\ status' = [status EXCEPT ![b] = "in_progress"]
            /\ assigned' = [assigned EXCEPT ![b] = w]
            /\ handed' = [handed EXCEPT ![b] = Plus1(@, MaxAttempts)]
            /\ Reply(s, [pc |-> "running", job |-> b])
            /\ UNCHANGED <<attempts, output>>
       ELSE Reply(s, Idle) /\ UNCHANGED batchVars
    /\ UNCHANGED <<workerVars, sweep>>

\* The poll has updated the batch row and its INSERT waits for a voided
\* assignment row, whose transaction then waits for the batch row: the
\* database ends one of the two.
Waiting(b) == \E p \in Slots : req[p].kind = "poll" /\ req[p].pc = "open"
                               /\ req[p].batch = b

PollDeadlock(s) ==
    /\ req[s].kind = "poll" /\ req[s].pc = "open" /\ Locked(req[s].batch)
    /\ Reply(s, Idle)
    /\ UNCHANGED <<batchVars, workerVars, sweep>>

-----------------------------------------------------------------------------
(* /workers/upload-results                                                 *)

\* 404, 403 and 409: the job is not this worker's, or not under way.
UploadRefused(s) ==
    LET b == req[s].batch  w == req[s].worker IN
    /\ req[s].kind = "upload" /\ req[s].pc = "sent" /\ MayOpen
    /\ \/ ~HasRow(w)
       \/ ~IsAssignee(w, b)
       \/ status[b] # "completed" /\ ~UnderWay(b)
    /\ Reply(s, AfterError(w))
    /\ UNCHANGED <<batchVars, workerVars, sweep>>

\* The idempotent replay: completed by this worker before, nothing stored.
UploadReplay(s) ==
    LET b == req[s].batch  w == req[s].worker IN
    /\ req[s].kind = "upload" /\ req[s].pc = "sent" /\ MayOpen
    /\ HasRow(w) /\ IsAssignee(w, b) /\ status[b] = "completed"
    /\ Reply(s, Idle)
    /\ UNCHANGED <<batchVars, workerVars, sweep>>

UploadRead(s) ==
    LET b == req[s].batch  w == req[s].worker IN
    /\ req[s].kind = "upload" /\ req[s].pc = "sent" /\ MayOpen
    /\ HasRow(w) /\ IsAssignee(w, b) /\ UnderWay(b)
    /\ req' = [req EXCEPT ![s].pc = "open"]
    /\ UNCHANGED <<batchVars, workerVars, sweep, daemon>>

\* The file is on disk: the batch is completed, whatever it has become since.
UploadCommit(s) ==
    LET b == req[s].batch IN
    /\ req[s].kind = "upload" /\ req[s].pc = "open"
    /\ status' = [status EXCEPT ![b] = "completed"]
    /\ output' = [output EXCEPT ![b] = req[s].worker]
    /\ Reply(s, Idle)
    /\ UNCHANGED <<attempts, assigned, handed, workerVars, sweep>>

-----------------------------------------------------------------------------
(* /workers/report-failure                                                 *)

ReportRefused(s) ==
    LET b == req[s].batch  w == req[s].worker IN
    /\ req[s].kind = "report" /\ req[s].pc = "sent" /\ MayOpen
    /\ ~HasRow(w) \/ ~IsAssignee(w, b) \/ ~UnderWay(b)
    /\ Reply(s, Idle)
    /\ UNCHANGED <<batchVars, workerVars, sweep>>

ReportRead(s) ==
    LET b == req[s].batch  w == req[s].worker IN
    /\ req[s].kind = "report" /\ req[s].pc = "sent" /\ MayOpen
    /\ HasRow(w) /\ IsAssignee(w, b) /\ UnderWay(b)
    /\ req' = [req EXCEPT ![s] = [@ EXCEPT !.pc = "open", !.seen = attempts[b]]]
    /\ UNCHANGED <<batchVars, workerVars, sweep, daemon>>

\* The bulk DELETE by batch_id: whoever's row is there by now, or none.
ReportVoid(s) ==
    LET b == req[s].batch IN
    /\ req[s].kind = "report" /\ req[s].pc = "open" /\ ~Locked(b)
    /\ req' = [req EXCEPT ![s] = [@ EXCEPT !.pc = "voided",
                                             !.held = (assigned[b] # None)]]
    /\ UNCHANGED <<batchVars, workerVars, sweep, daemon>>

\* The assignment a requeue's transaction leaves behind.  (Bug variant: the row
\* is not deleted.)
VoidedKept(b, held) == assigned[b]
Voided(b, held) == IF held THEN None ELSE assigned[b]

ReportCommit(s) ==
    LET b == req[s].batch IN
    /\ req[s].kind = "report" /\ req[s].pc = "voided"
    /\ attempts' = [attempts EXCEPT ![b] = Plus1(req[s].seen, AttemptCap)]
    /\ status' = [status EXCEPT ![b] = NextStatus(req[s].seen)]
    /\ assigned' = [assigned EXCEPT ![b] = Voided(b, req[s].held)]
    /\ Reply(s, Idle)
    /\ UNCHANGED <<output, handed, workerVars, sweep>>

ReportDeadlock(s) ==
    /\ req[s].kind = "report" /\ req[s].pc = "voided" /\ req[s].held
    /\ Waiting(req[s].batch)
    /\ Reply(s, Idle)
    /\ UNCHANGED <<batchVars, workerVars, sweep>>

-----------------------------------------------------------------------------
(* sweep_stale_workers                                                     *)

\* The workers it takes.  (Bug variant: a draining worker is left alone.)
SweepableOnline(w) == wstatus[w] = "online" /\ stale[w]
Sweepable(w) == wstatus[w] \in {"online", "draining"} /\ stale[w]

SweepBegin ==
    LET dead == {w \in Workers : Sweepable(w)} IN
    /\ MayOpen /\ dead # {}
    /\ sweep' = [NoSweep EXCEPT !.open = TRUE, !.dead = dead, !.left = dead]
    /\ UNCHANGED <<batchVars, workerVars, req, daemon>>

\* The assignment rows of the next stale worker.
SweepWorker(w) ==
    /\ w \in sweep.left /\ sweep.todo = {} /\ sweep.at = None
    /\ sweep' = [sweep EXCEPT !.left = @ \ {w},
                              !.todo = {b \in Batches : assigned[b] = w}]
    /\ UNCHANGED <<batchVars, workerVars, req, daemon>>

\* The next of its batches: requeued if it is in progress.  A batch this
\* session has already requeued is found in the session, no longer in progress.
SweepRead(b) ==
    /\ b \in sweep.todo /\ sweep.at = None
    /\ sweep' = IF status[b] = "in_progress" /\ b \notin sweep.taken
                THEN [sweep EXCEPT !.todo = @ \ {b}, !.at = b,
                                   !.taken = @ \cup {b}, !.seen[b] = attempts[b]]
                ELSE [sweep EXCEPT !.todo = @ \ {b}]
    /\ UNCHANGED <<batchVars, workerVars, req, daemon>>

SweepVoid(b) ==
    /\ sweep.at = b /\ ~Locked(b)
    /\ sweep' = [sweep EXCEPT !.at = None,
                   !.held = IF assigned[b] # None THEN @ \cup {b} ELSE @]
    /\ UNCHANGED <<batchVars, workerVars, req, daemon>>

\* One commit for every stale worker and every batch reclaimed from them.
SweepCommit ==
    /\ sweep.open /\ sweep.left = {} /\ sweep.todo = {} /\ sweep.at = None
    /\ wstatus' = [w \in Workers |-> IF w \in sweep.dead
                                     THEN "offline" ELSE wstatus[w]]
    /\ attempts' = [b \in Batches |->
                      IF b \in sweep.taken
                      THEN Plus1(sweep.seen[b], AttemptCap) ELSE attempts[b]]
    /\ status' = [b \in Batches |-> IF b \in sweep.taken
                                    THEN NextStatus(sweep.seen[b]) ELSE status[b]]
    /\ assigned' = [b \in Batches |-> Voided(b, b \in sweep.held)]
    /\ sweep' = NoSweep
    /\ UNCHANGED <<output, handed, stale, drained, req, daemon>>

SweepDeadlock ==
    /\ \E b \in sweep.held : Waiting(b)
    /\ sweep' = NoSweep
    /\ UNCHANGED <<batchVars, workerVars, req, daemon>>

\* The backend process dies with its open transactions and is started again.
Restart ==
    /\ sweep.open \/ \E s \in Slots : InTransaction(s)
    /\ sweep' = NoSweep
    /\ req' = [s \in Slots |-> IF InTransaction(s) THEN Free ELSE req[s]]
    /\ daemon' = [w \in Workers |->
                    IF \E s \in Slots : InTransaction(s) /\ req[s].wait
                                        /\ req[s].worker = w
                    THEN AfterError(w) ELSE daemon[w]]
    /\ UNCHANGED <<batchVars, workerVars>>

-----------------------------------------------------------------------------
DaemonStep(w) ==
    \/ StartSaved(w) \/ SendPoll(w) \/ SendUpload(w) \/ SendReport(w)
    \/ GiveUp(w) \/ Crash(w)

WorkerStep(w) ==
    \/ Start(w) \/ Heartbeat(w) \/ ModelProgress(w) \/ FallSilent(w)
    \/ Drain(w) \/ Undrain(w) \/ Remove(w)

HandlerStep(s) ==
    \/ PollNothing(s) \/ PollRead(s) \/ PollCommit(s)
    \/ UploadRefused(s) \/ UploadReplay(s) \/ UploadRead(s) \/ UploadCommit(s)
    \/ ReportRefused(s) \/ ReportRead(s) \/ ReportVoid(s) \/ ReportCommit(s)

\* What the database or the network does to a request.
Fault(s) == Lose(s) \/ PollDeadlock(s) \/ ReportDeadlock(s)

SweepStep ==
    \/ \E w \in Workers : SweepWorker(w)
    \/ \E b \in Batches : SweepRead(b) \/ SweepVoid(b)
    \/ SweepCommit

Next ==
    \/ \E w \in Workers : DaemonStep(w) \/ WorkerStep(w)
    \/ \E s \in Slots : HandlerStep(s) \/ Fault(s)
    \/ SweepBegin \/ SweepStep \/ SweepDeadlock \/ Restart

Spec == Init /\ [][Next]_vars

\* Every handler that has been dispatched ends and every queued request is
\* dispatched in the end (a thread pool serves them in turn; a row lock is
\* released by a transaction that ends), the sweeper wakes every
\* SWEEP_INTERVAL_SECONDS whatever else happens, an outage of the backend ends,
\* a dead daemon falls silent, and a live one beats, times its calls out and
\* finishes or fails the job it runs.  Nothing makes a daemon restart.
Fairness ==
    /\ \A s \in Slots : SF_vars(HandlerStep(s))
    /\ SF_vars(SweepBegin) /\ WF_vars(SweepStep)
    /\ <>[][~Restart]_vars
    /\ \A w \in Workers :
         /\ WF_vars(daemon[w].pc = "down" /\ FallSilent(w))
         /\ SF_vars(Heartbeat(w))
         /\ WF_vars(SendPoll(w))
         /\ WF_vars(SendUpload(w) \/ SendReport(w))

FairSpec == Spec /\ Fairness

\* ... and the daemons stop crashing as well.
StableSpec == FairSpec /\ <>[][\A w \in Workers : ~Crash(w)]_vars

-----------------------------------------------------------------------------
(* Properties.                                                             *)

\* Every batch in progress is somebody's: the status and the assignment row
\* change together in every transaction, however many are open, so a batch in
\* progress without a holder, which no sweep would ever look at, cannot arise.
InProgressIsAssigned ==
    \A b \in Batches : status[b] = "in_progress" => assigned[b] # None

\* A batch that failed was handed out MaxAttempts times: requeues that overlap
\* (a failure report and a sweep, two reports) never charge one hand-out twice.
FailedWasTried ==
    \A b \in Batches : status[b] = "failed" => handed[b] = MaxAttempts

\* A validated batch has no assignment row, so that the next poll can insert
\* one: requeueing "voids the assignment" (sweeper.py:35).
ValidatedIsFree ==
    \A b \in Batches : status[b] = "validated" => assigned[b] = None

\* The assignment row of a completed batch names the worker whose result it
\* offers: the row "is the provider's record of the work" (workers.py:402-403).
CompletedIsCredited ==
    \A b \in Batches : status[b] = "completed" =>
                         output[b] # None /\ assigned[b] = output[b]

\* "completed" and "failed" are terminal (VALID_TRANSITIONS, workers.py:31-37).
TerminalIsFinal ==
    [][\A b \in Batches : status[b] \in {"completed", "failed"} =>
                            status'[b] = status[b]]_vars

\* A worker whose row says draining is given nothing new (poll_job,
\* workers.py:375-377).
DrainingTakesNothing ==
    [][\A w \in Workers, b \in Batches :
         wstatus[w] = "draining" /\ assigned'[b] = w => assigned[b] = w]_vars

\* A worker the operator has drained, and not undrained, is given nothing new:
\* drain_worker promises to "stop routing new jobs to a worker"
\* (organizations.py:532).
DrainedTakesNothing ==
    [][\A w \in Workers, b \in Batches :
         drained[w] /\ assigned'[b] = w => assigned[b] = w]_vars

\* Every batch goes through the life BatchContract promises.
Contract == INSTANCE BatchContract WITH
    status <- status, attempts <- attempts,
    assigned <- assigned, output <- output

ImplementsContract == Contract!Spec

\* A request always ends: no handler waits for ever for the row lock of another
\* (ReportVoid, PollCommit and SweepVoid wait for the transaction that voided
\* the row; poll and requeue may wait for each other).
EveryRequestEnds == \A s \in Slots : (req[s].pc # "free") ~> (req[s].pc = "free")

\* A batch held by a worker that is counted as alive and whose daemon has died
\* for good is taken back: "a crashed daemon never strands a batch"
\* (sweeper.py:8-10).
Holds(w, b) == status[b] = "in_progress" /\ assigned[b] = w

DeadIsReclaimed ==
    \A w \in Workers, b \in Batches :
      (Holds(w, b) /\ daemon[w].pc = "down" /\ wstatus[w] \in {"online", "draining"})
        ~> (~Holds(w, b) \/ daemon[w].pc # "down")

\* The same of a worker in any status: whoever held the batch when its daemon
\* died, the sweeper takes it back.
CrashedIsReclaimed ==
    \A w \in Workers, b \in Batches :
      (Holds(w, b) /\ daemon[w].pc = "down")
        ~> (~Holds(w, b) \/ daemon[w].pc # "down")

\* A batch its live worker does not work on any more is taken back: the sweeper
\* "will eventually reclaim the job even if this report never arrives"
\* (client.py:390-392).
Abandoned(w, b) ==
    /\ Holds(w, b) /\ daemon[w].pc # "down" /\ daemon[w].job # b
    /\ \A s \in Slots : req[s].batch # b

AbandonedIsReclaimed ==
    \A w \in Workers, b \in Batches : Abandoned(w, b) ~> ~Abandoned(w, b)

=============================================================================
