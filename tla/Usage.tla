------------------------------- MODULE Usage -------------------------------
(***************************************************************************)
(* Usage accounting: what happens to the output file of a completed batch. *)
(*                                                                         *)
(* upload_results stores the file, sets usage_ingestion_pending and leaves *)
(* ingest_usage_records to a background task; the sweeper retries what is  *)
(* still pending.  An ingestion commits a chunk of rows at a time, then    *)
(* reads the rows back, stores their totals on the batch and clears the    *)
(* flag.  Ingestions of one batch may run at the same time, any of them    *)
(* may raise, and the process may die between any two commits.             *)
(*                                                                         *)
(* Lines without usage (malformed, errored, no token counts) are skipped   *)
(* one by one and left out here: an output is the sequence of its usable   *)
(* rows.  A Poison row is one that raises where the code expects a skip: a *)
(* count json reads as infinity, or one no INTEGER column holds.  A total  *)
(* is represented by the rows it sums.                                     *)
(***************************************************************************)
EXTENDS Integers, Sequences, FiniteSets

CONSTANTS
    Batches,
    Tasks,       \* background tasks that may be under way at once
    Sweeper,     \* the thread of the ingestion sweep
    Ids,         \* custom_ids
    Tokens,      \* the token counts of a row
    Poison,      \* the count that raises
    None,
    Outputs,     \* the output files a worker may upload
    Chunk,       \* CHUNK_SIZE
    Cap,         \* MAX_USAGE_INGESTION_ATTEMPTS
    Limit,       \* MAX_INGESTIONS_PER_SWEEP
    Uploads,     \* uploads of one batch that may commit (one, unless two overlap)
    Faults       \* does the database fail at times?

Row == [id : Ids, tok : Tokens \cup {Poison}]

\* The validator refuses a file with duplicate custom_ids and the daemon gives
\* a duplicate an error line, so that the usable rows have distinct ids.
ASSUME UsageAssumption ==
    /\ Outputs \subseteq Seq(Row)
    /\ \A o \in Outputs : \A p, q \in 1..Len(o) : o[p].id = o[q].id => p = q
    /\ Chunk \in Nat \ {0} /\ Cap \in Nat \ {0}
    /\ Limit \in Nat \ {0} /\ Uploads \in Nat \ {0}
    /\ Faults \in BOOLEAN
    /\ Sweeper \notin Tasks
    /\ None \notin Batches \cup Tokens \cup {Poison}
    /\ Poison \notin Tokens

VARIABLES
    files,     \* the outputs uploaded for each batch; the last is output_file_id
    deleted,   \* those their owner has deleted
    stamp,     \* batches.completed_at
    clock,     \* uploads so far
    pending,   \* batches.usage_ingestion_pending
    attempts,  \* batches.usage_ingestion_attempts, up to Cap
    records,   \* usage_records: the count of each custom_id, None without a row
    rollup,    \* the totals on the batch, None when they are NULL
    task,      \* the ingestions under way
    sweep      \* the ingestion sweep

batchVars == <<files, deleted, stamp, clock, pending, attempts, records, rollup>>
vars == <<files, deleted, stamp, clock, pending, attempts, records, rollup, task, sweep>>

Runners == Tasks \cup {Sweeper}
Rows    == [Ids -> Tokens \cup {Poison, None}]
NoRows  == [i \in Ids |-> None]

\* An ingestion: "queued", "reading" (pos rows are committed), "summed" (totals
\* read), "raised", "counting" (attempts read).  loaded is the flag as it was
\* when the batch was loaded.
Free == [pc |-> "free", batch |-> None, file |-> 0, pos |-> 0,
         loaded |-> FALSE, sums |-> None, seen |-> 0]

Queued(b, k) == [pc |-> "queued", batch |-> b, file |-> k, pos |-> 0,
                 loaded |-> FALSE, sums |-> None, seen |-> 0]

Ingestion == [pc : {"free", "queued", "reading", "summed", "raised", "counting"},
              batch : Batches \cup {None}, file : 0..Uploads, pos : Nat,
              loaded : BOOLEAN, sums : Rows \cup {None}, seen : 0..Cap]

\* The sweep: the batches it has selected and not taken, their output file as
\* selected; a commit of the sweep's own session makes it read afresh.
NoSweep == [todo |-> {}, seen |-> [b \in Batches |-> 0], fresh |-> FALSE]

TypeOK ==
    /\ files \in [Batches -> Seq(Outputs)]
    /\ \A b \in Batches : Len(files[b]) <= Uploads
    /\ deleted \in [Batches -> SUBSET (1..Uploads)]
    /\ stamp \in [Batches -> Nat] /\ clock \in Nat
    /\ pending \in [Batches -> BOOLEAN]
    /\ attempts \in [Batches -> 0..Cap]
    /\ records \in [Batches -> Rows]
    /\ rollup \in [Batches -> {None} \cup (Rows \ {NoRows})]
    /\ task \in [Runners -> Ingestion]
    /\ sweep \in [todo : SUBSET Batches, seen : [Batches -> 0..Uploads], fresh : BOOLEAN]

Init ==
    /\ files = [b \in Batches |-> <<>>]
    /\ deleted = [b \in Batches |-> {}]
    /\ stamp = [b \in Batches |-> 0] /\ clock = 0
    /\ pending = [b \in Batches |-> FALSE]
    /\ attempts = [b \in Batches |-> 0]
    /\ records = [b \in Batches |-> NoRows]
    /\ rollup = [b \in Batches |-> None]
    /\ task = [t \in Runners |-> Free]
    /\ sweep = NoSweep

-----------------------------------------------------------------------------
\* The count of i after rows lo..hi of o are written over old: the last row of
\* an id wins, in a statement and across statements.
Written(o, lo, hi, i, old) ==
    LET at == {p \in lo..hi : o[p].id = i}
    IN  IF at = {} THEN old ELSE o[CHOOSE p \in at : \A q \in at : q <= p].tok

\* The usage of an output.
UsageOf(o) == [i \in Ids |-> Written(o, 1, Len(o), i, None)]

\* The end of the chunk that starts after row n.
ChunkEnd(o, n) == IF n + Chunk < Len(o) THEN n + Chunk ELSE Len(o)

OutputOf(t) == files[task[t].batch][task[t].file]

\* upload_results: the file is there, the flag is set, the ingestion scheduled,
\* in one commit but for the task.
Upload(b) ==
    \E o \in Outputs, t \in Tasks :
        /\ Len(files[b]) < Uploads /\ task[t] = Free
        /\ files' = [files EXCEPT ![b] = Append(@, o)]
        /\ clock' = clock + 1
        /\ stamp' = [stamp EXCEPT ![b] = clock + 1]
        /\ pending' = [pending EXCEPT ![b] = TRUE]
        /\ task' = [task EXCEPT ![t] = Queued(b, Len(files[b]) + 1)]
        /\ UNCHANGED <<deleted, attempts, records, rollup, sweep>>

\* The replay of an upload: a pending ingestion is scheduled once more.
Replay(b) ==
    \E t \in Tasks :
        /\ files[b] # <<>> /\ pending[b] /\ Len(files[b]) \notin deleted[b]
        /\ task[t] = Free
        /\ task' = [task EXCEPT ![t] = Queued(b, Len(files[b]))]
        /\ UNCHANGED <<batchVars, sweep>>

\* The owner deletes an output file: from the disk and from the table.
DeleteFile(b) ==
    \E k \in 1..Len(files[b]) \ deleted[b] :
        /\ deleted' = [deleted EXCEPT ![b] = @ \cup {k}]
        /\ UNCHANGED <<files, stamp, clock, pending, attempts, records, rollup,
                       task, sweep>>

-----------------------------------------------------------------------------
(* ingest_usage_records                                                    *)

\* The batch is loaded and the file opened; without a file there is nothing to
\* read, ever, and the flag is cleared.  An open file can be read to its end.
Begin(t) ==
    LET b == task[t].batch IN
    /\ task[t].pc = "queued"
    /\ IF task[t].file \in deleted[b]
       THEN /\ pending' = [pending EXCEPT ![b] = FALSE]
            /\ task' = [task EXCEPT ![t] = Free]
       ELSE /\ task' = [task EXCEPT ![t] = [@ EXCEPT !.pc = "reading",
                                                     !.loaded = pending[b]]]
            /\ UNCHANGED pending
    /\ UNCHANGED <<files, deleted, stamp, clock, attempts, records, rollup, sweep>>

\* The next CHUNK_SIZE rows are upserted and committed.
WriteChunk(t) ==
    LET b == task[t].batch  o == OutputOf(t)  n == task[t].pos
        m == ChunkEnd(o, n) IN
    /\ task[t].pc = "reading" /\ n < Len(o)
    /\ \A p \in (n + 1)..m : o[p].tok # Poison
    /\ records' = [records EXCEPT ![b] =
                     [i \in Ids |-> Written(o, n + 1, m, i, @[i])]]
    /\ task' = [task EXCEPT ![t].pos = m]
    /\ UNCHANGED <<files, deleted, stamp, clock, pending, attempts, rollup, sweep>>

\* What a batch without a usable row shows for a total.  (Bug variant: zero.)
EmptyTotalZero(b) == NoRows
EmptyTotal(b) == rollup[b]

\* Nothing was written: cleared, but only if the flag was set when the batch
\* was loaded (an UPDATE is sent for a value that changes).
EndEmpty(t) ==
    LET b == task[t].batch IN
    /\ task[t].pc = "reading" /\ OutputOf(t) = <<>>
    /\ pending' = [pending EXCEPT ![b] = @ /\ ~task[t].loaded]
    /\ rollup' = [rollup EXCEPT ![b] = EmptyTotal(b)]
    /\ task' = [task EXCEPT ![t] = Free]
    /\ UNCHANGED <<files, deleted, stamp, clock, attempts, records, sweep>>

\* The totals are read when every chunk is in.  (Bug variant: after the first.)
AllWrittenEarly(t) == task[t].pos > 0
AllWritten(t) == task[t].pos > 0 /\ task[t].pos = Len(OutputOf(t))

Sum(t) ==
    /\ task[t].pc = "reading" /\ AllWritten(t)
    /\ task' = [task EXCEPT ![t] = [@ EXCEPT !.pc = "summed",
                                             !.sums = records[task[t].batch]]]
    /\ UNCHANGED <<batchVars, sweep>>

\* Totals and flag are committed together.
Done(t) ==
    LET b == task[t].batch IN
    /\ task[t].pc = "summed"
    /\ rollup' = [rollup EXCEPT ![b] = task[t].sums]
    /\ pending' = [pending EXCEPT ![b] = FALSE]
    /\ task' = [task EXCEPT ![t] = Free]
    /\ UNCHANGED <<files, deleted, stamp, clock, attempts, records, sweep>>

\* An exception: the chunk at hand is rolled back, the flag stays.  (Bug
\* variant: the flag is cleared on every way out.)
FlagAfterRaiseCleared(b) == FALSE
FlagAfterRaise(b) == pending[b]

Raise(t) ==
    LET o == OutputOf(t)  n == task[t].pos IN
    /\ task[t].pc \in {"reading", "summed"}
    /\ \/ Faults
       \/ /\ task[t].pc = "reading"
          /\ \E p \in (n + 1)..ChunkEnd(o, n) : o[p].tok = Poison
    /\ pending' = [pending EXCEPT ![task[t].batch] = FlagAfterRaise(task[t].batch)]
    /\ task' = [task EXCEPT ![t].pc = "raised"]
    /\ UNCHANGED <<files, deleted, stamp, clock, attempts, records, rollup, sweep>>

\* _record_failed_attempt: read, and written back plus one.
CountRead(t) ==
    /\ task[t].pc = "raised"
    /\ task' = [task EXCEPT ![t] = [@ EXCEPT !.pc = "counting",
                                             !.seen = attempts[task[t].batch]]]
    /\ UNCHANGED <<batchVars, sweep>>

CountCommit(t) ==
    LET n == task[t].seen IN
    /\ task[t].pc = "counting"
    /\ attempts' = [attempts EXCEPT ![task[t].batch] = IF n < Cap THEN n + 1 ELSE Cap]
    /\ task' = [task EXCEPT ![t] = Free]
    /\ UNCHANGED <<files, deleted, stamp, clock, pending, records, rollup, sweep>>

\* ... or nothing is counted when that fails too.
CountFails(t) ==
    /\ Faults /\ task[t].pc = "raised"
    /\ task' = [task EXCEPT ![t] = Free]
    /\ UNCHANGED <<batchVars, sweep>>

-----------------------------------------------------------------------------
(* sweep_pending_ingestions                                                *)

\* What it selects from.  (Bug variant: without the cap on attempts.)
DueAlways == {b \in Batches : files[b] # <<>> /\ pending[b]}
Due == {b \in Batches : files[b] # <<>> /\ pending[b] /\ attempts[b] < Cap}

\* The oldest Limit of them; in which order they are then taken is left open.
SweepSelect ==
    LET older(b) == {c \in Due : stamp[c] < stamp[b]} IN
    /\ sweep.todo = {} /\ task[Sweeper] = Free /\ Due # {}
    /\ sweep' = [todo |-> {b \in Due : Cardinality(older(b)) < Limit},
                 seen |-> [b \in Batches |-> Len(files[b])], fresh |-> FALSE]
    /\ UNCHANGED <<batchVars, task>>

\* The next one: ingested on the sweep's thread, or cleared for want of a file.
SweepTake(b) ==
    LET k == IF sweep.fresh THEN Len(files[b]) ELSE sweep.seen[b] IN
    /\ b \in sweep.todo /\ task[Sweeper] = Free
    /\ IF k \in deleted[b]
       THEN /\ pending' = [pending EXCEPT ![b] = FALSE]
            /\ sweep' = [sweep EXCEPT !.todo = @ \ {b}, !.fresh = TRUE]
            /\ UNCHANGED task
       ELSE /\ task' = [task EXCEPT ![Sweeper] = Queued(b, k)]
            /\ sweep' = [sweep EXCEPT !.todo = @ \ {b}]
            /\ UNCHANGED pending
    /\ UNCHANGED <<files, deleted, stamp, clock, attempts, records, rollup>>

\* A query of the sweep fails: the rest waits for the next one.
SweepFails ==
    /\ Faults /\ sweep.todo # {} /\ task[Sweeper] = Free
    /\ sweep' = NoSweep
    /\ UNCHANGED <<batchVars, task>>

\* The process dies and starts again: the database is what is left.
Restart ==
    /\ sweep' = NoSweep /\ task' = [t \in Runners |-> Free]
    /\ sweep' # sweep \/ task' # task
    /\ UNCHANGED batchVars

-----------------------------------------------------------------------------
IngestStep(t) ==
    \/ Begin(t) \/ WriteChunk(t) \/ EndEmpty(t) \/ Sum(t) \/ Done(t) \/ Raise(t)
    \/ CountRead(t) \/ CountCommit(t)

Next ==
    \/ \E b \in Batches : Upload(b) \/ Replay(b) \/ DeleteFile(b) \/ SweepTake(b)
    \/ \E t \in Runners : IngestStep(t) \/ CountFails(t)
    \/ SweepSelect \/ SweepFails \/ Restart

Spec == Init /\ [][Next]_vars

\* Threads run on, the sweeper wakes once a minute, and in the end the process
\* stops dying, uploads stop being replayed, and counting a failure and the
\* sweep's own queries stop failing.  Ingestions may go on raising for ever.
FairSpec ==
    /\ Spec
    /\ \A t \in Runners : WF_vars(IngestStep(t))
    /\ WF_vars(SweepSelect) /\ WF_vars(\E b \in Batches : SweepTake(b))
    /\ <>[][~Restart /\ ~SweepFails]_vars
    /\ <>[][\A b \in Batches : ~Replay(b)]_vars
    /\ <>[][\A t \in Runners : ~CountFails(t)]_vars

-----------------------------------------------------------------------------
(* Properties.                                                             *)

\* Once the flag is clear the accounts are right: the rows are those of the
\* output, and the totals are the totals of the rows, NULL without any; however
\* many ingestions raised, overlapped or died half-way before.
RecordedIsExact ==
    \A b \in Batches :
      (files[b] # <<>> /\ ~pending[b] /\ deleted[b] = {}) =>
        /\ records[b] = UsageOf(files[b][1])
        /\ rollup[b] = IF files[b][1] = <<>> THEN None ELSE records[b]

\* A total is never that of half an output, whether the flag is set or not and
\* even if the file was deleted meanwhile: rollups are only stored by an
\* ingestion that wrote every chunk.
TotalIsWhole ==
    \A b \in Batches : rollup[b] # None => rollup[b] = UsageOf(files[b][1])

\* A pending batch is ingested or given up after Cap exceptions; a backlog, and
\* older batches that raise for ever, do not keep the sweeper from it
\* (sweeper.py:113-116).
IngestionEnds ==
    \A b \in Batches : pending[b] ~> (~pending[b] \/ attempts[b] = Cap)

\* "Every skip is local to its line: a malformed or unusable record must not
\* cost the usage of the prompts around it" (usage_ingest.py:53-54): without
\* database faults, a batch that is given up has the usage of its good rows.
BadLineIsLocal ==
    \A b \in Batches :
      (attempts[b] = Cap /\ deleted[b] = {} /\ \A t \in Runners : task[t].batch # b) =>
        \A p \in 1..Len(files[b][1]) :
          LET r == files[b][1][p] IN r.tok # Poison => records[b][r.id] = r.tok

\* "Upserts rows on (batch_id, custom_id) to ensure idempotency across worker
\* retries and requeued batches" (usage_ingest.py:182-183): when nothing is
\* pending or under way, the totals are those of the output the batch offers.
TotalIsOfOutput ==
    \A b \in Batches :
      (files[b] # <<>> /\ ~pending[b] /\ deleted[b] = {}
         /\ \A t \in Runners : task[t].batch # b)
        => rollup[b] = LET o == files[b][Len(files[b])]
                       IN  IF o = <<>> THEN None ELSE UsageOf(o)

=============================================================================
