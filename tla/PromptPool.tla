----------------------------- MODULE PromptPool -----------------------------
(***************************************************************************)
(* PromptPool: how the daemon runs the prompts of one job.                 *)
(*                                                                         *)
(* _run_prompts refuses some rows outright, cuts the others into units of  *)
(* work (a chat row, a row of its own, or a chunk of embeddings that share *)
(* one request) and lets a bounded pool of asyncio tasks take the units    *)
(* from a queue.  Between the answer of the runtime and the report of the  *)
(* progress a task does not await, so recording an answer is one step; the *)
(* report is another, and reports of several tasks arrive in any order.    *)
(* SIGTERM only clears _running.  What is left without a result when the   *)
(* pool has ended gets a failure of its own.                               *)
(*                                                                         *)
(* A row is its custom_id and how the partition sees it; an answer is who  *)
(* it is for and whether it is a success.                                  *)
(***************************************************************************)
EXTENDS Absent, Integers, Sequences, FiniteSets

CONSTANTS
    Ids,            \* custom_ids
    Inputs,         \* the parsed inputs of this run
    MaxConcurrent,  \* max_concurrent_prompts
    ChunkSize,      \* the runtime's embedding_chunk_size
    Breaks          \* may the loop of a pool worker itself raise?

\* "embed" shares a request where the runtime can; "list" never does; "stream"
\* asks for stream=true.
Row == [id : Ids, kind : {"chat", "embed", "list", "stream"}]

\* What an output row says: "ok" and "error" are the runtime's; the others the
\* daemon's own errors, "unrun" and "internal" both INTERNAL_ERROR.
Says  == {"ok", "error", "internal", "duplicate", "stream", "unrun", "shutdown",
          "no_runtime"}

\* The configuration takes a positive number of tasks, and a runtime that
\* declares no usable chunk size has one of 1.
PoolAssumption ==
    /\ Inputs \subseteq Seq(Row)
    /\ MaxConcurrent \in Nat \ {0} /\ ChunkSize \in Nat \ {0}
    /\ None \notin [id : Ids, says : Says]

VARIABLES
    rows,       \* the parsed prompts
    hosted,     \* does a runtime here host the model?
    running,    \* Worker._running
    stage,      \* "start", "pool", "ended", "returned"
    queue,      \* units not taken yet
    worker,     \* the tasks of the pool
    result,     \* results_by_index
    completed, failed,
    shown       \* the counts the backend shows of this attempt

poolVars == <<rows, hosted, running, stage, queue, worker, result, completed, failed, shown>>

Indices == 1..Len(rows)
Workers == 1..MaxConcurrent

Count == [completed : Nat, failed : Nat]

\* A task: between units, in the runtime, reporting a snapshot of the counters,
\* returned, or broken by an exception.
Zero == [completed |-> 0, failed |-> 0]
Idle == [pc |-> "idle", unit |-> <<>>, snap |-> Zero]

PoolTypeOK ==
    /\ rows \in Inputs /\ hosted \in BOOLEAN /\ running \in BOOLEAN
    /\ stage \in {"start", "pool", "ended", "returned"}
    /\ queue \in Seq(Seq(Indices))
    /\ worker \in [Workers -> [pc : {"idle", "loop", "running", "reporting", "done",
                                     "broken"},
                               unit : Seq(Indices), snap : Count]]
    /\ result \in [Indices -> [id : Ids, says : Says] \cup {None}]
    /\ completed \in 0..Len(rows) /\ failed \in 0..Len(rows)
    /\ shown \in Count

PoolInit ==
    /\ rows \in Inputs /\ rows # <<>>
    /\ hosted \in BOOLEAN /\ running = TRUE /\ stage = "start"
    /\ queue = <<>> /\ worker = [w \in Workers |-> Idle]
    /\ result = [i \in Indices |-> None]
    /\ completed = 0 /\ failed = 0
    /\ shown = Zero

-----------------------------------------------------------------------------
(* The partition.                                                          *)

\* seen_ids holds the ids of refused rows too.  (Bug variant: a duplicate is
\* told so, and run all the same.)
Duplicate(i) == \E j \in 1..(i - 1) : rows[j].id = rows[i].id
RefusedStreams(i) == rows[i].kind = "stream"
Refused(i)   == Duplicate(i) \/ rows[i].kind = "stream"

\* The rows of some kinds that are not refused, in input order.
InOrder(S) ==
    CHOOSE s \in [1..Cardinality(S) -> S] : \A j, k \in DOMAIN s : j < k => s[j] < s[k]
KeptRows(kinds) == {i \in Indices : ~Refused(i) /\ rows[i].kind \in kinds}
Of(kinds) == InOrder(KeptRows(kinds))

Alone(s) == [k \in 1..Len(s) |-> <<s[k]>>]

\* Slices of ChunkSize, the last with what is left.  (Bug variant: full slices
\* only.)
LastChunkFull(s) == Len(s) \div ChunkSize
LastChunk(s) == (Len(s) + ChunkSize - 1) \div ChunkSize

Chunked(s) ==
    [k \in 1..LastChunk(s) |->
       SubSeq(s, (k - 1) * ChunkSize + 1,
                 IF k * ChunkSize < Len(s) THEN k * ChunkSize ELSE Len(s))]

Units == Alone(Of({"chat"}))
         \o (IF ChunkSize > 1 THEN Chunked(Of({"embed"})) \o Alone(Of({"list"}))
             ELSE Alone(Of({"embed", "list"})))

PoolSize(n) == IF n < MaxConcurrent THEN n ELSE MaxConcurrent

\* What a row is told, by the daemon or by the runtime.
Told(i, s) == [id |-> rows[i].id, says |-> s]

Partition ==
    /\ stage = "start" /\ hosted
    /\ result' = [i \in Indices |-> IF Duplicate(i) THEN Told(i, "duplicate")
                                    ELSE IF Refused(i) THEN Told(i, "stream")
                                    ELSE None]
    /\ failed' = Cardinality({i \in Indices : Refused(i)})
    /\ queue' = Units
    /\ worker' = [w \in Workers |-> IF w <= PoolSize(Len(Units))
                                    THEN [Idle EXCEPT !.pc = "loop"] ELSE Idle]
    /\ stage' = "pool"
    /\ UNCHANGED <<rows, hosted, running, completed, shown>>

\* No runtime hosts the model: every row says so, and nothing is reported.
NoRuntime ==
    /\ stage = "start" /\ ~hosted
    /\ result' = [i \in Indices |-> Told(i, "no_runtime")]
    /\ stage' = "returned"
    /\ UNCHANGED <<rows, hosted, running, queue, worker, completed, failed, shown>>

-----------------------------------------------------------------------------
(* The pool.                                                               *)

Take(w) ==
    /\ worker[w].pc = "loop" /\ running /\ queue # <<>>
    /\ worker' = [worker EXCEPT ![w].pc = "running", ![w].unit = Head(queue)]
    /\ queue' = Tail(queue)
    /\ UNCHANGED <<rows, hosted, running, stage, result, completed, failed, shown>>

\* A worker returns when the queue is empty or the daemon stops.
Leave(w) ==
    /\ worker[w].pc = "loop" /\ (~running \/ queue = <<>>)
    /\ worker' = [worker EXCEPT ![w].pc = "done"]
    /\ UNCHANGED <<rows, hosted, running, stage, queue, result, completed, failed, shown>>

RowsIn(u) == {u[k] : k \in 1..Len(u)}

\* What a runtime answers to a unit: some of its rows, in any order.
Answers(u) ==
    UNION { { a \in [1..n -> [row : RowsIn(u), ok : BOOLEAN]] :
                \A p, q \in 1..n : a[p].row = a[q].row => p = q } : n \in 0..Len(u) }

Said(i, x) == [id |-> rows[x.row].id, says |-> IF x.ok THEN "ok" ELSE "error"]

\* The rows of a chunk are paired with the answers by custom_id.  (Bug variant:
\* by position.)
PairedByPlace(u, a, i) == {p \in 1..Len(a) : u[p] = i}
Paired(u, a, i) == {p \in 1..Len(a) : rows[a[p].row].id = rows[i].id}

\* What the rows of unit u are told: a row without an answer is told that.
Recorded(u, a) ==
    [i \in Indices |->
       IF i \notin RowsIn(u) THEN result[i]
       ELSE IF Paired(u, a, i) = {} THEN Told(i, "internal")
       ELSE Said(i, a[CHOOSE p \in Paired(u, a, i) : TRUE])]

Successes(r) == Cardinality({i \in Indices : r[i] # None /\ r[i].says = "ok"})

\* The answer of unit u is recorded and counted; an exception of the runtime is
\* the answer that names no row.  Then the task reports a snapshot, if the
\* last report is old enough, or goes on, or breaks.
Answer(w) ==
    LET u == worker[w].unit IN
    /\ worker[w].pc = "running"
    /\ \E a \in Answers(u) :
         LET n == Successes(Recorded(u, a)) - Successes(result) IN
         /\ result' = Recorded(u, a)
         /\ completed' = completed + n
         /\ failed' = failed + Len(u) - n
    /\ \/ worker' = [worker EXCEPT ![w] = [Idle EXCEPT !.pc = "loop"]]
       \/ worker' = [worker EXCEPT ![w] =
                       [pc |-> "reporting", unit |-> <<>>,
                        snap |-> [completed |-> completed', failed |-> failed']]]
       \/ Breaks /\ worker' = [worker EXCEPT ![w] = [Idle EXCEPT !.pc = "broken"]]
    /\ UNCHANGED <<rows, hosted, running, stage, queue, shown>>

\* POST /workers/progress, on the backend: the larger counts stay.  (Bug
\* variant: the last to arrive stays.)
ShownLast(s) == s
Shown(s) == [completed |-> IF shown.completed < s.completed THEN s.completed
                           ELSE shown.completed,
             failed    |-> IF shown.failed < s.failed THEN s.failed
                           ELSE shown.failed]

\* The report arrives or is lost; either is all the same to the daemon.
Report(w) ==
    /\ worker[w].pc = "reporting"
    /\ shown' \in {shown, Shown(worker[w].snap)}
    /\ worker' = [worker EXCEPT ![w] = [Idle EXCEPT !.pc = "loop"]]
    /\ UNCHANGED <<rows, hosted, running, stage, queue, result, completed, failed>>

-----------------------------------------------------------------------------
(* The end.                                                                *)

\* gather waits for every task, and takes an exception for an end.  (Bug
\* variant: it does not.)
PoolEndedClean == \A w \in Workers : worker[w].pc \in {"idle", "done"}
PoolEnded == \A w \in Workers : worker[w].pc \in {"idle", "done", "broken"}

Unrun == {i \in Indices : result[i] = None}

\* Rows without a result fail, of the shutdown or of a broken pool.  (Bug
\* variant: every row is counted again.)
UnrunCountAll == Len(rows)
UnrunCount == Cardinality(Unrun)

Fill ==
    /\ stage = "pool" /\ PoolEnded
    /\ result' = [i \in Indices |-> IF i \in Unrun
                                    THEN Told(i, IF running THEN "unrun" ELSE "shutdown")
                                    ELSE result[i]]
    /\ failed' = failed + UnrunCount
    /\ stage' = "ended"
    /\ UNCHANGED <<rows, hosted, running, queue, worker, completed, shown>>

\* The final report, which arrives or is lost; the results are returned, and
\* uploaded with the number of successes among them.
Return ==
    /\ stage = "ended"
    /\ shown' \in {shown, Shown([completed |-> completed, failed |-> failed])}
    /\ stage' = "returned"
    /\ UNCHANGED <<rows, hosted, running, queue, worker, result, completed, failed>>

\* SIGTERM or SIGINT.
Shutdown ==
    /\ running /\ stage # "returned"
    /\ running' = FALSE
    /\ UNCHANGED <<rows, hosted, stage, queue, worker, result, completed, failed, shown>>

-----------------------------------------------------------------------------
WorkerStep(w) == Take(w) \/ Leave(w) \/ Answer(w) \/ Report(w)

OwnStep == Partition \/ NoRuntime \/ Fill \/ Return

PoolNext ==
    \/ OwnStep \/ Shutdown
    \/ \E w \in Workers : WorkerStep(w)

PoolSpec == PoolInit /\ [][PoolNext]_poolVars

\* The event loop runs every task that can go on, and every call to a runtime
\* or the backend has a timeout.
PoolFairness ==
    /\ WF_poolVars(OwnStep)
    /\ \A w \in Workers : WF_poolVars(WorkerStep(w))

FairPool == PoolSpec /\ PoolFairness

-----------------------------------------------------------------------------
(* Properties.                                                             *)

\* Nobody gets another row's answer, in whichever order the runtime gives the
\* answers of a chunk and whichever of them it leaves out (worker.py:681-693).
AnswerIsOwn == \A i \in Indices : result[i] # None => result[i].id = rows[i].id

\* The counters the daemon reports are those of the rows it writes: at any time
\* of those answered so far, so that no row is run twice or run though it was
\* refused, and in the end of every row, so that the last report agrees with the
\* counts sent with the upload.
CountsAreOfRows ==
    (hosted /\ stage # "start") =>
        /\ completed = Successes(result)
        /\ completed + failed = Cardinality(Indices \ Unrun)

\* "Every input row produces exactly one output row" (worker.py:523), and if
\* neither a shutdown nor a broken task came in the way every row that was not
\* refused was put to the runtime.
EveryRowIsRun ==
    stage = "returned" =>
        /\ Unrun = {}
        /\ (running /\ \A w \in Workers : worker[w].pc # "broken") =>
             \A i \in Indices : result[i].says \notin {"unrun", "shutdown"}

\* Reports of several tasks overtake each other, and still the counts shown
\* never fall (workers.py:446-449) and never exceed what has been done.
ShownOnlyRises ==
    [][/\ shown.completed <= shown'.completed /\ shown.failed <= shown'.failed
       /\ shown'.completed <= completed' /\ shown'.failed <= failed']_poolVars

\* The job comes to its end, whatever breaks: "No single prompt can fail the
\* job" (worker.py:524-525).
RunEnds == <>(stage = "returned")
=============================================================================
