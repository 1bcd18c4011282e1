------------------------------- MODULE Intake -------------------------------
(***************************************************************************)
(* Intake: how an input file becomes a batch, how the batch is validated,  *)
(* and how its owner hears of it.                                          *)
(*                                                                         *)
(* create_batch commits the batch as "validating" and leaves the rest to a *)
(* fire-and-forget task: validate_batch_file runs in a thread, commits     *)
(* "validated" or "failed", and the task then publishes an event to the    *)
(* SSE streams of the batch.  Tasks, streams and buffered events live in   *)
(* the memory of the one server process.  Meanwhile the owner may delete   *)
(* the file: that handler is in a thread of its own and is three steps     *)
(* (the check for active batches, the unlink, the commit).                 *)
(*                                                                         *)
(* A file is what its validation comes to (its lines are the subject of    *)
(* Validator); what happens to a validated batch is Dispatch's, and here   *)
(* one step per transition.                                                *)
(***************************************************************************)
EXTENDS Absent, FiniteSets

CONSTANTS
    Files,
    Batches,
    Orgs,       \* provider organisations, whose workers run batches
    Streams,    \* SSE connections
    Contents,   \* what the files of this run hold, of the three below
    Overlap,    \* may a delete overlap a create?  The deployment says TRUE
    Restarts,   \* does the server process restart at times?
    DbFails     \* does the database refuse a commit at times?

\* "good": every line is valid, the catalogue, capability and size gates may
\* still refuse it; "bad": some line is refused; "raises": reading the lines
\* raises (no UTF-8, or a first line that is an empty object).
ASSUME IntakeAssumption ==
    /\ Contents \subseteq {"good", "bad", "raises"}
    /\ None \notin Files \cup Batches \cup Orgs \cup {"validated", "failed"}
    /\ {Overlap, Restarts, DbFails} \subseteq BOOLEAN

VARIABLES
    row,      \* the files table: "none" yet, "stored", "deleted"
    disk,     \* is the file there on disk?
    holds,    \* its content
    del,      \* the delete handler of the file
    status,   \* batches.status; "none" before the row is committed
    input,    \* batches.input_file_id; create_batch has read that file
    org,      \* the org of the worker of the batch_assignments row, or None
    task,     \* _validate_and_notify of the batch
    buffer,   \* the event SSEManager keeps for late subscribers
    stream,   \* the SSE connections
    refused   \* history: the input was refused to the worker of the batch

fileVars  == <<row, disk, holds, del>>
batchVars == <<status, input, org>>
sseVars   == <<buffer, stream>>
vars      == <<row, disk, holds, del, status, input, org, task, buffer, stream, refused>>

Verdict == {"validated", "failed"}
Active  == {"validating", "validated", "in_progress"}

\* The task: "queued"; "found" the file; "judged" it; "unsaved", its first
\* commit refused; "returned" from its thread; "done"; "gone" with an
\* exception or with the process.
NoTask  == [pc |-> "none", verdict |-> None]
Closed  == [batch |-> None, pc |-> "closed", got |-> None]

TypeOK ==
    /\ row \in [Files -> {"none", "stored", "deleted"}]
    /\ disk \in [Files -> BOOLEAN]
    /\ holds \in [Files -> Contents \cup {None}]
    /\ del \in [Files -> {"none", "checked", "unlinked"}]
    /\ status \in [Batches -> {"none", "in_progress", "validating", "completed"} \cup Verdict]
    /\ input \in [Batches -> Files \cup {None}]
    /\ org \in [Batches -> Orgs \cup {None}]
    /\ task \in [Batches -> [pc : {"none", "queued", "found", "judged", "unsaved",
                                   "returned", "done", "gone"},
                             verdict : Verdict \cup {None}]]
    /\ buffer \in [Batches -> Verdict \cup {None}]
    /\ stream \in [Streams -> [batch : Batches \cup {None},
                               pc : {"closed", "waiting", "told"},
                               got : Verdict \cup {None}]]
    /\ refused \in [Batches -> BOOLEAN]

Init ==
    /\ row = [f \in Files |-> "none"]
    /\ disk = [f \in Files |-> FALSE]
    /\ holds = [f \in Files |-> None]
    /\ del = [f \in Files |-> "none"]
    /\ status = [b \in Batches |-> "none"]
    /\ input = [b \in Batches |-> None]
    /\ org = [b \in Batches |-> None]
    /\ task = [b \in Batches |-> NoTask]
    /\ buffer = [b \in Batches |-> None]
    /\ stream = [s \in Streams |-> Closed]
    /\ refused = [b \in Batches |-> FALSE]

-----------------------------------------------------------------------------
(* Files: POST, DELETE.                                                    *)

UploadFile(f) ==
    /\ row[f] = "none"
    /\ \E c \in Contents : holds' = [holds EXCEPT ![f] = c]
    /\ row' = [row EXCEPT ![f] = "stored"]
    /\ disk' = [disk EXCEPT ![f] = TRUE]
    /\ UNCHANGED <<del, batchVars, task, sseVars, refused>>

\* A create_batch handler that has read its file and not committed.
Creating(b) == input[b] # None /\ status[b] = "none"

\* Is the file the input of a batch that still needs it?  (Bug variant: a
\* validated batch is not asked for.)
InUseLate(f)  == \E b \in Batches : input[b] = f /\ status[b] \in {"validating", "in_progress"}
InUse(f) == \E b \in Batches : input[b] = f /\ status[b] \in Active

DeleteCheck(f) ==
    /\ row[f] = "stored" /\ del[f] = "none"
    /\ Overlap \/ \A b \in Batches : ~Creating(b)
    /\ ~InUse(f)
    /\ del' = [del EXCEPT ![f] = "checked"]
    /\ UNCHANGED <<row, disk, holds, batchVars, task, sseVars, refused>>

DeleteUnlink(f) ==
    /\ del[f] = "checked"
    /\ disk' = [disk EXCEPT ![f] = FALSE]
    /\ del' = [del EXCEPT ![f] = "unlinked"]
    /\ UNCHANGED <<row, holds, batchVars, task, sseVars, refused>>

DeleteCommit(f) ==
    /\ del[f] = "unlinked"
    /\ row' = [row EXCEPT ![f] = "deleted"]
    /\ del' = [del EXCEPT ![f] = "none"]
    /\ UNCHANGED <<disk, holds, batchVars, task, sseVars, refused>>

-----------------------------------------------------------------------------
(* POST /batches                                                           *)

CreateRead(b) ==
    /\ status[b] = "none" /\ input[b] = None
    /\ \E f \in Files :
         /\ row[f] = "stored"
         /\ Overlap \/ del[f] = "none"
         /\ input' = [input EXCEPT ![b] = f]
    /\ UNCHANGED <<fileVars, status, org, task, sseVars, refused>>

\* The commit and the create_task: there is no await between the two.
CreateCommit(b) ==
    /\ Creating(b)
    /\ status' = [status EXCEPT ![b] = "validating"]
    /\ task' = [task EXCEPT ![b].pc = "queued"]
    /\ UNCHANGED <<fileVars, input, org, sseVars, refused>>

-----------------------------------------------------------------------------
(* validate_batch_file, in its thread.                                     *)

\* os.path.exists, before any line is read: a missing file is a verdict.
ValidateFind(b) ==
    /\ task[b].pc = "queued"
    /\ task' = [task EXCEPT ![b] = IF disk[input[b]]
                                   THEN [@ EXCEPT !.pc = "found"]
                                   ELSE [pc |-> "judged", verdict |-> "failed"]]
    /\ UNCHANGED <<fileVars, batchVars, sseVars, refused>>

\* stat and open raise on a file that has gone since, reading may raise too,
\* and nothing catches it.
Raises(b) == ~disk[input[b]] \/ holds[input[b]] = "raises"

ValidateRaise(b) ==
    /\ task[b].pc = "found" /\ Raises(b)
    /\ task' = [task EXCEPT ![b].pc = "gone"]
    /\ UNCHANGED <<fileVars, batchVars, sseVars, refused>>

\* The lines and the gates.  (Bug variant: a status of its own for a bad file.)
JudgementsInvalid(c) == IF c = "good" THEN {"validated", "invalid"} ELSE {"invalid"}
Judgements(c) == IF c = "good" THEN Verdict ELSE {"failed"}

ValidateJudge(b) ==
    /\ task[b].pc = "found" /\ ~Raises(b)
    /\ \E v \in Judgements(holds[input[b]]) :
         task' = [task EXCEPT ![b] = [pc |-> "judged", verdict |-> v]]
    /\ UNCHANGED <<fileVars, batchVars, sseVars, refused>>

\* _persist_result: the verdict is committed and returned ...  (Bug variant:
\* only a good one is committed.)
StoredIfGood(b) == IF task[b].verdict = "validated" THEN "validated" ELSE status[b]
Stored(b) == task[b].verdict

Persist(b) ==
    /\ task[b].pc = "judged"
    /\ status' = [status EXCEPT ![b] = Stored(b)]
    /\ task' = [task EXCEPT ![b].pc = "returned"]
    /\ UNCHANGED <<fileVars, input, org, sseVars, refused>>

\* ... or the commit raises: the batch is to fail instead, and False is
\* returned whether that commit succeeds or not.  (Bug variant: the verdict is
\* returned all the same.)
ReturnedVerdict(b) == task[b].verdict
ReturnedFailed(b) == "failed"

PersistRaises(b) ==
    /\ DbFails /\ task[b].pc = "judged"
    /\ task' = [task EXCEPT ![b].pc = "unsaved"]
    /\ UNCHANGED <<fileVars, batchVars, sseVars, refused>>

Fallback(b) ==
    /\ task[b].pc = "unsaved"
    /\ \/ status' = [status EXCEPT ![b] = "failed"]
       \/ DbFails /\ UNCHANGED status
    /\ task' = [task EXCEPT ![b] = [pc |-> "returned", verdict |-> ReturnedFailed(b)]]
    /\ UNCHANGED <<fileVars, input, org, sseVars, refused>>

-----------------------------------------------------------------------------
(* SSEManager and the events endpoint.  A batch has one event at most, so  *)
(* the trimming of the buffer never comes to it.                           *)

Waiting(s, b) == stream[s] = [batch |-> b, pc |-> "waiting", got |-> None]

\* publish: buffered, and put in the queue of every subscriber, which reads it
\* and ends.
Kept(b) == task[b].verdict

Publish(b) ==
    /\ task[b].pc = "returned"
    /\ task' = [task EXCEPT ![b].pc = "done"]
    /\ buffer' = [buffer EXCEPT ![b] = Kept(b)]
    /\ stream' = [s \in Streams |->
                    IF Waiting(s, b)
                    THEN [batch |-> b, pc |-> "told", got |-> task[b].verdict]
                    ELSE stream[s]]
    /\ UNCHANGED <<fileVars, batchVars, refused>>

\* subscribe: what is buffered is replayed at once.  (Bug variant: it is not.)
ReplayedNever(b) == None
Replayed(b) == buffer[b]

Subscribe(s, b) ==
    /\ stream[s].pc # "waiting" /\ status[b] # "none"
    /\ stream' = [stream EXCEPT ![s] =
                    [batch |-> b, pc |-> IF Replayed(b) = None THEN "waiting" ELSE "told",
                     got |-> Replayed(b)]]
    /\ UNCHANGED <<fileVars, batchVars, task, buffer, refused>>

Disconnect(s) ==
    /\ stream[s].pc = "waiting"
    /\ stream' = [stream EXCEPT ![s] = Closed]
    /\ UNCHANGED <<fileVars, batchVars, task, buffer, refused>>

\* What the process held in memory is gone, and the handlers with it: nothing
\* at startup looks for batches that are still validating.
Restart ==
    /\ Restarts
    /\ del' = [f \in Files |-> "none"]
    /\ input' = [b \in Batches |-> IF Creating(b) THEN None ELSE input[b]]
    /\ task' = [b \in Batches |-> IF task[b].pc \in {"none", "done"} THEN task[b]
                                  ELSE [task[b] EXCEPT !.pc = "gone"]]
    /\ buffer' = [b \in Batches |-> None]
    /\ stream' = [s \in Streams |-> Closed]
    /\ UNCHANGED <<row, disk, holds, status, org, refused>>

-----------------------------------------------------------------------------
(* The life of a validated batch, as Dispatch has it.                      *)

HandOut(b, o) ==
    /\ status[b] = "validated"
    /\ status' = [status EXCEPT ![b] = "in_progress"]
    /\ org' = [org EXCEPT ![b] = o]
    /\ UNCHANGED <<fileVars, input, task, sseVars, refused>>

TakeBack(b) ==
    /\ status[b] = "in_progress"
    /\ \E v \in Verdict : status' = [status EXCEPT ![b] = v]
    /\ org' = [org EXCEPT ![b] = None]
    /\ UNCHANGED <<fileVars, input, task, sseVars, refused>>

Complete(b) ==
    /\ status[b] = "in_progress"
    /\ status' = [status EXCEPT ![b] = "completed"]
    /\ UNCHANGED <<fileVars, input, org, task, sseVars, refused>>

\* _file_assigned_worker_org asks for the org of A batch with this input, the
\* first the database returns.
AskedFor(b) == {c \in Batches : status[c] # "none" /\ input[c] = input[b]}

Download(b) ==
    /\ status[b] = "in_progress" /\ row[input[b]] = "stored"
    /\ \E c \in AskedFor(b) :
         refused' = [refused EXCEPT ![b] = @ \/ org[c] # org[b]]
    /\ UNCHANGED <<fileVars, batchVars, task, sseVars>>

-----------------------------------------------------------------------------
ValidatorStep(b) ==
    \/ ValidateFind(b) \/ ValidateRaise(b) \/ ValidateJudge(b)
    \/ Persist(b) \/ PersistRaises(b) \/ Fallback(b) \/ Publish(b)

BatchStep(b) ==
    \/ CreateRead(b) \/ CreateCommit(b) \/ ValidatorStep(b)
    \/ \E o \in Orgs : HandOut(b, o)
    \/ TakeBack(b) \/ Complete(b) \/ Download(b)

FileStep(f) == UploadFile(f) \/ DeleteCheck(f) \/ DeleteUnlink(f) \/ DeleteCommit(f)

StreamStep(s) == Disconnect(s) \/ \E b \in Batches : Subscribe(s, b)

Next ==
    \/ \E b \in Batches : BatchStep(b)
    \/ \E f \in Files : FileStep(f)
    \/ \E s \in Streams : StreamStep(s)
    \/ Restart

Spec == Init /\ [][Next]_vars

\* The thread pool runs every validation it is given to its end and the event
\* loop goes on with the task; outages end.
Fairness == (\A b \in Batches : WF_vars(ValidatorStep(b))) /\ <>[][~Restart]_vars

FairSpec == Spec /\ Fairness

-----------------------------------------------------------------------------
(* Properties.                                                             *)

\* What the stream says of a batch is committed before it is said: a batch said
\* to be validated is, or has gone on; one said to have failed is never handed
\* out, even if its failure could not be stored (batch_validator.py:476-492,
\* batches.py:46-52).
EventIsTrue ==
    \A b \in Batches :
      /\ buffer[b] = "validated" => status[b] \notin {"none", "validating"}
      /\ buffer[b] = "failed" => org[b] = None /\ status[b] \in {"validating", "failed"}

\* A batch that waits for a worker or is with one has its input on disk: a file
\* is not deleted from under an active batch (files.py:89-98).
QueuedHasInput ==
    \A b \in Batches : status[b] \in {"validated", "in_progress"} => disk[input[b]]

\* A batch reaches "validated" or "failed" on its own (api.md:525-526).
ValidationEnds ==
    \A b \in Batches : (status[b] = "validating") ~> (status[b] # "validating")

\* A validation that loses neither its thread nor its commit to an exception
\* does end: the file is judged, and the judgement stored.
Quiet(b) == task[b].pc \notin {"gone", "unsaved"}

QuietValidationEnds ==
    \A b \in Batches :
      []Quiet(b) => ((status[b] = "validating") ~> (status[b] # "validating"))

\* Who watches a batch hears its verdict, whether the stream is opened before
\* or after it: "late subscribers don't miss anything" (sse_manager.py:19), as
\* long as the event the task has published is in the memory of the process.
Remembered(b) == task[b].pc = "done" => buffer[b] # None

WatcherIsTold ==
    \A s \in Streams, b \in Batches :
      [](Quiet(b) /\ Remembered(b)) => (Waiting(s, b) ~> ~Waiting(s, b))

\* Whatever became of the task, who watches a decided batch is told.
DecidedIsTold ==
    \A s \in Streams, b \in Batches :
      (Waiting(s, b) /\ status[b] # "validating") ~> ~Waiting(s, b)

\* The worker a batch is assigned to may download its input (files.py:124-125).
AssigneeMayRead == \A b \in Batches : ~refused[b]
=============================================================================
