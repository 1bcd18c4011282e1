--------------------------- MODULE DispatchProofs ---------------------------
(* Theorems about Dispatch, for every number of workers, batches, requests *)
(* and attempts.                                                           *)
EXTENDS Dispatch, TLAPS

USE DispatchAssumption

-----------------------------------------------------------------------------
(* Type correctness.                                                       *)

\* Counting up to a cap stays below it.
LEMMA Plus1Type ==
    ASSUME NEW cap \in Nat, NEW n \in 0..cap
    PROVE  Plus1(n, cap) \in 0..cap /\ Plus1(n, cap) >= n
  BY DEF Plus1

\* The request records and the sweep records are what their names say.
LEMMA RecordTypes ==
    /\ Free \in Request
    /\ NoSweep \in Sweeps
    /\ AttemptCap \in Nat /\ MaxAttempts \in Nat
    /\ MaxAttempts \in 0..AttemptCap
  BY DEF Free, Request, NoSweep, Sweeps, AttemptCap

\* A requeue leaves a batch validated or failed.
LEMMA NextStatusType ==
    ASSUME NEW n PROVE NextStatus(n) \in {"validated", "failed"}
  BY DEF NextStatus

\* Changing a request's fields within their ranges leaves a request.
LEMMA RequestUpdate ==
    ASSUME NEW r \in Request, NEW c \in Batches, NEW n \in 0..AttemptCap,
           NEW h \in BOOLEAN
    PROVE  /\ [r EXCEPT !.wait = FALSE] \in Request
           /\ [r EXCEPT !.pc = "open"] \in Request
           /\ [r EXCEPT !.pc = "open", !.batch = c] \in Request
           /\ [r EXCEPT !.pc = "open", !.seen = n] \in Request
           /\ [r EXCEPT !.pc = "voided", !.held = h] \in Request
  <1>1. [r EXCEPT !.wait = FALSE] \in Request BY DEF Request
  <1>2. [r EXCEPT !.pc = "open"] \in Request BY DEF Request
  <1>3. [r EXCEPT !.pc = "open", !.batch = c] \in Request BY DEF Request
  <1>4. [r EXCEPT !.pc = "open", !.seen = n] \in Request BY DEF Request
  <1>5. [r EXCEPT !.pc = "voided", !.held = h] \in Request BY DEF Request
  <1> QED BY <1>1, <1>2, <1>3, <1>4, <1>5

\* Replying keeps requests and daemons well typed.
LEMMA ReplyType ==
    ASSUME TypeOK, NEW s \in Slots, NEW d \in [pc : {"idle", "running", "failing"},
                                              job : Batches \cup {None}],
           req[s].pc # "free", Reply(s, d)
    PROVE  req' \in [Slots -> Request] /\
           daemon' \in [Workers -> [pc : {"down", "idle", "polling", "running",
                                     "uploading", "failing", "reporting"},
                               job : Batches \cup {None}]]
  BY RecordTypes DEF TypeOK, Reply, Request

\* Requests about a batch, and daemons that work on one, name a batch.
JobsKnown ==
    /\ \A s \in Slots :
         /\ req[s].pc # "free" => req[s].worker \in Workers
         /\ req[s].kind \in {"upload", "report"} \/ req[s].pc \in {"open", "voided"}
              => req[s].batch \in Batches
    /\ \A w \in Workers :
         daemon[w].pc \in {"running", "uploading", "failing", "reporting"}
           => daemon[w].job \in Batches

TypeInv == TypeOK /\ JobsKnown

\* A request sent is a request, and leaves the rows alone.
LEMMA SendType ==
    ASSUME TypeOK, NEW w \in Workers, NEW kind \in {"poll", "upload", "report"},
           NEW pc \in {"polling", "uploading", "reporting"}, Send(w, kind, pc)
    PROVE  TypeOK'
  <1>1. PICK s \in Slots : /\ req' = [req EXCEPT ![s] = Sent(w, kind)]
                           /\ daemon' = [daemon EXCEPT ![w].pc = pc]
                           /\ UNCHANGED <<batchVars, workerVars, sweep>>
    BY DEF Send
  <1>2. Sent(w, kind) \in Request
    <2>1. daemon[w].job \in Batches \cup {None} BY DEF TypeOK
    <2>2. 0 \in 0..AttemptCap BY RecordTypes
    <2> QED BY <2>1, <2>2 DEF Sent, Request
  <1>3. req' \in [Slots -> Request] BY <1>1, <1>2 DEF TypeOK
  <1>4. daemon' \in [Workers -> [pc : {"down", "idle", "polling", "running",
                                     "uploading", "failing", "reporting"},
                                job : Batches \cup {None}]]
    BY <1>1 DEF TypeOK
  <1> QED BY <1>1, <1>3, <1>4 DEF TypeOK, batchVars, workerVars

\* The type is preserved by every step, daemon, worker row and handler in turn.
LEMMA DaemonStepType ==
    ASSUME TypeInv, NEW w \in Workers, DaemonStep(w) PROVE TypeOK'
  <1>1. CASE SendPoll(w)
    BY <1>1, SendType DEF TypeInv, SendPoll
  <1>2. CASE SendUpload(w)
    BY <1>2, SendType DEF TypeInv, SendUpload
  <1>3. CASE SendReport(w)
    BY <1>3, SendType DEF TypeInv, SendReport
  <1>4. CASE GiveUp(w)
    <2>1. AfterError(w) \in [pc : {"idle", "failing"}, job : Batches \cup {None}]
      BY DEF TypeInv, TypeOK, AfterError, Idle
    <2>2. daemon' \in [Workers -> [pc : {"down", "idle", "polling", "running",
                                     "uploading", "failing", "reporting"},
                               job : Batches \cup {None}]]
      BY <1>4, <2>1 DEF TypeInv, TypeOK, GiveUp
    <2>3. req' \in [Slots -> Request]
      <3>1. PICK s \in Slots : req' = [req EXCEPT ![s].wait = FALSE]
        BY <1>4 DEF GiveUp
      <3>2. req[s] \in Request BY DEF TypeInv, TypeOK
      <3>3. [req[s] EXCEPT !.wait = FALSE] \in Request BY <3>2 DEF Request
      <3> QED BY <3>1, <3>3 DEF TypeInv, TypeOK
    <2> QED BY <1>4, <2>2, <2>3 DEF TypeInv, TypeOK, GiveUp, batchVars, workerVars
  <1>5. CASE Crash(w)
    <2>1. ASSUME NEW s \in Slots PROVE [req[s] EXCEPT !.wait = FALSE] \in Request
      <3>1. req[s] \in Request BY DEF TypeInv, TypeOK
      <3> QED BY <3>1 DEF Request
    <2>2. req' \in [Slots -> Request]
      BY <1>5, <2>1 DEF TypeInv, TypeOK, Crash
    <2> QED BY <1>5, <2>2 DEF TypeInv, TypeOK, Crash, batchVars, workerVars
  <1>6. CASE StartSaved(w)
    BY <1>6 DEF TypeInv, TypeOK, StartSaved, Idle, batchVars, workerVars
  <1> QED BY <1>1, <1>2, <1>3, <1>4, <1>5, <1>6 DEF DaemonStep

LEMMA WorkerStepType ==
    ASSUME TypeInv, NEW w \in Workers, WorkerStep(w) PROVE TypeOK'
  <1>1. CASE Start(w)
    BY <1>1 DEF TypeInv, JobsKnown, TypeOK, Start, Idle, RegisteredStatus, WorkerStatus, batchVars
  <1>2. CASE Heartbeat(w)
    BY <1>2 DEF TypeInv, JobsKnown, TypeOK, Heartbeat, BeatStatus, WorkerStatus, batchVars
  <1>3. CASE ModelProgress(w)
    BY <1>3 DEF TypeInv, JobsKnown, TypeOK, ModelProgress, batchVars
  <1>4. CASE FallSilent(w)
    BY <1>4 DEF TypeInv, JobsKnown, TypeOK, FallSilent, batchVars
  <1>5. CASE Drain(w)
    BY <1>5 DEF TypeInv, JobsKnown, TypeOK, Drain, WorkerStatus, batchVars
  <1>6. CASE Undrain(w)
    BY <1>6 DEF TypeInv, JobsKnown, TypeOK, Undrain, WorkerStatus, batchVars
  <1>7. CASE Remove(w)
    BY <1>7 DEF TypeInv, JobsKnown, TypeOK, Remove, WorkerStatus, batchVars
  <1> QED BY <1>1, <1>2, <1>3, <1>4, <1>5, <1>6, <1>7 DEF WorkerStep

LEMMA HandlerStepType ==
    ASSUME TypeInv, NEW s \in Slots, HandlerStep(s) PROVE TypeOK'
  <1> DEFINE b == req[s].batch
  <1>0. Idle \in [pc : {"idle", "running", "failing"}, job : Batches \cup {None}]
    BY DEF Idle
  <1>1. CASE PollNothing(s)
    BY <1>0, <1>1, ReplyType DEF TypeInv, JobsKnown, TypeOK, PollNothing, batchVars, workerVars
  <1>2. CASE PollRead(s)
    <2>1. \A c \in Batches : [req[s] EXCEPT !.pc = "open", !.batch = c] \in Request
      <3>1. req[s] \in Request BY DEF TypeInv, TypeOK
      <3> QED BY <3>1, RequestUpdate, RecordTypes
    <2>2. req' \in [Slots -> Request]
      <3>1. PICK c \in Batches :
              req' = [req EXCEPT ![s] = [req[s] EXCEPT !.pc = "open", !.batch = c]]
        BY <1>2 DEF PollRead
      <3> QED BY <2>1, <3>1 DEF TypeInv, TypeOK
    <2> QED BY <1>2, <2>2 DEF TypeInv, TypeOK, PollRead, batchVars, workerVars
  <1>3. CASE PollCommit(s)
    <2>0. b \in Batches /\ req[s].worker \in Workers
      BY <1>3 DEF TypeInv, JobsKnown, PollCommit
    <2>1. CASE Insertable(b)
      <3>1. [pc |-> "running", job |-> b] \in [pc : {"idle", "running", "failing"},
                                               job : Batches \cup {None}]
        BY <2>0
      <3>2. req' \in [Slots -> Request] /\
            daemon' \in [Workers -> [pc : {"down", "idle", "polling", "running",
                                     "uploading", "failing", "reporting"},
                               job : Batches \cup {None}]]
        BY <1>3, <2>1, <3>1, ReplyType DEF TypeInv, PollCommit
      <3>3. Plus1(handed[b], MaxAttempts) \in 0..MaxAttempts
        BY <2>0, RecordTypes, Plus1Type DEF TypeInv, TypeOK
      <3>4. status' \in [Batches -> BatchStatus]
        BY <1>3, <2>1 DEF TypeInv, TypeOK, PollCommit, BatchStatus
      <3>5. handed' \in [Batches -> 0..MaxAttempts]
        BY <1>3, <2>0, <2>1, <3>3 DEF TypeInv, TypeOK, PollCommit
      <3>6. assigned' \in [Batches -> Workers \cup {None}]
        BY <1>3, <2>0, <2>1 DEF TypeInv, TypeOK, PollCommit
      <3> QED BY <1>3, <2>1, <3>2, <3>4, <3>5, <3>6
              DEF TypeInv, TypeOK, PollCommit, workerVars
    <2>2. CASE ~Insertable(b)
      BY <1>0, <1>3, <2>2, ReplyType DEF TypeInv, TypeOK, PollCommit, batchVars, workerVars
    <2> QED BY <2>1, <2>2
  <1>4. CASE UploadRefused(s)
    <2>1. AfterError(req[s].worker) \in [pc : {"idle", "running", "failing"},
                                          job : Batches \cup {None}]
      BY <1>4 DEF TypeInv, JobsKnown, TypeOK, UploadRefused, AfterError, Idle
    <2> QED BY <1>4, <2>1, ReplyType DEF TypeInv, JobsKnown, TypeOK, UploadRefused, batchVars, workerVars
  <1>5. CASE UploadReplay(s)
    BY <1>0, <1>5, ReplyType DEF TypeInv, JobsKnown, TypeOK, UploadReplay, batchVars, workerVars
  <1>6. CASE UploadRead(s)
    <2>1. /\ req' = [req EXCEPT ![s] = [req[s] EXCEPT !.pc = "open"]]
          /\ UNCHANGED <<batchVars, workerVars, sweep, daemon>>
      BY <1>6 DEF UploadRead
    <2>2. [req[s] EXCEPT !.pc = "open"] \in Request
      <3>1. req[s] \in Request BY DEF TypeInv, TypeOK
      <3> QED BY <3>1 DEF Request
    <2>3. req' \in [Slots -> Request] BY <2>1, <2>2 DEF TypeInv, TypeOK
    <2> QED BY <2>1, <2>3 DEF TypeInv, TypeOK, batchVars, workerVars
  <1>7. CASE UploadCommit(s)
    BY <1>0, <1>7, ReplyType DEF TypeInv, JobsKnown, TypeOK, UploadCommit, BatchStatus, Request, workerVars
  <1>8. CASE ReportRefused(s)
    BY <1>0, <1>8, ReplyType DEF TypeInv, JobsKnown, TypeOK, ReportRefused, batchVars, workerVars
  <1>9. CASE ReportRead(s)
    <2>1. attempts[b] \in 0..AttemptCap
      BY <1>9 DEF TypeInv, JobsKnown, TypeOK, ReportRead
    <2>2. [req[s] EXCEPT !.pc = "open", !.seen = attempts[b]] \in Request
      <3>1. req[s] \in Request BY DEF TypeInv, TypeOK
      <3>2. b \in Batches BY <1>9 DEF TypeInv, JobsKnown, ReportRead
      <3> QED BY <2>1, <3>1, <3>2, RequestUpdate
    <2>3. req' \in [Slots -> Request]
      BY <1>9, <2>2 DEF TypeInv, TypeOK, ReportRead
    <2> QED BY <1>9, <2>3 DEF TypeInv, TypeOK, ReportRead, batchVars, workerVars
  <1>10. CASE ReportVoid(s)
    <2>1. req[s] \in Request /\ b \in Batches
      BY <1>10 DEF TypeInv, JobsKnown, TypeOK, ReportVoid
    <2>2. (assigned[b] # None) \in BOOLEAN
      OBVIOUS
    <2>3. [req[s] EXCEPT !.pc = "voided", !.held = (assigned[b] # None)] \in Request
      BY <2>1, <2>2, RequestUpdate, RecordTypes
    <2>4. req' \in [Slots -> Request]
      BY <1>10, <2>3 DEF TypeInv, TypeOK, ReportVoid
    <2> QED BY <1>10, <2>4 DEF TypeInv, TypeOK, ReportVoid, batchVars, workerVars
  <1>11. CASE ReportCommit(s)
    <2>1. Plus1(req[s].seen, AttemptCap) \in 0..AttemptCap
      BY RecordTypes, Plus1Type DEF TypeInv, JobsKnown, TypeOK, Request
    <2> QED BY <1>0, <1>11, <2>1, ReplyType, NextStatusType
            DEF TypeInv, JobsKnown, TypeOK, ReportCommit, Voided, BatchStatus, workerVars
  <1> QED BY <1>1, <1>2, <1>3, <1>4, <1>5, <1>6, <1>7, <1>8, <1>9, <1>10, <1>11
          DEF HandlerStep

LEMMA FaultType ==
    ASSUME TypeInv, NEW s \in Slots, Fault(s) PROVE TypeOK'
  <1>0. Idle \in [pc : {"idle", "running", "failing"}, job : Batches \cup {None}]
    BY DEF Idle
  <1>1. CASE Lose(s)
    BY <1>1, RecordTypes DEF TypeInv, TypeOK, Lose, batchVars, workerVars
  <1>2. CASE PollDeadlock(s)
    BY <1>0, <1>2, ReplyType DEF TypeInv, TypeOK, PollDeadlock, batchVars, workerVars
  <1>3. CASE ReportDeadlock(s)
    BY <1>0, <1>3, ReplyType DEF TypeInv, TypeOK, ReportDeadlock, batchVars, workerVars
  <1> QED BY <1>1, <1>2, <1>3 DEF Fault

LEMMA SweepStepType ==
    ASSUME TypeInv, SweepBegin \/ SweepStep \/ SweepDeadlock PROVE TypeOK'
  <1>1. CASE SweepBegin
    <2>1. ASSUME NEW r \in Sweeps, NEW D \in SUBSET Workers
          PROVE  [r EXCEPT !.open = TRUE, !.dead = D, !.left = D] \in Sweeps
      BY DEF Sweeps
    <2>2. sweep' \in Sweeps
      BY <1>1, <2>1, RecordTypes DEF SweepBegin
    <2> QED BY <1>1, <2>2 DEF TypeInv, TypeOK, SweepBegin, batchVars, workerVars
  <1>2. ASSUME NEW w \in Workers, SweepWorker(w) PROVE TypeOK'
    BY <1>2 DEF TypeInv, TypeOK, SweepWorker, Sweeps, batchVars, workerVars
  <1>3. ASSUME NEW b \in Batches, SweepRead(b) PROVE TypeOK'
    BY <1>3 DEF TypeInv, TypeOK, SweepRead, Sweeps, batchVars, workerVars
  <1>4. ASSUME NEW b \in Batches, SweepVoid(b) PROVE TypeOK'
    BY <1>4 DEF TypeInv, TypeOK, SweepVoid, Sweeps, batchVars, workerVars
  <1>5. CASE SweepCommit
    <2>1. \A b \in Batches : Plus1(sweep.seen[b], AttemptCap) \in 0..AttemptCap
      BY RecordTypes, Plus1Type DEF TypeInv, TypeOK, Sweeps
    <2>2. attempts' \in [Batches -> 0..AttemptCap]
      BY <1>5, <2>1 DEF TypeInv, TypeOK, SweepCommit
    <2>3. status' \in [Batches -> BatchStatus]
      BY <1>5, NextStatusType DEF TypeInv, TypeOK, SweepCommit, BatchStatus
    <2>4. assigned' \in [Batches -> Workers \cup {None}]
      BY <1>5 DEF TypeInv, TypeOK, SweepCommit, Voided
    <2>5. wstatus' \in [Workers -> WorkerStatus]
      BY <1>5 DEF TypeInv, TypeOK, SweepCommit, WorkerStatus
    <2> QED BY <1>5, <2>2, <2>3, <2>4, <2>5, RecordTypes DEF TypeInv, TypeOK, SweepCommit
  <1>6. CASE SweepDeadlock
    BY <1>6, RecordTypes DEF TypeInv, TypeOK, SweepDeadlock, batchVars, workerVars
  <1> QED BY <1>1, <1>2, <1>3, <1>4, <1>5, <1>6 DEF SweepStep

LEMMA RestartType ==
    ASSUME TypeInv, Restart PROVE TypeOK'
  <1>1. \A w \in Workers : AfterError(w) \in [pc : {"idle", "failing"},
                                              job : Batches \cup {None}]
    BY DEF TypeInv, TypeOK, AfterError, Idle
  <1>2. req' \in [Slots -> Request]
    BY RecordTypes DEF TypeInv, TypeOK, Restart
  <1>3. daemon' \in [Workers -> [pc : {"down", "idle", "polling", "running",
                                     "uploading", "failing", "reporting"},
                               job : Batches \cup {None}]]
    BY <1>1 DEF TypeInv, TypeOK, Restart
  <1> QED BY <1>2, <1>3, RecordTypes DEF TypeInv, TypeOK, Restart, batchVars, workerVars

\* Every request and every job names a batch, after every step as before.
LEMMA JobsKnownStep ==
    ASSUME TypeInv, [Next]_vars PROVE JobsKnown'
  <1> USE DEF TypeInv, TypeOK, JobsKnown
  <1>1. ASSUME NEW w \in Workers, DaemonStep(w) PROVE JobsKnown'
    <2>1. ASSUME NEW s \in Slots, req[s] = Free, NEW kind, NEW pc,
                 req' = [req EXCEPT ![s] = Sent(w, kind)],
                 daemon' = [daemon EXCEPT ![w].pc = pc],
                 pc # "polling" => daemon[w].pc \in {"running", "failing"},
                 kind # "poll" => daemon[w].pc \in {"running", "failing"},
                 pc = "polling" => kind = "poll"
          PROVE  JobsKnown'
      BY <2>1 DEF Sent
    <2>2. CASE SendPoll(w)
      <3>1. PICK s \in Slots : /\ req[s] = Free /\ req' = [req EXCEPT ![s] = Sent(w, "poll")]
                               /\ daemon' = [daemon EXCEPT ![w].pc = "polling"]
        BY <2>2 DEF SendPoll, Send
      <3> QED BY <2>1, <3>1
    <2>3. CASE SendUpload(w)
      <3>1. daemon[w].pc = "running" BY <2>3 DEF SendUpload
      <3>2. PICK s \in Slots : /\ req[s] = Free
                               /\ req' = [req EXCEPT ![s] = Sent(w, "upload")]
                               /\ daemon' = [daemon EXCEPT ![w].pc = "uploading"]
        BY <2>3 DEF SendUpload, Send
      <3> QED BY <3>1, <3>2 DEF Sent
    <2>4. CASE SendReport(w) BY <2>1, <2>4 DEF SendReport, Send
    <2>5. CASE GiveUp(w) BY <2>5 DEF GiveUp, AfterError, Idle
    <2>6. CASE Crash(w) BY <2>6 DEF Crash
    <2>7. CASE StartSaved(w) BY <2>7 DEF StartSaved, Idle
    <2> QED BY <1>1, <2>2, <2>3, <2>4, <2>5, <2>6, <2>7 DEF DaemonStep
  <1>2. ASSUME NEW w \in Workers, WorkerStep(w) PROVE JobsKnown'
    BY <1>2 DEF WorkerStep, Start, Heartbeat, ModelProgress, FallSilent, Drain,
                Undrain, Remove, Idle
  <1>3. ASSUME NEW s \in Slots, HandlerStep(s) \/ Fault(s) PROVE JobsKnown'
    <2>1. ASSUME NEW d, Reply(s, d),
                 req[s].wait /\ d.pc \in {"running", "uploading", "failing", "reporting"}
                   => d.job \in Batches
          PROVE  JobsKnown'
      BY <2>1 DEF Reply, Free
    <2>2. CASE PollNothing(s) BY <2>1, <2>2 DEF PollNothing, Idle
    <2>3. CASE PollRead(s) BY <2>3 DEF PollRead
    <2>4. CASE PollCommit(s) BY <2>1, <2>4 DEF PollCommit, Idle
    <2>5. CASE UploadRefused(s) BY <2>1, <2>5 DEF UploadRefused, AfterError, Idle
    <2>6. CASE UploadReplay(s) BY <2>1, <2>6 DEF UploadReplay, Idle
    <2>7. CASE UploadRead(s) BY <2>7 DEF UploadRead
    <2>8. CASE UploadCommit(s) BY <2>1, <2>8 DEF UploadCommit, Idle
    <2>9. CASE ReportRefused(s) BY <2>1, <2>9 DEF ReportRefused, Idle
    <2>10. CASE ReportRead(s) BY <2>10 DEF ReportRead
    <2>11. CASE ReportVoid(s) BY <2>11 DEF ReportVoid
    <2>12. CASE ReportCommit(s) BY <2>1, <2>12 DEF ReportCommit, Idle
    <2>13. CASE Lose(s) BY <2>13 DEF Lose, Free
    <2>14. CASE PollDeadlock(s) BY <2>1, <2>14 DEF PollDeadlock, Idle
    <2>15. CASE ReportDeadlock(s) BY <2>1, <2>15 DEF ReportDeadlock, Idle
    <2> QED BY <1>3, <2>2, <2>3, <2>4, <2>5, <2>6, <2>7, <2>8, <2>9, <2>10, <2>11,
               <2>12, <2>13, <2>14, <2>15 DEF HandlerStep, Fault
  <1>4. CASE SweepBegin \/ SweepStep \/ SweepDeadlock
    BY <1>4 DEF SweepBegin, SweepStep, SweepWorker, SweepRead, SweepVoid,
                SweepCommit, SweepDeadlock
  <1>5. CASE Restart
    BY <1>5 DEF Restart, AfterError, Idle, Free, InTransaction
  <1>6. CASE UNCHANGED vars
    BY <1>6 DEF vars
  <1> QED BY <1>1, <1>2, <1>3, <1>4, <1>5, <1>6 DEF Next

\* The state of the model is always well typed, every request and job known:
\* whatever the handlers, the sweeper and the daemons do, and however often.
THEOREM TypeInvariant == Spec => []TypeInv
  <1>1. Init => TypeInv
    BY RecordTypes DEF Init, TypeInv, TypeOK, JobsKnown, BatchStatus, WorkerStatus, Free
  <1>2. TypeInv /\ [Next]_vars => TypeInv'
    <2> SUFFICES ASSUME TypeInv, [Next]_vars PROVE TypeInv' OBVIOUS
    <2>1. JobsKnown' BY JobsKnownStep
    <2>2. TypeOK'
      <3>1. CASE UNCHANGED vars BY <3>1 DEF vars, TypeInv, TypeOK
      <3> QED BY <3>1, DaemonStepType, WorkerStepType, HandlerStepType, FaultType,
                 SweepStepType, RestartType DEF Next
    <2> QED BY <2>1, <2>2 DEF TypeInv
  <1> QED BY <1>1, <1>2, PTL DEF Spec

\* TypeOK on its own.
THEOREM TypeCorrect == Spec => []TypeOK
  <1>1. TypeInv => TypeOK BY DEF TypeInv
  <1> QED BY <1>1, TypeInvariant, PTL

-----------------------------------------------------------------------------
(* What holds however many transactions overlap.                           *)

\* n attempts can still be charged once more to the hand-outs of b.
Covered(n, b) == n < handed[b] \/ handed[b] = MaxAttempts

\* The strengthening: the attempts a requeue has read, like those of a batch in
\* progress, are fewer than the hand-outs; a sweep voids only what it takes.
TriedInv ==
    /\ InProgressIsAssigned
    /\ FailedWasTried
    /\ \A b \in Batches : attempts[b] <= handed[b] \/ handed[b] = MaxAttempts
    /\ \A b \in Batches : status[b] = "in_progress" => Covered(attempts[b], b)
    /\ \A s \in Slots : req[s].kind = "report" /\ req[s].pc \in {"open", "voided"}
                          => Covered(req[s].seen, req[s].batch)
    /\ \A b \in sweep.taken : Covered(sweep.seen[b], b)
    /\ sweep.at # None => sweep.at \in sweep.taken
    /\ sweep.held \subseteq sweep.taken

\* A covered requeue that fails the batch has used up every attempt, and the
\* hand-outs never go down.
LEMMA CoveredFails ==
    ASSUME TypeInv, NEW b \in Batches, NEW n \in Nat, Covered(n, b),
           NextStatus(n) = "failed"
    PROVE  handed[b] = MaxAttempts
  <1>1. handed[b] \in 0..MaxAttempts BY DEF TypeInv, TypeOK
  <1>2. n + 1 >= MaxAttempts BY DEF NextStatus
  <1> QED BY <1>1, <1>2 DEF Covered

\* Charging a covered attempt keeps the count within the hand-outs.
LEMMA ChargeStaysWithin ==
    ASSUME TypeInv, NEW b \in Batches, NEW n \in Nat, Covered(n, b)
    PROVE  Plus1(n, AttemptCap) <= handed[b] \/ handed[b] = MaxAttempts
  <1>1. handed[b] \in 0..MaxAttempts BY DEF TypeInv, TypeOK
  <1> QED BY <1>1 DEF Covered, Plus1, AttemptCap

\* Steps that leave the batches, the requeues and the sweep as they are.
LEMMA TriedUnchanged ==
    ASSUME TriedInv, UNCHANGED <<batchVars, sweep>>,
           \A s \in Slots :
             req'[s].kind = "report" /\ req'[s].pc \in {"open", "voided"}
               => /\ req[s].kind = "report" /\ req[s].pc \in {"open", "voided"}
                  /\ req'[s].seen = req[s].seen /\ req'[s].batch = req[s].batch
    PROVE  TriedInv'
  BY DEF TriedInv, InProgressIsAssigned, FailedWasTried, Covered, batchVars

\* A requeue that is not finished when its daemon sends, gives up or dies is
\* not touched by it.
LEMMA TriedDaemonStep ==
    ASSUME TypeInv, TriedInv, NEW w \in Workers, DaemonStep(w) PROVE TriedInv'
  <1> USE DEF TypeInv, TypeOK
  <1>1. CASE SendPoll(w)
    BY <1>1, TriedUnchanged DEF SendPoll, Send, Sent
  <1>2. CASE SendUpload(w)
    BY <1>2, TriedUnchanged DEF SendUpload, Send, Sent
  <1>3. CASE SendReport(w)
    BY <1>3, TriedUnchanged DEF SendReport, Send, Sent
  <1>4. CASE GiveUp(w)
    BY <1>4, TriedUnchanged DEF GiveUp
  <1>5. CASE Crash(w)
    BY <1>5, TriedUnchanged DEF Crash
  <1>6. CASE StartSaved(w)
    BY <1>6, TriedUnchanged DEF StartSaved
  <1> QED BY <1>1, <1>2, <1>3, <1>4, <1>5, <1>6 DEF DaemonStep

LEMMA TriedHandlerStep ==
    ASSUME TypeInv, TriedInv, NEW s \in Slots, HandlerStep(s) \/ Fault(s)
    PROVE  TriedInv'
  <1> USE DEF TypeInv, TypeOK
  <1> DEFINE b == req[s].batch
  <1>1. CASE PollNothing(s)
    BY <1>1, TriedUnchanged DEF PollNothing, Reply, Free
  <1>2. CASE PollRead(s)
    BY <1>2, TriedUnchanged DEF PollRead
  <1>3. CASE PollCommit(s)
    <2>1. CASE ~Insertable(b)
      BY <1>3, <2>1, TriedUnchanged DEF PollCommit, Reply, Free
    <2>2. CASE Insertable(b)
      <3>1. b \in Batches /\ req[s].worker \in Workers
        BY <1>3 DEF JobsKnown, PollCommit
      <3>2. attempts[b] < handed'[b] \/ handed'[b] = MaxAttempts
        BY <1>3, <2>2, <3>1 DEF TriedInv, PollCommit, Plus1
      <3>3. \A c \in Batches, n \in Nat : Covered(n, c) => Covered(n, c)'
        BY <1>3, <2>2, <3>1, RecordTypes DEF PollCommit, Covered, Plus1
      <3>4. InProgressIsAssigned' /\ FailedWasTried'
        <4>1. /\ status' = [status EXCEPT ![b] = "in_progress"]
              /\ assigned' = [assigned EXCEPT ![b] = req[s].worker]
              /\ handed' = [handed EXCEPT ![b] = Plus1(@, MaxAttempts)]
          BY <1>3, <2>2 DEF PollCommit
        <4>2. req[s].worker # None BY <3>1, DispatchAssumption
        <4>3. InProgressIsAssigned'
          BY <3>1, <4>1, <4>2 DEF TriedInv, InProgressIsAssigned
        <4>4. FailedWasTried'
          BY <3>1, <4>1 DEF TriedInv, FailedWasTried
        <4> QED BY <4>3, <4>4
      <3>5. \A c \in Batches : status'[c] = "in_progress" => Covered(attempts[c], c)'
        BY <1>3, <2>2, <3>1, <3>2 DEF TriedInv, PollCommit, Covered
      <3>6. \A c \in Batches : attempts'[c] <= handed'[c] \/ handed'[c] = MaxAttempts
        BY <1>3, <2>2, <3>1 DEF TriedInv, PollCommit, Plus1
      <3>7. \A r \in Slots :
              req'[r].kind = "report" /\ req'[r].pc \in {"open", "voided"}
                => Covered(req[r].seen, req[r].batch)' /\ UNCHANGED req[r]
        BY <1>3, <2>2, <3>3 DEF TriedInv, PollCommit, Reply, Free, JobsKnown, Request
      <3>8. \A c \in sweep.taken : Covered(sweep.seen[c], c)'
        BY <1>3, <2>2, <3>3 DEF TriedInv, PollCommit, Sweeps
      <3> QED BY <1>3, <2>2, <3>4, <3>5, <3>6, <3>7, <3>8 DEF TriedInv, PollCommit
    <2> QED BY <2>1, <2>2
  <1>4. CASE UploadRefused(s)
    BY <1>4, TriedUnchanged DEF UploadRefused, Reply, Free
  <1>5. CASE UploadReplay(s)
    BY <1>5, TriedUnchanged DEF UploadReplay, Reply, Free
  <1>6. CASE UploadRead(s)
    BY <1>6, TriedUnchanged DEF UploadRead
  <1>7. CASE UploadCommit(s)
    BY <1>7 DEF TriedInv, InProgressIsAssigned, FailedWasTried, Covered,
                UploadCommit, Reply, Free, workerVars
  <1>8. CASE ReportRefused(s)
    BY <1>8, TriedUnchanged DEF ReportRefused, Reply, Free
  <1>9. CASE ReportRead(s)
    BY <1>9 DEF TriedInv, InProgressIsAssigned, FailedWasTried, Covered,
                ReportRead, UnderWay, JobsKnown, batchVars
  <1>10. CASE ReportVoid(s)
    BY <1>10, TriedUnchanged DEF ReportVoid
  <1>12. CASE Lose(s)
    BY <1>12, TriedUnchanged DEF Lose, Free
  <1>13. CASE PollDeadlock(s)
    BY <1>13, TriedUnchanged DEF PollDeadlock, Reply, Free
  <1>14. CASE ReportDeadlock(s)
    BY <1>14, TriedUnchanged DEF ReportDeadlock, Reply, Free
  <1>11. CASE ReportCommit(s)
    <2>1. b \in Batches /\ req[s].seen \in Nat /\ Covered(req[s].seen, b)
      BY <1>11, RecordTypes DEF TriedInv, ReportCommit, JobsKnown, Request
    <2>2. NextStatus(req[s].seen) = "failed" => handed[b] = MaxAttempts
      BY <2>1, CoveredFails
    <2>3. Plus1(req[s].seen, AttemptCap) <= handed[b] \/ handed[b] = MaxAttempts
      BY <2>1, ChargeStaysWithin
    <2> QED BY <1>11, <2>1, <2>2, <2>3, NextStatusType
            DEF TriedInv, InProgressIsAssigned, FailedWasTried, Covered,
                ReportCommit, Reply, Free, Voided, workerVars
  <1> QED BY <1>1, <1>2, <1>3, <1>4, <1>5, <1>6, <1>7, <1>8, <1>9, <1>10, <1>11,
             <1>12, <1>13, <1>14 DEF HandlerStep, Fault

LEMMA TriedSweepStep ==
    ASSUME TypeInv, TriedInv, SweepBegin \/ SweepStep \/ SweepDeadlock
    PROVE  TriedInv'
  <1> USE DEF TypeInv, TypeOK
  <1>1. CASE SweepBegin
    BY <1>1 DEF TriedInv, InProgressIsAssigned, FailedWasTried, Covered, SweepBegin,
                NoSweep, batchVars
  <1>2. ASSUME NEW w \in Workers, SweepWorker(w) PROVE TriedInv'
    BY <1>2 DEF TriedInv, InProgressIsAssigned, FailedWasTried, Covered,
                SweepWorker, Sweeps, batchVars
  <1>3. ASSUME NEW b \in Batches, SweepRead(b) PROVE TriedInv'
    BY <1>3 DEF TriedInv, InProgressIsAssigned, FailedWasTried, Covered,
                SweepRead, Sweeps, batchVars
  <1>4. ASSUME NEW b \in Batches, SweepVoid(b) PROVE TriedInv'
    BY <1>4 DEF TriedInv, InProgressIsAssigned, FailedWasTried, Covered,
                SweepVoid, Sweeps, batchVars
  <1>5. CASE SweepCommit
    <2>1. \A b \in sweep.taken :
            /\ b \in Batches /\ sweep.seen[b] \in Nat
            /\ Covered(sweep.seen[b], b)
      BY RecordTypes DEF TriedInv, Sweeps
    <2>2. \A b \in sweep.taken :
            NextStatus(sweep.seen[b]) = "failed" => handed[b] = MaxAttempts
      BY <2>1, CoveredFails
    <2>3. \A b \in sweep.taken :
            Plus1(sweep.seen[b], AttemptCap) <= handed[b] \/ handed[b] = MaxAttempts
      BY <2>1, ChargeStaysWithin
    <2>4. InProgressIsAssigned' /\ FailedWasTried'
      BY <1>5, <2>2, NextStatusType
      DEF TriedInv, InProgressIsAssigned, FailedWasTried, SweepCommit, Voided
    <2>5. \A b \in Batches : attempts'[b] <= handed'[b] \/ handed'[b] = MaxAttempts
      BY <1>5, <2>3 DEF TriedInv, SweepCommit
    <2>6. \A b \in Batches : status'[b] = "in_progress" => Covered(attempts[b], b)'
      BY <1>5, NextStatusType DEF TriedInv, SweepCommit, Covered
    <2> QED BY <1>5, <2>4, <2>5, <2>6 DEF TriedInv, SweepCommit, NoSweep, Covered
  <1>6. CASE SweepDeadlock
    BY <1>6 DEF TriedInv, InProgressIsAssigned, FailedWasTried, Covered,
                SweepDeadlock, NoSweep, batchVars
  <1> QED BY <1>1, <1>2, <1>3, <1>4, <1>5, <1>6 DEF SweepStep

\* The hand-out accounting is invariant under every interleaving.
THEOREM TriedInvariant == Spec => [](TypeInv /\ TriedInv)
  <1>1. Init => TriedInv
    BY DEF Init, TriedInv, InProgressIsAssigned, FailedWasTried, NoSweep, Free
  <1>2. TypeInv /\ TriedInv /\ [Next]_vars => TriedInv'
    <2> SUFFICES ASSUME TypeInv, TriedInv, [Next]_vars PROVE TriedInv' OBVIOUS
    <2>1. ASSUME NEW w \in Workers, WorkerStep(w) PROVE TriedInv'
      BY <2>1, TriedUnchanged
      DEF WorkerStep, Start, Heartbeat, ModelProgress, FallSilent, Drain,
          Undrain, Remove
    <2>2. CASE Restart
      BY <2>2 DEF Restart, TriedInv, InProgressIsAssigned, FailedWasTried, Covered,
                  NoSweep, Free, batchVars
    <2>3. CASE UNCHANGED vars
      BY <2>3, TriedUnchanged DEF vars, batchVars
    <2> QED BY <2>1, <2>2, <2>3, TriedDaemonStep, TriedHandlerStep, TriedSweepStep
            DEF Next
  <1> QED BY <1>1, <1>2, TypeInvariant, PTL DEF Spec

\* No interleaving of polls, uploads, reports and sweeps leaves a batch in
\* progress that nobody holds.
THEOREM InProgressAlwaysAssigned == Spec => []InProgressIsAssigned
  <1>1. TriedInv => InProgressIsAssigned BY DEF TriedInv
  <1> QED BY <1>1, TriedInvariant, PTL

\* No interleaving fails a batch before it has been handed out MaxAttempts times.
THEOREM FailedAlwaysTried == Spec => []FailedWasTried
  <1>1. TriedInv => FailedWasTried BY DEF TriedInv
  <1> QED BY <1>1, TriedInvariant, PTL

-----------------------------------------------------------------------------
(* What Dispatch guarantees when transactions do not overlap (~Overlap):   *)
(* it implements BatchContract.                                            *)

\* What an open transaction has read is still so: that is all that ~Overlap
\* buys, and all the handlers rely on.
ReadsHold ==
    /\ \A s, r \in Slots : InTransaction(s) /\ InTransaction(r) => s = r
    /\ sweep.open => \A s \in Slots : ~InTransaction(s)
    /\ \A s \in Slots :
         /\ req[s].pc = "voided" => req[s].kind = "report" /\ req[s].held
         /\ req[s].kind = "poll" /\ req[s].pc = "open"
              => /\ status[req[s].batch] = "validated"
                 /\ MayTakeWork(req[s].worker)
         /\ req[s].kind = "upload" /\ req[s].pc = "open"
              => /\ status[req[s].batch] = "in_progress"
                 /\ assigned[req[s].batch] = req[s].worker
         /\ req[s].kind = "report" /\ InTransaction(s)
              => /\ status[req[s].batch] = "in_progress"
                 /\ req[s].seen = attempts[req[s].batch]

SweepReadsHold ==
    /\ ~sweep.open => sweep = NoSweep
    /\ sweep.held \subseteq sweep.taken
    /\ sweep.at # None => sweep.at \in sweep.taken
    /\ \A b \in sweep.taken :
         /\ status[b] = "in_progress" /\ sweep.seen[b] = attempts[b]
         /\ b \in sweep.held \/ b = sweep.at

\* The row of a batch and its assignment row agree with its status.
RowsAgree ==
    \A b \in Batches :
      /\ status[b] = "validated" => assigned[b] = None /\ attempts[b] < MaxAttempts
      /\ status[b] = "in_progress" => assigned[b] \in Workers /\ attempts[b] < MaxAttempts
      /\ status[b] = "completed" => output[b] # None /\ assigned[b] = output[b]

SerialInv == ReadsHold /\ SweepReadsHold /\ RowsAgree

\* Requests in transit, waiting or finished do not matter to the invariant.
LEMMA SerialUnchanged ==
    ASSUME TypeInv, SerialInv, UNCHANGED <<batchVars, sweep, wstatus>>,
           \A s \in Slots :
             req'[s].pc \in {"open", "voided"}
               => /\ req'[s].pc = req[s].pc /\ req'[s].kind = req[s].kind
                  /\ req'[s].seen = req[s].seen /\ req'[s].batch = req[s].batch
                  /\ req'[s].worker = req[s].worker /\ req'[s].held = req[s].held
    PROVE  SerialInv'
  <1>1. ReadsHold'
    BY DEF SerialInv, ReadsHold, InTransaction, MayTakeWork, HasRow, batchVars
  <1>2. SweepReadsHold' /\ RowsAgree'
    BY DEF SerialInv, SweepReadsHold, RowsAgree, NoSweep, batchVars
  <1> QED BY <1>1, <1>2 DEF SerialInv

LEMMA SerialDaemonStep ==
    ASSUME TypeInv, SerialInv, NEW w \in Workers, DaemonStep(w) PROVE SerialInv'
  <1> USE DEF TypeInv, TypeOK, workerVars
  <1>0. ASSUME NEW kind, NEW pc, Send(w, kind, pc) PROVE SerialInv'
    <2>1. PICK s \in Slots : req' = [req EXCEPT ![s] = Sent(w, kind)]
      BY <1>0 DEF Send
    <2>2. req'[s].pc = "sent" BY <2>1 DEF Sent
    <2>3. \A r \in Slots : r # s => req'[r] = req[r] BY <2>1
    <2>4. UNCHANGED <<batchVars, sweep, wstatus>> BY <1>0 DEF Send
    <2> QED BY <2>2, <2>3, <2>4, SerialUnchanged
  <1>1. CASE SendPoll(w) BY <1>0, <1>1 DEF SendPoll
  <1>2. CASE SendUpload(w) BY <1>0, <1>2 DEF SendUpload
  <1>3. CASE SendReport(w) BY <1>0, <1>3 DEF SendReport
  <1>4. CASE GiveUp(w)
    BY <1>4, SerialUnchanged DEF GiveUp
  <1>5. CASE Crash(w)
    BY <1>5, SerialUnchanged DEF Crash
  <1>6. CASE StartSaved(w)
    BY <1>6, SerialUnchanged DEF StartSaved
  <1> QED BY <1>1, <1>2, <1>3, <1>4, <1>5, <1>6 DEF DaemonStep

\* A worker's row changes only while no transaction that has read it is open.
LEMMA SerialWorkerStep ==
    ASSUME ~Overlap, TypeInv, SerialInv, NEW w \in Workers, WorkerStep(w)
    PROVE  SerialInv'
  <1> USE DEF TypeInv, TypeOK
  <1>1. CASE ModelProgress(w) \/ FallSilent(w)
    BY <1>1, SerialUnchanged DEF ModelProgress, FallSilent
  <1>2. CASE ~(ModelProgress(w) \/ FallSilent(w))
    <2>1. MayOpen /\ UNCHANGED <<batchVars, req, sweep>>
      BY <1>2 DEF WorkerStep, Start, Heartbeat, Drain, Undrain, Remove
    <2> QED BY <2>1 DEF SerialInv, ReadsHold, SweepReadsHold, RowsAgree, MayOpen,
                        InTransaction, NoSweep, batchVars
  <1> QED BY <1>1, <1>2

\* The only open transaction, about to commit: nothing else has read anything.
LEMMA Alone ==
    ASSUME SerialInv, NEW s \in Slots, InTransaction(s)
    PROVE  /\ sweep = NoSweep /\ ~sweep.open
           /\ \A r \in Slots \ {s} : ~InTransaction(r)
  BY DEF SerialInv, ReadsHold, SweepReadsHold

\* After its commit no transaction is open, so that only the rows matter.
LEMMA AloneCommits ==
    ASSUME TypeInv, SerialInv, NEW s \in Slots, InTransaction(s), NEW d, Reply(s, d),
           sweep' = sweep, RowsAgree'
    PROVE  SerialInv'
  <1>1. \A r \in Slots : ~InTransaction(r)'
    BY Alone DEF Reply, InTransaction, Free, TypeInv, TypeOK
  <1>2. sweep' = NoSweep /\ ~NoSweep.open /\ NoSweep.taken = {} /\ NoSweep.held = {}
        /\ NoSweep.at = None
    BY Alone DEF NoSweep
  <1>3. ReadsHold' BY <1>1, <1>2 DEF ReadsHold, InTransaction
  <1>4. SweepReadsHold' BY <1>2 DEF SweepReadsHold, NoSweep
  <1> QED BY <1>3, <1>4 DEF SerialInv

LEMMA SerialHandlerStep ==
    ASSUME ~Overlap, TypeInv, SerialInv, NEW s \in Slots, HandlerStep(s) \/ Fault(s)
    PROVE  SerialInv'
  <1> USE DEF TypeInv, TypeOK, workerVars
  <1> DEFINE b == req[s].batch
  <1>1. CASE PollNothing(s)
    BY <1>1, SerialUnchanged DEF PollNothing, Reply, Free
  <1>2. CASE PollRead(s)
    BY <1>2 DEF SerialInv, ReadsHold, SweepReadsHold, RowsAgree, PollRead, Pollable,
                MayOpen, InTransaction, MayTakeWork, HasRow, NoSweep, batchVars
  <1>3. CASE PollCommit(s)
    <2>1. InTransaction(s) BY <1>3 DEF PollCommit, InTransaction
    <2>2. PICK d : Reply(s, d) BY <1>3 DEF PollCommit
    <2>3. status[b] = "validated" /\ b \in Batches /\ req[s].worker \in Workers
      BY <1>3 DEF SerialInv, ReadsHold, PollCommit, JobsKnown
    <2>4. RowsAgree'
      BY <1>3, <2>3 DEF SerialInv, RowsAgree, PollCommit, batchVars
    <2> QED BY <1>3, <2>1, <2>2, <2>4, AloneCommits DEF PollCommit
  <1>4. CASE UploadRefused(s)
    BY <1>4, SerialUnchanged DEF UploadRefused, Reply, Free
  <1>5. CASE UploadReplay(s)
    BY <1>5, SerialUnchanged DEF UploadReplay, Reply, Free
  <1>6. CASE UploadRead(s)
    BY <1>6 DEF SerialInv, ReadsHold, SweepReadsHold, RowsAgree, UploadRead,
                IsAssignee, UnderWay, MayOpen, InTransaction, MayTakeWork, HasRow,
                NoSweep, batchVars
  <1>7. CASE UploadCommit(s)
    <2>1. InTransaction(s) BY <1>7 DEF UploadCommit, InTransaction
    <2>2. Reply(s, Idle) BY <1>7 DEF UploadCommit
    <2>3. assigned[b] = req[s].worker /\ b \in Batches /\ req[s].worker \in Workers
      BY <1>7 DEF SerialInv, ReadsHold, UploadCommit, JobsKnown
    <2>4. RowsAgree'
      BY <1>7, <2>3 DEF SerialInv, RowsAgree, UploadCommit
    <2> QED BY <1>7, <2>1, <2>2, <2>4, AloneCommits DEF UploadCommit
  <1>8. CASE ReportRefused(s)
    BY <1>8, SerialUnchanged DEF ReportRefused, Reply, Free
  <1>9. CASE ReportRead(s)
    BY <1>9 DEF SerialInv, ReadsHold, SweepReadsHold, RowsAgree, ReportRead,
                IsAssignee, UnderWay, MayOpen, InTransaction, MayTakeWork, HasRow,
                NoSweep, batchVars
  <1>10. CASE ReportVoid(s)
    <2>1. /\ InTransaction(s) /\ status[b] = "in_progress" /\ b \in Batches
          /\ req[s].seen = attempts[b]
      BY <1>10 DEF SerialInv, ReadsHold, ReportVoid, InTransaction, JobsKnown
    <2>2. assigned[b] # None BY <2>1 DEF SerialInv, RowsAgree
    <2>3. /\ req'[s].pc = "voided" /\ req'[s].kind = "report" /\ req'[s].held
          /\ req'[s].seen = attempts[b] /\ req'[s].batch = b
      <3>1. /\ req[s].kind = "report" /\ req[s].batch = b
            /\ req' = [req EXCEPT ![s] = [req[s] EXCEPT !.pc = "voided",
                                                        !.held = (assigned[b] # None)]]
        BY <1>10 DEF ReportVoid
      <3>2. req[s] \in Request /\ req'[s] = [req[s] EXCEPT !.pc = "voided",
                                                          !.held = (assigned[b] # None)]
        BY <3>1 DEF TypeInv, TypeOK
      <3> QED BY <2>1, <2>2, <3>1, <3>2 DEF Request
    <2>4. \A r \in Slots \ {s} : req'[r] = req[r] BY <1>10 DEF ReportVoid
    <2>5. ~sweep.open /\ \A r \in Slots \ {s} : ~InTransaction(r)
      BY <2>1, Alone
    <2>6. UNCHANGED <<batchVars, sweep, wstatus>> BY <1>10 DEF ReportVoid
    <2>7. ReadsHold'
      <3>1. \A r \in Slots : InTransaction(r)' => r = s
        BY <2>4, <2>5 DEF InTransaction
      <3>2. ~sweep'.open /\ \A r \in Slots : req'[r].pc \in {"open", "voided"} => r = s
        BY <2>5, <2>6, <3>1 DEF InTransaction
      <3> QED BY <2>1, <2>3, <2>6, <3>1, <3>2 DEF ReadsHold, InTransaction, batchVars
    <2>8. SweepReadsHold' /\ RowsAgree'
      BY <2>6 DEF SerialInv, SweepReadsHold, RowsAgree, NoSweep, batchVars
    <2> QED BY <2>7, <2>8 DEF SerialInv
  <1>11. CASE ReportCommit(s)
    <2>1. InTransaction(s) /\ Reply(s, Idle)
      BY <1>11 DEF ReportCommit, InTransaction
    <2>2. /\ status[b] = "in_progress" /\ b \in Batches
          /\ req[s].seen = attempts[b] /\ req[s].held
      BY <1>11, <2>1 DEF SerialInv, ReadsHold, ReportCommit, JobsKnown
    <2>3. attempts[b] \in Nat /\ attempts[b] < MaxAttempts
      BY <2>2, RecordTypes DEF SerialInv, RowsAgree
    <2>4. NextStatus(attempts[b]) = "validated" => attempts'[b] < MaxAttempts
      BY <1>11, <2>2, <2>3 DEF ReportCommit, NextStatus, Plus1, AttemptCap
    <2>5. RowsAgree'
      BY <1>11, <2>2, <2>4, NextStatusType
      DEF SerialInv, RowsAgree, ReportCommit, Voided
    <2> QED BY <1>11, <2>1, <2>5, AloneCommits DEF ReportCommit
  <1>12. CASE Lose(s)
    BY <1>12, SerialUnchanged DEF Lose, Free
  <1>13. CASE PollDeadlock(s)
    BY <1>13, SerialUnchanged DEF PollDeadlock, Reply, Free
  <1>14. CASE ReportDeadlock(s)
    BY <1>14, SerialUnchanged DEF ReportDeadlock, Reply, Free
  <1> QED BY <1>1, <1>2, <1>3, <1>4, <1>5, <1>6, <1>7, <1>8, <1>9, <1>10, <1>11,
             <1>12, <1>13, <1>14 DEF HandlerStep, Fault

LEMMA SerialSweepStep ==
    ASSUME ~Overlap, TypeInv, SerialInv, SweepBegin \/ SweepStep \/ SweepDeadlock
    PROVE  SerialInv'
  <1> USE DEF TypeInv, TypeOK, workerVars
  <1>0. ASSUME UNCHANGED <<batchVars, workerVars, req>>,
               sweep'.open => \A s \in Slots : ~InTransaction(s)
        PROVE  ReadsHold' /\ RowsAgree'
    BY <1>0 DEF SerialInv, ReadsHold, RowsAgree, InTransaction, MayTakeWork,
                HasRow, batchVars
  <1>1. CASE SweepBegin
    <2>1. \A s \in Slots : ~InTransaction(s) BY <1>1 DEF SweepBegin, MayOpen
    <2>2. SweepReadsHold' BY <1>1 DEF SweepBegin, SweepReadsHold, NoSweep
    <2> QED BY <1>0, <1>1, <2>1, <2>2 DEF SweepBegin, SerialInv
  <1>2. ASSUME NEW w \in Workers, SweepWorker(w) PROVE SerialInv'
    <2>1. sweep.open /\ sweep'.open
      BY <1>2 DEF SweepWorker, SerialInv, SweepReadsHold, NoSweep, Sweeps
    <2>2. SweepReadsHold'
      BY <1>2, <2>1 DEF SweepWorker, SerialInv, SweepReadsHold, Sweeps, batchVars
    <2> QED BY <1>0, <1>2, <2>1, <2>2 DEF SweepWorker, SerialInv, ReadsHold
  <1>3. ASSUME NEW b \in Batches, SweepRead(b) PROVE SerialInv'
    <2>1. sweep.open /\ sweep'.open
      BY <1>3 DEF SweepRead, SerialInv, SweepReadsHold, NoSweep, Sweeps
    <2>2. SweepReadsHold'
      BY <1>3, <2>1 DEF SweepRead, SerialInv, SweepReadsHold, Sweeps, batchVars
    <2> QED BY <1>0, <1>3, <2>1, <2>2 DEF SweepRead, SerialInv, ReadsHold
  <1>4. ASSUME NEW b \in Batches, SweepVoid(b) PROVE SerialInv'
    <2>1. sweep.open /\ sweep'.open
      BY <1>4 DEF SweepVoid, SerialInv, SweepReadsHold, NoSweep, Sweeps
    <2>2. b \in sweep.taken /\ assigned[b] # None
      BY <1>4 DEF SweepVoid, SerialInv, SweepReadsHold, RowsAgree
    <2>3. SweepReadsHold'
      BY <1>4, <2>1, <2>2 DEF SweepVoid, SerialInv, SweepReadsHold, Sweeps, batchVars
    <2> QED BY <1>0, <1>4, <2>1, <2>3 DEF SweepVoid, SerialInv, ReadsHold
  <1>5. CASE SweepCommit
    <2>1. \A b \in sweep.taken :
            /\ b \in Batches /\ b \in sweep.held
            /\ sweep.seen[b] = attempts[b] /\ attempts[b] \in Nat
            /\ attempts[b] < MaxAttempts
      BY <1>5, RecordTypes DEF SweepCommit, SerialInv, SweepReadsHold, RowsAgree, Sweeps
    <2>2. \A b \in sweep.taken :
            NextStatus(attempts[b]) = "validated"
              => Plus1(attempts[b], AttemptCap) < MaxAttempts
      BY <2>1 DEF NextStatus, Plus1, AttemptCap
    <2>3. \A b \in Batches : b \in sweep.held => b \in sweep.taken
      BY DEF SerialInv, SweepReadsHold
    <2>4. RowsAgree'
      BY <1>5, <2>1, <2>2, <2>3, NextStatusType
      DEF SerialInv, RowsAgree, SweepCommit, Voided
    <2>5. \A s \in Slots : ~InTransaction(s)
      BY <1>5 DEF SweepCommit, SerialInv, ReadsHold
    <2>6. ReadsHold'
      BY <1>5, <2>5 DEF SweepCommit, ReadsHold, InTransaction, NoSweep
    <2>7. SweepReadsHold' BY <1>5 DEF SweepCommit, SweepReadsHold, NoSweep
    <2> QED BY <2>4, <2>6, <2>7 DEF SerialInv
  <1>6. CASE SweepDeadlock
    <2>1. SweepReadsHold' BY <1>6 DEF SweepDeadlock, SweepReadsHold, NoSweep
    <2> QED BY <1>0, <1>6, <2>1 DEF SweepDeadlock, SerialInv, NoSweep
  <1> QED BY <1>1, <1>2, <1>3, <1>4, <1>5, <1>6 DEF SweepStep

LEMMA SerialRestart ==
    ASSUME TypeInv, SerialInv, Restart PROVE SerialInv'
  <1>1. \A s \in Slots : ~InTransaction(s)'
    BY DEF Restart, InTransaction, Free, TypeInv, TypeOK
  <1>2. ReadsHold' BY <1>1 DEF Restart, ReadsHold, InTransaction, NoSweep
  <1>3. SweepReadsHold' BY DEF Restart, SweepReadsHold, NoSweep
  <1>4. RowsAgree' BY DEF SerialInv, RowsAgree, Restart, batchVars
  <1> QED BY <1>2, <1>3, <1>4 DEF SerialInv

\* The reads of an open transaction stay true, and the rows agree.
THEOREM SerialInvariant ==
    ASSUME ~Overlap PROVE Spec => [](TypeInv /\ SerialInv)
  <1>1. Init => SerialInv
    BY DEF Init, SerialInv, ReadsHold, SweepReadsHold, RowsAgree, InTransaction,
           NoSweep, Free
  <1>2. TypeInv /\ SerialInv /\ [Next]_vars => SerialInv'
    <2> SUFFICES ASSUME TypeInv, SerialInv, [Next]_vars PROVE SerialInv' OBVIOUS
    <2>1. CASE UNCHANGED vars
      BY <2>1, SerialUnchanged DEF vars, batchVars
    <2> QED BY <2>1, SerialDaemonStep, SerialWorkerStep, SerialHandlerStep,
               SerialSweepStep, SerialRestart DEF Next
  <1> QED BY <1>1, <1>2, TypeInvariant, PTL DEF Spec

\* Without overlap a validated batch can always be handed out: its assignment
\* row has been voided.
THEOREM ValidatedAlwaysFree == ASSUME ~Overlap PROVE Spec => []ValidatedIsFree
  <1>1. SerialInv => ValidatedIsFree BY DEF SerialInv, RowsAgree, ValidatedIsFree
  <1> QED BY <1>1, SerialInvariant, PTL

\* Without overlap the work record of a completed batch names the worker whose
\* result it offers.
THEOREM CompletedAlwaysCredited ==
    ASSUME ~Overlap PROVE Spec => []CompletedIsCredited
  <1>1. SerialInv => CompletedIsCredited
    BY DEF SerialInv, RowsAgree, CompletedIsCredited
  <1> QED BY <1>1, SerialInvariant, PTL

-----------------------------------------------------------------------------
(* Dispatch implements BatchContract.                                      *)

\* A step that leaves the batches alone is a stutter of the contract.
LEMMA ContractStutters ==
    ASSUME UNCHANGED batchVars PROVE Contract!Next
  BY DEF batchVars, Contract!Next, Contract!Stay

\* Every step of the handlers is a step of the contract.
LEMMA ContractHandlerStep ==
    ASSUME TypeInv, SerialInv, NEW s \in Slots, HandlerStep(s) PROVE Contract!Next
  <1> USE DEF TypeInv, TypeOK
  <1> DEFINE b == req[s].batch
  <1>1. CASE PollCommit(s)
    <2>1. status[b] = "validated" /\ b \in Batches /\ req[s].worker \in Workers
      BY <1>1 DEF PollCommit, SerialInv, ReadsHold, JobsKnown
    <2>2. CASE Insertable(b)
      <3>1. Contract!Assign(b)
        BY <1>1, <2>1, <2>2 DEF PollCommit, Insertable, Contract!Assign
      <3>2. \A c \in Batches \ {b} : Contract!Stay(c)
        BY <1>1, <2>1, <2>2 DEF PollCommit, Contract!Stay
      <3> QED BY <3>1, <3>2 DEF Contract!Next
    <2>3. CASE ~Insertable(b)
      BY <1>1, <2>3, ContractStutters DEF PollCommit
    <2> QED BY <2>2, <2>3
  <1>2. CASE UploadCommit(s)
    <2>1. status[b] = "in_progress" /\ assigned[b] = req[s].worker /\ b \in Batches
      BY <1>2 DEF UploadCommit, SerialInv, ReadsHold, JobsKnown
    <2>2. Contract!Complete(b)
      BY <1>2, <2>1 DEF UploadCommit, Contract!Complete
    <2>3. \A c \in Batches \ {b} : Contract!Stay(c)
      BY <1>2, <2>1 DEF UploadCommit, Contract!Stay
    <2> QED BY <2>2, <2>3 DEF Contract!Next
  <1>3. CASE ReportCommit(s)
    <2>1. /\ status[b] = "in_progress" /\ b \in Batches
          /\ req[s].seen = attempts[b] /\ req[s].held
      BY <1>3 DEF ReportCommit, SerialInv, ReadsHold, InTransaction, JobsKnown
    <2>2. attempts[b] \in Nat /\ attempts[b] < MaxAttempts
      BY <2>1, RecordTypes DEF SerialInv, RowsAgree
    <2>3. attempts'[b] = attempts[b] + 1
      BY <1>3, <2>1, <2>2 DEF ReportCommit, Plus1, AttemptCap
    <2>4. assigned'[b] = None /\ output'[b] = output[b]
      BY <1>3, <2>1 DEF ReportCommit, Voided
    <2>5. status'[b] = NextStatus(attempts[b]) BY <1>3, <2>1 DEF ReportCommit
    <2>6. Contract!Requeue(b) \/ Contract!Fail(b)
      BY <2>1, <2>2, <2>3, <2>4, <2>5
      DEF NextStatus, Contract!Requeue, Contract!Fail, Contract!EndAttempt
    <2>7. \A c \in Batches \ {b} : Contract!Stay(c)
      BY <1>3, <2>1 DEF ReportCommit, Contract!Stay
    <2> QED BY <2>6, <2>7 DEF Contract!Next
  <1>4. CASE UNCHANGED batchVars BY <1>4, ContractStutters
  <1> QED BY <1>1, <1>2, <1>3, <1>4
          DEF HandlerStep, PollNothing, PollRead, UploadRefused, UploadReplay,
              UploadRead, ReportRefused, ReportRead, ReportVoid

\* One sweep commit requeues or fails each batch it has taken.
LEMMA ContractSweepCommit ==
    ASSUME TypeInv, SerialInv, SweepCommit PROVE Contract!Next
  <1> USE DEF TypeInv, TypeOK
  <1> SUFFICES ASSUME NEW b \in Batches
               PROVE  Contract!Requeue(b) \/ Contract!Fail(b) \/ Contract!Stay(b)
    BY DEF Contract!Next
  <1>1. CASE b \in sweep.taken
    <2>1. /\ b \in sweep.held /\ status[b] = "in_progress"
          /\ sweep.seen[b] = attempts[b]
      BY <1>1 DEF SweepCommit, SerialInv, SweepReadsHold
    <2>2. attempts[b] \in Nat /\ attempts[b] < MaxAttempts
      BY <2>1, RecordTypes DEF SerialInv, RowsAgree
    <2>3. attempts'[b] = attempts[b] + 1
      BY <1>1, <2>1, <2>2 DEF SweepCommit, Plus1, AttemptCap
    <2>4. /\ assigned'[b] = None /\ output'[b] = output[b]
          /\ status'[b] = NextStatus(attempts[b])
      BY <1>1, <2>1 DEF SweepCommit, Voided
    <2> QED BY <2>1, <2>2, <2>3, <2>4
            DEF NextStatus, Contract!Requeue, Contract!Fail, Contract!EndAttempt
  <1>2. CASE b \notin sweep.taken
    <2>1. b \notin sweep.held BY <1>2 DEF SerialInv, SweepReadsHold
    <2> QED BY <1>2, <2>1 DEF SweepCommit, Voided, Contract!Stay
  <1> QED BY <1>1, <1>2

\* The server whose transactions run one at a time gives every batch the life
\* VALID_TRANSITIONS promises, with its assignment and its attempts in step.
THEOREM DispatchImplementsContract ==
    ASSUME ~Overlap PROVE Spec => ImplementsContract
  <1>1. Init => Contract!Init
    BY DEF Init, Contract!Init
  <1>2. TypeInv /\ SerialInv /\ [Next]_vars => [Contract!Next]_(Contract!contractVars)
    <2> SUFFICES ASSUME TypeInv, SerialInv, [Next]_vars PROVE Contract!Next
      OBVIOUS
    <2>1. CASE UNCHANGED batchVars BY <2>1, ContractStutters
    <2>2. CASE SweepCommit BY <2>2, ContractSweepCommit
    <2>3. ASSUME NEW s \in Slots, HandlerStep(s) PROVE Contract!Next
      BY <2>3, ContractHandlerStep
    <2>4. ASSUME NEW w \in Workers, DaemonStep(w) \/ WorkerStep(w)
          PROVE  UNCHANGED batchVars
      BY <2>4 DEF DaemonStep, SendPoll, SendUpload, SendReport, Send, GiveUp, Crash,
                  StartSaved,
                  WorkerStep, Start, Heartbeat, ModelProgress, FallSilent, Drain,
                  Undrain, Remove
    <2>5. ASSUME NEW s \in Slots, Fault(s) PROVE UNCHANGED batchVars
      BY <2>5 DEF Fault, Lose, PollDeadlock, ReportDeadlock
    <2>6. ASSUME SweepBegin \/ SweepStep \/ SweepDeadlock \/ Restart, ~SweepCommit
          PROVE  UNCHANGED batchVars
      BY <2>6 DEF SweepBegin, SweepStep, SweepWorker, SweepRead, SweepVoid,
                  SweepDeadlock, Restart
    <2>7. CASE UNCHANGED vars BY <2>7, ContractStutters DEF vars, batchVars
    <2> QED BY <2>1, <2>2, <2>3, <2>4, <2>5, <2>6, <2>7 DEF Next
  <1> QED BY <1>1, <1>2, SerialInvariant, PTL
          DEF Spec, ImplementsContract, Contract!Spec

\* No transition of the contract leaves "completed" or "failed", and so none of
\* Dispatch does: a completed batch is not taken back, a failed one not run.
THEOREM TerminalAlwaysFinal ==
    ASSUME ~Overlap PROVE Spec => TerminalIsFinal
  <1> DEFINE Final == \A b \in Batches : status[b] \in {"completed", "failed"} =>
                                          status'[b] = status[b]
  <1>1. Contract!Next => Final
    BY DEF Contract!Next, Contract!Assign, Contract!Complete, Contract!Requeue,
           Contract!Fail, Contract!EndAttempt, Contract!Stay
  <1>2. UNCHANGED Contract!contractVars => Final
    BY DEF Contract!contractVars
  <1>3. [Contract!Next]_(Contract!contractVars) => [Final]_vars
    BY <1>1, <1>2
  <1> QED BY <1>3, DispatchImplementsContract, PTL
          DEF ImplementsContract, Contract!Spec, TerminalIsFinal

-----------------------------------------------------------------------------
(* A draining worker.                                                      *)

\* Without overlap a worker whose row says draining is given nothing new: the
\* check poll_job makes before it looks for a batch still holds at its commit.
THEOREM DrainingNeverAssigned ==
    ASSUME ~Overlap PROVE Spec => DrainingTakesNothing
  <1> DEFINE Kept == \A w \in Workers, b \in Batches :
                wstatus[w] = "draining" /\ assigned'[b] = w => assigned[b] = w
  <1>1. TypeInv /\ SerialInv /\ [Next]_vars => [Kept]_vars
    <2> SUFFICES ASSUME TypeInv, SerialInv, Next PROVE Kept OBVIOUS
    <2> USE DEF TypeInv, TypeOK
    <2>1. ASSUME NEW s \in Slots, HandlerStep(s) PROVE Kept
      <3>1. CASE PollCommit(s)
        <4>1. wstatus[req[s].worker] # "draining"
          BY <3>1 DEF PollCommit, SerialInv, ReadsHold, MayTakeWork
        <4> QED BY <3>1, <4>1 DEF PollCommit, batchVars
      <3>2. CASE ReportCommit(s)
        BY <3>2 DEF ReportCommit, Voided
      <3>3. CASE assigned' = assigned BY <3>3
      <3> QED BY <2>1, <3>1, <3>2, <3>3
              DEF HandlerStep, PollNothing, PollRead, UploadRefused, UploadReplay,
                  UploadRead, UploadCommit, ReportRefused, ReportRead, ReportVoid,
                  batchVars
    <2>2. CASE SweepCommit BY <2>2 DEF SweepCommit, Voided
    <2>3. CASE assigned' = assigned BY <2>3
    <2>4. ASSUME NEW w \in Workers, DaemonStep(w) \/ WorkerStep(w)
          PROVE  assigned' = assigned
      BY <2>4 DEF DaemonStep, SendPoll, SendUpload, SendReport, Send, GiveUp, Crash,
                  StartSaved,
                  WorkerStep, Start, Heartbeat, ModelProgress, FallSilent, Drain,
                  Undrain, Remove, batchVars
    <2>5. ASSUME NEW s \in Slots, Fault(s) PROVE assigned' = assigned
      BY <2>5 DEF Fault, Lose, PollDeadlock, ReportDeadlock, batchVars
    <2>6. ASSUME SweepBegin \/ SweepStep \/ SweepDeadlock \/ Restart, ~SweepCommit
          PROVE  assigned' = assigned
      BY <2>6 DEF SweepBegin, SweepStep, SweepWorker, SweepRead, SweepVoid,
                  SweepDeadlock, Restart, batchVars
    <2> QED BY <2>1, <2>2, <2>3, <2>4, <2>5, <2>6 DEF Next
  <1> QED BY <1>1, SerialInvariant, PTL DEF Spec, DrainingTakesNothing

=============================================================================
