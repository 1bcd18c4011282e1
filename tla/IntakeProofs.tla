---------------------------- MODULE IntakeProofs ----------------------------
(***************************************************************************)
(* What the stream says of a batch is true of it, however creations,       *)
(* deletes, failing commits and restarts mix; and when a delete does not   *)
(* overlap a creation, a queued batch keeps its input.  The argument: only *)
(* the one task of a batch moves it out of "validating", and it has        *)
(* committed before it publishes; and a delete that is under way excludes  *)
(* every batch of its file that may still be handed out.                   *)
(***************************************************************************)
EXTENDS Intake, TLAPS

USE IntakeAssumption

Working == {"queued", "found", "judged", "unsaved"}

\* Where the batch is while its task is under way, and after.
TaskOK == \A b \in Batches :
    /\ task[b].pc = "judged" => task[b].verdict # None
    /\ task[b].pc \in Working => status[b] = "validating"
    /\ status[b] = "none" => task[b].pc = "none"
    /\ status[b] \in {"none", "validating", "validated"} => org[b] = None
    /\ task[b].pc = "returned" /\ task[b].verdict = "validated"
         => status[b] \notin {"none", "validating"}
    /\ task[b].pc = "returned" /\ task[b].verdict = "failed"
         => org[b] = None /\ status[b] \in {"validating", "failed"}

\* An event is buffered only once the task is done.
BufferOK == \A b \in Batches : buffer[b] # None => task[b].pc = "done"

IntakeInv == TypeOK /\ TaskOK /\ BufferOK /\ EventIsTrue

LEMMA IntakeInitInv == Init => IntakeInv
<1> SUFFICES ASSUME Init PROVE IntakeInv
  OBVIOUS
<1>1. \A b \in Batches : /\ status[b] = "none" /\ org[b] = None /\ buffer[b] = None
                         /\ task[b] = NoTask
  BY DEF Init
<1>2. TaskOK /\ BufferOK /\ EventIsTrue
  BY <1>1 DEF TaskOK, BufferOK, EventIsTrue, Working, NoTask
<1>3. NoTask \in [pc : {"none", "queued", "found", "judged", "unsaved",
                       "returned", "done", "gone"}, verdict : Verdict \cup {None}]
  BY DEF NoTask
<1>4. Closed \in [batch : Batches \cup {None}, pc : {"closed", "waiting", "told"},
                 got : Verdict \cup {None}]
  BY DEF Closed
<1>5. TypeOK
  BY <1>3, <1>4 DEF Init, TypeOK
<1> QED BY <1>2, <1>5 DEF IntakeInv

\* The validator moves the task and the status of its batch, and no other's.
LEMMA TaskTypeStep ==
    ASSUME TypeOK, TaskOK, NEW b \in Batches, ValidatorStep(b)
    PROVE  TypeOK'
<1> DEFINE Task == [pc : {"none", "queued", "found", "judged", "unsaved",
                          "returned", "done", "gone"}, verdict : Verdict \cup {None}]
<1>1. task[b] \in Task
  BY DEF TypeOK
<1>2. /\ [task[b] EXCEPT !.pc = "found"] \in Task /\ [task[b] EXCEPT !.pc = "gone"] \in Task
      /\ [task[b] EXCEPT !.pc = "returned"] \in Task /\ [task[b] EXCEPT !.pc = "unsaved"] \in Task
      /\ [task[b] EXCEPT !.pc = "done"] \in Task
      /\ \A v \in Verdict : /\ [pc |-> "judged", verdict |-> v] \in Task
                             /\ [pc |-> "returned", verdict |-> v] \in Task
  BY <1>1
<1>3. CASE ValidateFind(b)
  BY <1>2, <1>3 DEF ValidateFind, fileVars, batchVars, sseVars, TypeOK, Verdict
<1>4. CASE ValidateRaise(b)
  BY <1>2, <1>4 DEF ValidateRaise, fileVars, batchVars, sseVars, TypeOK
<1>5. CASE ValidateJudge(b)
  <2>1. PICK v \in Judgements(holds[input[b]]) :
             task' = [task EXCEPT ![b] = [pc |-> "judged", verdict |-> v]]
    BY <1>5 DEF ValidateJudge
  <2>2. v \in Verdict
    BY DEF Judgements, Verdict
  <2> QED BY <1>2, <1>5, <2>1, <2>2 DEF ValidateJudge, fileVars, batchVars, sseVars, TypeOK
<1>6. CASE Persist(b)
  <2>1. Stored(b) \in Verdict
    BY <1>6, <1>1 DEF Stored, Persist, TaskOK
  <2> QED BY <1>2, <1>6, <2>1 DEF Persist, fileVars, sseVars, TypeOK
<1>7. CASE PersistRaises(b)
  BY <1>2, <1>7 DEF PersistRaises, fileVars, batchVars, sseVars, TypeOK
<1>8. CASE Fallback(b)
  <2>1. task' \in [Batches -> Task]
    BY <1>2, <1>8 DEF Fallback, ReturnedFailed, TypeOK, Verdict
  <2>2. status' \in [Batches -> {"none", "in_progress", "validating", "completed"} \cup Verdict]
    BY <1>8 DEF Fallback, TypeOK, Verdict
  <2> HIDE DEF Task
  <2>3. UNCHANGED <<row, disk, holds, del, input, org, buffer, stream, refused>>
    BY <1>8 DEF Fallback, fileVars, sseVars
  <2> QED BY <2>1, <2>2, <2>3 DEF TypeOK, Task
<1>9. CASE Publish(b)
  BY <1>1, <1>2, <1>9 DEF Publish, Kept, fileVars, batchVars, TypeOK
<1> QED BY <1>3, <1>4, <1>5, <1>6, <1>7, <1>8, <1>9 DEF ValidatorStep

LEMMA TaskStep ==
    ASSUME IntakeInv, NEW b \in Batches, ValidatorStep(b)
    PROVE  TaskOK' /\ BufferOK' /\ EventIsTrue'
<1> USE DEF IntakeInv
<1>1. UNCHANGED org
  BY DEF ValidatorStep, ValidateFind, ValidateRaise, ValidateJudge, Persist,
         PersistRaises, Fallback, Publish, batchVars
<1>2. ASSUME NEW c \in Batches, c # b
      PROVE  task'[c] = task[c] /\ status'[c] = status[c] /\ buffer'[c] = buffer[c]
  BY <1>2 DEF ValidatorStep, ValidateFind, ValidateRaise, ValidateJudge, Persist,
              PersistRaises, Fallback, Publish, batchVars, sseVars, TypeOK
<1>3. CASE ValidateFind(b) \/ ValidateRaise(b) \/ ValidateJudge(b) \/ PersistRaises(b)
  <2>1. /\ UNCHANGED <<status, buffer>> /\ task[b].pc \in Working
        /\ task'[b].pc \in Working \cup {"gone"}
        /\ task'[b].pc = "judged" => task'[b].verdict # None
    BY <1>3 DEF ValidateFind, ValidateRaise, ValidateJudge, PersistRaises, Judgements,
                batchVars, sseVars, TypeOK, Working, Verdict
  <2>2. task'[b].pc # "returned" /\ task'[b].pc # "none"
    BY <2>1 DEF Working
  <2>3. status[b] = "validating" /\ buffer[b] = None
    BY <2>1 DEF TaskOK, BufferOK, Working
  <2>4. TaskOK'
    BY <1>1, <1>2, <2>1, <2>2, <2>3 DEF TaskOK
  <2> QED BY <1>2, <2>1, <2>3, <2>4, <1>1 DEF BufferOK, EventIsTrue
<1>4. CASE Persist(b) \/ Fallback(b)
  <2>1. /\ task[b].pc \in {"judged", "unsaved"} /\ UNCHANGED buffer
        /\ task'[b].pc = "returned"
    BY <1>4 DEF Persist, Fallback, sseVars, TypeOK
  <2>2. status[b] = "validating" /\ buffer[b] = None /\ org[b] = None
    BY <2>1 DEF TaskOK, BufferOK, Working
  <2>3. \/ task'[b].verdict \in Verdict /\ status'[b] = task'[b].verdict
        \/ task'[b].verdict = "failed" /\ status'[b] \in {"failed", "validating"}
    BY <1>4, <2>2 DEF Persist, Fallback, Stored, ReturnedFailed, TypeOK, TaskOK
  <2>4. TaskOK'
    BY <1>1, <1>2, <2>1, <2>2, <2>3 DEF TaskOK, Verdict, Working
  <2> QED BY <1>1, <1>2, <2>1, <2>2, <2>4 DEF BufferOK, EventIsTrue
<1>5. CASE Publish(b)
  <2>1. /\ task[b].pc = "returned" /\ UNCHANGED status /\ task'[b].pc = "done"
        /\ buffer'[b] = task[b].verdict
    BY <1>5 DEF Publish, Kept, batchVars, TypeOK
  <2>2. TaskOK'
    BY <1>1, <1>2, <2>1 DEF TaskOK, Working
  <2>3. BufferOK' /\ EventIsTrue'
    BY <1>1, <1>2, <2>1 DEF BufferOK, EventIsTrue, TaskOK
  <2> QED BY <2>2, <2>3
<1> QED BY <1>3, <1>4, <1>5 DEF ValidatorStep

\* The other steps of a batch: its creation, and its life after validation.
LEMMA LifeStep ==
    ASSUME IntakeInv, NEW b \in Batches,
           \/ CreateRead(b) \/ CreateCommit(b) \/ TakeBack(b) \/ Complete(b) \/ Download(b)
           \/ \E o \in Orgs : HandOut(b, o)
    PROVE  IntakeInv'
<1> USE DEF IntakeInv
<1>1. CASE CreateRead(b)
  BY <1>1 DEF CreateRead, fileVars, sseVars, TypeOK, TaskOK, BufferOK, EventIsTrue
<1>2. CASE CreateCommit(b)
  <2>1. /\ status[b] = "none" /\ task[b].pc = "none" /\ buffer[b] = None /\ org[b] = None
        /\ status' = [status EXCEPT ![b] = "validating"] /\ UNCHANGED <<org, buffer>>
        /\ task' = [task EXCEPT ![b].pc = "queued"]
    BY <1>2 DEF CreateCommit, Creating, sseVars, TaskOK, BufferOK
  <2>2. TypeOK'
    <3>1. UNCHANGED <<row, disk, holds, del, input, org, buffer, stream, refused>>
      BY <1>2 DEF CreateCommit, fileVars, sseVars
    <3>2. status' \in [Batches -> {"none", "in_progress", "validating", "completed"} \cup Verdict]
      BY <2>1 DEF TypeOK
    <3>3. task' \in [Batches -> [pc : {"none", "queued", "found", "judged", "unsaved",
                                      "returned", "done", "gone"},
                                verdict : Verdict \cup {None}]]
      BY <2>1 DEF TypeOK
    <3> QED BY <3>1, <3>2, <3>3 DEF TypeOK
  <2>3. /\ status'[b] = "validating" /\ task'[b].pc = "queued"
        /\ \A c \in Batches : c # b => status'[c] = status[c] /\ task'[c] = task[c]
    BY <2>1 DEF TypeOK
  <2> QED BY <2>1, <2>2, <2>3 DEF TaskOK, BufferOK, EventIsTrue, Working
<1>3. CASE TakeBack(b) \/ Complete(b) \/ (\E o \in Orgs : HandOut(b, o))
  <2>1. /\ status[b] \in {"validated", "in_progress"} /\ UNCHANGED <<task, buffer>>
        /\ status'[b] \in {"in_progress", "completed"} \cup Verdict
        /\ status'[b] = "validated" => org'[b] = None
        /\ \A c \in Batches : c # b => status'[c] = status[c] /\ org'[c] = org[c]
    BY <1>3 DEF TakeBack, Complete, HandOut, sseVars, TypeOK, Verdict
  <2>2. TypeOK'
    <3>1. UNCHANGED <<row, disk, holds, del, input, task, buffer, stream, refused>>
      BY <1>3 DEF TakeBack, Complete, HandOut, fileVars, sseVars
    <3>2. CASE TakeBack(b)
      BY <3>1, <3>2 DEF TakeBack, TypeOK, Verdict
    <3>3. CASE Complete(b)
      BY <3>1, <3>3 DEF Complete, TypeOK
    <3>4. ASSUME NEW o \in Orgs, HandOut(b, o) PROVE TypeOK'
      BY <3>1, <3>4 DEF HandOut, TypeOK
    <3> QED BY <1>3, <3>2, <3>3, <3>4
  <2>3. task[b].pc \notin Working /\ (task[b].pc = "returned" => task[b].verdict # "failed")
    BY <2>1 DEF TaskOK
  <2>4. buffer[b] # "failed"
    BY <2>1 DEF EventIsTrue, TaskOK
  <2> QED BY <2>1, <2>2, <2>3, <2>4 DEF TaskOK, BufferOK, EventIsTrue, Verdict, Working
<1>4. CASE Download(b)
  BY <1>4 DEF Download, fileVars, batchVars, sseVars, TypeOK, TaskOK, BufferOK, EventIsTrue
<1> QED BY <1>1, <1>2, <1>3, <1>4

THEOREM IntakeInvariant == Spec => []IntakeInv
<1>1. IntakeInv /\ [Next]_vars => IntakeInv'
  <2> SUFFICES ASSUME IntakeInv, [Next]_vars PROVE IntakeInv'
    OBVIOUS
  <2> USE DEF IntakeInv
  <2>1. CASE UNCHANGED vars
    BY <2>1 DEF vars, TypeOK, TaskOK, BufferOK, EventIsTrue
  <2>2. ASSUME NEW f \in Files, FileStep(f) PROVE IntakeInv'
    <3>1. UNCHANGED <<status, input, org, task, buffer, stream, refused>>
      BY <2>2 DEF FileStep, UploadFile, DeleteCheck, DeleteUnlink, DeleteCommit,
                  batchVars, sseVars
    <3>2. /\ row' \in [Files -> {"none", "stored", "deleted"}]
          /\ disk' \in [Files -> BOOLEAN] /\ holds' \in [Files -> Contents \cup {None}]
          /\ del' \in [Files -> {"none", "checked", "unlinked"}]
      <4>1. CASE UploadFile(f)
        BY <4>1 DEF UploadFile, TypeOK
      <4>2. CASE DeleteCheck(f)
        BY <4>2 DEF DeleteCheck, TypeOK
      <4>3. CASE DeleteUnlink(f)
        BY <4>3 DEF DeleteUnlink, TypeOK
      <4>4. CASE DeleteCommit(f)
        BY <4>4 DEF DeleteCommit, TypeOK
      <4> QED BY <2>2, <4>1, <4>2, <4>3, <4>4 DEF FileStep
    <3> QED BY <3>1, <3>2 DEF TypeOK, TaskOK, BufferOK, EventIsTrue
  <2>3. ASSUME NEW s \in Streams, StreamStep(s) PROVE IntakeInv'
    <3>1. TypeOK'
      BY <2>3 DEF StreamStep, Disconnect, Subscribe, Replayed, TypeOK, fileVars, batchVars, Closed
    <3>2. UNCHANGED <<status, org, task, buffer>>
      BY <2>3 DEF StreamStep, Disconnect, Subscribe, Replayed, batchVars
    <3> QED BY <3>1, <3>2 DEF TaskOK, BufferOK, EventIsTrue
  <2>4. CASE Restart
    <3>1. TypeOK'
      <4>1. /\ input' \in [Batches -> Files \cup {None}]
            /\ del' \in [Files -> {"none", "checked", "unlinked"}]
            /\ buffer' \in [Batches -> Verdict \cup {None}]
        BY <2>4 DEF Restart, TypeOK
      <4>2. task' \in [Batches -> [pc : {"none", "queued", "found", "judged", "unsaved",
                                        "returned", "done", "gone"},
                                  verdict : Verdict \cup {None}]]
        <5>1. ASSUME NEW c \in Batches
              PROVE  [task[c] EXCEPT !.pc = "gone"] \in
                       [pc : {"none", "queued", "found", "judged", "unsaved",
                              "returned", "done", "gone"}, verdict : Verdict \cup {None}]
          <6>1. task[c] \in [pc : {"none", "queued", "found", "judged", "unsaved",
                                   "returned", "done", "gone"}, verdict : Verdict \cup {None}]
            BY DEF TypeOK
          <6> QED BY <6>1
        <5>2. task' = [c \in Batches |-> IF task[c].pc \in {"none", "done"} THEN task[c]
                                        ELSE [task[c] EXCEPT !.pc = "gone"]]
          BY <2>4 DEF Restart
        <5> QED BY <5>1, <5>2 DEF TypeOK
      <4>3. stream' \in [Streams -> [batch : Batches \cup {None},
                                    pc : {"closed", "waiting", "told"},
                                    got : Verdict \cup {None}]]
        BY <2>4 DEF Restart, Closed
      <4> QED BY <2>4, <4>1, <4>2, <4>3 DEF Restart, TypeOK
    <3>2. UNCHANGED <<status, org>> /\ buffer' = [b \in Batches |-> None]
      BY <2>4 DEF Restart
    <3>3. \A b \in Batches : \/ task'[b] = task[b]
                             \/ task[b].pc # "none" /\ task'[b].pc = "gone"
      BY <2>4 DEF Restart, TypeOK
    <3>4. BufferOK' /\ EventIsTrue'
      BY <3>2 DEF BufferOK, EventIsTrue
    <3>5. TaskOK'
      BY <3>2, <3>3 DEF TaskOK, Working
    <3> QED BY <3>1, <3>4, <3>5
  <2>5. ASSUME NEW b \in Batches, BatchStep(b) PROVE IntakeInv'
    BY <2>5, TaskTypeStep, TaskStep, LifeStep DEF BatchStep
  <2> QED BY <2>1, <2>2, <2>3, <2>4, <2>5 DEF Next
<1> QED BY IntakeInitInv, <1>1, PTL DEF Spec

\* Every reachable state of intake is well typed (batches.py, files.py,
\* sse_manager.py).
THEOREM IntakeTypeCorrect == Spec => []TypeOK
<1>1. IntakeInv => TypeOK
  BY DEF IntakeInv
<1> QED BY IntakeInvariant, <1>1, PTL

\* An event says what is, or has been, committed, whatever fails or restarts
\* (batch_validator.py:476-492, batches.py:46-52).
THEOREM EventsAlwaysTrue == Spec => []EventIsTrue
<1>1. IntakeInv => EventIsTrue
  BY DEF IntakeInv
<1> QED BY IntakeInvariant, <1>1, PTL

-----------------------------------------------------------------------------
(* The input of a queued batch.                                            *)

\* A delete under way has no batch of its file to hurt, and a validation that
\* has found the file keeps it.
DeleteOK == \A f \in Files, b \in Batches :
    del[f] # "none" /\ input[b] = f => status[b] \in {"failed", "completed"}

FoundOK == \A b \in Batches :
    /\ status[b] # "none" \/ task[b].pc # "none" => input[b] \in Files
    /\ task[b].pc = "found" \/ (task[b].pc \in {"judged", "unsaved"}
                                /\ task[b].verdict = "validated")
         => disk[input[b]]

InputInv == IntakeInv /\ DeleteOK /\ FoundOK /\ QueuedHasInput

LEMMA InputStep ==
    ASSUME Overlap = FALSE, InputInv, IntakeInv', [Next]_vars
    PROVE  DeleteOK' /\ FoundOK' /\ QueuedHasInput'
<1> USE DEF InputInv, IntakeInv
<1>1. CASE UNCHANGED vars
  BY <1>1 DEF vars, DeleteOK, FoundOK, QueuedHasInput
<1>2. ASSUME NEW f \in Files, UploadFile(f) \/ DeleteCheck(f) \/ DeleteCommit(f)
      PROVE  DeleteOK' /\ FoundOK' /\ QueuedHasInput'
  <2>1. UNCHANGED <<status, input, task>>
    BY <1>2 DEF UploadFile, DeleteCheck, DeleteCommit, batchVars
  <2>2. \A g \in Files : disk[g] => disk'[g]
    BY <1>2 DEF UploadFile, DeleteCheck, DeleteCommit, TypeOK
  <2>3. FoundOK'
    BY <2>1, <2>2 DEF FoundOK
  <2>4. QueuedHasInput'
    BY <2>1, <2>2 DEF QueuedHasInput, FoundOK
  <2>5. ASSUME NEW g \in Files, NEW c \in Batches, del'[g] # "none", input[c] = g
        PROVE  status[c] \in {"failed", "completed"}
    <3>1. CASE del[g] # "none"
      BY <2>5, <3>1 DEF DeleteOK
    <3>2. CASE del[g] = "none"
      <4>1. g = f /\ DeleteCheck(f)
        BY <1>2, <2>5, <3>2 DEF UploadFile, DeleteCheck, DeleteCommit, TypeOK
      <4>2. ~InUse(f) /\ ~Creating(c)
        BY <4>1 DEF DeleteCheck
      <4>3. status[c] \notin Active /\ status[c] # "none"
        BY <2>5, <4>1, <4>2 DEF InUse, Creating
      <4> QED BY <4>3 DEF Active, TypeOK, Verdict
    <3> QED BY <3>1, <3>2
  <2>6. DeleteOK'
    BY <2>1, <2>5 DEF DeleteOK
  <2> QED BY <2>3, <2>4, <2>6
<1>3. ASSUME NEW f \in Files, DeleteUnlink(f)
      PROVE  DeleteOK' /\ FoundOK' /\ QueuedHasInput'
  <2>1. del[f] = "checked" /\ UNCHANGED <<status, input, task>>
    BY <1>3 DEF DeleteUnlink, batchVars
  <2>2. /\ \A g \in Files \ {f} : disk'[g] = disk[g] /\ del'[g] = del[g]
        /\ \A b \in Batches : input[b] = f => status[b] \in {"failed", "completed"}
    BY <1>3, <2>1 DEF DeleteUnlink, TypeOK, DeleteOK
  <2>3. DeleteOK'
    BY <2>1, <2>2 DEF DeleteOK
  <2>4. \A b \in Batches : status[b] \notin {"failed", "completed"} /\ input[b] \in Files
                             => disk'[input[b]] = disk[input[b]]
    BY <2>2
  <2>5. FoundOK'
    BY <2>1, <2>4 DEF TaskOK, FoundOK, Working
  <2>6. QueuedHasInput'
    BY <2>1, <2>4 DEF FoundOK, QueuedHasInput
  <2> QED BY <2>3, <2>5, <2>6
<1>4. ASSUME NEW s \in Streams, StreamStep(s)
      PROVE  DeleteOK' /\ FoundOK' /\ QueuedHasInput'
  BY <1>4 DEF StreamStep, Disconnect, Subscribe, Replayed, fileVars, batchVars,
              DeleteOK, FoundOK, QueuedHasInput
<1>5. CASE Restart
  <2>1. /\ UNCHANGED <<disk, status>> /\ del' = [f \in Files |-> "none"]
        /\ \A b \in Batches : status[b] # "none" => input'[b] = input[b]
    BY <1>5 DEF Restart, Creating, TypeOK
  <2>2. \A b \in Batches : \/ task'[b] = task[b] /\ task[b].pc \in {"none", "done"}
                           \/ task[b].pc # "none" /\ task'[b].pc = "gone"
    BY <1>5 DEF Restart, TypeOK
  <2> QED BY <2>1, <2>2 DEF DeleteOK, FoundOK, QueuedHasInput, TaskOK
<1>6. ASSUME NEW b \in Batches, CreateRead(b) \/ CreateCommit(b)
      PROVE  DeleteOK' /\ FoundOK' /\ QueuedHasInput'
  <2>1. UNCHANGED <<del, disk>> /\ status[b] = "none" /\ task[b].pc = "none"
    BY <1>6 DEF CreateRead, CreateCommit, Creating, fileVars, TaskOK
  <2>2. ASSUME NEW c \in Batches, c # b
        PROVE  task'[c] = task[c] /\ status'[c] = status[c] /\ input'[c] = input[c]
    BY <1>6, <2>2 DEF CreateRead, CreateCommit, TypeOK
  <2>3. /\ status'[b] \in {"none", "validating"} /\ task'[b].pc \in {"none", "queued"}
        /\ input'[b] \in Files /\ del[input'[b]] = "none"
    <3>1. CASE CreateRead(b)
      BY <3>1, <2>1 DEF CreateRead, TypeOK
    <3>2. CASE CreateCommit(b)
      BY <3>2, <2>1 DEF CreateCommit, Creating, TypeOK, DeleteOK
    <3> QED BY <1>6, <3>1, <3>2
  <2>4. DeleteOK' /\ FoundOK'
    BY <2>1, <2>2, <2>3 DEF DeleteOK, FoundOK
  <2>5. QueuedHasInput'
    BY <2>1, <2>2, <2>3 DEF QueuedHasInput
  <2> QED BY <2>4, <2>5
<1>7. ASSUME NEW b \in Batches, ValidatorStep(b)
      PROVE  DeleteOK' /\ FoundOK' /\ QueuedHasInput'
  <2>1. UNCHANGED <<del, disk, input>>
    BY <1>7 DEF ValidatorStep, ValidateFind, ValidateRaise, ValidateJudge, Persist,
                PersistRaises, Fallback, Publish, fileVars, batchVars
  <2>2. ASSUME NEW c \in Batches, c # b
        PROVE  task'[c] = task[c] /\ status'[c] = status[c]
    BY <1>7, <2>2 DEF ValidatorStep, ValidateFind, ValidateRaise, ValidateJudge, Persist,
                PersistRaises, Fallback, Publish, fileVars, batchVars, TypeOK
  <2>3. task[b].pc # "none" /\ input[b] \in Files
    BY <1>7 DEF ValidatorStep, ValidateFind, ValidateRaise, ValidateJudge, Persist,
                PersistRaises, Fallback, Publish, FoundOK
  <2>4. status'[b] = status[b] \/ status[b] = "validating"
    BY <1>7 DEF ValidatorStep, ValidateFind, ValidateRaise, ValidateJudge, Persist,
                PersistRaises, Fallback, Publish, fileVars, batchVars, TypeOK, TaskOK, Working
  <2>5. \/ task'[b].pc = "found" /\ disk[input[b]]
        \/ task'[b].pc \in {"judged", "unsaved"}
           /\ (task'[b].verdict = "validated" => disk[input[b]])
        \/ task'[b].pc \in {"gone", "returned", "done"}
    BY <1>7 DEF ValidatorStep, ValidateFind, ValidateRaise, ValidateJudge, Persist,
                PersistRaises, Fallback, Publish, Raises, TypeOK, FoundOK, Verdict
  <2>6. status'[b] = status[b] \/ status'[b] = "failed" \/ disk[input[b]]
    <3>1. CASE Persist(b)
      BY <3>1 DEF Persist, Stored, TypeOK, FoundOK, Verdict, TaskOK
    <3>2. CASE ~Persist(b)
      BY <1>7, <3>2 DEF ValidatorStep, ValidateFind, ValidateRaise, ValidateJudge,
                PersistRaises, Fallback, Publish, batchVars, TypeOK
    <3> QED BY <3>1, <3>2
  <2>7. DeleteOK'
    BY <2>1, <2>2, <2>4 DEF DeleteOK
  <2>8. FoundOK'
    BY <2>1, <2>2, <2>3, <2>5 DEF FoundOK
  <2>9. QueuedHasInput'
    BY <2>1, <2>2, <2>3, <2>4, <2>6 DEF QueuedHasInput
  <2> QED BY <2>7, <2>8, <2>9
<1>8. ASSUME NEW b \in Batches,
             (\E o \in Orgs : HandOut(b, o)) \/ TakeBack(b) \/ Complete(b) \/ Download(b)
      PROVE  DeleteOK' /\ FoundOK' /\ QueuedHasInput'
  <2>1. UNCHANGED <<del, disk, input, task>>
    BY <1>8 DEF HandOut, TakeBack, Complete, Download, fileVars, batchVars
  <2>2. \A c \in Batches : /\ status'[c] # "none" => status[c] # "none"
                           /\ status'[c] # status[c] => status[c] \in {"validated", "in_progress"}
    BY <1>8 DEF HandOut, TakeBack, Complete, Download, batchVars, TypeOK
  <2> QED BY <2>1, <2>2 DEF DeleteOK, FoundOK, QueuedHasInput
<1> QED BY <1>1, <1>2, <1>3, <1>4, <1>5, <1>6, <1>7, <1>8 DEF Next, BatchStep, FileStep

\* When a delete does not overlap a creation, the input of a batch that waits
\* for a worker or is with one is on disk (files.py:89-98).
THEOREM QueuedAlwaysHasInput ==
    ASSUME Overlap = FALSE
    PROVE  Spec => []QueuedHasInput
<1>1. Init => InputInv
  <2> QED BY IntakeInitInv DEF Init, InputInv, DeleteOK, FoundOK, QueuedHasInput, NoTask
<1>2. InputInv /\ IntakeInv' /\ [Next]_vars => InputInv'
  BY InputStep DEF InputInv
<1>3. InputInv => QueuedHasInput
  BY DEF InputInv
<1> QED BY <1>1, <1>2, <1>3, IntakeInvariant, PTL DEF Spec
=============================================================================
