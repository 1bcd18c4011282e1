---------------------------- MODULE UsageProofs ----------------------------
(***************************************************************************)
(* When one upload per batch commits, the accounts are exact: for any      *)
(* number of batches, tasks and rows, and however ingestions overlap,      *)
(* raise or die.  The argument: rows have distinct ids, so that writing a  *)
(* chunk again changes nothing; a runner that has read p rows finds them   *)
(* recorded whatever the others write; and a recorded row is always that   *)
(* of the output.  At the last row the table is therefore the output's.    *)
(***************************************************************************)
EXTENDS Usage, SequenceTheorems, TLAPS

USE UsageAssumption

File(b) == files[b][1]

UnusedOK == \A b \in Batches :
    files[b] = <<>> => records[b] = NoRows /\ rollup[b] = None

SweepOK == \A b \in sweep.todo : files[b] # <<>> /\ sweep.seen[b] = 1

TaskOK == \A t \in Runners :
    task[t].pc # "free" =>
        /\ task[t].batch \in Batches /\ task[t].file = 1 /\ files[task[t].batch] # <<>>
        /\ task[t].pc = "queued" => task[t].pos = 0

RecordsOK == \A b \in Batches :
    files[b] # <<>> => \A i \in Ids : records[b][i] \in {None, UsageOf(File(b))[i]}

ReadingOK == \A t \in Runners :
    task[t].pc = "reading" =>
        LET b == task[t].batch IN
        /\ task[t].pos <= Len(File(b))
        /\ \A p \in 1..task[t].pos : records[b][File(b)[p].id] = File(b)[p].tok

SummedOK == \A t \in Runners :
    task[t].pc = "summed" =>
        LET b == task[t].batch IN
        /\ File(b) # <<>> /\ task[t].sums = UsageOf(File(b))
        /\ records[b] = UsageOf(File(b))

TotalOK == \A b \in Batches :
    rollup[b] = None \/ (rollup[b] = UsageOf(File(b)) /\ File(b) # <<>>)

Inv == /\ TypeOK /\ UnusedOK /\ SweepOK /\ TaskOK
       /\ RecordsOK /\ ReadingOK /\ SummedOK /\ TotalOK /\ RecordedIsExact

-----------------------------------------------------------------------------
(* What writing rows does.                                                 *)

\* A row that is written is found; an id without a row keeps what it had.
LEMMA WrittenRow ==
    ASSUME NEW o \in Outputs, NEW lo \in Nat, NEW hi \in Nat, 1 <= lo, hi <= Len(o),
           NEW i, NEW old
    PROVE  /\ \A p \in lo..hi : o[p].id = i => Written(o, lo, hi, i, old) = o[p].tok
           /\ (\A p \in lo..hi : o[p].id # i) => Written(o, lo, hi, i, old) = old
<1> DEFINE at == {p \in lo..hi : o[p].id = i}
<1>1. \A p \in at : at = {p}
  <2> SUFFICES ASSUME NEW p \in at, NEW q \in at PROVE q = p
    OBVIOUS
  <2>1. p \in 1..Len(o) /\ q \in 1..Len(o) /\ o[p].id = o[q].id
    BY SMT
  <2> QED BY <2>1
<1>2. ASSUME NEW p \in lo..hi, o[p].id = i
      PROVE  Written(o, lo, hi, i, old) = o[p].tok
  <2>1. at = {p}
    BY <1>1, <1>2
  <2>2. \A q \in at : q <= p
    BY <2>1, <1>2
  <2>3. (CHOOSE x \in at : \A q \in at : q <= x) = p
    BY <2>1, <2>2
  <2> QED BY <2>1, <2>3 DEF Written
<1>3. (\A p \in lo..hi : o[p].id # i) => Written(o, lo, hi, i, old) = old
  BY DEF Written
<1> QED BY <1>2, <1>3

\* The usage of an output, row by row.
LEMMA UsageRow ==
    ASSUME NEW o \in Outputs
    PROVE  /\ Len(o) \in Nat
           /\ \A p \in 1..Len(o) : /\ o[p].id \in Ids
                                   /\ o[p].tok \in Tokens \cup {Poison}
                                   /\ UsageOf(o)[o[p].id] = o[p].tok
           /\ \A i \in Ids : (\A p \in 1..Len(o) : o[p].id # i) => UsageOf(o)[i] = None
           /\ UsageOf(o) \in Rows
<1>1. o \in Seq(Row) /\ Len(o) \in Nat
  OBVIOUS
<1>2. ASSUME NEW p \in 1..Len(o)
      PROVE  o[p].id \in Ids /\ o[p].tok \in Tokens \cup {Poison}
  <2>1. o[p] \in Row
    BY <1>1
  <2> QED BY <2>1 DEF Row
<1>3. ASSUME NEW i \in Ids
      PROVE  /\ UsageOf(o)[i] = Written(o, 1, Len(o), i, None)
             /\ \A p \in 1..Len(o) : o[p].id = i => UsageOf(o)[i] = o[p].tok
             /\ (\A p \in 1..Len(o) : o[p].id # i) => UsageOf(o)[i] = None
  BY <1>1, WrittenRow DEF UsageOf
<1>4. \A i \in Ids : UsageOf(o)[i] \in Tokens \cup {Poison, None}
  BY <1>2, <1>3
<1>5. UsageOf(o) = [i \in Ids |-> UsageOf(o)[i]]
  BY DEF UsageOf
<1>6. UsageOf(o) \in Rows
  BY <1>4, <1>5 DEF Rows
<1> QED BY <1>1, <1>2, <1>3, <1>6

\* With every row recorded, and nothing else, the table is the output's.
LEMMA AllRecorded ==
    ASSUME NEW o \in Outputs, NEW r \in Rows,
           \A i \in Ids : r[i] \in {None, UsageOf(o)[i]},
           \A p \in 1..Len(o) : r[o[p].id] = o[p].tok
    PROVE  r = UsageOf(o)
<1>1. \A i \in Ids : r[i] = UsageOf(o)[i]
  BY UsageRow
<1> QED BY <1>1, UsageRow DEF Rows

\* A batch's file, when one upload commits.
LEMMA TheFile ==
    ASSUME Uploads = 1, TypeOK, NEW b \in Batches, files[b] # <<>>
    PROVE  Len(files[b]) = 1 /\ File(b) \in Outputs
<1>1. files[b] \in Seq(Outputs) /\ Len(files[b]) <= 1
  BY DEF TypeOK
<1>2. Len(files[b]) \in Nat \ {0}
  BY <1>1, EmptySeq, Zenon
<1>3. \A n \in Nat \ {0} : n <= 1 => n = 1
  OBVIOUS
<1>4. Len(files[b]) = 1
  BY <1>1, <1>2, <1>3, Zenon
<1> QED BY <1>1, <1>4 DEF File

LEMMA NotEmpty ==
    ASSUME NEW o \in Outputs, o # <<>>
    PROVE  UsageOf(o) # NoRows /\ Len(o) > 0
<1>1. o \in Seq(Row)
  OBVIOUS
<1>2. Len(o) \in Nat /\ Len(o) > 0
  BY <1>1, EmptySeq
<1>3. UsageOf(o)[o[1].id] # None /\ o[1].id \in Ids
  BY <1>2, UsageRow
<1> QED BY <1>2, <1>3 DEF NoRows

-----------------------------------------------------------------------------
(* The steps.                                                              *)

LEMMA TypeStep ==
    ASSUME TypeOK, Uploads = 1, [Next]_vars, UnusedOK, TaskOK, SweepOK, SummedOK
    PROVE  TypeOK'
<1> USE DEF Runners
<1>1. CASE UNCHANGED vars
  BY <1>1 DEF TypeOK, vars
<1>2. ASSUME NEW b \in Batches, Upload(b) PROVE TypeOK'
  <2>1. PICK o \in Outputs, t \in Tasks :
          /\ Len(files[b]) < Uploads /\ task[t] = Free
          /\ files' = [files EXCEPT ![b] = Append(@, o)]
          /\ clock' = clock + 1
          /\ stamp' = [stamp EXCEPT ![b] = clock + 1]
          /\ pending' = [pending EXCEPT ![b] = TRUE]
          /\ task' = [task EXCEPT ![t] = Queued(b, Len(files[b]) + 1)]
          /\ UNCHANGED <<deleted, attempts, records, rollup, sweep>>
    BY <1>2 DEF Upload
  <2>2. files[b] \in Seq(Outputs) /\ Len(files[b]) = 0
    BY <2>1, LenProperties DEF TypeOK
  <2>3. \A c \in Batches : files'[c] \in Seq(Outputs) /\ Len(files'[c]) <= Uploads
    BY <2>1, <2>2, AppendProperties DEF TypeOK
  <2>4. Queued(b, Len(files[b]) + 1) \in Ingestion
    BY <2>2 DEF Queued, Free, Ingestion
  <2> QED BY <2>1, <2>3, <2>4 DEF TypeOK
<1>3. ASSUME NEW b \in Batches, Replay(b) PROVE TypeOK'
  <2>1. PICK t \in Tasks : /\ files[b] # <<>>
                           /\ task' = [task EXCEPT ![t] = Queued(b, Len(files[b]))]
                           /\ UNCHANGED <<batchVars, sweep>>
    BY <1>3 DEF Replay
  <2>2. Queued(b, Len(files[b])) \in Ingestion
    BY <2>1, TheFile DEF Queued, Free, Ingestion
  <2> QED BY <2>1, <2>2 DEF TypeOK, batchVars
<1>4. ASSUME NEW b \in Batches, DeleteFile(b) PROVE TypeOK'
  <2>1. PICK k \in 1..Len(files[b]) \ deleted[b] :
          /\ deleted' = [deleted EXCEPT ![b] = @ \cup {k}]
          /\ UNCHANGED <<files, stamp, clock, pending, attempts, records, rollup,
                         task, sweep>>
    BY <1>4 DEF DeleteFile
  <2>2. k \in 1..Uploads
    BY <2>1, LenProperties DEF TypeOK
  <2> QED BY <2>1, <2>2 DEF TypeOK
<1>5. ASSUME NEW b \in Batches, SweepTake(b) PROVE TypeOK'
  <2> DEFINE k == IF sweep.fresh THEN Len(files[b]) ELSE sweep.seen[b]
  <2>1. k \in 0..Uploads
    BY <1>5, TheFile DEF SweepTake, SweepOK, TypeOK
  <2>2. Queued(b, k) \in Ingestion
    BY <2>1 DEF Queued, Free, Ingestion
  <2>3. /\ [sweep EXCEPT !.todo = @ \ {b}] \in
                [todo : SUBSET Batches, seen : [Batches -> 0..Uploads], fresh : BOOLEAN]
        /\ [sweep EXCEPT !.todo = @ \ {b}, !.fresh = TRUE] \in
                [todo : SUBSET Batches, seen : [Batches -> 0..Uploads], fresh : BOOLEAN]
    BY DEF TypeOK
  <2>4. CASE k \in deleted[b]
    BY <1>5, <2>3, <2>4 DEF SweepTake, TypeOK
  <2>5. CASE k \notin deleted[b]
    <3>1. /\ task' = [task EXCEPT ![Sweeper] = Queued(b, k)]
          /\ sweep' = [sweep EXCEPT !.todo = @ \ {b}]
          /\ UNCHANGED <<files, deleted, stamp, clock, pending, attempts, records, rollup>>
      BY <1>5, <2>5 DEF SweepTake
    <3>2. task' \in [Runners -> Ingestion]
      BY <3>1, <2>2 DEF TypeOK
    <3> QED BY <3>1, <3>2, <2>3 DEF TypeOK
  <2> QED BY <2>4, <2>5
<1>6. CASE SweepSelect
  <2>1. ASSUME NEW b \in Batches PROVE Len(files[b]) \in 0..Uploads
    <3>1. files[b] \in Seq(Outputs) /\ Len(files[b]) <= Uploads
      BY DEF TypeOK
    <3>2. Len(files[b]) \in Nat
      BY <3>1, LenProperties, Zenon
    <3>3. \A n \in Nat : n <= Uploads => n \in 0..Uploads
      OBVIOUS
    <3> QED BY <3>1, <3>2, <3>3, Zenon
  <2>2. Due \subseteq Batches
    BY DEF Due
  <2> QED BY <1>6, <2>1, <2>2 DEF SweepSelect, TypeOK, batchVars
<1>7. CASE SweepFails
  BY <1>7 DEF SweepFails, NoSweep, TypeOK, batchVars
<1>8. CASE Restart
  BY <1>8 DEF Restart, NoSweep, Free, Ingestion, TypeOK, batchVars
<1>9. ASSUME NEW t \in Runners, IngestStep(t) \/ CountFails(t) PROVE TypeOK'
  <2> DEFINE b == task[t].batch
  <2>0. /\ task[t] \in Ingestion /\ Free \in Ingestion
        /\ task[t].pc # "free" =>
               /\ b \in Batches /\ task[t].file = 1 /\ OutputOf(t) = File(b)
               /\ File(b) \in Outputs /\ Len(File(b)) \in Nat
    <3>1. task[t] \in Ingestion /\ Free \in Ingestion
      BY DEF TypeOK, Free, Ingestion
    <3>2. ASSUME task[t].pc # "free"
          PROVE  b \in Batches /\ files[b] # <<>> /\ task[t].file = 1
      BY <3>2 DEF TaskOK
    <3>3. ASSUME task[t].pc # "free"
          PROVE  File(b) \in Outputs /\ Len(File(b)) \in Nat
      BY <3>2, <3>3, TheFile, UsageRow
    <3>4. ASSUME task[t].pc # "free" PROVE OutputOf(t) = File(b)
      BY <3>2, <3>4 DEF OutputOf, File
    <3> QED BY <3>1, <3>2, <3>3, <3>4
  <2>1. CASE Begin(t)
    <3>1. [task[t] EXCEPT !.pc = "reading", !.loaded = pending[b]] \in Ingestion
      BY <2>0, <2>1 DEF Begin, Ingestion, TypeOK
    <3>2. b \in Batches
      BY <2>0, <2>1 DEF Begin
    <3>3. task' \in [Runners -> Ingestion]
      BY <2>0, <2>1, <3>1 DEF Begin, TypeOK
    <3>4. pending' \in [Batches -> BOOLEAN]
      BY <2>1, <3>2 DEF Begin, TypeOK
    <3> QED BY <2>1, <3>3, <3>4 DEF Begin, TypeOK
  <2>2. CASE WriteChunk(t)
    <3> DEFINE o == File(b)  n == task[t].pos  m == ChunkEnd(o, n)
    <3>1. o \in Outputs /\ b \in Batches /\ n \in Nat /\ Len(o) \in Nat /\ n < Len(o)
      BY <2>0, <2>2 DEF WriteChunk, Ingestion
    <3>2. m \in Nat /\ m <= Len(o)
      BY <3>1 DEF ChunkEnd
    <3>3. ASSUME NEW i \in Ids
          PROVE  Written(o, n + 1, m, i, records[b][i]) \in Tokens \cup {Poison, None}
      <4>1. records[b][i] \in Tokens \cup {Poison, None}
        BY <3>1 DEF TypeOK, Rows
      <4>2. \A p \in (n + 1)..m : p \in 1..Len(o)
        BY <3>1, <3>2
      <4>3. \A p \in (n + 1)..m : o[p].tok \in Tokens \cup {Poison}
        BY <4>2, <3>1, UsageRow
      <4>4. o \in Outputs /\ 1 <= n + 1 /\ n + 1 \in Nat /\ m \in Nat /\ m <= Len(o)
        BY <3>1, <3>2
      <4> HIDE DEF o, n, m
      <4>5. CASE \E p \in (n + 1)..m : o[p].id = i
        BY <4>3, <4>4, <4>5, WrittenRow
      <4>6. CASE \A p \in (n + 1)..m : o[p].id # i
        BY <4>1, <4>4, <4>6, WrittenRow
      <4> QED BY <4>5, <4>6
    <3>4. [i \in Ids |-> Written(o, n + 1, m, i, records[b][i])] \in Rows
      BY <3>3 DEF Rows
    <3>5. records' \in [Batches -> Rows]
      BY <2>0, <2>2, <3>1, <3>4 DEF WriteChunk, TypeOK
    <3>6. [task[t] EXCEPT !.pos = m] \in Ingestion
      BY <2>0, <3>2 DEF Ingestion
    <3>7. task' = [task EXCEPT ![t] = [task[t] EXCEPT !.pos = m]]
      BY <2>0, <2>2 DEF WriteChunk
    <3>8. task' \in [Runners -> Ingestion]
      BY <3>6, <3>7 DEF TypeOK
    <3> QED BY <2>2, <3>5, <3>8 DEF WriteChunk, TypeOK
  <2>3. CASE EndEmpty(t)
    <3>1. b \in Batches
      BY <2>0, <2>3 DEF EndEmpty
    <3>2. pending' \in [Batches -> BOOLEAN] /\ rollup' = rollup
      BY <2>3, <3>1 DEF EndEmpty, EmptyTotal, TypeOK
    <3> QED BY <2>0, <2>3, <3>2 DEF EndEmpty, TypeOK
  <2>4. CASE Sum(t)
    <3>1. [task[t] EXCEPT !.pc = "summed", !.sums = records[b]] \in Ingestion
      BY <2>0, <2>4 DEF Sum, Ingestion, TypeOK
    <3> QED BY <2>4, <3>1 DEF Sum, TypeOK, batchVars
  <2>5. CASE Done(t)
    <3>1. b \in Batches /\ task[t].sums \in Rows \ {NoRows}
      BY <2>0, <2>5, NotEmpty, UsageRow DEF Done, SummedOK
    <3> QED BY <2>0, <2>5, <3>1 DEF Done, TypeOK
  <2>6. CASE Raise(t)
    <3>1. [task[t] EXCEPT !.pc = "raised"] \in Ingestion /\ b \in Batches
      BY <2>0, <2>6 DEF Raise, Ingestion
    <3>2. pending' \in [Batches -> BOOLEAN]
      BY <2>6, <3>1 DEF Raise, FlagAfterRaise, TypeOK
    <3>3. task' = [task EXCEPT ![t] = [task[t] EXCEPT !.pc = "raised"]]
      BY <2>6 DEF Raise
    <3> QED BY <2>6, <3>1, <3>2, <3>3 DEF Raise, TypeOK
  <2>7. CASE CountRead(t)
    <3>1. [task[t] EXCEPT !.pc = "counting", !.seen = attempts[b]] \in Ingestion
      BY <2>0, <2>7 DEF CountRead, Ingestion, TypeOK
    <3> QED BY <2>7, <3>1 DEF CountRead, TypeOK, batchVars
  <2>8. CASE CountCommit(t)
    <3>1. (IF task[t].seen < Cap THEN task[t].seen + 1 ELSE Cap) \in 0..Cap
      BY <2>0 DEF Ingestion
    <3> QED BY <2>0, <2>8, <3>1 DEF CountCommit, TypeOK
  <2>9. CASE CountFails(t)
    BY <2>0, <2>9 DEF CountFails, TypeOK, batchVars
  <2> QED BY <1>9, <2>1, <2>2, <2>3, <2>4, <2>5, <2>6, <2>7, <2>8, <2>9 DEF IngestStep
<1> QED BY <1>1, <1>2, <1>3, <1>4, <1>5, <1>6, <1>7, <1>8, <1>9 DEF Next

-----------------------------------------------------------------------------
\* The batches' side of the invariant does not look at tasks or the sweep.
LEMMA BatchesQuiet ==
    ASSUME Inv, UNCHANGED <<files, records, rollup>>
    PROVE  /\ UnusedOK' /\ RecordsOK' /\ TotalOK'
           /\ (UNCHANGED <<pending, deleted>> => RecordedIsExact')
BY DEF Inv, UnusedOK, RecordsOK, TotalOK, RecordedIsExact, File

\* The tasks' side, when no table it looks at changes and task t does.
LEMMA TasksQuiet ==
    ASSUME Inv, UNCHANGED <<files, records>>, NEW t \in Runners, NEW new,
           task' = [task EXCEPT ![t] = new],
           new.pc # "free" => /\ new.batch \in Batches /\ new.file = 1
                              /\ files[new.batch] # <<>>,
           new.pc = "queued" => new.pos = 0,
           new.pc \notin {"reading", "summed"}
    PROVE  TaskOK' /\ ReadingOK' /\ SummedOK'
<1>1. task'[t] = new /\ \A u \in Runners \ {t} : task'[u] = task[u]
  BY DEF Inv, TypeOK
<1>2. TaskOK'
  BY <1>1 DEF Inv, TaskOK
<1>3. ReadingOK'
  <2>1. \A u \in Runners : task'[u].pc = "reading" => task'[u] = task[u]
    BY <1>1
  <2> SUFFICES ASSUME NEW u \in Runners, task'[u].pc = "reading"
               PROVE  /\ task'[u].pos <= Len(files'[task'[u].batch][1])
                      /\ \A p \in 1..task'[u].pos :
                            records'[task'[u].batch][files'[task'[u].batch][1][p].id]
                              = files'[task'[u].batch][1][p].tok
    BY DEF ReadingOK, File
  <2>2. task'[u] = task[u] /\ task[u].pc = "reading"
    BY <2>1
  <2>3. /\ task[u].pos <= Len(files[task[u].batch][1])
        /\ \A p \in 1..task[u].pos :
              records[task[u].batch][files[task[u].batch][1][p].id]
                = files[task[u].batch][1][p].tok
    BY <2>2 DEF Inv, ReadingOK, File
  <2> QED BY <2>2, <2>3
<1>4. SummedOK'
  <2>1. \A u \in Runners : task'[u].pc = "summed" => task'[u] = task[u]
    BY <1>1
  <2> QED BY <2>1 DEF Inv, SummedOK, File
<1> QED BY <1>2, <1>3, <1>4

LEMMA UploadStep ==
    ASSUME Inv, Uploads = 1, NEW b \in Batches, Upload(b), TypeOK'
    PROVE  Inv'
<1> USE DEF Runners
<1>1. PICK o \in Outputs, t \in Tasks :
        /\ Len(files[b]) < Uploads /\ task[t] = Free
        /\ files' = [files EXCEPT ![b] = Append(@, o)]
        /\ pending' = [pending EXCEPT ![b] = TRUE]
        /\ task' = [task EXCEPT ![t] = Queued(b, Len(files[b]) + 1)]
        /\ UNCHANGED <<deleted, attempts, records, rollup, sweep>>
  BY DEF Upload
<1>2. files \in [Batches -> Seq(Outputs)] /\ files[b] \in Seq(Outputs) /\ files[b] = <<>>
  <2>1. files \in [Batches -> Seq(Outputs)] /\ files[b] \in Seq(Outputs)
    BY DEF Inv, TypeOK
  <2>2. \A n \in Nat \ {0} : ~(n < 1)
    OBVIOUS
  <2> QED BY <1>1, <2>1, <2>2, EmptySeq, Zenon
<1>3. /\ files'[b] = <<o>> /\ files'[b] # <<>> /\ File(b)' = o
      /\ \A c \in Batches \ {b} : files'[c] = files[c] /\ File(c)' = File(c)
  <2>1. Append(<<>>, o) = <<o>> /\ <<o>> # <<>> /\ <<o>>[1] = o
    OBVIOUS
  <2> QED BY <1>1, <1>2, <2>1 DEF File
<1>4. records[b] = NoRows /\ rollup[b] = None /\ b \notin sweep.todo
  BY <1>2 DEF Inv, UnusedOK, SweepOK
<1>5. \A u \in Runners : task[u].pc # "free" => task[u].batch # b /\ task[u].batch \in Batches
  BY <1>2 DEF Inv, TaskOK
<1>6. Len(files[b]) + 1 = 1
  BY <1>2
<1>7. /\ task'[t] = Queued(b, 1) /\ task'[t].batch = b /\ task'[t].file = 1
      /\ task'[t].pc = "queued" /\ task'[t].pos = 0
      /\ \A u \in Runners \ {t} : task'[u] = task[u]
  BY <1>1, <1>6 DEF Inv, TypeOK, Queued
<1>8. UnusedOK'
  <2> SUFFICES ASSUME NEW c \in Batches, files'[c] = <<>>
               PROVE  records'[c] = NoRows /\ rollup'[c] = None
    BY DEF UnusedOK
  <2>1. c # b /\ files[c] = <<>>
    BY <1>3
  <2> QED BY <1>1, <2>1 DEF Inv, UnusedOK
<1>9. SweepOK'
  BY <1>1, <1>3, <1>4 DEF Inv, TypeOK, SweepOK
<1>10. TaskOK'
  <2> SUFFICES ASSUME NEW u \in Runners, task'[u].pc # "free"
               PROVE  /\ task'[u].batch \in Batches /\ task'[u].file = 1 /\ files'[task'[u].batch] # <<>>
                      /\ task'[u].pc = "queued" => task'[u].pos = 0
    BY DEF TaskOK
  <2>1. CASE u = t
    BY <1>3, <1>7, <2>1
  <2>2. CASE u # t
    <3>1. task'[u] = task[u] /\ task[u].batch # b /\ task[u].batch \in Batches
      BY <1>5, <1>7, <2>2
    <3>2. /\ task[u].file = 1 /\ files[task[u].batch] # <<>>
          /\ task[u].pc = "queued" => task[u].pos = 0
      BY <3>1 DEF Inv, TaskOK
    <3> QED BY <1>3, <3>1, <3>2
  <2> QED BY <2>1, <2>2
<1>11. RecordsOK'
  <2>1. \A i \in Ids : records'[b][i] = None
    BY <1>1, <1>4 DEF NoRows
  <2> QED BY <1>1, <1>3, <2>1 DEF Inv, RecordsOK
<1>12. ReadingOK'
  <2> SUFFICES ASSUME NEW u \in Runners, task'[u].pc = "reading"
               PROVE  /\ task'[u].pos <= Len(files'[task'[u].batch][1])
                      /\ \A p \in 1..task'[u].pos :
                            records'[task'[u].batch][files'[task'[u].batch][1][p].id]
                              = files'[task'[u].batch][1][p].tok
    BY DEF ReadingOK, File
  <2>1. task'[u] = task[u] /\ task[u].pc = "reading"
    BY <1>7
  <2>2. task[u].batch \in Batches \ {b}
    BY <1>5, <2>1
  <2>3. /\ task[u].pos <= Len(files[task[u].batch][1])
        /\ \A p \in 1..task[u].pos :
              records[task[u].batch][files[task[u].batch][1][p].id]
                = files[task[u].batch][1][p].tok
    BY <2>1 DEF Inv, ReadingOK, File
  <2>4. files'[task[u].batch] = files[task[u].batch] /\ records' = records
    BY <1>1, <1>3, <2>2
  <2> QED BY <2>1, <2>3, <2>4
<1>13. SummedOK'
  BY <1>1, <1>3, <1>5, <1>7 DEF Inv, SummedOK
<1>14. TotalOK'
  BY <1>1, <1>3, <1>4 DEF Inv, TotalOK
<1>15. RecordedIsExact'
  <2>1. pending'[b] /\ \A c \in Batches \ {b} : pending'[c] = pending[c]
    BY <1>1 DEF Inv, TypeOK
  <2> QED BY <1>1, <1>3, <2>1 DEF Inv, RecordedIsExact, File
<1> QED BY <1>8, <1>9, <1>10, <1>11, <1>12, <1>13, <1>14, <1>15 DEF Inv

\* The heart of it: a chunk only writes what the output says.
LEMMA WriteStep ==
    ASSUME Inv, Uploads = 1, NEW t \in Runners, WriteChunk(t), TypeOK'
    PROVE  Inv'
<1> DEFINE b == task[t].batch  o == File(b)  n == task[t].pos  m == ChunkEnd(o, n)
<1>1. /\ b \in Batches /\ files[b] # <<>> /\ task[t].file = 1 /\ OutputOf(t) = o
      /\ o \in Outputs /\ Len(o) \in Nat /\ n \in Nat
  <2>1. task[t] \in Ingestion /\ task[t].pc = "reading"
    BY DEF Inv, TypeOK, WriteChunk
  <2>2. b \in Batches /\ files[b] # <<>> /\ task[t].file = 1
    BY <2>1 DEF Inv, TaskOK
  <2>3. OutputOf(t) = o
    BY <2>2 DEF OutputOf, File
  <2>4. o \in Outputs
    BY <2>2, TheFile DEF Inv
  <2>5. n \in Nat
    BY <2>1 DEF Ingestion
  <2> QED BY <2>2, <2>3, <2>4, <2>5, UsageRow
<1>2. /\ n < Len(o) /\ task[t].pc = "reading"
      /\ records' = [records EXCEPT ![b] =
                       [i \in Ids |-> Written(o, n + 1, m, i, records[b][i])]]
      /\ task' = [task EXCEPT ![t].pos = m]
      /\ UNCHANGED <<files, deleted, stamp, clock, pending, attempts, rollup, sweep>>
  BY <1>1 DEF WriteChunk
<1>3. m \in Nat /\ n < m /\ m <= Len(o) /\ 1 <= n + 1 /\ n + 1 \in Nat
  <2>1. Len(o) \in Nat /\ n \in Nat /\ n < Len(o)
    BY <1>1, <1>2
  <2>2. m = IF n + Chunk < Len(o) THEN n + Chunk ELSE Len(o)
    BY DEF ChunkEnd
  <2> HIDE DEF m, n, o
  <2> QED BY <2>1, <2>2
<1>4. /\ \A c \in Batches \ {b} : records'[c] = records[c]
      /\ \A i \in Ids : records'[b][i] = Written(o, n + 1, m, i, records[b][i])
      /\ \A c \in Batches : File(c)' = File(c)
  BY <1>1, <1>2 DEF Inv, TypeOK, File
<1>5. /\ task'[t] = [task[t] EXCEPT !.pos = m]
      /\ \A u \in Runners \ {t} : task'[u] = task[u]
  BY <1>2 DEF Inv, TypeOK
<1>6. \A u \in Runners : task'[u].pc = task[u].pc /\ task'[u].batch = task[u].batch
                          /\ task'[u].file = task[u].file
  <2>1. task[t] \in Ingestion
    BY DEF Inv, TypeOK
  <2>2. task'[t].pc = task[t].pc /\ task'[t].batch = task[t].batch /\ task'[t].file = task[t].file
    BY <1>5, <2>1 DEF Ingestion
  <2> QED BY <1>5, <2>2
<1>7. \A i \in Ids : records[b][i] \in {None, UsageOf(o)[i]}
  BY <1>1 DEF Inv, RecordsOK
<1>8. ASSUME NEW p \in (n + 1)..m PROVE records'[b][o[p].id] = UsageOf(o)[o[p].id]
  <2>1. p \in 1..Len(o)
    BY <1>1, <1>3
  <2>2. o[p].id \in Ids /\ UsageOf(o)[o[p].id] = o[p].tok
    BY <1>1, <2>1, UsageRow
  <2>3. o \in Outputs /\ n + 1 \in Nat /\ m \in Nat /\ 1 <= n + 1 /\ m <= Len(o)
    BY <1>1, <1>3
  <2> HIDE DEF o, n, m
  <2>4. Written(o, n + 1, m, o[p].id, records[b][o[p].id]) = o[p].tok
    BY <2>3, WrittenRow
  <2> QED BY <1>4, <2>2, <2>4
<1>9. ASSUME NEW i \in Ids
      PROVE  records'[b][i] = records[b][i] \/ records'[b][i] = UsageOf(o)[i]
  <2>1. CASE \E p \in (n + 1)..m : o[p].id = i
    BY <1>8, <2>1
  <2>2. CASE \A p \in (n + 1)..m : o[p].id # i
    <3>1. o \in Outputs /\ n + 1 \in Nat /\ m \in Nat /\ 1 <= n + 1 /\ m <= Len(o)
      BY <1>1, <1>3
    <3> HIDE DEF o, n, m
    <3>2. Written(o, n + 1, m, i, records[b][i]) = records[b][i]
      BY <2>2, <3>1, WrittenRow
    <3> QED BY <1>4, <3>2
  <2> QED BY <2>1, <2>2
<1>10. ASSUME NEW p \in 1..Len(o), records[b][o[p].id] = o[p].tok
       PROVE  records'[b][o[p].id] = o[p].tok
  <2>1. o[p].id \in Ids /\ UsageOf(o)[o[p].id] = o[p].tok
    BY <1>1, UsageRow
  <2> QED BY <1>9, <1>10, <2>1
<1>11. ASSUME records[b] = UsageOf(o) PROVE records'[b] = UsageOf(o)
  <2>1. records'[b] \in Rows /\ UsageOf(o) \in Rows
    BY <1>1, UsageRow DEF TypeOK
  <2>2. \A i \in Ids : records'[b][i] = UsageOf(o)[i]
    BY <1>9, <1>11
  <2> QED BY <2>1, <2>2 DEF Rows
<1>12. UnusedOK'
  BY <1>1, <1>2, <1>4 DEF Inv, UnusedOK
<1>13. SweepOK'
  BY <1>2 DEF Inv, SweepOK
<1>14. TaskOK'
  BY <1>2, <1>6 DEF Inv, TaskOK
<1>15. RecordsOK'
  <2> SUFFICES ASSUME NEW c \in Batches, files'[c] # <<>>, NEW i \in Ids
               PROVE  records'[c][i] \in {None, UsageOf(File(c)')[i]}
    BY DEF RecordsOK
  <2>1. File(c)' = File(c) /\ files[c] # <<>>
    BY <1>2, <1>4
  <2>2. CASE c = b
    BY <1>7, <1>9, <2>1, <2>2
  <2>3. CASE c # b
    <3>1. records'[c] = records[c]
      BY <1>4, <2>3
    <3>2. records[c][i] \in {None, UsageOf(File(c))[i]}
      BY <2>1 DEF Inv, RecordsOK
    <3> QED BY <2>1, <3>1, <3>2
  <2> QED BY <2>2, <2>3
<1>16. ReadingOK'
  <2> SUFFICES ASSUME NEW u \in Runners, task'[u].pc = "reading"
               PROVE  LET c == task[u].batch IN
                      /\ task'[u].pos <= Len(File(c))
                      /\ \A p \in 1..task'[u].pos :
                           records'[c][File(c)[p].id] = File(c)[p].tok
    BY <1>4, <1>6 DEF ReadingOK, Inv, TaskOK
  <2> DEFINE c == task[u].batch
  <2>1. /\ task[u].pc = "reading" /\ c \in Batches /\ task[u].pos <= Len(File(c))
        /\ \A p \in 1..task[u].pos : records[c][File(c)[p].id] = File(c)[p].tok
        /\ task[u].pos \in Nat
    BY <1>6 DEF Inv, ReadingOK, TaskOK, TypeOK, Ingestion
  <2>2. CASE u = t
    <3>1. task'[u].pos = m
      BY <1>5, <2>2 DEF Inv, TypeOK, Ingestion
    <3>2. ASSUME NEW p \in 1..m PROVE records'[b][o[p].id] = o[p].tok
      <4>1. p \in 1..Len(o)
        BY <1>1, <1>3
      <4>2. CASE p <= n
        BY <1>1, <1>10, <2>1, <2>2, <4>1, <4>2
      <4>3. CASE p > n
        <5>1. p \in (n + 1)..m
          BY <1>1, <1>3, <4>3
        <5> QED BY <1>1, <1>8, <4>1, <5>1, UsageRow
      <4> QED BY <1>1, <1>3, <4>2, <4>3
    <3> QED BY <1>3, <2>2, <3>1, <3>2
  <2>3. CASE u # t /\ c = b
    <3>1. \A p \in 1..task[u].pos : p \in 1..Len(o)
      BY <1>1, <2>1, <2>3
    <3> QED BY <1>5, <1>10, <2>1, <2>3, <3>1
  <2>4. CASE u # t /\ c # b
    BY <1>4, <1>5, <2>1, <2>4
  <2> QED BY <2>2, <2>3, <2>4
<1>17. SummedOK'
  <2> SUFFICES ASSUME NEW u \in Runners, task[u].pc = "summed"
               PROVE  /\ File(task[u].batch) # <<>>
                      /\ task'[u].sums = UsageOf(File(task[u].batch))
                      /\ records'[task[u].batch] = UsageOf(File(task[u].batch))
    BY <1>4, <1>6 DEF SummedOK, Inv, TaskOK
  <2>1. u # t /\ task'[u] = task[u]
    BY <1>2, <1>5
  <2>2. task[u].batch \in Batches
    BY DEF Inv, TaskOK
  <2> QED BY <1>4, <1>11, <2>1, <2>2 DEF Inv, SummedOK
<1>18. TotalOK'
  BY <1>2, <1>4 DEF Inv, TotalOK
<1>19. RecordedIsExact'
  <2> SUFFICES ASSUME NEW c \in Batches, files[c] # <<>>, ~pending[c], deleted[c] = {}
               PROVE  /\ records'[c] = UsageOf(File(c))
                      /\ rollup[c] = IF File(c) = <<>> THEN None ELSE records'[c]
    BY <1>2 DEF RecordedIsExact, File
  <2>1. /\ records[c] = UsageOf(File(c))
        /\ rollup[c] = IF File(c) = <<>> THEN None ELSE records[c]
    BY DEF Inv, RecordedIsExact, File
  <2> QED BY <1>4, <1>11, <2>1
<1> QED BY <1>12, <1>13, <1>14, <1>15, <1>16, <1>17, <1>18, <1>19 DEF Inv

\* The other steps of an ingestion.
LEMMA RunnerStep ==
    ASSUME Inv, Uploads = 1, NEW t \in Runners, IngestStep(t) \/ CountFails(t),
           ~WriteChunk(t), TypeOK'
    PROVE  Inv'
<1> DEFINE b == task[t].batch  o == File(b)
<1>0. /\ task[t] \in Ingestion /\ task \in [Runners -> Ingestion] /\ Free.pc = "free"
      /\ task[t].pc # "free" =>
           /\ b \in Batches /\ files[b] # <<>> /\ task[t].file = 1
           /\ OutputOf(t) = o /\ o \in Outputs /\ Len(o) \in Nat
  <2>1. /\ task[t] \in Ingestion /\ task \in [Runners -> Ingestion]
        /\ Free.pc = "free"
    BY DEF Inv, TypeOK, Free
  <2>2. ASSUME task[t].pc # "free"
        PROVE  b \in Batches /\ files[b] # <<>> /\ task[t].file = 1
    BY <2>2 DEF Inv, TaskOK
  <2>3. ASSUME task[t].pc # "free"
        PROVE  OutputOf(t) = o /\ o \in Outputs /\ Len(o) \in Nat
    BY <2>2, <2>3, TheFile, UsageRow DEF Inv, OutputOf, File
  <2> QED BY <2>1, <2>2, <2>3
<1>1. CASE Begin(t)
  <2>1. UNCHANGED <<files, records, rollup, sweep>> /\ b \in Batches
    BY <1>0, <1>1 DEF Begin
  <2>2. CASE task[t].file \in deleted[b]
    <3>1. task' = [task EXCEPT ![t] = Free] /\ pending' = [pending EXCEPT ![b] = FALSE]
          /\ UNCHANGED deleted
      BY <1>1, <2>2 DEF Begin
    <3>2. TaskOK' /\ ReadingOK' /\ SummedOK'
      BY <1>0, <2>1, <3>1, TasksQuiet
    <3>3. RecordedIsExact'
      <4>1. \A c \in Batches \ {b} : pending'[c] = pending[c]
        BY <3>1 DEF Inv, TypeOK
      <4> SUFFICES ASSUME NEW c \in Batches, files'[c] # <<>>, ~pending'[c], deleted'[c] = {}
                   PROVE  /\ records'[c] = UsageOf(files'[c][1])
                          /\ rollup'[c] = IF files'[c][1] = <<>> THEN None ELSE records'[c]
        BY DEF RecordedIsExact
      <4>2. c # b /\ files[c] # <<>> /\ deleted[c] = {}
        BY <2>1, <2>2, <3>1
      <4>3. ~pending[c]
        BY <4>1, <4>2
      <4> QED BY <2>1, <4>2, <4>3 DEF Inv, RecordedIsExact
    <3> QED BY <2>1, <3>2, <3>3, BatchesQuiet DEF Inv, SweepOK
  <2>3. CASE task[t].file \notin deleted[b]
    <3>1. /\ UNCHANGED <<pending, deleted>>
          /\ task' = [task EXCEPT ![t] = [task[t] EXCEPT !.pc = "reading",
                                                        !.loaded = pending[b]]]
      BY <1>1, <2>3 DEF Begin
    <3>2. /\ task'[t].pc = "reading" /\ task'[t].pos = task[t].pos
          /\ task'[t].batch = b /\ task'[t].file = task[t].file
          /\ \A u \in Runners \ {t} : task'[u] = task[u]
      BY <1>0, <3>1 DEF Ingestion
    <3>3. task[t].pc = "queued" /\ task[t].pos = 0 /\ 0 <= Len(o)
      BY <1>0, <1>1 DEF Begin, Inv, TaskOK
    <3>4. TaskOK'
      BY <1>0, <2>1, <3>2, <3>3 DEF Inv, TaskOK
    <3>5. ReadingOK'
      <4> SUFFICES ASSUME NEW u \in Runners, task'[u].pc = "reading"
                   PROVE  /\ task'[u].pos <= Len(files[task'[u].batch][1])
                          /\ \A p \in 1..task'[u].pos :
                                records[task'[u].batch][files[task'[u].batch][1][p].id]
                                  = files[task'[u].batch][1][p].tok
        BY <2>1 DEF ReadingOK, File
      <4>1. CASE u = t
        <5>1. task'[u].pos = 0 /\ files[task'[u].batch][1] = o
          BY <3>2, <3>3, <4>1 DEF File
        <5>2. \A p \in 1..0 : FALSE
          OBVIOUS
        <5> QED BY <3>3, <5>1, <5>2
      <4>2. CASE u # t
        <5>1. task'[u] = task[u] /\ task[u].pc = "reading"
          BY <3>2, <4>2
        <5>2. /\ task[u].pos <= Len(files[task[u].batch][1])
              /\ \A p \in 1..task[u].pos :
                    records[task[u].batch][files[task[u].batch][1][p].id]
                      = files[task[u].batch][1][p].tok
          BY <5>1 DEF Inv, ReadingOK, File
        <5> QED BY <5>1, <5>2
      <4> QED BY <4>1, <4>2
    <3>6. SummedOK'
      <4>1. \A u \in Runners : task'[u].pc = "summed" => task'[u] = task[u]
        BY <3>2
      <4> QED BY <2>1, <4>1 DEF Inv, SummedOK, File
    <3> QED BY <2>1, <3>1, <3>4, <3>5, <3>6, BatchesQuiet DEF Inv, SweepOK
  <2> QED BY <2>2, <2>3
<1>2. CASE EndEmpty(t)
  <2>1. /\ b \in Batches /\ files[b] # <<>> /\ o = <<>> /\ o \in Outputs
        /\ task' = [task EXCEPT ![t] = Free]
        /\ UNCHANGED <<files, records, deleted, sweep>>
        /\ pending' = [pending EXCEPT ![b] = @ /\ ~task[t].loaded]
    BY <1>0, <1>2 DEF EndEmpty
  <2>2. rollup' = rollup
    BY <1>2, <2>1 DEF EndEmpty, EmptyTotal, Inv, TypeOK
  <2>3. TaskOK' /\ ReadingOK' /\ SummedOK'
    BY <1>0, <2>1, TasksQuiet
  <2>4. records[b] = UsageOf(o) /\ rollup[b] = None
    <3>1. records[b] \in Rows /\ \A i \in Ids : records[b][i] \in {None, UsageOf(o)[i]}
      BY <2>1 DEF Inv, TypeOK, RecordsOK
    <3>2. \A p \in 1..Len(o) : FALSE
      BY <2>1, EmptySeq
    <3>3. records[b] = UsageOf(o)
      BY <2>1, <3>1, <3>2, AllRecorded
    <3> QED BY <2>1, <3>3 DEF Inv, TotalOK
  <2>5. RecordedIsExact'
    <3>1. \A c \in Batches \ {b} : pending'[c] = pending[c]
      BY <2>1 DEF Inv, TypeOK
    <3> QED BY <2>1, <2>2, <2>4, <3>1 DEF Inv, RecordedIsExact, File
  <2> QED BY <2>1, <2>2, <2>3, <2>5, BatchesQuiet DEF Inv, SweepOK
<1>3. CASE Sum(t)
  <2>1. /\ b \in Batches /\ files[b] # <<>> /\ o \in Outputs /\ task[t].file = 1
        /\ task[t].pc = "reading" /\ task[t].pos > 0 /\ task[t].pos = Len(o)
        /\ task' = [task EXCEPT ![t] = [task[t] EXCEPT !.pc = "summed", !.sums = records[b]]]
        /\ UNCHANGED <<files, records, rollup, pending, deleted, sweep>>
    BY <1>0, <1>3 DEF Sum, AllWritten, batchVars
  <2>2. /\ task'[t].pc = "summed" /\ task'[t].batch = b /\ task'[t].file = 1
        /\ task'[t].sums = records[b]
        /\ \A u \in Runners \ {t} : task'[u] = task[u]
    BY <1>0, <2>1 DEF Ingestion
  <2>3. records[b] = UsageOf(o)
    <3>1. records[b] \in Rows /\ \A i \in Ids : records[b][i] \in {None, UsageOf(o)[i]}
      BY <2>1 DEF Inv, TypeOK, RecordsOK
    <3>2. \A p \in 1..Len(o) : records[b][o[p].id] = o[p].tok
      BY <2>1 DEF Inv, ReadingOK
    <3> QED BY <2>1, <3>1, <3>2, AllRecorded
  <2>4. o # <<>>
    BY <2>1, EmptySeq
  <2>5. TaskOK'
    BY <2>1, <2>2 DEF Inv, TaskOK
  <2>6. ReadingOK'
    <3>1. \A u \in Runners : task'[u].pc = "reading" => task'[u] = task[u]
      BY <2>2
    <3>2. UNCHANGED <<files, records>>
      BY <2>1
    <3>3. ReadingOK
      BY DEF Inv
    <3> SUFFICES ASSUME NEW u \in Runners, task'[u].pc = "reading"
                 PROVE  /\ task'[u].pos <= Len(files'[task'[u].batch][1])
                        /\ \A p \in 1..task'[u].pos :
                              records'[task'[u].batch][files'[task'[u].batch][1][p].id]
                                = files'[task'[u].batch][1][p].tok
      BY DEF ReadingOK, File
    <3>4. /\ task[u].pos <= Len(files[task[u].batch][1])
          /\ \A p \in 1..task[u].pos :
                records[task[u].batch][files[task[u].batch][1][p].id]
                  = files[task[u].batch][1][p].tok
      BY <3>1, <3>3 DEF ReadingOK, File
    <3> QED BY <3>1, <3>2, <3>4
  <2>7. SummedOK'
    <3> SUFFICES ASSUME NEW u \in Runners, task'[u].pc = "summed"
                 PROVE  /\ files[task'[u].batch][1] # <<>>
                        /\ task'[u].sums = UsageOf(files[task'[u].batch][1])
                        /\ records[task'[u].batch] = UsageOf(files[task'[u].batch][1])
      BY <2>1 DEF SummedOK, File
    <3>1. CASE u = t
      BY <1>0, <2>2, <2>3, <2>4, <3>1 DEF File
    <3>2. CASE u # t
      BY <2>2, <3>2 DEF Inv, SummedOK, File
    <3> QED BY <3>1, <3>2
  <2> QED BY <2>1, <2>5, <2>6, <2>7, BatchesQuiet DEF Inv, SweepOK
<1>4. CASE Done(t)
  <2>1. /\ b \in Batches /\ files[b] # <<>>
        /\ task' = [task EXCEPT ![t] = Free]
        /\ rollup' = [rollup EXCEPT ![b] = task[t].sums]
        /\ pending' = [pending EXCEPT ![b] = FALSE]
        /\ UNCHANGED <<files, records, deleted, sweep>>
    BY <1>0, <1>4 DEF Done
  <2>2. o # <<>> /\ task[t].sums = UsageOf(o) /\ records[b] = UsageOf(o)
    BY <1>4 DEF Done, Inv, SummedOK
  <2>3. /\ rollup'[b] = UsageOf(o)
        /\ \A c \in Batches \ {b} : rollup'[c] = rollup[c] /\ pending'[c] = pending[c]
    BY <2>1, <2>2 DEF Inv, TypeOK
  <2>4. TaskOK' /\ ReadingOK' /\ SummedOK'
    BY <1>0, <2>1, TasksQuiet
  <2>5. UnusedOK'
    BY <2>1, <2>3 DEF Inv, UnusedOK
  <2>6. RecordsOK' /\ SweepOK'
    BY <2>1 DEF Inv, RecordsOK, SweepOK, File
  <2>7. TotalOK'
    BY <2>1, <2>2, <2>3 DEF Inv, TotalOK, File
  <2>8. RecordedIsExact'
    BY <2>1, <2>2, <2>3 DEF Inv, RecordedIsExact, File
  <2> QED BY <2>4, <2>5, <2>6, <2>7, <2>8 DEF Inv
<1>5. ASSUME NEW new, task' = [task EXCEPT ![t] = new],
             UNCHANGED <<files, records, rollup, pending, deleted, sweep>>,
             \/ new = Free
             \/ new.pc \in {"raised", "counting"} /\ new.batch = b /\ new.file = task[t].file,
             task[t].pc # "free"
      PROVE  Inv'
  <2>1. TaskOK' /\ ReadingOK' /\ SummedOK'
    BY <1>0, <1>5, TasksQuiet
  <2> QED BY <1>5, <2>1, BatchesQuiet DEF Inv, SweepOK
<1>6. CASE Raise(t)
  <2> DEFINE new == [task[t] EXCEPT !.pc = "raised"]
  <2>1. new.pc = "raised" /\ new.batch = b /\ new.file = task[t].file
    BY <1>0 DEF Ingestion
  <2>2. task' = [task EXCEPT ![t] = new] /\ task[t].pc # "free"
        /\ UNCHANGED <<files, records, rollup, deleted, sweep>>
    BY <1>6 DEF Raise
  <2>3. pending' = pending
    BY <1>6 DEF Raise, FlagAfterRaise, Inv, TypeOK
  <2> QED BY <1>5, <2>1, <2>2, <2>3
<1>7. CASE CountRead(t)
  <2> DEFINE new == [task[t] EXCEPT !.pc = "counting", !.seen = attempts[b]]
  <2>1. new.pc = "counting" /\ new.batch = b /\ new.file = task[t].file
    BY <1>0 DEF Ingestion
  <2> QED BY <1>5, <1>7, <2>1 DEF CountRead, batchVars
<1>8. CASE CountCommit(t) \/ CountFails(t)
  BY <1>5, <1>8 DEF CountCommit, CountFails, batchVars
<1> QED BY <1>1, <1>2, <1>3, <1>4, <1>6, <1>7, <1>8 DEF IngestStep

-----------------------------------------------------------------------------
LEMMA InvStep ==
    ASSUME Inv, Uploads = 1, [Next]_vars PROVE Inv'
<1> USE DEF Runners
<1>0. TypeOK'
  BY TypeStep DEF Inv
<1>1. CASE UNCHANGED vars
  <2>1. UnusedOK' /\ RecordsOK' /\ TotalOK' /\ RecordedIsExact'
    BY <1>1, BatchesQuiet DEF vars
  <2>2. SweepOK' /\ TaskOK' /\ ReadingOK' /\ SummedOK'
    BY <1>1 DEF vars, Inv, SweepOK, TaskOK, ReadingOK, SummedOK, File
  <2> QED BY <1>0, <2>1, <2>2 DEF Inv
<1>2. ASSUME NEW b \in Batches, Upload(b) PROVE Inv'
  BY <1>0, <1>2, UploadStep
<1>3. ASSUME NEW b \in Batches, Replay(b) PROVE Inv'
  <2>1. PICK t \in Tasks :
          /\ files[b] # <<>>
          /\ task' = [task EXCEPT ![t] = Queued(b, Len(files[b]))]
          /\ UNCHANGED <<batchVars, sweep>>
    BY <1>3 DEF Replay
  <2>2. /\ Queued(b, Len(files[b])).pc = "queued" /\ Queued(b, Len(files[b])).batch = b
        /\ Queued(b, Len(files[b])).file = 1 /\ Queued(b, Len(files[b])).pos = 0
    BY <2>1, TheFile DEF Queued, Inv
  <2>3. TaskOK' /\ ReadingOK' /\ SummedOK'
    BY <2>1, <2>2, TasksQuiet DEF batchVars
  <2> QED BY <1>0, <2>1, <2>3, BatchesQuiet DEF batchVars, Inv, SweepOK
<1>4. ASSUME NEW b \in Batches, DeleteFile(b) PROVE Inv'
  <2>1. /\ UNCHANGED <<files, pending, records, rollup, task, sweep>>
        /\ deleted'[b] # {} /\ \A c \in Batches \ {b} : deleted'[c] = deleted[c]
    BY <1>4 DEF DeleteFile, Inv, TypeOK
  <2>2. RecordedIsExact'
    BY <2>1 DEF Inv, RecordedIsExact
  <2>3. SweepOK' /\ TaskOK' /\ ReadingOK' /\ SummedOK'
    BY <2>1 DEF Inv, SweepOK, TaskOK, ReadingOK, SummedOK, File
  <2> QED BY <1>0, <2>1, <2>2, <2>3, BatchesQuiet DEF Inv
<1>5. ASSUME NEW b \in Batches, SweepTake(b) PROVE Inv'
  <2> DEFINE k == IF sweep.fresh THEN Len(files[b]) ELSE sweep.seen[b]
  <2>1. /\ files[b] # <<>> /\ k = 1 /\ UNCHANGED <<files, deleted, records, rollup>>
    BY <1>5, TheFile DEF SweepTake, Inv, SweepOK
  <2>2. SweepOK'
    <3>1. sweep'.todo \subseteq sweep.todo /\ sweep'.seen = sweep.seen
      <4>1. sweep \in [todo : SUBSET Batches, seen : [Batches -> 0..Uploads], fresh : BOOLEAN]
        BY DEF Inv, TypeOK
      <4>2. \/ sweep' = [sweep EXCEPT !.todo = @ \ {b}, !.fresh = TRUE]
            \/ sweep' = [sweep EXCEPT !.todo = @ \ {b}]
        BY <1>5 DEF SweepTake
      <4>3. CASE sweep' = [sweep EXCEPT !.todo = @ \ {b}, !.fresh = TRUE]
        BY <4>1, <4>3
      <4>4. CASE sweep' = [sweep EXCEPT !.todo = @ \ {b}]
        BY <4>1, <4>4
      <4> QED BY <4>2, <4>3, <4>4
    <3> QED BY <2>1, <3>1 DEF Inv, SweepOK
  <2>3. CASE k \in deleted[b]
    <3>1. pending' = [pending EXCEPT ![b] = FALSE] /\ UNCHANGED task
      BY <1>5, <2>3 DEF SweepTake
    <3>2. RecordedIsExact'
      BY <2>1, <2>3, <3>1 DEF Inv, TypeOK, RecordedIsExact
    <3>3. TaskOK' /\ ReadingOK' /\ SummedOK'
      BY <2>1, <3>1 DEF Inv, TaskOK, ReadingOK, SummedOK, File
    <3> QED BY <1>0, <2>1, <2>2, <3>2, <3>3, BatchesQuiet DEF Inv
  <2>4. CASE k \notin deleted[b]
    <3>1. task' = [task EXCEPT ![Sweeper] = Queued(b, 1)] /\ UNCHANGED pending
      BY <1>5, <2>1, <2>4 DEF SweepTake
    <3>2. /\ Queued(b, 1).pc = "queued" /\ Queued(b, 1).batch = b
          /\ Queued(b, 1).file = 1 /\ Queued(b, 1).pos = 0
      BY DEF Queued
    <3>3. TaskOK' /\ ReadingOK' /\ SummedOK'
      BY <2>1, <3>1, <3>2, TasksQuiet
    <3> QED BY <1>0, <2>1, <2>2, <3>1, <3>3, BatchesQuiet DEF Inv
  <2> QED BY <2>3, <2>4
<1>6. CASE SweepSelect
  <2>1. /\ UNCHANGED <<files, deleted, pending, records, rollup, task>>
        /\ sweep'.todo \subseteq Due /\ sweep'.seen = [b \in Batches |-> Len(files[b])]
    BY <1>6 DEF SweepSelect, batchVars
  <2>2. SweepOK'
    BY <2>1, TheFile DEF SweepOK, Due, Inv
  <2>3. TaskOK' /\ ReadingOK' /\ SummedOK'
    BY <2>1 DEF Inv, TaskOK, ReadingOK, SummedOK, File
  <2> QED BY <1>0, <2>1, <2>2, <2>3, BatchesQuiet DEF Inv
<1>7. CASE SweepFails
  <2>1. SweepOK' /\ TaskOK' /\ ReadingOK' /\ SummedOK'
    BY <1>7 DEF SweepFails, NoSweep, batchVars, Inv, SweepOK, TaskOK, ReadingOK, SummedOK, File
  <2> QED BY <1>0, <1>7, <2>1, BatchesQuiet DEF SweepFails, batchVars, Inv
<1>8. CASE Restart
  <2>1. \A t \in Runners : task'[t].pc = "free"
    BY <1>8 DEF Restart, Free
  <2>2. SweepOK' /\ TaskOK' /\ ReadingOK' /\ SummedOK'
    BY <1>8, <2>1 DEF Restart, NoSweep, SweepOK, TaskOK, ReadingOK, SummedOK
  <2> QED BY <1>0, <1>8, <2>2, BatchesQuiet DEF Restart, batchVars, Inv
<1>9. ASSUME NEW t \in Runners, IngestStep(t) \/ CountFails(t) PROVE Inv'
  BY <1>0, <1>9, WriteStep, RunnerStep
<1> QED BY <1>1, <1>2, <1>3, <1>4, <1>5, <1>6, <1>7, <1>8, <1>9 DEF Next

LEMMA InvInit == ASSUME Uploads = 1, Init PROVE Inv
<1>1. TypeOK
  <2>1. \A b \in Batches : files[b] \in Seq(Outputs) /\ Len(files[b]) <= Uploads
    BY EmptySeq DEF Init
  <2>2. NoSweep \in [todo : SUBSET Batches, seen : [Batches -> 0..Uploads], fresh : BOOLEAN]
    BY DEF NoSweep
  <2>3. Free \in Ingestion /\ NoRows \in Rows
    BY DEF Free, Ingestion, NoRows, Rows
  <2> QED BY <2>1, <2>2, <2>3 DEF Init, TypeOK
<1>2. UnusedOK /\ RecordsOK /\ TotalOK /\ RecordedIsExact
  BY DEF Init, UnusedOK, RecordsOK, TotalOK, RecordedIsExact
<1>3. SweepOK /\ TaskOK /\ ReadingOK /\ SummedOK
  BY DEF Init, NoSweep, Free, SweepOK, TaskOK, ReadingOK, SummedOK
<1> QED BY <1>1, <1>2, <1>3 DEF Inv

\* When one upload of a batch commits, a cleared flag means exact accounts.
THEOREM UsageInvariant == ASSUME Uploads = 1 PROVE Spec => []Inv
<1>1. Init => Inv
  BY InvInit
<1>2. Inv /\ [Next]_vars => Inv'
  BY InvStep
<1> QED BY <1>1, <1>2, PTL DEF Spec

\* Every reachable state is well typed (upload_results, ingest_usage_records
\* and the sweeper's retries, in any order).
THEOREM UsageTypeCorrect == ASSUME Uploads = 1 PROVE Spec => []TypeOK
<1>1. Inv => TypeOK
  BY DEF Inv
<1> QED BY <1>1, UsageInvariant, PTL

\* _mark_ingestion_done is only reached with every row and the totals stored.
THEOREM RecordedAlwaysExact == ASSUME Uploads = 1 PROVE Spec => []RecordedIsExact
<1>1. Inv => RecordedIsExact
  BY DEF Inv
<1> QED BY <1>1, UsageInvariant, PTL

\* The totals on a batch are never those of a part of its output.
THEOREM TotalAlwaysWhole == ASSUME Uploads = 1 PROVE Spec => []TotalIsWhole
<1>1. Inv => TotalIsWhole
  BY DEF Inv, TotalOK, TotalIsWhole, File
<1> QED BY <1>1, UsageInvariant, PTL
=============================================================================
