-------------------------- MODULE ValidatorProofs --------------------------
(***************************************************************************)
(* For files of any length, any catalogue and any hosts, the validator's   *)
(* one pass and its gates come to what a good file is.  The argument: at   *)
(* every line the accumulators are functions of the lines read so far (the *)
(* ids, the models, the needs, the number of requests), and `valid` says   *)
(* that those lines are in order; the gates then decide from the           *)
(* accumulators what Acceptable asks of the file.                          *)
(***************************************************************************)
EXTENDS Validator, SequenceTheorems, FiniteSetTheorems, TLAPS

USE ValidatorAssumption

IdsOf(f) == {f[i].id : i \in Requests(f)} \ {None}

\* The accumulators after the lines of f.
Accumulated(f) ==
    /\ ids = IdsOf(f)
    /\ needs = NeedsOf(f)
    /\ many <=> \E i \in Requests(f) : f[i].many
    /\ model = None => Named(f) = {}
    /\ model # None => model \in Named(f)

CountOK == IsFiniteSet(Requests(file)) /\ total = Cardinality(Requests(file))

ReadingOK == pc = "reading" => /\ total <= MaxLines
                               /\ valid <=> GoodLines(file)
                               /\ Accumulated(file)

ReadOK == pc \in {"read", "done"} =>
    /\ valid <=> GoodLines(file) /\ Cardinality(Requests(file)) \in 1..MaxLines
    /\ valid => Accumulated(file)

DoneOK == pc = "done" =>
    /\ verdict = "validated" <=> valid /\ Passes(online)
    /\ verdict = "validated" /\ model # None => stored = needs

Inv == TypeOK /\ CountOK /\ ReadingOK /\ ReadOK /\ DoneOK

-----------------------------------------------------------------------------
(* One more line.                                                          *)

\* g is f and l: the positions of its requests, and its lines there.
More(f, l, g) ==
    LET n == Len(f) + 1 IN
    /\ n \notin Requests(f) /\ g[n] = l
    /\ \A i \in Requests(f) : g[i] = f[i]
    /\ l.kind = "blank" => Requests(g) = Requests(f)
    /\ l.kind # "blank" => Requests(g) = Requests(f) \cup {n}

LEMMA OneMore ==
    ASSUME NEW f \in Seq(Lines), NEW l \in Lines, NEW g, g = Append(f, l)
    PROVE  /\ g \in Seq(Lines) /\ Len(f) \in Nat /\ Len(g) = Len(f) + 1
           /\ More(f, l, g)
<1> DEFINE n == Len(f) + 1
<1>1. g \in Seq(Lines) /\ Len(f) \in Nat /\ Len(g) = n
  BY AppendProperties, LenProperties
<1>2. \A i \in 1..Len(f) : g[i] = f[i]
  BY AppendProperties
<1>3. g[n] = l
  BY AppendProperties
<1>4. 1..Len(g) = 1..Len(f) \cup {n} /\ n \notin 1..Len(f)
  BY <1>1
<1>5. /\ l.kind = "blank" => Requests(g) = Requests(f)
      /\ l.kind # "blank" => Requests(g) = Requests(f) \cup {n}
  BY <1>2, <1>3, <1>4 DEF Requests
<1>6. n \notin Requests(f) /\ \A i \in Requests(f) : g[i] = f[i]
  BY <1>2, <1>4 DEF Requests
<1> QED BY <1>1, <1>3, <1>5, <1>6 DEF More

\* A blank line changes nothing.
LEMMA BlankLine ==
    ASSUME NEW f, NEW l, l.kind = "blank", NEW g, More(f, l, g)
    PROVE  /\ Requests(g) = Requests(f) /\ IdsOf(g) = IdsOf(f) /\ Named(g) = Named(f)
           /\ NeedsOf(g) = NeedsOf(f) /\ GoodLines(g) = GoodLines(f)
           /\ (\E i \in Requests(g) : g[i].many) = (\E i \in Requests(f) : f[i].many)
<1>1. Requests(g) = Requests(f) /\ \A i \in Requests(f) : g[i] = f[i]
  BY DEF More
<1>2. IdsOf(g) = IdsOf(f) /\ Named(g) = Named(f) /\ NeedsOf(g) = NeedsOf(f)
  BY <1>1 DEF IdsOf, Named, NeedsOf
<1>3. GoodLines(g) = GoodLines(f)
  BY <1>1, <1>2 DEF GoodLines
<1>4. (\E i \in Requests(g) : g[i].many) = (\E i \in Requests(f) : f[i].many)
  BY <1>1
<1> QED BY <1>1, <1>2, <1>3, <1>4

\* What a request adds to the ids, models and needs of the requests before it.
LEMMA OneMoreImage ==
    ASSUME NEW f, NEW g, NEW R, NEW n, n \notin R, \A i \in R : g[i] = f[i]
    PROVE  \A S : S = R \cup {n} =>
           /\ {g[i].id : i \in S} = {f[i].id : i \in R} \cup {g[n].id}
           /\ {g[i].model : i \in S} = {f[i].model : i \in R} \cup {g[n].model}
           /\ (\A i, j \in S : g[i].id = g[j].id => i = j)
                <=> /\ \A i, j \in R : f[i].id = f[j].id => i = j
                    /\ \A i \in R : f[i].id # g[n].id
  OBVIOUS

\* A request adds its id, its model and its needs.
LEMMA RequestLine ==
    ASSUME NEW f, NEW l, l.kind # "blank", NEW g, More(f, l, g)
    PROVE  /\ IdsOf(g) = IdsOf(f) \cup ({l.id} \ {None})
           /\ Named(g) = Named(f) \cup ({l.model} \ {None})
           /\ NeedsOf(g) = NeedsOf(f) \cup Wanted(l)
           /\ (\E i \in Requests(g) : g[i].many)
                <=> (\E i \in Requests(f) : f[i].many) \/ l.many
           /\ GoodLines(g) <=> /\ GoodLines(f) /\ WellFormed(l)
                               /\ l.id \notin IdsOf(f)
                               /\ \A m \in Named(f) : l.model \in {None, m}
<1> DEFINE n == Len(f) + 1
<1>1. /\ Requests(g) = Requests(f) \cup {n} /\ g[n] = l
      /\ n \notin Requests(f) /\ \A i \in Requests(f) : g[i] = f[i]
  BY DEF More
<1> HIDE DEF n
<1>2. IdsOf(g) = IdsOf(f) \cup ({l.id} \ {None})
  <2>1. {g[i].id : i \in Requests(g)} = {f[i].id : i \in Requests(f)} \cup {l.id}
    BY <1>1, OneMoreImage
  <2> QED BY <2>1, Zenon DEF IdsOf
<1>3. Named(g) = Named(f) \cup ({l.model} \ {None})
  <2>1. {g[i].model : i \in Requests(g)} = {f[i].model : i \in Requests(f)} \cup {l.model}
    BY <1>1, OneMoreImage
  <2> QED BY <2>1, Zenon DEF Named
<1>4. NeedsOf(g) = NeedsOf(f) \cup Wanted(l)
  <2>1. {Wanted(g[i]) : i \in Requests(g)} = {Wanted(f[i]) : i \in Requests(f)} \cup {Wanted(l)}
    BY <1>1
  <2> QED BY <2>1 DEF NeedsOf
<1>5. (\E i \in Requests(g) : g[i].many) <=> (\E i \in Requests(f) : f[i].many) \/ l.many
  BY <1>1
<1>6. (\A i \in Requests(g) : WellFormed(g[i]))
        <=> (\A i \in Requests(f) : WellFormed(f[i])) /\ WellFormed(l)
  BY <1>1
<1>7. ASSUME WellFormed(l)
      PROVE  (\A i, j \in Requests(g) : g[i].id = g[j].id => i = j)
               <=> /\ \A i, j \in Requests(f) : f[i].id = f[j].id => i = j
                   /\ l.id \notin IdsOf(f)
  <2>1. l.id \in IdsOf(f) <=> \E i \in Requests(f) : f[i].id = l.id
    BY <1>7 DEF IdsOf, WellFormed
  <2>2. (\A i, j \in Requests(g) : g[i].id = g[j].id => i = j)
          <=> /\ \A i, j \in Requests(f) : f[i].id = f[j].id => i = j
              /\ \A i \in Requests(f) : f[i].id # l.id
    BY <1>1, OneMoreImage
  <2> QED BY <2>1, <2>2, Zenon
<1>8. (\A m, p \in Named(g) : m = p)
        <=> (\A m, p \in Named(f) : m = p) /\ \A m \in Named(f) : l.model \in {None, m}
  <2>1. None \notin Named(f)
    BY DEF Named
  <2> QED BY <1>3, <2>1
<1>9. GoodLines(g) <=> /\ GoodLines(f) /\ WellFormed(l) /\ l.id \notin IdsOf(f)
                       /\ \A m \in Named(f) : l.model \in {None, m}
  BY <1>6, <1>7, <1>8, Zenon DEF GoodLines
<1> QED BY <1>2, <1>3, <1>4, <1>5, <1>9

-----------------------------------------------------------------------------
(* The steps.                                                              *)

LEMMA TypeStep == TypeOK /\ [Next]_vars => TypeOK'
<1> SUFFICES ASSUME TypeOK, [Next]_vars PROVE TypeOK'
  OBVIOUS
<1>1. CASE UNCHANGED vars
  BY <1>1 DEF TypeOK, vars
<1>2. ASSUME NEW l \in Lines, ReadLine(l) PROVE TypeOK'
  <2>1. Reads(l)
    BY <1>2 DEF ReadLine, Blank, TooMany, Broken, Empty, Object
  <2>2. file' \in Seq(Lines) /\ Len(file') <= Longest
    <3>1. Len(file') = Len(file) + 1 /\ file' \in Seq(Lines) /\ Len(file) \in Nat
      BY <2>1, OneMore DEF Reads, TypeOK
    <3>2. \A n \in Nat : n < Longest => n + 1 <= Longest
      OBVIOUS
    <3> QED BY <2>1, <3>1, <3>2 DEF Reads
  <2>3. total' \in 0..(MaxLines + 1)
    BY <1>2 DEF ReadLine, Blank, TooMany, Broken, Empty, Object, Counted, TypeOK
  <2>4. l \in Line
    OBVIOUS
  <2>5. ids' \subseteq Ids /\ model' \in Models \cup {None} /\ needs' \subseteq Caps
    <3>1. Wanted(l) \subseteq Caps
      BY DEF Wanted, Caps
    <3> QED BY <1>2, <2>4, <3>1 DEF ReadLine, Blank, TooMany, Broken, Empty, Object,
                                    TypeOK, Remembered, FirstModel, Noted, Line
  <2>6. pc' \in {"reading", "read", "raised"} /\ bound' \in BOOLEAN /\ valid' \in BOOLEAN
    BY <1>2, <2>1 DEF ReadLine, Blank, TooMany, Broken, Empty, Object, Reads, TypeOK
  <2>7. many' \in BOOLEAN
    BY <1>2, <2>4 DEF ReadLine, Blank, TooMany, Broken, Empty, Object, TypeOK, Line
  <2> QED BY <2>1, <2>2, <2>3, <2>5, <2>6, <2>7 DEF Reads, TypeOK
<1>3. CASE EndOfFile
  BY <1>3 DEF EndOfFile, TypeOK
<1>4. CASE Judge
  BY <1>4 DEF Judge, TypeOK
<1> QED BY <1>1, <1>2, <1>3, <1>4 DEF Next

LEMMA CountStep == TypeOK /\ CountOK /\ [Next]_vars => CountOK'
<1> SUFFICES ASSUME TypeOK, CountOK, [Next]_vars PROVE CountOK'
  OBVIOUS
<1>1. CASE UNCHANGED <<file, total>>
  BY <1>1 DEF CountOK
<1>2. ASSUME NEW l \in Lines, Blank(l) PROVE CountOK'
  BY <1>2, OneMore, BlankLine DEF Blank, Reads, CountOK, TypeOK
<1>3. ASSUME NEW l \in Lines, l.kind # "blank", Reads(l), total' = total + 1
      PROVE  CountOK'
  <2>1. /\ Requests(file') = Requests(file) \cup {Len(file) + 1}
        /\ Len(file) + 1 \notin Requests(file)
    BY <1>3, OneMore DEF Reads, TypeOK, More
  <2> QED BY <1>3, <2>1, FS_AddElement DEF CountOK
<1>4. ASSUME NEW l \in Lines, ReadLine(l) PROVE CountOK'
  BY <1>2, <1>3, <1>4 DEF ReadLine, TooMany, Broken, Empty, Object, Counted
<1>5. CASE EndOfFile \/ Judge \/ UNCHANGED vars
  BY <1>1, <1>5 DEF EndOfFile, Judge, vars
<1> QED BY <1>4, <1>5 DEF Next

\* The loop goes on: what is accumulated is still that of the lines read.
LEMMA ReadingStep == Inv /\ [Next]_vars => ReadingOK'
<1> SUFFICES ASSUME Inv, [Next]_vars, pc' = "reading"
             PROVE  /\ total' <= MaxLines /\ (valid' <=> GoodLines(file'))
                    /\ Accumulated(file)'
  BY DEF ReadingOK
<1> USE DEF Inv
<1>1. CASE UNCHANGED vars
  <2>1. UNCHANGED <<file, pc, total, valid, ids, model, many, needs>>
    BY <1>1 DEF vars
  <2>2. Accumulated(file)' = Accumulated(file)
    BY <2>1 DEF Accumulated
  <2> QED BY <2>1, <2>2 DEF ReadingOK
<1>2. ASSUME NEW l \in Lines, Blank(l)
      PROVE  /\ total' <= MaxLines /\ (valid' <=> GoodLines(file')) /\ Accumulated(file)'
  BY <1>2, OneMore, BlankLine DEF Blank, Reads, ReadingOK, Accumulated, TypeOK
<1>3. ASSUME NEW l \in Lines, Broken(l) \/ Empty(l)
      PROVE  /\ total' <= MaxLines /\ (valid' <=> GoodLines(file')) /\ Accumulated(file)'
  <2>1. /\ l.kind \notin {"blank", "object"} /\ Fieldless(l) /\ pc = "reading"
        /\ file' = Append(file, l) /\ ~WellFormed(l) /\ Wanted(l) = {}
    BY <1>3 DEF Broken, Empty, Reads, Fieldless, WellFormed, Wanted
  <2>2. /\ IdsOf(file') = IdsOf(file) /\ Named(file') = Named(file)
        /\ NeedsOf(file') = NeedsOf(file) /\ ~GoodLines(file')
        /\ (\E i \in Requests(file') : file'[i].many)
             <=> (\E i \in Requests(file) : file[i].many)
    <3>1. file \in Seq(Lines)
      BY DEF TypeOK
    <3>2. /\ IdsOf(file') = IdsOf(file) \cup ({l.id} \ {None})
          /\ Named(file') = Named(file) \cup ({l.model} \ {None})
          /\ NeedsOf(file') = NeedsOf(file) \cup Wanted(l)
          /\ (\E i \in Requests(file') : file'[i].many)
               <=> (\E i \in Requests(file) : file[i].many) \/ l.many
          /\ GoodLines(file') => WellFormed(l)
      BY <2>1, <3>1, OneMore, RequestLine
    <3> QED BY <2>1, <3>2 DEF Fieldless
  <2>3. total' <= MaxLines /\ valid' = FALSE
    BY <1>3 DEF Broken, Empty, Counted, TypeOK
  <2>4. UNCHANGED <<ids, model, many, needs>> /\ Accumulated(file)
    BY <1>3, <2>1 DEF Broken, Empty, ReadingOK
  <2> QED BY <2>2, <2>3, <2>4 DEF Accumulated
<1>4. ASSUME NEW l \in Lines, Object(l)
      PROVE  /\ total' <= MaxLines /\ (valid' <=> GoodLines(file')) /\ Accumulated(file)'
  <2>1. /\ l.kind # "blank" /\ pc = "reading" /\ file' = Append(file, l) /\ l \in Line
        /\ ids' = ids \cup ({l.id} \ {None}) /\ needs' = needs \cup Wanted(l)
        /\ many' = (many \/ l.many) /\ model' = FirstModel(l.model)
        /\ valid' = (valid /\ WellFormed(l) /\ Agrees(l))
    BY <1>4 DEF Object, Reads, Remembered, Noted
  <2>2. /\ IdsOf(file') = IdsOf(file) \cup ({l.id} \ {None})
        /\ Named(file') = Named(file) \cup ({l.model} \ {None})
        /\ NeedsOf(file') = NeedsOf(file) \cup Wanted(l)
        /\ (\E i \in Requests(file') : file'[i].many)
             <=> (\E i \in Requests(file) : file[i].many) \/ l.many
        /\ GoodLines(file') <=> /\ GoodLines(file) /\ WellFormed(l)
                                /\ l.id \notin IdsOf(file)
                                /\ \A m \in Named(file) : l.model \in {None, m}
    <3>1. More(file, l, file')
      BY <2>1, OneMore DEF TypeOK
    <3> QED BY <2>1, <3>1, RequestLine
  <2>3. Accumulated(file) /\ (valid <=> GoodLines(file))
    BY <2>1 DEF ReadingOK
  <2>4. total' <= MaxLines
    BY <1>4 DEF Object, Counted, TypeOK
  <2>5. GoodLines(file) /\ WellFormed(l) =>
          (Agrees(l) <=> /\ l.id \notin IdsOf(file)
                         /\ \A m \in Named(file) : l.model \in {None, m})
    BY <2>3 DEF Agrees, Accumulated, WellFormed, GoodLines
  <2>6. valid' <=> GoodLines(file')
    BY <2>1, <2>2, <2>3, <2>5
  <2>7. /\ model' = None => Named(file') = {}
        /\ model' # None => model' \in Named(file')
    BY <2>1, <2>2, <2>3 DEF FirstModel, Accumulated
  <2>8. /\ ids' = IdsOf(file') /\ needs' = NeedsOf(file')
        /\ many' <=> \E i \in Requests(file') : file'[i].many
    BY <2>1, <2>2, <2>3 DEF Accumulated
  <2> QED BY <2>4, <2>6, <2>7, <2>8 DEF Accumulated
<1>5. ~(\E l \in Lines : TooMany(l)) /\ ~EndOfFile /\ ~Judge
  BY DEF TooMany, EndOfFile, Judge
<1> QED BY <1>1, <1>2, <1>3, <1>4, <1>5 DEF Next, ReadLine

\* The loop ends, at the end of the file or at one request too many.
LEMMA ReadStep == Inv /\ [Next]_vars /\ CountOK' => ReadOK'
<1> SUFFICES ASSUME Inv, [Next]_vars, CountOK', pc' \in {"read", "done"}
             PROVE  /\ valid' <=> /\ GoodLines(file')
                                  /\ Cardinality(Requests(file')) \in 1..MaxLines
                    /\ valid' => Accumulated(file)'
  BY DEF ReadOK
<1> USE DEF Inv
<1>1. CASE Judge \/ UNCHANGED vars
  <2>1. UNCHANGED <<file, valid, ids, model, many, needs>> /\ pc \in {"read", "done"}
    BY <1>1 DEF Judge, vars
  <2>2. Accumulated(file)' = Accumulated(file)
    BY <2>1 DEF Accumulated
  <2> QED BY <2>1, <2>2 DEF ReadOK
<1>2. CASE EndOfFile
  <2>1. /\ UNCHANGED <<file, ids, model, many, needs>> /\ pc = "reading"
        /\ valid' = (valid /\ total # 0)
    BY <1>2 DEF EndOfFile
  <2>2. total \in Nat /\ total <= MaxLines /\ total = Cardinality(Requests(file))
    BY <2>1 DEF CountOK, ReadingOK, TypeOK
  <2>3. total # 0 <=> Cardinality(Requests(file)) \in 1..MaxLines
    BY <2>2
  <2>4. Accumulated(file)' = Accumulated(file)
    BY <2>1 DEF Accumulated, IdsOf, Named, NeedsOf, Requests
  <2> QED BY <2>1, <2>3, <2>4 DEF ReadingOK
<1>3. ASSUME NEW l \in Lines, TooMany(l)
      PROVE  ~valid' /\ Cardinality(Requests(file')) \notin 1..MaxLines
  BY <1>3 DEF TooMany, CountOK
<1>4. ASSUME NEW l \in Lines, Blank(l) \/ Broken(l) \/ Empty(l) \/ Object(l) PROVE FALSE
  BY <1>4 DEF Blank, Broken, Empty, Object, Reads
<1> QED BY <1>1, <1>2, <1>3, <1>4 DEF Next, ReadLine

LEMMA DoneStep == Inv /\ [Next]_vars => DoneOK'
<1> SUFFICES ASSUME Inv, [Next]_vars, pc' = "done"
             PROVE  /\ verdict' = "validated" <=> valid' /\ Passes(online)'
                    /\ verdict' = "validated" /\ model' # None => stored' = needs'
  BY DEF DoneOK
<1>1. CASE Judge
  <2>1. /\ UNCHANGED <<valid, model, many, needs, total>>
        /\ verdict' = IF valid /\ Passes(online') THEN "validated" ELSE "failed"
        /\ stored' = IF valid /\ Passes(online') /\ model # None THEN needs ELSE {}
    BY <1>1 DEF Judge
  <2>2. Passes(online)' <=> Passes(online')
    BY <2>1 DEF Passes, CapsGate, SizeGate
  <2> QED BY <2>1, <2>2
<1>2. CASE UNCHANGED vars
  BY <1>2 DEF vars, Inv, DoneOK, Passes, CapsGate, SizeGate
<1>3. CASE EndOfFile \/ \E l \in Lines : ReadLine(l)
  BY <1>3 DEF EndOfFile, ReadLine, Blank, TooMany, Broken, Empty, Object, Reads
<1> QED BY <1>1, <1>2, <1>3 DEF Next

LEMMA InitInv == Init => Inv
<1> SUFFICES ASSUME Init PROVE Inv
  OBVIOUS
<1>1. Requests(file) = {} /\ file \in Seq(Lines) /\ Len(file) = 0
  BY EmptySeq DEF Init, Requests
<1>2. CountOK
  BY <1>1, FS_EmptySet DEF Init, CountOK
<1>3. Accumulated(file) /\ GoodLines(file)
  BY <1>1 DEF Init, Accumulated, IdsOf, NeedsOf, Named, GoodLines
<1>4. TypeOK
  <2>1. 0 \in 0..(MaxLines + 1) /\ 0 <= Longest
    OBVIOUS
  <2>2. file \in Seq(Lines) /\ Len(file) <= Longest
    BY <1>1, <2>1
  <2> QED BY <2>1, <2>2, Zenon DEF Init, TypeOK
<1>5. pc = "reading" /\ total = 0 /\ valid = TRUE
  BY DEF Init
<1> QED BY <1>2, <1>3, <1>4, <1>5 DEF Inv, ReadingOK, ReadOK, DoneOK

\* The loop invariant holds at every line of every file.
THEOREM ValidatorInvariant == Spec => []Inv
<1>1. Inv /\ [Next]_vars => Inv'
  BY TypeStep, CountStep, ReadingStep, ReadStep, DoneStep DEF Inv
<1> QED BY InitInv, <1>1, PTL DEF Spec

-----------------------------------------------------------------------------
(* The gates, and the theorems.                                            *)

\* For lines in order the gates decide what Acceptable asks of the model.
LEMMA GatesDecide ==
    ASSUME TypeOK, CountOK, GoodLines(file), Accumulated(file), NEW on \in SUBSET Hosts
    PROVE  Passes(on) <=> \A m \in Named(file) : Runnable(m, file, on)
<1>1. CASE model = None
  BY <1>1 DEF Accumulated, Passes
<1>2. CASE model # None
  <2>1. Named(file) = {model}
    BY <1>2 DEF Accumulated, GoodLines
  <2>2. (CapsGate(on) /\ SizeGate(on))
          <=> (on = {} \/ \E h \in on : Takes(h, needs, total))
    BY DEF CapsGate, SizeGate, Takes
  <2>3. needs = NeedsOf(file) /\ total = Cardinality(Requests(file))
        /\ (many <=> \E i \in Requests(file) : file[i].many)
    BY DEF Accumulated, CountOK
  <2>4. Runnable(model, file, on) <=> /\ model \in Catalogue /\ ~(model \in Single /\ many)
                                      /\ CapsGate(on) /\ SizeGate(on)
    BY <2>2, <2>3 DEF Runnable
  <2> QED BY <1>2, <2>1, <2>4 DEF Passes
<1> QED BY <1>1, <1>2

\* Every reachable state of a validation is well typed
\* (batch_validator.py:508-566).
THEOREM ValidatorTypeCorrect == Spec => []TypeOK
<1>1. Inv => TypeOK
  BY DEF Inv
<1> QED BY ValidatorInvariant, <1>1, PTL

\* The verdict is that of the definition of a good file, for files of any
\* length, any catalogue and any set of hosts (batch_validator.py:497-655).
THEOREM VerdictAlwaysRight == Spec => []VerdictIsRight
<1>1. Inv => VerdictIsRight
  <2> SUFFICES ASSUME Inv, pc = "done"
               PROVE  verdict = "validated" <=> Acceptable(file, online)
    BY DEF VerdictIsRight
  <2>1. online \in SUBSET Hosts
    BY DEF Inv, TypeOK
  <2>2. verdict = "validated" <=> valid /\ Passes(online)
    BY DEF Inv, DoneOK
  <2>3. /\ valid <=> GoodLines(file) /\ Cardinality(Requests(file)) \in 1..MaxLines
        /\ valid => Accumulated(file)
    BY DEF Inv, ReadOK
  <2>4. valid => (Passes(online) <=> \A m \in Named(file) : Runnable(m, file, online))
    BY <2>1, <2>3, GatesDecide DEF Inv
  <2> QED BY <2>2, <2>3, <2>4 DEF Acceptable
<1> QED BY ValidatorInvariant, <1>1, PTL

\* The capabilities stored with a batch that names a model are those of all its
\* rows (batch_validator.py:638-639).
THEOREM StoredAlwaysNeeded == Spec => []StoredAreNeeded
<1>1. Inv => StoredAreNeeded
  BY DEF Inv, DoneOK, ReadOK, Accumulated, StoredAreNeeded
<1> QED BY ValidatorInvariant, <1>1, PTL
=============================================================================
