----------------------------- MODULE Validator -----------------------------
(***************************************************************************)
(* validate_batch_file on the lines of one input file: the loop over the   *)
(* lines with what it accumulates, then the gates (catalogue, n > 1,       *)
(* capabilities, size) against the hosts that are online, then the verdict *)
(* that is stored with the batch.                                          *)
(*                                                                         *)
(* A line is what the checks tell apart: is it blank, no JSON object       *)
(* ("broken"), an empty object, or an object, and then whether its fields  *)
(* have the right shape, its custom_id, its model, its url, and what it    *)
(* asks of the runtime.                                                    *)
(***************************************************************************)
EXTENDS Integers, Sequences, FiniteSets

CONSTANTS
    Lines,      \* the lines files are made of
    Longest,    \* lines of the longest file
    MaxLines,   \* MAX_LINES
    Ids, Models,
    Catalogue,  \* the models with a selectable catalogue entry
    Single,     \* those whose runtime makes one completion a request (Ollama)
    Hosts,      \* workers, as hosts of the file's model
    None

Caps == {"logprobs", "completions", "prompt_scoring"}

Line == [kind : {"blank", "broken", "empty", "object"}, shape : BOOLEAN,
         id : Ids \cup {None}, model : Models \cup {None},
         url : {"chat", "completions", "embeddings"},
         logprobs : BOOLEAN, echo : BOOLEAN, many : BOOLEAN]

\* A model of None is one the checks pass over: null, or the empty string.
Host == [caps : SUBSET Caps, limit : Nat \cup {None}]

\* What is no object with fields has none of the things a field would say.
Fieldless(l) == /\ l.id = None /\ l.model = None /\ l.url = "chat"
                /\ ~l.logprobs /\ ~l.many

ASSUME ValidatorAssumption ==
    /\ Lines \subseteq Line /\ Hosts \subseteq Host
    /\ \A l \in Lines : l.kind # "object" => Fieldless(l)
    /\ Longest \in Nat /\ MaxLines \in Nat \ {0}
    /\ Single \subseteq Models /\ Catalogue \subseteq Models
    /\ None \notin Ids \cup Models \cup Nat

VARIABLES
    file,    \* the lines read so far
    pc,      \* "reading", "read", "done", "raised"
    bound,   \* has the loop bound its local `model` yet?
    total,   \* result.total_lines
    valid,   \* result.valid
    ids,     \* context.seen_custom_ids
    model,   \* result.model, which is context.first_model
    many,    \* does context.n_gt1_rows hold a row?
    needs,   \* context.required_capabilities
    online,  \* the hosts of the model found online
    verdict, \* the status stored with the batch
    stored   \* batches.required_capabilities

vars == <<file, pc, bound, total, valid, ids, model, many, needs, online, verdict, stored>>

TypeOK ==
    /\ file \in Seq(Lines) /\ Len(file) <= Longest
    /\ pc \in {"reading", "read", "done", "raised"}
    /\ bound \in BOOLEAN /\ valid \in BOOLEAN /\ many \in BOOLEAN
    /\ total \in 0..(MaxLines + 1)
    /\ ids \subseteq Ids /\ model \in Models \cup {None}
    /\ needs \subseteq Caps /\ stored \subseteq Caps
    /\ online \subseteq Hosts
    /\ verdict \in {None, "validated", "failed"}

Init ==
    /\ file = <<>> /\ pc = "reading" /\ bound = FALSE
    /\ total = 0 /\ valid = TRUE /\ ids = {} /\ model = None
    /\ many = FALSE /\ needs = {}
    /\ online = {} /\ verdict = None /\ stored = {}

-----------------------------------------------------------------------------
\* The schema and endpoint validators: the shape of every field, a custom_id,
\* and no echo on a chat row.
WellFormed(l) == /\ l.kind = "object" /\ l.shape /\ l.id # None
                 /\ ~(l.url = "chat" /\ l.echo)

\* wanted_capabilities.
Wanted(l) ==
    (IF l.logprobs THEN {"logprobs"} ELSE {})
    \cup (IF l.url = "completions"
          THEN {"completions"} \cup (IF l.echo THEN {"prompt_scoring"} ELSE {})
          ELSE {})

\* note_capabilities.  (Bug variant: only the last row counts.)
NotedLast(l) == Wanted(l)
Noted(l) == needs \cup Wanted(l)

\* The cross-line checks.  (Bug variant: what is no custom_id is remembered too.)
RememberedAny(l) == {l.id}
Remembered(l) == {l.id} \ {None}
FirstModel(m) == IF model = None THEN m ELSE model
Agrees(l) == /\ l.id = None \/ l.id \notin ids
             /\ l.model = None \/ model \in {None, l.model}

-----------------------------------------------------------------------------
(* The loop.                                                               *)

Reads(l) ==
    /\ pc = "reading" /\ Len(file) < Longest
    /\ file' = Append(file, l)
    /\ UNCHANGED <<online, verdict, stored>>

Blank(l) ==
    /\ l.kind = "blank" /\ Reads(l)
    /\ UNCHANGED <<pc, bound, total, valid, ids, model, many, needs>>

\* The limit on requests is checked before the line is parsed, and ends the loop.
TooMany(l) ==
    /\ l.kind # "blank" /\ total = MaxLines /\ Reads(l)
    /\ total' = total + 1 /\ valid' = FALSE /\ pc' = "read"
    /\ UNCHANGED <<bound, ids, model, many, needs>>

Counted == total < MaxLines /\ total' = total + 1

Broken(l) ==
    /\ l.kind = "broken" /\ Counted /\ Reads(l)
    /\ valid' = FALSE
    /\ UNCHANGED <<pc, bound, ids, model, many, needs>>

\* An empty object is skipped by the cross-line checks, and then the loop asks
\* for the local `model` that they bind.
Empty(l) ==
    /\ l.kind = "empty" /\ Counted /\ Reads(l)
    /\ valid' = FALSE
    /\ pc' = IF model = None /\ ~bound THEN "raised" ELSE pc
    /\ UNCHANGED <<bound, ids, model, many, needs>>

Object(l) ==
    /\ l.kind = "object" /\ Counted /\ Reads(l)
    /\ bound' = TRUE
    /\ valid' = (valid /\ WellFormed(l) /\ Agrees(l))
    /\ ids' = ids \cup Remembered(l)
    /\ model' = FirstModel(l.model)
    /\ many' = (many \/ l.many)
    /\ needs' = Noted(l)
    /\ UNCHANGED pc

\* The end of the file, with the check for an empty one.
EndOfFile ==
    /\ pc = "reading"
    /\ pc' = "read"
    /\ valid' = (valid /\ total # 0)
    /\ UNCHANGED <<file, bound, total, ids, model, many, needs, online, verdict, stored>>

-----------------------------------------------------------------------------
(* The gates.                                                              *)

\* 4c: some host must serve what the rows ask for, unless there is no host.
CapsGate(on) == needs = {} \/ on = {} \/ \E h \in on : needs \subseteq h.caps

\* 4d: of those, one must take a file of this size.  (Bug variant: any host's
\* limit counts.)
SizeGateAny(on) ==
    on = {} \/ \E h \in on : h.limit = None \/ total <= h.limit
SizeGate(on) ==
    LET capable == {h \in on : needs \subseteq h.caps}
    IN  capable = {} \/ \E h \in capable : h.limit = None \/ total <= h.limit

\* A file that names no model passes all of them.
Passes(on) ==
    \/ model = None
    \/ /\ model \in Catalogue
       /\ ~(model \in Single /\ many)
       /\ CapsGate(on) /\ SizeGate(on)

Judge ==
    /\ pc = "read"
    /\ \E on \in SUBSET Hosts :
         LET good == valid /\ Passes(on) IN
         /\ online' = on
         /\ verdict' = IF good THEN "validated" ELSE "failed"
         /\ stored' = IF good /\ model # None THEN needs ELSE {}
    /\ pc' = "done"
    /\ UNCHANGED <<file, bound, total, valid, ids, model, many, needs>>

ReadLine(l) == Blank(l) \/ TooMany(l) \/ Broken(l) \/ Empty(l) \/ Object(l)

Next == (\E l \in Lines : ReadLine(l)) \/ EndOfFile \/ Judge

Spec == Init /\ [][Next]_vars

-----------------------------------------------------------------------------
(* What a good file is, without the loop.                                  *)

Requests(f) == {i \in 1..Len(f) : f[i].kind # "blank"}
Named(f)    == {f[i].model : i \in Requests(f)} \ {None}
NeedsOf(f)  == UNION {Wanted(f[i]) : i \in Requests(f)}

\* Could this host be given a batch of n requests that needs these
\* capabilities?  (can_serve, for a host of the model.)
Takes(h, caps, n) == caps \subseteq h.caps /\ (h.limit = None \/ n <= h.limit)

GoodLines(f) ==
    /\ \A i \in Requests(f) : WellFormed(f[i])
    /\ \A i, j \in Requests(f) : f[i].id = f[j].id => i = j
    /\ \A m, n \in Named(f) : m = n

Runnable(m, f, on) ==
    /\ m \in Catalogue
    /\ m \in Single => \A i \in Requests(f) : ~f[i].many
    /\ on = {} \/ \E h \in on : Takes(h, NeedsOf(f), Cardinality(Requests(f)))

Acceptable(f, on) ==
    /\ Cardinality(Requests(f)) \in 1..MaxLines
    /\ GoodLines(f)
    /\ \A m \in Named(f) : Runnable(m, f, on)

-----------------------------------------------------------------------------
(* Properties.                                                             *)

\* One pass over the lines with its accumulators, and the gates one by one,
\* come to what the file is as a whole: the batch is validated exactly when its
\* lines are in order, their ids distinct, their models one, and some online
\* host (if there is any) would be given all of it (batch_validator.py:497-655).
VerdictIsRight ==
    pc = "done" => (verdict = "validated" <=> Acceptable(file, online))

\* The capabilities stored with a validated batch that names a model, which
\* gate its dispatch, are those of all its rows (batch_validator.py:638-639).
StoredAreNeeded ==
    pc = "done" /\ verdict = "validated" /\ Named(file) # {} => stored = NeedsOf(file)
=============================================================================
