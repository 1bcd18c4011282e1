----------------------------- MODULE Scheduling -----------------------------
(***************************************************************************)
(* Scheduling: who is given which batch, and what the pool says of it.     *)
(*                                                                         *)
(* The provider's policy of a worker (PATCH .../policy, whose requests may *)
(* overlap), heartbeats of a daemon that sends no inventory, drain and     *)
(* sweep, the poll in its two steps (match and commit, then the name to    *)
(* hand, read again after the commit), and the pool's snapshot with its    *)
(* cache, shared by callers who may see different entries.                 *)
(*                                                                         *)
(* A poll and a snapshot take place at any minute of the day, so the clock *)
(* is no variable.  The rules themselves are in Matching, the inventory a  *)
(* heartbeat may carry in Inventory, the life of a batch in Dispatch.      *)
(***************************************************************************)
EXTENDS Matching, SequencesExt

CONSTANTS
    Names, Digests,      \* of models
    RuntimeTypes, Capabilities,
    Catalog,     \* the selectable entries by id, with the org each belongs to or None
    Fleet,       \* the workers by id, as registration left them
    Batches,     \* the validated batches, oldest first
    Pings,       \* what a heartbeat of each worker may say
    Requests,    \* bodies of PATCH .../policy for each worker: the fields sent
    Admins, Offset,                      \* minutes each timezone is ahead
    Callers, Known, Sees, MinWorkers,    \* who asks the pool, who is signed in, their orgs
    Minutes,     \* UTC minutes at which polls and snapshots are made
    MaxBegun

-----------------------------------------------------------------------------
\* What the rows are made of.  Sizes are numbers of GB.

Size    == Nat \cup {None}
Model   == [name : Names, digest : Digests \cup {None}, loaded : BOOLEAN,
            status : {"available", "unregistered", "drift", "missing"}]
Runtime == [engine : RuntimeTypes, ready : BOOLEAN, caps : SUBSET Capabilities, models : SUBSET Model]
Policy  == [start : (0 .. Day - 1) \cup {None}, end : (0 .. Day - 1) \cup {None},
            tz : DOMAIN Offset \cup {None}, limit : (Nat \ {0}) \cup {None}]
Worker  == [status : {"online", "draining", "offline"}, fresh : BOOLEAN,
            gpus : {S \in SUBSET Nat : IsFiniteSet(S)},
            vramTotal : Size, ramTotal : Size, ramFree : Size,
            policy : Policy, runtimes : Seq(Runtime)]
Batch   == [model : DOMAIN Catalog, needs : SUBSET Capabilities, size : Nat]

NoPolicy == [start |-> None, end |-> None, tz |-> None, limit |-> None]
Merged(p, sent) == [f \in DOMAIN p |-> IF f \in DOMAIN sent THEN sent[f] ELSE p[f]]

\* The validator has resolved every batch to an entry; what a daemon or a
\* provider sends is of the schema's types.
ASSUME SchedulingAssumption ==
    /\ Day \in Nat \ {0} /\ None \notin Int
    /\ \A id \in DOMAIN Catalog : Catalog[id] # None /\ Catalog[id].vram \in Nat
    /\ IsFiniteSet(DOMAIN Fleet) /\ Fleet \in [DOMAIN Fleet -> Worker]
    /\ Batches \in Seq(Batch)
    /\ \A w \in DOMAIN Fleet : \A beat \in Pings[w] :
          /\ {beat.vram, beat.ram} \subseteq Size
          /\ \A engine \in DOMAIN beat.up : beat.up[engine] \in BOOLEAN
    /\ \A w \in DOMAIN Fleet : \A sent \in Requests[w] : Merged(NoPolicy, sent) \in Policy
    /\ Offset \in [DOMAIN Offset -> Int] /\ Minutes \subseteq Int

-----------------------------------------------------------------------------
VARIABLES
    workers, waiting,
    patch,                        \* what each admin's PATCH has read and not committed
    given,                        \* what each worker's poll has committed and not yet answered
    cache, call,                  \* the pool's cache, and what each caller's request holds
    begun,                        \* requests of people and polls so far
    did                           \* what the last step answered

vars == <<workers, waiting, patch, given, cache, call, begun, did>>

\* MaxBegun bounds the requests of a behaviour; heartbeats are not counted.
Begin == begun < MaxBegun /\ begun' = begun + 1 /\ did' = None

Init ==
    /\ workers = Fleet
    /\ waiting = Batches
    /\ patch = [a \in Admins |-> None]
    /\ given = [w \in DOMAIN Fleet |-> None]
    /\ cache = None /\ call = [c \in Callers |-> None]
    /\ begun = 0 /\ did = None

-----------------------------------------------------------------------------
\* Policy.  The handler reads the row, checks what the row would become and
\* writes the columns that differ from what it read.

Accepted(p) ==
    /\ None \in {p.start, p.end, p.tz} => {p.start, p.end, p.tz} = {None}
    /\ p.start = None \/ p.start # p.end

SetPolicyRead(a, w, sent) ==
    LET old == workers[w].policy
        new == Merged(old, sent)
    IN  /\ patch[a] = None /\ Begin
        /\ Accepted(new)
        /\ patch' = [patch EXCEPT ![a] =
                        [worker |-> w, columns |-> {f \in DOMAIN old : new[f] # old[f]}, new |-> new]]
        /\ UNCHANGED <<workers, waiting, given, cache, call>>

SetPolicyCommit(a) ==
    /\ patch[a] # None
    /\ LET p == patch[a]
       IN  workers' = [workers EXCEPT ![p.worker].policy =
               [f \in DOMAIN @ |-> IF f \in p.columns THEN p.new[f] ELSE @[f]]]
    /\ patch' = [patch EXCEPT ![a] = None] /\ did' = None
    /\ UNCHANGED <<waiting, given, cache, call, begun>>

-----------------------------------------------------------------------------
\* Liveness and load, as far as matching reads them.

Beaten(rt, beat) ==
    [rt EXCEPT !.ready  = IF rt.engine \in DOMAIN beat.up THEN beat.up[rt.engine] ELSE @,
               !.models = {[m EXCEPT !.loaded = m.name \in beat.loaded] : m \in @}]

Pinged(r, beat) ==
    [r EXCEPT !.status    = IF @ = "draining" THEN @ ELSE "online",
              !.fresh     = TRUE,
              !.vramTotal = beat.vram,
              !.ramFree   = IF beat.ram = None THEN @ ELSE beat.ram,
              !.runtimes  = [i \in DOMAIN @ |-> Beaten(@[i], beat)]]

Ping(w, beat) ==
    /\ workers' = [workers EXCEPT ![w] = Pinged(@, beat)]
    /\ did' = None
    /\ UNCHANGED <<waiting, patch, given, cache, call, begun>>

\* No heartbeat for HEARTBEAT_TIMEOUT_SECONDS; the sweeper sees it a minute later.
Silence(w) ==
    /\ workers[w].fresh
    /\ workers' = [workers EXCEPT ![w].fresh = FALSE] /\ Begin
    /\ UNCHANGED <<waiting, patch, given, cache, call>>

SetStatus(w, from, to) ==
    /\ workers[w].status \in from
    /\ workers' = [workers EXCEPT ![w].status = to] /\ Begin
    /\ UNCHANGED <<waiting, patch, given, cache, call>>

Drain(w)   == SetStatus(w, {"online", "draining"}, "draining")
Undrain(w) == SetStatus(w, {"draining"}, "online")
Sweep(w)   == ~workers[w].fresh /\ SetStatus(w, {"online", "draining"}, "offline")

-----------------------------------------------------------------------------
\* Poll.  The worker's clock; a window whose timezone is gone makes in_window
\* raise, and with it every poll and snapshot that asks this worker.

Clock(w, utc) == IF w.policy.tz = None THEN utc ELSE (utc + Offset[w.policy.tz]) % Day
Raises(w) == None \notin {w.policy.start, w.policy.end} /\ w.policy.tz = None

PollMatch(w, utc) ==
    LET i == FindBest(Catalog, workers[w], waiting, Clock(workers[w], utc))
    IN  /\ given[w] = None /\ workers[w].status # "draining" /\ ~Raises(workers[w])
        /\ i # 0
        /\ given' = [given EXCEPT ![w] = [batch |-> waiting[i], utc |-> utc]]
        /\ waiting' = RemoveAt(waiting, i) /\ Begin
        /\ UNCHANGED <<workers, patch, cache, call>>

\* The commit has expired what the session held: the rows are read again.
PollAnswer(w) ==
    /\ given[w] # None
    /\ LET b == given[w].batch
       IN  \E name \in HandedNames(Catalog[b.model], AdvertisedModels(workers[w])) :
              did' = [kind |-> "job", worker |-> w, batch |-> b, name |-> name]
    /\ given' = [given EXCEPT ![w] = None]
    /\ UNCHANGED <<workers, waiting, patch, cache, call, begun>>

-----------------------------------------------------------------------------
\* GET /pool/capacity.

Online == {w \in DOMAIN workers : workers[w].status = "online" /\ workers[w].fresh}
(* (Bug variant: the hours are not asked.)                                  *)
AbleAnytime(m, needs, utc) == {w \in Online : CanServe(Catalog[m], workers[w], needs, None, None)}
Able(m, needs, utc) ==
    {w \in Online : CanServe(Catalog[m], workers[w], needs, None, Clock(workers[w], utc))}

\* serving_runtimes and _capabilities ask can_serve, _is_loaded the scheduler's _hosts.
Shown(m, utc) ==
    [id      |-> m,
     loaded  |-> \E w \in Online : Hosts(LoadedModels(workers[w]), Catalog[m]),
     caps    |-> {k \in Capabilities : Able(m, {k}, utc) # {}},
     engines |-> {HostingRuntime(Catalog[m], workers[w]).engine : w \in Able(m, {}, utc)}]

ServableNow(utc) == {m \in DOMAIN Catalog : Able(m, {}, utc) # {}}

\* "at" and "all" are when and of what the snapshot was made, for the properties.
Snapshot(utc) ==
    [online   |-> Cardinality(Online),
     servable |-> {Shown(m, utc) : m \in ServableNow(utc)},
     at       |-> utc,
     all      |-> ServableNow(utc)]

Visible(c, shown) == {s \in shown : Catalog[s.id].org \in {None} \cup Sees[c]}

(* (Bug variant: the snapshot is filtered before it is kept.)               *)
KeptFiltered(c, snap) == [snap EXCEPT !.servable = Visible(c, @)]
Kept(c, snap) == snap

\* A request that finds no fresh snapshot computes one, outside the lock.
Ask(c, utc) ==
    /\ call[c] = None /\ Begin
    /\ IF cache # None
       THEN call' = [call EXCEPT ![c] = [snap |-> cache, computed |-> FALSE]]
       ELSE /\ \A w \in Online : ~Raises(workers[w])
            /\ call' = [call EXCEPT ![c] = [snap |-> Snapshot(utc), computed |-> TRUE]]
    /\ UNCHANGED <<workers, waiting, patch, given, cache>>

Store(c) ==
    /\ call[c] # None /\ call[c].computed
    /\ cache' = Kept(c, call[c].snap)
    /\ call' = [call EXCEPT ![c] = [snap |-> cache', computed |-> FALSE]] /\ did' = None
    /\ UNCHANGED <<workers, waiting, patch, given, begun>>

Expire ==
    /\ cache # None /\ cache' = None /\ did' = None
    /\ UNCHANGED <<workers, waiting, patch, given, call, begun>>

Reply(c) ==
    /\ call[c] # None /\ ~call[c].computed
    /\ did' = [kind |-> "pool", caller |-> c, from |-> call[c].snap,
               servable |-> Visible(c, call[c].snap.servable),
               hardware |-> c \in Known /\ call[c].snap.online >= MinWorkers]
    /\ call' = [call EXCEPT ![c] = None]
    /\ UNCHANGED <<workers, waiting, patch, given, cache, begun>>

-----------------------------------------------------------------------------
WorkerStep(w) ==
    \/ \E beat \in Pings[w] : Ping(w, beat)
    \/ Silence(w) \/ Sweep(w)
    \/ \E utc \in Minutes : PollMatch(w, utc)
    \/ PollAnswer(w)

ProviderStep(a) ==
    \/ \E w \in DOMAIN Fleet : \E sent \in Requests[w] : SetPolicyRead(a, w, sent)
    \/ SetPolicyCommit(a)
    \/ \E w \in DOMAIN Fleet : Drain(w) \/ Undrain(w)

CallerStep(c) == (\E utc \in Minutes : Ask(c, utc)) \/ Store(c) \/ Reply(c)

Next ==
    \/ \E w \in DOMAIN Fleet : WorkerStep(w)
    \/ \E a \in Admins : ProviderStep(a)
    \/ \E c \in Callers : CallerStep(c)
    \/ Expire

Spec == Init /\ [][Next]_vars
-----------------------------------------------------------------------------
\* Properties.  Their references are written from the words of the source, not
\* from the operators of Matching.

\* What a PATCH, a poll and a snapshot hold between their steps: a batch that
\* is waiting or given is one of those that were, and an entry is shown with the
\* engines that serve it.
Queued == {Batches[i] : i \in DOMAIN Batches}
Patch  == [worker : DOMAIN Fleet, columns : SUBSET DOMAIN NoPolicy, new : Policy]
Given  == [batch : Queued, utc : Minutes]
Shows  == [id : DOMAIN Catalog, loaded : BOOLEAN, caps : SUBSET Capabilities,
           engines : (SUBSET RuntimeTypes) \ {{}}]
Snap   == [online : Nat, servable : SUBSET Shows, at : Minutes, all : SUBSET DOMAIN Catalog]

TypeOK ==
    /\ workers \in [DOMAIN Fleet -> Worker]
    /\ waiting \in Seq(Queued)
    /\ patch \in [Admins -> Patch \cup {None}]
    /\ given \in [DOMAIN Fleet -> Given \cup {None}]
    /\ call \in [Callers -> [snap : Snap, computed : BOOLEAN] \cup {None}]
    /\ cache \in Snap \cup {None}

\* The minutes of a window, by walking the clock from its start to its end.
Walk(p) == {(p.start + k) % Day : k \in 0 .. ((p.end - p.start) % Day) - 1}
InHours(w, utc) ==
    LET p == workers[w].policy
    IN  None \in {p.start, p.end, p.tz} \/ p.start = p.end \/ (utc + Offset[p.tz]) % Day \in Walk(p)

\* The rows that hold an entry: the same file where both hashes are known.
Holds(rt, e) ==
    \E m \in rt.models : /\ m.status = "available"
                         /\ IF e.pin = None \/ m.digest = None THEN m.name \in e.targets
                                                               ELSE m.digest = e.pin

\* One card holds the model by itself; only a runtime that splits it may add
\* what is left of the free RAM after 4 GB or a fifth of the machine.
Memory(w, rt) ==
    LET card == IF w.gpus = {} THEN w.vramTotal ELSE CHOOSE g \in w.gpus : \A h \in w.gpus : h <= g
        kept == IF w.ramTotal # None /\ w.ramTotal > 20 THEN w.ramTotal ELSE 20
        left == IF w.ramFree # None /\ 5 * w.ramFree > kept THEN 5 * w.ramFree - kept ELSE 0
    IN  IF card = None THEN -1 ELSE 5 * card + (IF rt.engine \in Hybrid THEN left ELSE 0)

\* The worker's first runtime that holds an entry is the only one asked.
FirstHolds(w, b) ==
    \E i \in DOMAIN w.runtimes :
        /\ w.runtimes[i].ready /\ Holds(w.runtimes[i], Catalog[b.model])
        /\ \A j \in 1 .. i - 1 : ~(w.runtimes[j].ready /\ Holds(w.runtimes[j], Catalog[b.model]))
        /\ b.needs \subseteq w.runtimes[i].caps
        /\ 5 * Catalog[b.model].vram <= Memory(w, w.runtimes[i])

Takes(w, b, utc) ==
    /\ InHours(w, utc) /\ FirstHolds(workers[w], b)
    /\ workers[w].policy.limit # None => b.size <= workers[w].policy.limit
IsLoaded(w, b) ==
    \E i \in DOMAIN workers[w].runtimes :
        LET rt == workers[w].runtimes[i]
        IN  rt.ready /\ Holds([rt EXCEPT !.models = {m \in @ : m.loaded}], Catalog[b.model])

\* "Prefer batches whose model is already loaded, fall back to the oldest", and
\* only in the hours the provider has set, on the provider's clock ("a start
\* later than the end wraps past midnight"):
\* whatever older batch a poll passes over could not run there, or was not
\* loaded while the chosen one is; and a poll that gets nothing leaves nothing
\* behind that it could have had.
PicksInOrder ==
    \A w \in DOMAIN workers, utc \in Minutes : ~Raises(workers[w]) =>
        LET i    == FindBest(Catalog, workers[w], waiting, Clock(workers[w], utc))
            can  == {j \in DOMAIN waiting : Takes(w, waiting[j], utc)}
            warm == {j \in can : IsLoaded(w, waiting[j])}
            best == IF warm # {} THEN warm ELSE can
        IN  IF best = {} THEN i = 0 ELSE i \in best /\ \A j \in best : i <= j

Held(w, e) ==
    UNION {{m.name : m \in {x \in w.runtimes[i].models : Holds([w.runtimes[i] EXCEPT !.models = {x}], e)}}
              : i \in {i \in DOMAIN w.runtimes : w.runtimes[i].ready}}

\* The name handed to the daemon is one under which the worker holds the
\* artifact when the answer is written, an alias before a repository path if it
\* has both; the legacy name goes out only when a heartbeat between the commit
\* and the answer has taken the artifact away.
HandedIsHeld ==
    did # None /\ did.kind = "job" =>
        LET e == Catalog[did.batch.model]
            H == Held(workers[did.worker], e)
        IN  IF H = {} THEN did.name = e.legacy
            ELSE did.name \in H /\ (H \cap e.targets \cap Bare # {} => did.name \in Bare)

\* An entry that a snapshot shows, with a capability it shows, is one that the
\* poll of some worker who is there would be given at that minute.
ShownRuns ==
    \A c \in Callers : call[c] = None /\ call'[c] # None /\ call'[c].computed =>
        LET snap == call'[c].snap
            Runs(m, needs) == \E w \in DOMAIN workers :
                /\ workers[w].status = "online" /\ workers[w].fresh
                /\ Takes(w, [model |-> m, needs |-> needs, size |-> 1], snap.at)
        IN  \A s \in snap.servable : Runs(s.id, {}) /\ \A k \in s.caps : Runs(s.id, {k})

\* Whoever filled the cache, a caller is shown every servable entry that is
\* public or of an organization of theirs and no other, and the hardware only
\* when signed in and the pool is large enough to hide in.
AnswerIsForCaller ==
    did # None /\ did.kind = "pool" =>
        /\ {s.id : s \in did.servable} =
              {m \in did.from.all : Catalog[m].org = None \/ Catalog[m].org \in Sees[did.caller]}
        /\ did.hardware => did.caller \in Known /\ did.from.online >= MinWorkers

\* "The capacity a user is shown can never claim a model the scheduler would
\* refuse to dispatch" (can_serve), and one cache serves everybody (pool.py).
PoolTellsTheTruth == [][ShownRuns /\ AnswerIsForCaller']_vars
=============================================================================
