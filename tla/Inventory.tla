------------------------------ MODULE Inventory ------------------------------
(***************************************************************************)
(* Inventory: what workers report they hold, against what the catalogue    *)
(* pins.                                                                   *)
(*                                                                         *)
(* Registration replaces a worker's rows; a heartbeat sets the runtimes'   *)
(* liveness, the union of loaded names, the rows of a full inventory       *)
(* (reconciliation.py) and the count of empty beats, in that order and in  *)
(* one commit.  The catalogue changes by adoption, by an admin or by the   *)
(* sweeper's pass over the hashes it read as quarantined, by names that    *)
(* reports teach a profile, and by the seed of every start.                *)
(*                                                                         *)
(* A runtime's rows are a function of their names (UniqueConstraint), a    *)
(* row [hash, status, entry, loaded, fresh]; "fresh" is for the properties *)
(* and says that the row was classified under the pins of today.           *)
(***************************************************************************)
EXTENDS Matching

CONSTANTS
    Workers, Ids, Hashes,
    Kinds, Labels,   \* engines, and the names that models go by
    Seeds,           \* manifests a start may find; the first start finds FirstSeed
    FirstSeed,
    Registrations,   \* of each worker: the lists of runtimes it may register
    Beats,           \* of each worker: the heartbeats it may send
    Public,          \* <<name, hash>> that the registries confirm
    MaxAdoptions, MaxSeeds

VARIABLES
    catalog, runtimes,
    pass,                    \* the auto-adopt pass: the candidates it read and has not handled
    adoptions, seeds,        \* how many there were
    \* of each worker and engine, for the properties: the last listing, the beats
    \* since, those since one that came with its liveness, and the names ever
    heard, silent, quiet, listed

ghosts == <<heard, silent, quiet, listed>>
stockVars == <<catalog, runtimes, pass, adoptions, seeds, heard, silent, quiet, listed>>

Delisting == 2     \* EMPTY_BEATS_BEFORE_DELISTING

-----------------------------------------------------------------------------
\* What is stored and what is sent.

ProfileSet == [name : Labels, extras : SUBSET Labels]
EntryOver(engines) ==
    [pin : Hashes \cup {None}, files : SUBSET Hashes, legacy : Labels, profiles : [engines -> ProfileSet]]
IsEntry(e) == DOMAIN e.profiles \subseteq Kinds /\ e \in EntryOver(DOMAIN e.profiles)

RowSet ==
    [hash : Hashes \cup {None}, status : {"available", "unregistered", "drift", "missing"},
     entry : Ids \cup {None}, loaded : BOOLEAN, fresh : BOOLEAN]
IsTable(table) == DOMAIN table \subseteq Labels /\ table \in [DOMAIN table -> RowSet]
IsRuntime(rt) ==
    /\ rt \in [engine : Kinds, ready : BOOLEAN, empty : 0 .. Delisting, models : {rt.models}]
    /\ IsTable(rt.models)

ItemSet == [engine : Kinds \cup {None}, name : Labels, hash : Hashes \cup {None}, loaded : BOOLEAN]
IsBeat(beat) ==
    /\ beat \in [up : [DOMAIN beat.up -> BOOLEAN], loaded : SUBSET Labels, items : Seq(ItemSet)]
    /\ DOMAIN beat.up \subseteq Kinds
RequestSet == [engine : Kinds, ready : BOOLEAN, models : SUBSET Labels, inventory : SUBSET ItemSet]
IsSeed(seed) ==
    /\ DOMAIN seed \subseteq Ids
    /\ \A id \in DOMAIN seed :
          /\ DOMAIN seed[id].profiles \subseteq Kinds
          /\ seed[id] \in [pin : Hashes \cup {None}, files : SUBSET Hashes, legacy : Labels,
                           profiles : [DOMAIN seed[id].profiles -> Labels]]

\* A daemon registers each engine once, and an executor lists a name once.
ASSUME StockAssumption ==
    /\ None \notin Ids \cup Hashes \cup Kinds \cup {"available", "missing"}
    /\ \A engines \in SUBSET Kinds : None \notin EntryOver(engines)
    /\ MaxAdoptions \in Nat /\ MaxSeeds \in Nat
    /\ IsSeed(FirstSeed) /\ \A seed \in Seeds : IsSeed(seed)
    /\ \A w \in Workers : \A req \in Registrations[w] :
          /\ req \in Seq(RequestSet)
          /\ \A i, j \in DOMAIN req : req[i].engine = req[j].engine => i = j
    /\ \A w \in Workers : \A beat \in Beats[w] :
          /\ IsBeat(beat)
          /\ \A j, k \in DOMAIN beat.items :
                beat.items[j].engine = beat.items[k].engine /\ beat.items[j].name = beat.items[k].name => j = k

-----------------------------------------------------------------------------
\* The catalogue.

Entries(cat) == {id \in Ids : cat[id] # None}
Targets(e) ==
    IF e.profiles = <<>> THEN {e.legacy}
    ELSE UNION {{e.profiles[r].name} \cup e.profiles[r].extras : r \in DOMAIN e.profiles}

ByHash(cat, h) == {id \in Entries(cat) : h # None /\ h \in {cat[id].pin} \cup cat[id].files}
ByName(cat, name) ==
    {id \in Entries(cat) : name = cat[id].legacy \/ \E r \in DOMAIN cat[id].profiles : cat[id].profiles[r].name = name}

\* classify_entry: the hash first; a row without one is never quarantined.
(* (Bug variant: the name first.)                                           *)
ClassifyByName(cat, name, h) ==
    CASE h = None \/ ByName(cat, name) # {} -> [status |-> "available", entry |-> None]
      [] OTHER -> [status |-> "unregistered", entry |-> None]
Classify(cat, name, h) ==
    LET found == ByHash(cat, h)
        named == ByName(cat, name)
    IN  CASE h = None    -> [status |-> "available", entry |-> None]
          [] found # {}  -> [status |-> "available", entry |-> CHOOSE id \in found : TRUE]
          [] h # None /\ found = {} /\ named = {} -> [status |-> "unregistered", entry |-> None]
          [] h # None /\ found = {} /\ named # {} ->
                [status |-> IF \A id \in named : cat[id].pin # None THEN "drift" ELSE "available",
                 entry  |-> None]

\* _ensure_serving_name: a verified artifact teaches the profile of its runtime
\* the name this box gives it.
Taught(cat, id, name, engine) ==
    IF id # None /\ name \notin Targets(cat[id]) /\ engine \in DOMAIN cat[id].profiles
    THEN [cat EXCEPT ![id].profiles[engine].extras = @ \cup {name}]
    ELSE cat

\* _sync_profiles: the manifest owns the profiles, not the names they learned.
(* (Bug variant: the profiles are written anew.)                            *)
SyncedAnew(old, wanted) == [r \in DOMAIN wanted |-> [name |-> wanted[r], extras |-> {}]]
Synced(old, wanted) ==
    [r \in DOMAIN wanted |->
        [name |-> wanted[r], extras |-> IF r \in DOMAIN old THEN old[r].extras ELSE {}]]

Written(old, new) ==
    [pin |-> new.pin, files |-> new.files, legacy |-> new.legacy,
     profiles |-> Synced(IF old = None THEN <<>> ELSE old.profiles, new.profiles)]
(* (Bug variant: what the manifest does not name is dropped.)               *)
SeededOnly(cat, seed) ==
    [id \in Ids |-> IF id \in DOMAIN seed THEN Written(cat[id], seed[id]) ELSE None]
Seeded(cat, seed) ==
    [id \in Ids |-> IF id \in DOMAIN seed THEN Written(cat[id], seed[id]) ELSE cat[id]]

-----------------------------------------------------------------------------
\* Registration.

Row(cat, name, h, loaded) ==
    LET c == Classify(cat, name, h)
    IN  [hash |-> h, status |-> c.status, entry |-> c.entry, loaded |-> loaded, fresh |-> TRUE]

Item(r, name) == CHOOSE i \in r.inventory : i.name = name
Registered(cat, r) ==
    LET hashed == {i.name : i \in r.inventory}
    IN  [engine |-> r.engine, ready |-> r.ready, empty |-> 0,
         models |-> [name \in r.models \cup hashed |->
             IF name \in hashed THEN Row(cat, name, Item(r, name).hash, Item(r, name).loaded)
                                ELSE Row(cat, name, None, FALSE)]]

Engines(rts) == {rts[i].engine : i \in DOMAIN rts}
Register(w, req) ==
    /\ runtimes' = [runtimes EXCEPT ![w] = [i \in DOMAIN req |-> Registered(catalog, req[i])]]
    /\ heard'  = [heard EXCEPT ![w] = [e \in Engines(req) |-> None]]
    /\ silent' = [silent EXCEPT ![w] = [e \in Engines(req) |-> 0]]
    /\ quiet'  = [quiet EXCEPT ![w] = [e \in Engines(req) |-> 0]]
    /\ listed' = [listed EXCEPT ![w] = [e \in Engines(req) |->
                     UNION {DOMAIN runtimes'[w][i].models : i \in {i \in DOMAIN req : req[i].engine = e}}]]
    /\ UNCHANGED <<catalog, pass, adoptions, seeds>>

-----------------------------------------------------------------------------
\* Heartbeat.  Each part takes the rows the one before it left.

Place(rts, engine) ==
    LET at == {i \in DOMAIN rts : rts[i].engine = engine}
    IN  IF at = {} THEN 1 ELSE CHOOSE i \in at : \A j \in at : j <= i

Probed(rts, beat) ==
    [i \in DOMAIN rts |-> [rts[i] EXCEPT !.ready = IF rts[i].engine \in DOMAIN beat.up
                                                   THEN beat.up[rts[i].engine] ELSE @]]

\* The loaded names carry no runtime; an unknown one is filed where the same
\* beat's inventory lists it, else under the first runtime.
KnownNames(rts) == UNION {DOMAIN rts[i].models : i \in DOMAIN rts}
Tags(beat, name) == {k \in DOMAIN beat.items : beat.items[k].name = name /\ beat.items[k].engine # None}
LastTag(beat, name) == beat.items[CHOOSE k \in Tags(beat, name) : \A j \in Tags(beat, name) : j <= k].engine
(* (Bug variant: always under the first runtime.)                           *)
TargetFirst(rts, beat, name) == 1
Target(rts, beat, name) ==
    IF Tags(beat, name) = {} THEN 1 ELSE Place(rts, LastTag(beat, name))

LitRow(row, on) == [row EXCEPT !.loaded = on]
News(rts, beat, i) == {n \in beat.loaded \ KnownNames(rts) : Target(rts, beat, n) = i}
LitTable(table, news, beat) ==
    [n \in DOMAIN table \cup news |->
        IF n \in DOMAIN table THEN LitRow(table[n], n \in beat.loaded) ELSE Row(catalog, n, None, TRUE)]
Lit(rts, beat) ==
    [i \in DOMAIN rts |-> [rts[i] EXCEPT !.models = LitTable(rts[i].models, News(rts, beat, i), beat)]]

\* apply_inventory: one item after the other, then what was not listed.
(* (Bug variants: a known row keeps its hash; its loaded flag.)             *)
HashKept(row, item) == IF row.hash # None THEN row.hash ELSE item.hash
HashNow(row, item)  == IF item.hash # None THEN item.hash ELSE row.hash
LoadedStill(row, item) == row.loaded
LoadedNow(row, item)   == item.loaded

Landed(acc, item) ==
    LET i    == Place(acc.rts, item.engine)
        old  == acc.rts[i].models
        was  == IF item.name \in DOMAIN old THEN old[item.name]
                ELSE [hash |-> item.hash, loaded |-> item.loaded]
        new  == Row(acc.cat, item.name, HashNow(was, item), LoadedNow(was, item))
    IN  [rts |-> [acc.rts EXCEPT ![i].models =
                     [n \in DOMAIN old \cup {item.name} |-> IF n = item.name THEN new ELSE old[n]]],
         cat |-> Taught(acc.cat, new.entry, item.name, acc.rts[i].engine)]

SeenAt(rts, beat, i) == {beat.items[k].name : k \in {k \in DOMAIN beat.items : Place(rts, beat.items[k].engine) = i}}
Gone(row) == [row EXCEPT !.status = "missing", !.entry = None, !.loaded = FALSE]

Swept(table, seen) ==
    [n \in DOMAIN table |-> IF seen # {} /\ n \notin seen /\ table[n].status # "missing"
                            THEN Gone(table[n]) ELSE table[n]]

\* What the first k items have led to.
Landings(start, items) ==
    LET acc[k \in 0 .. Len(items)] == IF k = 0 THEN start ELSE Landed(acc[k - 1], items[k]) IN acc

Applied(rts, beat) ==
    LET acc == Landings([rts |-> rts, cat |-> catalog], beat.items)[Len(beat.items)]
    IN  [cat |-> acc.cat,
         rts |-> [i \in DOMAIN rts |-> [acc.rts[i] EXCEPT !.models = Swept(acc.rts[i].models, SeenAt(rts, beat, i))]]]

\* Only a beat that carries the runtime's liveness, and an inventory of another,
\* is evidence that it is empty.
Tagged(beat) == {beat.items[k].engine : k \in DOMAIN beat.items} \ {None}
(* (Bug variant: a listing does not start the count again.)                 *)
EmptyBeatsOn(rt, beat) ==
    IF rt.engine \notin DOMAIN beat.up \/ Tagged(beat) \in {{}, {rt.engine}} \/ rt.engine \in Tagged(beat)
    THEN rt.empty ELSE IF rt.empty < Delisting THEN rt.empty + 1 ELSE Delisting
EmptyBeats(rt, beat) ==
    CASE rt.engine \notin DOMAIN beat.up \/ Tagged(beat) = {} -> rt.empty
      [] rt.engine \in DOMAIN beat.up /\ rt.engine \in Tagged(beat) -> 0
      [] OTHER -> IF rt.empty < Delisting THEN rt.empty + 1 ELSE Delisting

Delisted(table) ==
    [n \in DOMAIN table |-> IF table[n].status = "available" THEN [table[n] EXCEPT !.status = "missing"] ELSE table[n]]
Empty(rt, beat) == rt.engine \in DOMAIN beat.up /\ Tagged(beat) # {} /\ rt.engine \notin Tagged(beat)
Counted(rts, beat) ==
    [i \in DOMAIN rts |->
        [rts[i] EXCEPT !.empty = EmptyBeats(rts[i], beat),
                       !.models = IF Empty(rts[i], beat) /\ EmptyBeats(rts[i], beat) >= Delisting
                                  THEN Delisted(rts[i].models) ELSE rts[i].models]]

\* A daemon tags every item with the runtime that it registered; one from
\* before the tags, none.
Sends(rts, beat) == Tagged(beat) # {} => \A k \in DOMAIN beat.items : beat.items[k].engine \in Engines(rts)

\* What the properties remember of a beat.
Listing(rts, beat, e) ==
    {beat.items[k] : k \in {k \in DOMAIN beat.items : rts[Place(rts, beat.items[k].engine)].engine = e}}
Filed(rts, beat, e) ==
    {[name |-> n, hash |-> None, loaded |-> TRUE, engine |-> e] :
        n \in {n \in beat.loaded \ KnownNames(rts) : rts[Target(rts, beat, n)].engine = e}}
Further(n) == IF n < 2 THEN n + 1 ELSE 2
Heard(rts, beat, e, before) ==
    IF Listing(rts, beat, e) # {} THEN Listing(rts, beat, e)
    ELSE IF before = None THEN None ELSE before \cup Filed(rts, beat, e)
Silent(rts, beat, e, before) == IF Listing(rts, beat, e) # {} THEN 0 ELSE Further(before)
Quiet(rts, beat, e, before) ==
    IF Listing(rts, beat, e) = {} THEN Further(before)
    ELSE IF e \in DOMAIN beat.up /\ e \in Tagged(beat) THEN 0 ELSE before
Untagged(rts, beat) == {n \in beat.loaded \ KnownNames(rts) : Tags(beat, n) = {}}
Listed(rts, beat, e) ==
    {i.name : i \in Listing(rts, beat, e)} \cup (IF rts[1].engine = e THEN Untagged(rts, beat) ELSE {})

Heartbeat(w, beat) ==
    LET rts  == runtimes[w]
        done == Applied(Lit(Probed(rts, beat), beat), beat)
    IN  /\ rts # <<>> /\ Sends(rts, beat)
        /\ runtimes' = [runtimes EXCEPT ![w] = Counted(done.rts, beat)]
        /\ catalog' = done.cat
        /\ heard'  = [heard EXCEPT ![w] = [e \in Engines(rts) |-> Heard(rts, beat, e, heard[w][e])]]
        /\ silent' = [silent EXCEPT ![w] = [e \in Engines(rts) |-> Silent(rts, beat, e, silent[w][e])]]
        /\ quiet'  = [quiet EXCEPT ![w] = [e \in Engines(rts) |-> Quiet(rts, beat, e, quiet[w][e])]]
        /\ listed' = [listed EXCEPT ![w] = [e \in Engines(rts) |-> listed[w][e] \cup Listed(rts, beat, e)]]
        /\ UNCHANGED <<pass, adoptions, seeds>>

-----------------------------------------------------------------------------
\* Adoption: one entry, one profile, and every row that carries the hash is
\* classified again, whatever its status.

Rows == {p \in Workers \X (UNION {DOMAIN runtimes[w] : w \in Workers}) \X Labels :
            p[2] \in DOMAIN runtimes[p[1]] /\ p[3] \in DOMAIN runtimes[p[1]][p[2]].models}
RowAt(p) == runtimes[p[1]][p[2]].models[p[3]]
NamesFor(h) == {p[3] : p \in {p \in Rows : RowAt(p).hash = h}}

\* reclassify_hash.
Again(cat, row, name) ==
    LET c == Classify(cat, name, row.hash)
    IN  [row EXCEPT !.status = c.status, !.entry = c.entry, !.fresh = TRUE]
Rechecked(table, cat, h) == [n \in DOMAIN table |-> IF table[n].hash = h THEN Again(cat, table[n], n) ELSE table[n]]
Reclassified(cat, h) ==
    [w \in Workers |-> [i \in DOMAIN runtimes[w] |->
        [runtimes[w][i] EXCEPT !.models = Rechecked(runtimes[w][i].models, cat, h)]]]

\* A new entry has one profile, so the order in which the rows teach it is all one.
NamesAt(h, engine) == {p[3] : p \in {p \in Rows : RowAt(p).hash = h /\ runtimes[p[1]][p[2]].engine = engine}}
TaughtBy(cat, id, h) ==
    [cat EXCEPT ![id].profiles =
        [r \in DOMAIN cat[id].profiles |->
            [name   |-> cat[id].profiles[r].name,
             extras |-> cat[id].profiles[r].extras \cup (NamesAt(h, r) \ Targets(cat[id]))]]]

Adoptable(id, h, names) ==
    /\ catalog[id] = None /\ ByHash(catalog, h) = {}
    /\ NamesFor(h) # {} => names \subseteq NamesFor(h)
    /\ adoptions < MaxAdoptions

Adopt(id, h, engine, name, extras) ==
    LET cat == [catalog EXCEPT ![id] =
                  [pin |-> h, files |-> {}, legacy |-> name,
                   profiles |-> [r \in {engine} |-> [name |-> name, extras |-> extras]]]]
    IN  /\ Adoptable(id, h, {name} \cup extras)
        /\ runtimes' = Reclassified(cat, h)
        /\ catalog' = TaughtBy(cat, id, h)
        /\ adoptions' = adoptions + 1
        /\ UNCHANGED <<seeds, ghosts>>

NewId == CHOOSE id \in Ids : catalog[id] = None

AdoptByAdmin ==
    \E h \in Hashes, w \in Workers : \E i \in DOMAIN runtimes[w] : \E name \in DOMAIN runtimes[w][i].models :
        /\ Entries(catalog) # Ids
        /\ Adopt(NewId, h, runtimes[w][i].engine, name, {}) /\ UNCHANGED pass

\* The pass reads the quarantined hashes once, and adopts one after the other.
Quarantined(h) == {p \in Rows : RowAt(p).hash = h /\ RowAt(p).status = "unregistered"}
Candidate(h) ==
    [hash   |-> h,
     names  |-> {p[3] : p \in Quarantined(h)},
     engine |-> LET p == CHOOSE p \in Quarantined(h) : TRUE IN runtimes[p[1]][p[2]].engine]

AutoRead ==
    /\ pass = {} /\ adoptions < MaxAdoptions
    /\ pass' = {Candidate(h) : h \in {h \in Hashes : Quarantined(h) # {}}}
    /\ pass' # {}
    /\ UNCHANGED <<catalog, runtimes, adoptions, seeds, ghosts>>

\* What vLLM answers to is an alias, never a path; other boxes' names come along.
Served(c, confirmed) ==
    LET S == IF c.engine = "vllm" /\ c.names \cap Bare # {} THEN c.names \cap Bare ELSE confirmed
    IN  CHOOSE n \in S : TRUE
Extras(c, name) == IF c.engine = "vllm" THEN c.names \ {name} ELSE {}

AutoAdopt(c) ==
    LET confirmed == {n \in c.names : <<n, c.hash>> \in Public}
        name      == Served(c, confirmed)
    IN  /\ c \in pass /\ pass' = pass \ {c}
        /\ IF /\ confirmed # {} /\ Entries(catalog) # Ids
              /\ Adoptable(NewId, c.hash, {name} \cup Extras(c, name))
           THEN Adopt(NewId, c.hash, c.engine, name, Extras(c, name))
           ELSE UNCHANGED <<catalog, runtimes, adoptions, seeds, ghosts>>

\* A start of the backend: the entries of the manifest are written over, the
\* others left alone, no row is classified, and a pass that ran is gone.
Stale(table) == [n \in DOMAIN table |-> [table[n] EXCEPT !.fresh = FALSE]]
Seed(seed) ==
    /\ seeds < MaxSeeds /\ seeds' = seeds + 1
    /\ catalog' = Seeded(catalog, seed)
    /\ runtimes' = [w \in Workers |-> [i \in DOMAIN runtimes[w] |->
          [runtimes[w][i] EXCEPT !.models = Stale(runtimes[w][i].models)]]]
    /\ pass' = {}
    /\ UNCHANGED <<adoptions, ghosts>>

StockInit ==
    /\ catalog = Seeded([id \in Ids |-> None], FirstSeed)
    /\ runtimes = [w \in Workers |-> <<>>]
    /\ pass = {} /\ adoptions = 0 /\ seeds = 0
    /\ heard = [w \in Workers |-> <<>>] /\ silent = heard /\ quiet = heard /\ listed = heard

StockNext ==
    \/ \E w \in Workers : \E req \in Registrations[w] : Register(w, req)
    \/ \E w \in Workers : \E beat \in Beats[w] : Heartbeat(w, beat)
    \/ AdoptByAdmin
    \/ AutoRead \/ \E c \in pass : AutoAdopt(c)
    \/ \E seed \in Seeds : Seed(seed)

StockSpec == StockInit /\ [][StockNext]_stockVars

-----------------------------------------------------------------------------
\* Properties.

\* What entries and rows are made of; a row names an entry that there is.
StockTypeOK ==
    /\ DOMAIN catalog = Ids /\ \A id \in Entries(catalog) : IsEntry(catalog[id])
    /\ DOMAIN runtimes = Workers
    /\ \A w \in Workers :
          /\ runtimes[w] \in Seq({runtimes[w][i] : i \in DOMAIN runtimes[w]})
          /\ \A i \in DOMAIN runtimes[w] : IsRuntime(runtimes[w][i])
          /\ \A i, j \in DOMAIN runtimes[w] : runtimes[w][i].engine = runtimes[w][j].engine => i = j
    /\ pass \subseteq [hash : Hashes, names : SUBSET Labels, engine : Kinds]
    /\ adoptions \in 0 .. MaxAdoptions /\ seeds \in 0 .. MaxSeeds
    /\ DOMAIN heard = Workers /\ DOMAIN silent = Workers /\ DOMAIN quiet = Workers /\ DOMAIN listed = Workers
    /\ \A w \in Workers :
          /\ heard[w]  \in [Engines(runtimes[w]) -> (SUBSET ItemSet) \cup {None}]
          /\ silent[w] \in [Engines(runtimes[w]) -> 0 .. 2]
          /\ quiet[w]  \in [Engines(runtimes[w]) -> 0 .. 2]
          /\ listed[w] \in [Engines(runtimes[w]) -> SUBSET Labels]
    /\ \A p \in Rows : RowAt(p).entry # None => catalog[RowAt(p).entry] # None

\* A row of bytes that the catalogue pins is never quarantined, and bytes that
\* it does not pin are servable only under the name of an entry that pins none;
\* as long as no start has changed the pins since the row was classified.
QuarantineIsByHash ==
    \A p \in Rows :
        LET row == RowAt(p)
        IN  row.fresh /\ row.hash # None =>
               IF \E id \in Ids : catalog[id] # None /\ row.hash \in {catalog[id].pin} \cup catalog[id].files
               THEN row.status \in {"available", "missing"}
               ELSE row.status = "available" =>
                    \E id \in Ids : catalog[id] # None /\ catalog[id].pin = None /\ p[3] \in
                        {catalog[id].legacy} \cup {catalog[id].profiles[r].name : r \in DOMAIN catalog[id].profiles}

Status(w, i, n) == IF i \in DOMAIN runtimes[w] /\ n \in DOMAIN runtimes[w][i].models
                   THEN runtimes[w][i].models[n].status ELSE None
HeardNames(w, e) == IF heard[w][e] = None THEN {} ELSE {i.name : i \in heard[w][e]}

\* "One beat is not evidence": a row that its runtime has not been seen to drop
\* goes missing only when the runtime has listed nothing for two beats since it
\* last listed something in a beat that carried its liveness.
DelistsAfterTwo ==
    \A p \in Rows :
        LET w == p[1]  e == runtimes[w][p[2]].engine
        IN  /\ RowAt(p).status = "available" /\ Status(w, p[2], p[3])' = "missing"
            /\ p[3] \in HeardNames(w, e)
            /\ runtimes'[w][p[2]].engine = e /\ silent'[w][e] > 0
            => quiet'[w][e] >= 2

\* A row that went missing is servable again only because its runtime listed
\* the name, the worker registered anew, or the hash was adopted in this step.
MissingComesBackBy ==
    \A p \in Rows :
        LET w == p[1]  e == runtimes'[w][p[2]].engine
        IN  RowAt(p).status = "missing" /\ Status(w, p[2], p[3])' = "available" =>
               \/ silent'[w][e] = 0 /\ (heard'[w][e] # None => \E i \in heard'[w][e] : i.name = p[3])
               \/ adoptions' > adoptions /\ \E id \in Ids : catalog[id] = None /\ catalog'[id] # None
                                                           /\ catalog'[id].pin = RowAt(p).hash

\* A model is filed under the runtime that listed it: attaching it to the first
\* runtime would leave a second row of it there for ever.
FiledWhereListed ==
    \A p \in Rows : p[3] \in listed[p[1]][runtimes[p[1]][p[2]].engine]

\* Residence is per runtime: after a beat in which a runtime listed what it
\* has, what it listed is loaded there as it said, whatever name another runtime
\* has in memory.
LoadedIsOwn ==
    \A p \in Rows :
        LET e == runtimes[p[1]][p[2]].engine
        IN  p[3] \in HeardNames(p[1], e) /\ silent[p[1]][e] = 0 =>
               (RowAt(p).loaded <=> \E i \in heard[p[1]][e] : i.name = p[3] /\ i.loaded)

\* What a report taught a profile stays, also over a start, until the manifest
\* drops the runtime.
KeepsTaught ==
    \A id \in Entries(catalog) : \A r \in DOMAIN catalog[id].profiles :
        r \in DOMAIN catalog'[id].profiles => catalog[id].profiles[r].extras \subseteq catalog'[id].profiles[r].extras

\* What reports have taught is given up, and what they have taken back is
\* restored, only on the evidence the code promises to wait for.
ChangesOnEvidence == [][DelistsAfterTwo /\ MissingComesBackBy /\ KeepsTaught]_stockVars

View(w) ==
    [runtimes |-> [i \in DOMAIN runtimes[w] |->
        [engine |-> runtimes[w][i].engine, ready |-> runtimes[w][i].ready, caps |-> {},
         models |-> {[name |-> n, digest |-> runtimes[w][i].models[n].hash, loaded |-> runtimes[w][i].models[n].loaded,
                      status |-> runtimes[w][i].models[n].status] : n \in DOMAIN runtimes[w][i].models}]]]
Wanted(id) == [pin |-> catalog[id].pin, targets |-> Targets(catalog[id]), legacy |-> catalog[id].legacy]

\* The reproducibility guard, from the report to the poll: a name that a poll
\* would hand out for a pinned entry stands, on some ready runtime of the worker,
\* for the pinned bytes or for bytes without a hash, and the last listing of
\* that runtime does not say otherwise.
HandedBytesArePinned ==
    \A w \in Workers, id \in Entries(catalog) :
        LET e == Wanted(id)  v == View(w)
        IN  catalog[id].pin # None /\ Hosting(e, v) # {} =>
              \A name \in HandedNames(e, AdvertisedModels(v)) :
                  \E i \in DOMAIN runtimes[w] :
                      /\ runtimes[w][i].ready /\ name \in DOMAIN runtimes[w][i].models
                      /\ runtimes[w][i].models[name].status = "available"
                      /\ runtimes[w][i].models[name].hash \in {None, catalog[id].pin}
                      /\ LET said == heard[w][runtimes[w][i].engine]
                         IN  said # None => \A item \in said : item.name = name => item.hash \in {None, catalog[id].pin}

\* A row stands for the bytes that its runtime last listed under the name.
HashIsAsHeard ==
    \A p \in Rows :
        LET said == heard[p[1]][runtimes[p[1]][p[2]].engine]
        IN  said # None => \A item \in said : item.name = p[3] => item.hash \in {None, RowAt(p).hash}

\* The code never counts more empty beats than there were.
EmptyIsQuiet ==
    \A w \in Workers : \A i \in DOMAIN runtimes[w] : runtimes[w][i].empty <= quiet[w][runtimes[w][i].engine]

\* The rows are what the reports and the catalogue say, and dispatch relies on
\* no more than that.
RowsFollowReports ==
    /\ QuarantineIsByHash /\ FiledWhereListed
    /\ LoadedIsOwn /\ HashIsAsHeard /\ EmptyIsQuiet
    /\ HandedBytesArePinned
=============================================================================
