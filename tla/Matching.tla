------------------------------ MODULE Matching ------------------------------
(***************************************************************************)
(* Matching: the rules of scheduler.py, which say whether a worker may be  *)
(* given a batch, which batch a poll gets and under which name the model   *)
(* is handed to the daemon.                                                *)
(*                                                                         *)
(* An entry of the catalogue is [pin, targets, legacy, vram]: the hash it  *)
(* pins or None, the names its profiles answer to, the legacy column.  A   *)
(* model is a runtime_models row: [name, digest, status, loaded].  A       *)
(* runtime is [engine, ready, caps, models], a worker [runtimes, gpus,     *)
(* vramTotal, ramTotal, ramFree, policy], with its runtimes in the order   *)
(* the daemon was configured with.  Rows without a chosen order are sets,  *)
(* and "the first row" of one is any element.                              *)
(***************************************************************************)
EXTENDS Integers, Sequences, FiniteSets

CONSTANTS
    Bare,     \* the names without a "/"
    Hybrid,   \* the engines whose rule adds free RAM to the VRAM
    Day,      \* minutes of a day
    None

Schedulable(m) == m.status \notin {"unregistered", "drift", "missing"}

\* The row of a model is the artifact of the entry: by one of its names, unless
\* both hashes are known and differ, or by the hash under any name.
Is(entry, m) ==
    \/ m.name \in entry.targets /\ (None \in {entry.pin, m.digest} \/ entry.pin = m.digest)
    \/ entry.pin # None /\ entry.pin = m.digest

Hosts(models, entry) == \E m \in models : Is(entry, m)

Advertised(rt) == IF rt.ready THEN {m \in rt.models : Schedulable(m)} ELSE {}
AdvertisedModels(w) == UNION {Advertised(w.runtimes[i]) : i \in DOMAIN w.runtimes}
LoadedModels(w) == {m \in AdvertisedModels(w) : m.loaded}

\* The names dispatch may send for the entry to a worker that holds these rows.
(* (Bug variant: the first name, whichever it is.)                         *)
PreferFirst(names) == names
PreferBare(names) == IF names \cap Bare # {} THEN names \cap Bare ELSE names

HandedNames(entry, models) ==
    LET profiled == {m.name : m \in {x \in models : x.name \in entry.targets /\ Is(entry, x)}}
        exact    == {m.name : m \in {x \in models : Is(entry, x)}}
    IN  CASE profiled # {} -> PreferBare(profiled)
          [] profiled = {} /\ exact # {} -> PreferBare(exact)
          [] OTHER -> {entry.legacy}

\* The first runtime, in the order of the configuration, that holds the entry.
Hosting(entry, w) == {i \in DOMAIN w.runtimes : Hosts(Advertised(w.runtimes[i]), entry)}
HostingRuntime(entry, w) ==
    w.runtimes[CHOOSE i \in Hosting(entry, w) : \A j \in Hosting(entry, w) : i <= j]

Largest(w) ==
    CASE w.gpus # {} -> CHOOSE g \in w.gpus : \A h \in w.gpus : h <= g
      [] OTHER -> w.vramTotal

\* Free RAM a job may claim after the headroom, which is a fifth of the machine
\* and 4 GB at least; in fifths of a GB.
Atleast(a, b) == IF a < b THEN b ELSE a
UsableRam(w) ==
    IF w.ramFree = None THEN 0
    ELSE Atleast(5 * w.ramFree - Atleast(20, IF w.ramTotal = None THEN 0 ELSE w.ramTotal), 0)

(* (Bug variant: the cards of a machine are added up.)                      *)
FitsOnAll(entry, w, engine) ==
    LET Total[S \in SUBSET w.gpus] ==
            IF S = {} THEN 0 ELSE LET g == CHOOSE x \in S : TRUE IN g + Total[S \ {g}]
    IN  Total[w.gpus] >= entry.vram
Fits(entry, w, engine) ==
    /\ Largest(w) # None
    /\ 5 * Largest(w) + (IF engine \in Hybrid THEN UsableRam(w) ELSE 0) >= 5 * entry.vram

(* (Bug variant: a window that ends at midnight or wraps is read backwards.) *)
InWindowSameDay(p, minute) == p.start = None \/ (p.start <= minute /\ minute < p.end)
InWindow(p, minute) ==
    CASE p.start = None \/ p.end = None -> TRUE
      [] p.start # None /\ p.end # None /\ p.start < p.end -> p.start <= minute /\ minute < p.end
      [] OTHER -> p.start <= minute \/ minute < p.end

AcceptsSize(p, prompts) == None \in {p.limit, prompts} \/ prompts <= p.limit

\* Could this worker be given a batch for the entry?
(* (Bug variants: hosting is enough; the limit is not asked.)               *)
CanHost(entry, w, needs, prompts, minute) == Hosting(entry, w) # {}
CanServe(entry, w, needs, prompts, minute) ==
    /\ minute = None \/ InWindow(w.policy, minute)
    /\ AcceptsSize(w.policy, prompts)
    /\ Hosting(entry, w) # {}
    /\ LET rt == HostingRuntime(entry, w) IN needs \subseteq rt.caps /\ Fits(entry, w, rt.engine)

\* find_best_batch: of the batches in the order of their creation, those the
\* worker can serve; the first whose model is loaded, else the first.
Servable(cat, w, queue, minute) ==
    {i \in DOMAIN queue : /\ cat[queue[i].model] # None
                          /\ CanServe(cat[queue[i].model], w, queue[i].needs, queue[i].size, minute)}
Warm(cat, w, queue, S) == {i \in S : Hosts(LoadedModels(w), cat[queue[i].model])}
First(S) == CHOOSE i \in S : \A j \in S : i <= j

(* (Bug variant: the newest of those that are loaded.)                      *)
LastWarm(cat, w, queue, minute) ==
    LET S == Servable(cat, w, queue, minute)
        W == Warm(cat, w, queue, S)
    IN  CASE W # {} -> CHOOSE i \in W : \A j \in W : i >= j
          [] W = {} /\ S # {} -> First(S)
          [] OTHER -> 0
FindBest(cat, w, queue, minute) ==
    LET S == Servable(cat, w, queue, minute)
        W == Warm(cat, w, queue, S)
    IN  CASE W # {} -> First(W)
          [] W = {} /\ S # {} -> First(S)
          [] OTHER -> 0
=============================================================================
