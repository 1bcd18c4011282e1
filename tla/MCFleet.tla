------------------------------- MODULE MCFleet ------------------------------
(***************************************************************************)
(* The backend's view of the workers, in its two halves: the rows and the  *)
(* catalogue that reports lead to (Inventory), and what polls and the pool *)
(* make of rows, policies and the catalogue (Scheduling).                  *)
(*                                                                         *)
(* Scheduling takes any rows, so the two are run side by side: a behaviour *)
(* of this module is a behaviour of one of them.                           *)
(***************************************************************************)
EXTENDS Inventory, Scheduling

VARIABLE side     \* the module whose behaviour this is

-----------------------------------------------------------------------------
(* Inventory.  A worker with two runtimes that hold copies of a pinned      *)
(* model under two names, and other bytes under its name; a worker whose    *)
(* model no entry pins.  A new start pins another hash.                     *)

Entry(pin, files, legacy, profiles) ==
    [pin |-> pin, files |-> files, legacy |-> legacy, profiles |-> profiles]
OneEntry == [qwen |-> Entry("h1", {}, "q", [ollama |-> "q", vllm |-> "O/q"])]
OtherPin == {[qwen |-> Entry("h3", {"h1"}, "q", [vllm |-> "O/q"])]}

Report(engine, name, hash, loaded) ==
    [engine |-> engine, name |-> name, hash |-> hash, loaded |-> loaded]
Registering(engine, models, inventory) ==
    [engine |-> engine, ready |-> TRUE, models |-> models, inventory |-> inventory]
TwoWorkers ==
    [w1 |-> {<<Registering("vllm", {"O/q"}, {}),
               Registering("ollama", {"q"}, {Report("ollama", "q", "h1", FALSE)})>>},
     w2 |-> {<<Registering("ollama", {}, {Report("ollama", "z", "h2", FALSE)})>>}]

Beat(alive, loaded, items) == [up |-> alive, loaded |-> loaded, items |-> items]
BothUp == [vllm |-> TRUE, ollama |-> TRUE]
SomeBeats ==
    [w1 |-> {Beat(BothUp, {"A", "q"}, <<Report("vllm", "A", "h1", TRUE), Report("ollama", "q", "h1", FALSE)>>),
             Beat(BothUp, {"z"}, <<Report("ollama", "z", "h2", TRUE), Report("ollama", "q", "h3", FALSE)>>),
             Beat([BothUp EXCEPT !.vllm = FALSE], {"A"}, <<Report("vllm", "A", "h2", TRUE)>>),
             Beat(<<>>, {"A"}, <<Report("vllm", "A", "h2", TRUE)>>)},
     w2 |-> {Beat([ollama |-> TRUE], {"z"}, <<Report(None, "z", "h2", TRUE)>>),
             Beat([ollama |-> TRUE], {"y"}, <<Report("ollama", "w", "h2", FALSE), Report("ollama", "y", None, FALSE)>>)}]
Confirmed == {<<"z", "h2">>, <<"A", "h2">>}

-----------------------------------------------------------------------------
(* Scheduling.  A machine with two cards and two runtimes, of which the     *)
(* first offers log probabilities, and one that adds RAM to its card; a     *)
(* public entry without a pin and a pinned one of an organization.  The     *)
(* days have four minutes, and windows wrap.                                *)

Reported(name, digest, status, loaded) ==
    [name |-> name, digest |-> digest, status |-> status, loaded |-> loaded]
Has(engine, caps, models) == [engine |-> engine, ready |-> TRUE, caps |-> caps, models |-> models]

TwoEntries ==
    [qwen |-> [pin |-> None, targets |-> {"q:4", "Q/4"}, legacy |-> "q:4", vram |-> 10, org |-> None],
     big  |-> [pin |-> "h", targets |-> {"b:1"}, legacy |-> "b:1", vram |-> 20, org |-> "lab"]]
Machines ==
    [w1 |-> [status |-> "online", fresh |-> TRUE, gpus |-> {12, 8},
             vramTotal |-> None, ramTotal |-> 16, ramFree |-> None,
             policy |-> [start |-> 1, end |-> 0, tz |-> "utc", limit |-> None],
             runtimes |-> <<Has("vllm", {"logprobs"}, {Reported("Q/4", None, "available", TRUE)}),
                            Has("ollama", {}, {Reported("q:4", None, "available", FALSE),
                                               Reported("b:1", "x", "drift", FALSE)})>>],
     w2 |-> [status |-> "online", fresh |-> TRUE, gpus |-> {},
             vramTotal |-> 8, ramTotal |-> 32, ramFree |-> 16,
             policy |-> NoPolicy,
             runtimes |-> <<Has("llamacpp", {"logprobs"},
                                {Reported("b:1", "x", "available", TRUE),
                                 Reported("L/b", "h", "available", FALSE),
                                 Reported("q:4", "y", "available", FALSE)})>>]]
ThreeBatches == <<[model |-> "qwen", needs |-> {}, size |-> 2], [model |-> "big", needs |-> {}, size |-> 1],
                  [model |-> "qwen", needs |-> {"logprobs"}, size |-> 1]>>
Pinging(loaded, alive, vram, ram) == [loaded |-> loaded, up |-> alive, vram |-> vram, ram |-> ram]
SomePings == [w1 |-> {Pinging({"Q/4"}, [BothUp EXCEPT !.vllm = FALSE], 24, None), Pinging({"q:4"}, BothUp, 24, 8)},
              w2 |-> {Pinging({"L/b"}, <<>>, 8, 28)}]
Patches == [w1 |-> {[start |-> 3], [end |-> 3], [limit |-> 1], [start |-> 2, end |-> 3, tz |-> "ist"],
                    [start |-> None, end |-> None, tz |-> None]},
            w2 |-> {}]
Zones == [utc |-> 0, ist |-> 2]
Organizations == [anon |-> {}, mem |-> {"lab"}]

-----------------------------------------------------------------------------
FleetInit == side \in {"inventory", "scheduling"} /\ StockInit /\ Init

FleetNext ==
    \/ side = "inventory" /\ StockNext /\ UNCHANGED <<vars, side>>
    \/ side = "scheduling" /\ Next /\ UNCHANGED <<stockVars, side>>

fleet == <<stockVars, vars, side>>
FleetSpec == FleetInit /\ [][FleetNext]_fleet

-----------------------------------------------------------------------------
\* The state of each module is of its type.
FleetTypeOK ==
    CASE side = "inventory" -> StockTypeOK
      [] side = "scheduling" -> TypeOK
=============================================================================
