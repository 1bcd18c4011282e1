------------------------------ MODULE Routing ------------------------------
(***************************************************************************)
(* Routing: to which of its runtimes a daemon sends a job.                 *)
(*                                                                         *)
(* The model-to-runtime map is built by listing one runtime after the      *)
(* other, with an await at each, by two tasks that may overlap: the        *)
(* heartbeat, when a probe sees a runtime come or go, and the job, when    *)
(* the map does not have its model.  A job then makes sure the model is    *)
(* there (ModelManager, for the runtimes that can pull), or pulls it where *)
(* nothing lists it, and runs.  Runtimes stop, start, lose and gain models *)
(* at any moment.  None of the executors' list_models raises: a listing    *)
(* that fails is empty.                                                    *)
(***************************************************************************)
EXTENDS Absent, Naturals, Sequences

CONSTANTS
    Order,      \* the runtimes in the order of the configuration
    Managers,   \* those that declare a fetch path, in the same order
    Models,
    MaxJobs, MaxEvents

VARIABLES
    up, has,             \* the world: is a runtime reachable, what does it hold
    live, routes,        \* Worker._runtime_live, Worker._model_runtimes
    scan,                \* the map each task is building: [at, map] or None
    known,               \* ModelManager._available_models
    job,                 \* [model, phase, at, tried] or None
    jobs, events, did,   \* bounds, and what became of the job
    last, relisted, everListed, overlapped    \* history, for the properties

world == <<up, has, events>>
history == <<last, relisted, everListed, overlapped>>
routeVars == <<up, has, live, routes, scan, known, job, jobs, events, did, history>>

Runtimes == {Order[i] : i \in DOMAIN Order}
Tasks == {"heartbeat", "job"}
Maps == [Models -> Runtimes \cup {None}]
Scans == [at : DOMAIN Order, map : Maps]
Jobs == [model : Models, phase : {"route", "scan", "ensure", "pull", "verify", "run"},
         at : Runtimes \cup {None}, tried : 0 .. Len(Managers)]

\* The configuration names each runtime once, and at least one.
RoutingAssumption ==
    /\ Order \in Seq(Runtimes) /\ Order # <<>>
    /\ \A i, j \in DOMAIN Order : Order[i] = Order[j] => i = j
    /\ Managers \in Seq(Runtimes)
    /\ None \notin Runtimes \cup Scans \cup Jobs

\* What a listing of a runtime may return.
Lists(r) == {{}, IF up[r] THEN has[r] ELSE {}}

Empty == [m \in Models |-> None]

\* First writer wins, in the order of the configuration.
(* (Bug variant: the last one does.)                                        *)
ClaimedLast(map, r, listed) == [m \in Models |-> IF m \in listed THEN r ELSE map[m]]
Claimed(map, r, listed) == [m \in Models |-> IF m \in listed /\ map[m] = None THEN r ELSE map[m]]

\* wait_for_runtimes has probed, and built the map once.
RouteInit ==
    /\ up \in [Runtimes -> BOOLEAN] /\ has \in [Runtimes -> SUBSET Models]
    /\ live = up /\ last = [r \in Runtimes |-> IF up[r] THEN has[r] ELSE {}]
    /\ routes = [m \in Models |->
          LET C == {i \in DOMAIN Order : m \in last[Order[i]]}
          IN  IF C = {} THEN None ELSE Order[CHOOSE i \in C : \A j \in C : i <= j]]
    /\ scan = [t \in Tasks |-> None] /\ known = [r \in Runtimes |-> {}]
    /\ job = None /\ jobs = 0 /\ events = 0 /\ did = None
    /\ relisted = [r \in Runtimes |-> TRUE]
    /\ everListed = UNION {{r} \X last[r] : r \in Runtimes}
    /\ overlapped = FALSE

-----------------------------------------------------------------------------
\* The world.

Event ==
    /\ events < MaxEvents /\ events' = events + 1
    /\ \E r \in Runtimes :
          \/ up' = [up EXCEPT ![r] = ~@] /\ UNCHANGED has
          \/ \E S \in SUBSET Models : S # has[r] /\ has' = [has EXCEPT ![r] = S] /\ UNCHANGED up
    /\ UNCHANGED <<live, routes, scan, known, job, jobs, did, history>>

-----------------------------------------------------------------------------
\* Scans: _refresh_model_map.

Begun(t) == [scan EXCEPT ![t] = [at |-> 1, map |-> Empty]]
Overlaps(t) == overlapped \/ \E u \in Tasks \ {t} : scan[u] # None

\* One list_models; the last one replaces the map in the same step.
List(t) ==
    /\ scan[t] # None
    /\ LET r == Order[scan[t].at]
       IN  \E listed \in Lists(r) :
             LET map == Claimed(scan[t].map, r, listed)
             IN  /\ IF scan[t].at = Len(Order)
                    THEN scan' = [scan EXCEPT ![t] = None] /\ routes' = map
                    ELSE scan' = [scan EXCEPT ![t] = [at |-> @.at + 1, map |-> map]] /\ UNCHANGED routes
                 /\ last' = [last EXCEPT ![r] = listed]
                 /\ relisted' = [relisted EXCEPT ![r] = TRUE]
                 /\ everListed' = everListed \cup ({r} \X listed)
    /\ UNCHANGED <<up, has, live, known, job, jobs, events, did, overlapped>>

\* _get_runtime_statuses: the probes are gathered; a change, either way,
\* rebuilds the map.
(* (Bug variant: only a runtime that went away is a change.)                *)
RebuildsDown(was, is) == \E r \in Runtimes : was[r] /\ ~is[r]
Rebuilds(was, is) == was # is

Probe ==
    /\ scan["heartbeat"] = None /\ live # up
    /\ live' = up
    /\ scan' = IF Rebuilds(live, up) THEN Begun("heartbeat") ELSE scan
    /\ overlapped' = Overlaps("heartbeat")
    /\ relisted' = [r \in Runtimes |-> relisted[r] /\ (up[r] => live[r])]
    /\ UNCHANGED <<up, has, routes, known, job, jobs, events, did, last, everListed>>

-----------------------------------------------------------------------------
\* The job: _execute_job, steps 0 and 0b.

Unchanged == UNCHANGED <<up, has, live, routes, events, last, relisted, everListed>>

Start ==
    /\ job = None /\ jobs < MaxJobs /\ jobs' = jobs + 1
    /\ \E m \in Models : job' = [model |-> m, phase |-> "route", at |-> None, tried |-> 0]
    /\ did' = None
    /\ Unchanged /\ UNCHANGED <<scan, known, overlapped>>

\* A single runtime takes everything; else the map says.
Owner(m) == IF Len(Order) = 1 THEN Order[1] ELSE routes[m]

To(phase, at, tried) == job' = [job EXCEPT !.phase = phase, !.at = at, !.tried = tried]
End(outcome) == job' = None /\ did' = outcome

Route ==
    /\ job # None /\ job.phase = "route"
    /\ IF Owner(job.model) # None
       THEN To("ensure", Owner(job.model), 0) /\ UNCHANGED <<scan, overlapped>>
       ELSE /\ To("scan", None, job.tried)
            /\ scan' = Begun("job") /\ overlapped' = Overlaps("job")
    /\ Unchanged /\ UNCHANGED <<known, jobs, did>>

\* The next runtime that can pull, or none is left and the job is reported.
(* (Bug variant: the map is asked again instead.)                           *)
NextTryAgain == To("route", None, job.tried) /\ UNCHANGED did
NextTry ==
    IF job.tried < Len(Managers)
    THEN To("ensure", Managers[job.tried + 1], job.tried + 1) /\ UNCHANGED did
    ELSE End([kind |-> "reported", model |-> job.model])

Resolve ==
    /\ job # None /\ job.phase = "scan" /\ scan["job"] = None
    /\ IF Owner(job.model) # None THEN To("ensure", Owner(job.model), 0) /\ UNCHANGED did ELSE NextTry
    /\ Unchanged /\ UNCHANGED <<scan, known, jobs, overlapped>>

\* ensure_model: known, listed, pulled, and listed once more.  A job that was
\* routed runs; one whose model was pulled is routed now.
Ensured == IF job.tried = 0 THEN To("run", job.at, 0) ELSE To("route", None, job.tried)
Missing == IF job.tried = 0 THEN End([kind |-> "reported", model |-> job.model]) ELSE NextTry

Pulls(r) == \E i \in DOMAIN Managers : Managers[i] = r

\* refresh_models: the manager of a runtime asks what it holds.
RefreshModels(r, listed) ==
    /\ known' = [known EXCEPT ![r] = listed]
    /\ everListed' = everListed \cup ({r} \X listed)

Ensure ==
    /\ job # None /\ job.phase = "ensure"
    /\ IF ~Pulls(job.at) THEN To("run", job.at, 0) /\ UNCHANGED <<known, everListed>>
       ELSE IF job.model \in known[job.at] THEN Ensured /\ UNCHANGED <<known, everListed>>
       ELSE \E listed \in Lists(job.at) :
              /\ RefreshModels(job.at, listed)
              /\ IF job.model \in listed THEN Ensured ELSE To("pull", job.at, job.tried)
    /\ UNCHANGED <<up, has, live, routes, events, last, relisted, scan, jobs, did, overlapped>>

\* The stream may end well without the model being whole.
Pull ==
    /\ job # None /\ job.phase = "pull"
    /\ \/ up[job.at] /\ To("verify", job.at, job.tried) /\ UNCHANGED did
          /\ \E S \in {{}, {job.model}} : has' = [has EXCEPT ![job.at] = @ \cup S]
       \/ Missing /\ UNCHANGED has
    /\ UNCHANGED <<up, live, routes, events, last, relisted, everListed>>
    /\ UNCHANGED <<scan, known, jobs, overlapped>>

Verify ==
    /\ job # None /\ job.phase = "verify"
    /\ \E listed \in Lists(job.at) :
          /\ RefreshModels(job.at, listed)
          /\ IF job.model \in listed THEN Ensured /\ UNCHANGED did ELSE Missing
    /\ UNCHANGED <<up, has, live, routes, events, last, relisted>>
    /\ UNCHANGED <<scan, jobs, overlapped>>

Run ==
    /\ job # None /\ job.phase = "run"
    /\ End([kind |-> "run", model |-> job.model, at |-> job.at])
    /\ Unchanged /\ UNCHANGED <<scan, known, jobs, overlapped>>

JobStep == Route \/ Resolve \/ Ensure \/ Pull \/ Verify \/ Run

RouteNext == Event \/ Probe \/ Start \/ JobStep \/ \E t \in Tasks : List(t)

\* The event loop runs every task; nothing is assumed of the runtimes.
RouteFairness == WF_routeVars(JobStep) /\ \A t \in Tasks : WF_routeVars(List(t))
RouteSpec == RouteInit /\ [][RouteNext]_routeVars
FairRoute == RouteSpec /\ RouteFairness

-----------------------------------------------------------------------------
\* Properties.

\* What the map, the scans and the job are made of.
RouteTypeOK ==
    /\ routes \in Maps /\ scan \in [Tasks -> Scans \cup {None}] /\ job \in Jobs \cup {None}
    /\ \A t \in Tasks : scan[t] # None =>
          \A m \in Models : scan[t].map[m] # None =>
              \E i \in 1 .. scan[t].at - 1 : scan[t].map[m] = Order[i]
    /\ job # None /\ job.phase \in {"ensure", "pull", "verify", "run"} => job.at \in Runtimes

FirstOf(m) ==
    LET C == {i \in DOMAIN Order : m \in last[Order[i]]}
    IN  IF C = {} THEN None ELSE Order[CHOOSE i \in C : \A j \in C : i <= j]
Still == \A t \in Tasks : scan[t] = None

\* "First writer wins in config order": as long as no two scans have
\* overlapped, the map is what the last scan was told, and a name that two
\* runtimes claim goes to the first.
MapIsLastScan == Still /\ ~overlapped => \A m \in Models : routes[m] = FirstOf(m)

\* "A runtime that comes back also needs its models routable again": once the
\* heartbeat that saw it come back has finished, it has been listed since.
ReturnIsListed == Still => \A r \in Runtimes : live[r] => relisted[r]

\* A job runs only on a runtime that has said it holds the model, at some time;
\* never on the word of a pull, or on a guess.  The one runtime of a worker
\* that cannot pull is the exception: it refuses the rows itself.
RunsWhereListed ==
    did # None /\ did.kind = "run" =>
        <<did.at, did.model>> \in everListed \/ (Len(Order) = 1 /\ ~Pulls(did.at))

\* The routes and the runs rest on what runtimes have listed, not on guesses.
RoutesAreListings == MapIsLastScan /\ ReturnIsListed /\ RunsWhereListed

\* Every job is run or reported, whatever runtimes do meanwhile.
JobIsSettled == job # None ~> job = None
=============================================================================
