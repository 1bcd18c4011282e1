----------------------------- MODULE JobsProofs -----------------------------
(***************************************************************************)
(* What is proved of Routing, for every list of runtimes and every set of  *)
(* models: the map is what the last scan was told, a runtime that came     *)
(* back has been listed, and a job runs where its model has been listed.   *)
(* And, last, that what is proved of intake, of routing and of the prompts *)
(* holds where the three are run side by side.                             *)
(***************************************************************************)
EXTENDS MCJobs, IntakeProofs, PromptPoolProofs

-----------------------------------------------------------------------------
(* The inductive invariant.                                                *)

Types ==
    /\ up \in [Runtimes -> BOOLEAN] /\ live \in [Runtimes -> BOOLEAN]
    /\ relisted \in [Runtimes -> BOOLEAN] /\ overlapped \in BOOLEAN
    /\ has \in [Runtimes -> SUBSET Models] /\ last \in [Runtimes -> SUBSET Models]
    /\ known \in [Runtimes -> SUBSET Models]

(* Every route, every entry of a scan and all a manager knows has been      *)
(* listed at some time.                                                     *)
Founded ==
    /\ \A m \in Models : routes[m] # None => <<routes[m], m>> \in everListed
    /\ \A t \in Tasks : scan[t] # None =>
          \A m \in Models : scan[t].map[m] # None => <<scan[t].map[m], m>> \in everListed
    /\ \A r \in Runtimes : \A m \in known[r] : <<r, m>> \in everListed

(* Where the job may run, and what brings it there: it is sent to a runtime *)
(* by a route (or because there is only one), or tried at one that pulls.   *)
Sound(r, m) == <<r, m>> \in everListed \/ (Len(Order) = 1 /\ ~Pulls(r))

JobIsSound ==
    job # None =>
        /\ job.phase \in {"pull", "verify"} => Pulls(job.at)
        /\ job.phase = "ensure" =>
              IF job.tried = 0 THEN Len(Order) = 1 \/ <<job.at, job.model>> \in everListed
                               ELSE Pulls(job.at)
        /\ job.phase = "run" => Sound(job.at, job.model)

ScanOfJob == scan["job"] # None => job # None /\ job.phase = "scan"

(* A runtime that is live has been listed since it came back, or the scan   *)
(* of the heartbeat has it before it.                                       *)
ListedOrAhead ==
    \A r \in Runtimes : live[r] /\ ~relisted[r] =>
        /\ scan["heartbeat"] # None
        /\ \E i \in scan["heartbeat"].at .. Len(Order) : r = Order[i]

(* What a scan has so far is what the runtimes behind it last listed.       *)
FirstUpTo(n, m, r) ==
    IF r = None THEN \A i \in 1 .. n : m \notin last[Order[i]]
    ELSE \E i \in 1 .. n : /\ r = Order[i] /\ m \in last[r]
                           /\ \A j \in 1 .. i - 1 : m \notin last[Order[j]]

OneScan ==
    ~overlapped =>
        /\ scan["heartbeat"] = None \/ scan["job"] = None
        /\ \A t \in Tasks : scan[t] # None =>
              \A m \in Models : FirstUpTo(scan[t].at - 1, m, scan[t].map[m])
        /\ Still => \A m \in Models : FirstUpTo(Len(Order), m, routes[m])

(* The job of the invariant, and what became of it.                         *)
JobOK ==
    /\ job \in Jobs \cup {None}
    /\ job # None /\ job.phase \in {"ensure", "pull", "verify", "run"} => job.at \in Runtimes
    /\ JobIsSound /\ RunsWhereListed

RoutingInv ==
    /\ RouteTypeOK /\ Types
    /\ Founded /\ JobIsSound /\ ScanOfJob
    /\ ListedOrAhead /\ OneScan
    /\ RunsWhereListed

-----------------------------------------------------------------------------
(* The order of the runtimes.                                              *)

LEMMA OrderFacts ==
    ASSUME RoutingAssumption
    PROVE  /\ Len(Order) \in Nat \ {0} /\ DOMAIN Order = 1 .. Len(Order)
           /\ \A i \in 1 .. Len(Order) : Order[i] \in Runtimes
           /\ \A r \in Runtimes : \E i \in 1 .. Len(Order) : r = Order[i]
           /\ \A i, j \in 1 .. Len(Order) : Order[i] = Order[j] => i = j
           /\ Len(Managers) \in Nat /\ DOMAIN Managers = 1 .. Len(Managers)
           /\ \A i \in 1 .. Len(Managers) : Managers[i] \in Runtimes
           /\ None \notin Runtimes /\ None \notin Scans /\ None \notin Jobs
<1>1. Order \in Seq(Runtimes) /\ Order # <<>> /\ Managers \in Seq(Runtimes)
  BY DEF RoutingAssumption
<1>2. \A r \in Runtimes : \E i \in DOMAIN Order : r = Order[i]
  BY DEF Runtimes
<1> HIDE DEF Runtimes
<1>3. /\ Len(Order) \in Nat /\ DOMAIN Order = 1 .. Len(Order)
      /\ \A i \in 1 .. Len(Order) : Order[i] \in Runtimes
  BY <1>1
<1>4. Len(Order) # 0
  BY <1>1
<1>5. /\ Len(Managers) \in Nat /\ DOMAIN Managers = 1 .. Len(Managers)
      /\ \A i \in 1 .. Len(Managers) : Managers[i] \in Runtimes
  BY <1>1
<1>6. \A i, j \in 1 .. Len(Order) : Order[i] = Order[j] => i = j
  BY <1>3 DEF RoutingAssumption
<1>7. None \notin Runtimes /\ None \notin Scans /\ None \notin Jobs
  BY DEF RoutingAssumption
<1> QED BY <1>2, <1>3, <1>4, <1>5, <1>6, <1>7

\* The runtime a map that is first in the order names is the first that lists.
LEMMA MapIsFirst ==
    ASSUME RoutingAssumption, NEW m \in Models, NEW r \in Runtimes \cup {None},
           FirstUpTo(Len(Order), m, r)
    PROVE  r = FirstOf(m)
<1> DEFINE C == {i \in DOMAIN Order : m \in last[Order[i]]}
<1>1. CASE r = None
  <2>1. C = {}
    BY <1>1, OrderFacts DEF FirstUpTo
  <2> QED BY <1>1, <2>1 DEF FirstOf
<1>2. CASE r # None
  <2>1. PICK i \in 1 .. Len(Order) : /\ r = Order[i] /\ m \in last[r]
                                     /\ \A j \in 1 .. i - 1 : m \notin last[Order[j]]
    BY <1>2 DEF FirstUpTo
  <2>2. i \in C /\ \A j \in C : i <= j
    BY <2>1, OrderFacts
  <2>3. \A k \in C : (\A j \in C : k <= j) => k = i
    BY <2>2, OrderFacts
  <2>4. (CHOOSE k \in C : \A j \in C : k <= j) = i
    BY <2>2, <2>3
  <2> QED BY <2>1, <2>2, <2>4 DEF FirstOf
<1> QED BY <1>1, <1>2

LEMMA FirstIsMap ==
    ASSUME RoutingAssumption, NEW m \in Models
    PROVE  FirstOf(m) \in Runtimes \cup {None} /\ FirstUpTo(Len(Order), m, FirstOf(m))
<1> DEFINE C == {i \in DOMAIN Order : m \in last[Order[i]]}
           k == CHOOSE i \in C : \A j \in C : i <= j
<1>1. CASE C = {}
  <2>1. FirstOf(m) = None
    BY <1>1 DEF FirstOf
  <2> QED BY <1>1, <2>1, OrderFacts DEF FirstUpTo
<1>2. CASE C # {}
  <2>1. \E i \in C : \A j \in C : i <= j
    <3>1. C \in SUBSET Nat
      BY OrderFacts
    <3> QED BY <3>1, <1>2, LeastNumber
  <2>2. k \in C /\ \A j \in C : k <= j
    BY <2>1
  <2>3. FirstOf(m) = Order[k]
    BY <1>2 DEF FirstOf
  <2> HIDE DEF k
  <2>4. k \in 1 .. Len(Order) /\ m \in last[Order[k]] /\ Order[k] \in Runtimes /\ Order[k] # None
    BY <2>2, OrderFacts
  <2>5. \A j \in 1 .. k - 1 : m \notin last[Order[j]]
    <3> SUFFICES ASSUME NEW j \in 1 .. k - 1, m \in last[Order[j]] PROVE FALSE
      OBVIOUS
    <3>1. j \in 1 .. Len(Order) /\ ~(k <= j)
      BY <2>4, OrderFacts
    <3>2. j \in C
      BY <3>1, OrderFacts
    <3> QED BY <3>1, <3>2, <2>2
  <2> QED BY <2>3, <2>4, <2>5 DEF FirstUpTo
<1> QED BY <1>1, <1>2

-----------------------------------------------------------------------------
LEMMA RoutingInitInv ==
    ASSUME RoutingAssumption, RouteInit
    PROVE  RoutingInv
<1>1. \A m \in Models : routes[m] = FirstOf(m)
  BY DEF RouteInit, FirstOf
<1>2. \A m \in Models : routes[m] \in Runtimes \cup {None} /\ FirstUpTo(Len(Order), m, routes[m])
  BY <1>1, FirstIsMap
<1>3. Types
  BY DEF RouteInit, Types
<1>4. RouteTypeOK
  BY <1>2 DEF RouteInit, RouteTypeOK, Maps
<1>5. \A m \in Models : routes[m] # None => <<routes[m], m>> \in everListed
  <2> SUFFICES ASSUME NEW m \in Models, routes[m] # None PROVE <<routes[m], m>> \in everListed
    OBVIOUS
  <2>1. routes[m] \in Runtimes /\ m \in last[routes[m]]
    BY <1>2 DEF FirstUpTo
  <2>2. <<routes[m], m>> \in {routes[m]} \X last[routes[m]]
    BY <2>1
  <2>3. everListed = UNION {{r} \X last[r] : r \in Runtimes}
    BY DEF RouteInit
  <2> QED BY <2>1, <2>2, <2>3
<1>6. Founded
  BY <1>5 DEF RouteInit, Founded, Tasks
<1>7. JobIsSound /\ ScanOfJob /\ ListedOrAhead /\ RunsWhereListed
  BY DEF RouteInit, JobIsSound, ScanOfJob, ListedOrAhead, RunsWhereListed, Tasks
<1>8. OneScan
  BY <1>2 DEF RouteInit, OneScan, Tasks
<1> QED BY <1>3, <1>4, <1>6, <1>7, <1>8 DEF RoutingInv

-----------------------------------------------------------------------------
(* Steps that leave the map and the scans alone.                           *)

LEMMA MapsKept ==
    ASSUME RoutingInv, UNCHANGED <<live, routes, scan, relisted, last, overlapped>>,
           up' \in [Runtimes -> BOOLEAN], has' \in [Runtimes -> SUBSET Models],
           known' \in [Runtimes -> SUBSET Models], everListed \subseteq everListed',
           \A r \in Runtimes : \A m \in known'[r] : <<r, m>> \in everListed'
    PROVE  /\ Types' /\ Founded' /\ ListedOrAhead' /\ OneScan'
           /\ JobOK' /\ ScanOfJob' => RoutingInv'
<1>1. Types'
  BY DEF RoutingInv, Types
<1>2. Founded'
  BY DEF RoutingInv, Founded
<1>3. ListedOrAhead'
  BY DEF RoutingInv, ListedOrAhead
<1>4. OneScan'
  BY DEF RoutingInv, OneScan, FirstUpTo, Still
<1>5. JobOK' => RouteTypeOK'
  BY DEF RoutingInv, RouteTypeOK, JobOK
<1> QED BY <1>1, <1>2, <1>3, <1>4, <1>5 DEF RoutingInv, JobOK

LEMMA JobIsOK == RoutingInv => JobOK
BY DEF RoutingInv, RouteTypeOK, JobOK

LEMMA EventInv ==
    ASSUME RoutingInv, Event
    PROVE  RoutingInv'
<1>1. up' \in [Runtimes -> BOOLEAN] /\ has' \in [Runtimes -> SUBSET Models]
  BY DEF Event, RoutingInv, Types
<1>2. UNCHANGED <<live, routes, scan, known, job, did, last, relisted, everListed, overlapped>>
  BY DEF Event, history
<1>3. JobOK'
  BY <1>2, JobIsOK DEF JobOK, JobIsSound, Sound, RunsWhereListed
<1>4. ScanOfJob'
  BY <1>2 DEF RoutingInv, ScanOfJob
<1> QED BY <1>1, <1>2, <1>3, <1>4, MapsKept DEF RoutingInv, Types, Founded

LEMMA StartInv ==
    ASSUME RoutingAssumption, RoutingInv, Start
    PROVE  RoutingInv'
<1>1. UNCHANGED <<up, has, live, routes, scan, known, last, relisted, everListed, overlapped>>
  BY DEF Start, Unchanged
<1>2. PICK m \in Models : job' = [model |-> m, phase |-> "route", at |-> None, tried |-> 0]
  BY DEF Start
<1>3. job' \in Jobs /\ job'.phase = "route"
  BY <1>2, OrderFacts DEF Jobs
<1>4. JobOK'
  BY <1>3 DEF JobOK, JobIsSound, RunsWhereListed, Start
<1>5. ScanOfJob'
  BY <1>1 DEF RoutingInv, ScanOfJob, Start
<1> QED BY <1>1, <1>4, <1>5, MapsKept DEF RoutingInv, Types, Founded

\* The ways on from a step of the job.
LEMMA JobTo ==
    ASSUME RoutingAssumption, job \in Jobs, NEW phase, NEW at, NEW tried, To(phase, at, tried),
           phase \in {"route", "scan", "ensure", "pull", "verify", "run"},
           at \in Runtimes \cup {None}, tried \in 0 .. Len(Managers)
    PROVE  /\ job' \in Jobs /\ job' # None
           /\ job'.phase = phase /\ job'.at = at /\ job'.tried = tried /\ job'.model = job.model
<1>1. job' = [job EXCEPT !.phase = phase, !.at = at, !.tried = tried]
  BY DEF To
<1>2. job' = [model |-> job.model, phase |-> phase, at |-> at, tried |-> tried]
      /\ job.model \in Models
  BY <1>1 DEF Jobs
<1>3. job' \in Jobs
  BY <1>2 DEF Jobs
<1>4. job' # None
  BY <1>3, OrderFacts
<1> QED BY <1>2, <1>3, <1>4

LEMMA OutcomeKept ==
    ASSUME RoutingInv, UNCHANGED did, everListed \subseteq everListed'
    PROVE  RunsWhereListed'
BY DEF RoutingInv, RunsWhereListed

LEMMA NextTryOK ==
    ASSUME RoutingAssumption, RoutingInv, job # None, NextTry, everListed \subseteq everListed'
    PROVE  JobOK'
<1>1. job \in Jobs /\ job.tried \in 0 .. Len(Managers)
  BY DEF RoutingInv, RouteTypeOK, Jobs
<1>2. CASE job.tried < Len(Managers)
  <2>1. job.tried + 1 \in 1 .. Len(Managers) /\ job.tried + 1 # 0
    BY <1>1, <1>2, OrderFacts
  <2> DEFINE r == Managers[job.tried + 1]
  <2>2. r \in Runtimes /\ Pulls(r)
    BY <2>1, OrderFacts DEF Pulls
  <2>3. To("ensure", r, job.tried + 1) /\ UNCHANGED did
    BY <1>2 DEF NextTry
  <2> HIDE DEF r
  <2>4. /\ job' \in Jobs /\ job'.phase = "ensure" /\ job'.at = r /\ job'.tried = job.tried + 1
    BY <1>1, <2>1, <2>2, <2>3, JobTo
  <2> QED BY <2>1, <2>2, <2>3, <2>4, OutcomeKept DEF JobOK, JobIsSound, Pulls
<1>3. CASE ~(job.tried < Len(Managers))
  <2>1. job' = None /\ did' = [kind |-> "reported", model |-> job.model]
    BY <1>3 DEF NextTry, End
  <2> QED BY <2>1 DEF JobOK, JobIsSound, RunsWhereListed
<1> QED BY <1>2, <1>3

LEMMA EnsuredOK ==
    ASSUME RoutingAssumption, RoutingInv, job # None, job.at \in Runtimes, Ensured, UNCHANGED did,
           everListed \subseteq everListed', <<job.at, job.model>> \in everListed'
    PROVE  JobOK' /\ job' # None
<1>1. job \in Jobs /\ job.tried \in 0 .. Len(Managers) /\ 0 \in 0 .. Len(Managers)
  BY OrderFacts DEF RoutingInv, RouteTypeOK, Jobs
<1>2. CASE job.tried = 0
  <2>1. /\ job' \in Jobs /\ job' # None /\ job'.phase = "run" /\ job'.at = job.at
        /\ job'.model = job.model
    BY <1>1, <1>2, JobTo DEF Ensured
  <2> QED BY <2>1, OutcomeKept DEF JobOK, JobIsSound, Sound
<1>3. CASE job.tried # 0
  <2>1. job' \in Jobs /\ job' # None /\ job'.phase = "route"
    BY <1>1, <1>3, JobTo DEF Ensured
  <2> QED BY <2>1, OutcomeKept DEF JobOK, JobIsSound
<1> QED BY <1>2, <1>3

LEMMA MissingOK ==
    ASSUME RoutingAssumption, RoutingInv, job # None, Missing, everListed \subseteq everListed'
    PROVE  JobOK'
<1>1. CASE job.tried = 0
  <2>1. job' = None /\ did' = [kind |-> "reported", model |-> job.model]
    BY <1>1 DEF Missing, End
  <2> QED BY <2>1 DEF JobOK, JobIsSound, RunsWhereListed
<1>2. CASE job.tried # 0
  BY <1>2, NextTryOK DEF Missing
<1> QED BY <1>1, <1>2

\* The owner of a model is a runtime that has listed it, or the only one.
LEMMA OwnerIsSound ==
    ASSUME RoutingAssumption, RoutingInv, job # None, Owner(job.model) # None,
           To("ensure", Owner(job.model), 0), UNCHANGED did, UNCHANGED everListed
    PROVE  JobOK'
<1> DEFINE r == Owner(job.model)
<1>1. job \in Jobs /\ job.model \in Models /\ 0 \in 0 .. Len(Managers)
  BY OrderFacts DEF RoutingInv, RouteTypeOK, Jobs
<1>2. r \in Runtimes
  <2>1. routes[job.model] \in Runtimes \cup {None}
    BY <1>1 DEF RoutingInv, RouteTypeOK, Maps
  <2> QED BY <2>1, OrderFacts DEF Owner
<1>3. Len(Order) = 1 \/ <<r, job.model>> \in everListed
  BY <1>1 DEF Owner, RoutingInv, Founded
<1> HIDE DEF r
<1>4. /\ job' \in Jobs /\ job'.phase = "ensure" /\ job'.at = r /\ job'.tried = 0
      /\ job'.model = job.model
  BY <1>1, <1>2, JobTo DEF r
<1>5. RunsWhereListed'
  BY OutcomeKept
<1> QED BY <1>2, <1>3, <1>4, <1>5 DEF JobOK, JobIsSound

-----------------------------------------------------------------------------
(* The steps of the job.                                                   *)

\* A task starts to list from the first runtime, with nothing in its map.
LEMMA ScanBegun ==
    ASSUME RoutingAssumption, RoutingInv, NEW t \in Tasks, scan[t] = None, scan' = Begun(t)
    PROVE  /\ scan' \in [Tasks -> Scans \cup {None}] /\ scan'[t] # None
           /\ scan'[t].at = 1 /\ scan'[t].map = Empty
           /\ \A u \in Tasks \ {t} : scan'[u] = scan[u]
<1>1. scan \in [Tasks -> Scans \cup {None}]
  BY DEF RoutingInv, RouteTypeOK
<1>2. [at |-> 1, map |-> Empty] \in Scans
  BY OrderFacts DEF Scans, Maps, Empty
<1> QED BY <1>1, <1>2, OrderFacts DEF Begun

LEMMA BegunKeeps ==
    ASSUME RoutingAssumption, RoutingInv, NEW t \in Tasks, scan[t] = None, scan' = Begun(t),
           overlapped' = Overlaps(t), UNCHANGED <<up, has, routes, known, last, everListed>>,
           live' \in [Runtimes -> BOOLEAN], relisted' \in [Runtimes -> BOOLEAN]
    PROVE  /\ Types' /\ Founded' /\ OneScan'
           /\ JobOK' /\ ScanOfJob' /\ ListedOrAhead' => RoutingInv'
<1>1. /\ scan' \in [Tasks -> Scans \cup {None}] /\ scan'[t] # None
      /\ scan'[t].at = 1 /\ scan'[t].map = Empty
      /\ \A u \in Tasks \ {t} : scan'[u] = scan[u]
  BY ScanBegun
<1>2. Types'
  BY DEF RoutingInv, Types, Overlaps
<1>3. Founded'
  <2>1. \A u \in Tasks : scan'[u] # None =>
          \A m \in Models : scan'[u].map[m] # None => <<scan'[u].map[m], m>> \in everListed
    BY <1>1 DEF RoutingInv, Founded, Empty
  <2> QED BY <2>1 DEF RoutingInv, Founded
<1>4. OneScan'
  <2> SUFFICES ASSUME ~overlapped' PROVE OneScan'
    BY DEF OneScan
  <2>1. ~overlapped /\ \A u \in Tasks \ {t} : scan[u] = None
    BY DEF Overlaps
  <2>2. \A u \in Tasks \ {t} : scan'[u] = None
    BY <1>1, <2>1
  <2>3. \A m \in Models : FirstUpTo(scan[t].at - 1, m, scan[t].map[m])'
    BY <1>1 DEF FirstUpTo, Empty
  <2>4. ~Still'
    BY <1>1 DEF Still
  <2> QED BY <1>1, <2>2, <2>3, <2>4 DEF OneScan, Tasks
<1>5. JobOK' => RouteTypeOK'
  <2>1. \A u \in Tasks : scan'[u] # None =>
          \A m \in Models : scan'[u].map[m] # None =>
            \E i \in 1 .. scan'[u].at - 1 : scan'[u].map[m] = Order[i]
    BY <1>1 DEF RoutingInv, RouteTypeOK, Empty
  <2> QED BY <1>1, <2>1 DEF RoutingInv, RouteTypeOK, JobOK
<1> QED BY <1>2, <1>3, <1>4, <1>5 DEF RoutingInv, JobOK

LEMMA RouteInv ==
    ASSUME RoutingAssumption, RoutingInv, Route
    PROVE  RoutingInv'
<1>1. job # None /\ job.phase = "route" /\ scan["job"] = None
  BY DEF Route, RoutingInv, ScanOfJob
<1>2. UNCHANGED <<up, has, live, routes, last, relisted, everListed, known, did>>
  BY DEF Route, Unchanged
<1>3. CASE Owner(job.model) # None
  <2>1. UNCHANGED <<scan, overlapped>> /\ To("ensure", Owner(job.model), 0)
    BY <1>3 DEF Route
  <2>2. JobOK'
    BY <1>1, <1>2, <1>3, <2>1, OwnerIsSound
  <2>3. ScanOfJob'
    BY <1>1, <2>1 DEF ScanOfJob
  <2> QED BY <1>2, <2>1, <2>2, <2>3, MapsKept DEF RoutingInv, Types, Founded
<1>4. CASE Owner(job.model) = None
  <2>1. /\ To("scan", None, job.tried)
        /\ scan' = Begun("job") /\ overlapped' = Overlaps("job")
    BY <1>4 DEF Route
  <2>2. job \in Jobs /\ job.tried \in 0 .. Len(Managers)
    BY <1>1 DEF RoutingInv, RouteTypeOK, Jobs
  <2>3. job' \in Jobs /\ job' # None /\ job'.phase = "scan"
    BY <2>1, <2>2, JobTo
  <2>4. JobOK'
    <3>1. RunsWhereListed'
      BY <1>2, OutcomeKept
    <3> QED BY <2>3, <3>1 DEF JobOK, JobIsSound
  <2>5. ScanOfJob'
    BY <2>3 DEF ScanOfJob
  <2>6. "job" \in Tasks /\ "heartbeat" \in Tasks \ {"job"}
    BY DEF Tasks
  <2>7. scan'["heartbeat"] = scan["heartbeat"]
    BY <1>1, <2>1, <2>6, ScanBegun
  <2>8. ListedOrAhead'
    BY <1>2, <2>7 DEF RoutingInv, ListedOrAhead
  <2> QED BY <1>1, <1>2, <2>1, <2>4, <2>5, <2>6, <2>8, BegunKeeps DEF RoutingInv, Types
<1> QED BY <1>3, <1>4

LEMMA ResolveInv ==
    ASSUME RoutingAssumption, RoutingInv, Resolve
    PROVE  RoutingInv'
<1>1. UNCHANGED <<up, has, live, routes, scan, known, last, relisted, everListed, overlapped>>
  BY DEF Resolve, Unchanged
<1>2. job # None /\ scan["job"] = None
  BY DEF Resolve
<1>3. JobOK'
  BY <1>1, <1>2, OwnerIsSound, NextTryOK DEF Resolve
<1>4. ScanOfJob'
  BY <1>1, <1>2 DEF ScanOfJob
<1> QED BY <1>1, <1>3, <1>4, MapsKept DEF RoutingInv, Types, Founded

\* Refreshing the models a manager knows keeps them listed.
LEMMA RefreshKeeps ==
    ASSUME RoutingInv, NEW r \in Runtimes, NEW listed \in Lists(r), RefreshModels(r, listed)
    PROVE  /\ known' \in [Runtimes -> SUBSET Models] /\ everListed \subseteq everListed'
           /\ \A x \in Runtimes : \A m \in known'[x] : <<x, m>> \in everListed'
           /\ \A m \in listed : <<r, m>> \in everListed'
<1>1. listed \in SUBSET Models
  BY DEF Lists, RoutingInv, Types
<1>2. known' = [known EXCEPT ![r] = listed] /\ known \in [Runtimes -> SUBSET Models]
  BY DEF RefreshModels, RoutingInv, Types
<1>3. everListed' = everListed \cup ({r} \X listed)
  BY DEF RefreshModels
<1>4. ASSUME NEW x \in Runtimes, NEW m \in known'[x] PROVE <<x, m>> \in everListed'
  BY <1>2, <1>3 DEF RoutingInv, Founded
<1> QED BY <1>1, <1>2, <1>3, <1>4

LEMMA EnsureInv ==
    ASSUME RoutingAssumption, RoutingInv, Ensure
    PROVE  RoutingInv'
<1>1. job # None /\ job.phase = "ensure" /\ scan["job"] = None
  BY DEF Ensure, RoutingInv, ScanOfJob
<1>2. UNCHANGED <<up, has, live, routes, last, relisted, scan, did, overlapped>>
  BY DEF Ensure
<1>3. /\ job \in Jobs /\ job.at \in Runtimes /\ job.model \in Models
      /\ job.tried \in 0 .. Len(Managers) /\ 0 \in 0 .. Len(Managers)
  BY <1>1, OrderFacts DEF RoutingInv, RouteTypeOK, Jobs
<1>4. ScanOfJob'
  BY <1>1, <1>2 DEF ScanOfJob
<1>5. CASE ~Pulls(job.at)
  <2>1. To("run", job.at, 0) /\ UNCHANGED <<known, everListed>>
    BY <1>5 DEF Ensure
  <2>2. /\ job' \in Jobs /\ job'.phase = "run" /\ job'.at = job.at /\ job'.model = job.model
    BY <1>3, <2>1, JobTo
  <2>3. Sound(job.at, job.model)
    BY <1>1, <1>5 DEF RoutingInv, JobIsSound, Sound
  <2>4. JobOK'
    <3>1. RunsWhereListed'
      BY <1>2, <2>1, OutcomeKept
    <3>2. Sound(job.at, job.model)'
      BY <2>1, <2>2, <2>3 DEF Sound, Pulls
    <3> QED BY <1>3, <2>2, <3>1, <3>2 DEF JobOK, JobIsSound, Sound
  <2> QED BY <1>2, <1>4, <2>1, <2>4, MapsKept DEF RoutingInv, Types, Founded
<1>6. CASE Pulls(job.at) /\ job.model \in known[job.at]
  <2>1. Ensured /\ UNCHANGED <<known, everListed>>
    BY <1>6 DEF Ensure
  <2>2. <<job.at, job.model>> \in everListed
    BY <1>3, <1>6 DEF RoutingInv, Founded
  <2>3. JobOK'
    BY <1>1, <1>2, <1>3, <2>1, <2>2, EnsuredOK
  <2> QED BY <1>2, <1>4, <2>1, <2>3, MapsKept DEF RoutingInv, Types, Founded
<1>7. CASE Pulls(job.at) /\ job.model \notin known[job.at]
  <2>1. PICK listed \in Lists(job.at) :
          /\ RefreshModels(job.at, listed)
          /\ IF job.model \in listed THEN Ensured ELSE To("pull", job.at, job.tried)
    BY <1>7 DEF Ensure
  <2>2. /\ known' \in [Runtimes -> SUBSET Models] /\ everListed \subseteq everListed'
        /\ \A x \in Runtimes : \A m \in known'[x] : <<x, m>> \in everListed'
        /\ \A m \in listed : <<job.at, m>> \in everListed'
    BY <1>3, <2>1, RefreshKeeps
  <2>3. JobOK'
    <3>1. CASE job.model \in listed
      BY <1>1, <1>2, <1>3, <2>1, <2>2, <3>1, EnsuredOK
    <3>2. CASE job.model \notin listed
      <4>1. job' \in Jobs /\ job'.phase = "pull" /\ job'.at = job.at
        BY <1>3, <2>1, <3>2, JobTo
      <4>2. RunsWhereListed'
        BY <1>2, <2>2, OutcomeKept
      <4> QED BY <1>3, <1>7, <4>1, <4>2 DEF JobOK, JobIsSound, Pulls
    <3> QED BY <3>1, <3>2
  <2> QED BY <1>2, <1>4, <2>2, <2>3, MapsKept DEF RoutingInv, Types
<1> QED BY <1>5, <1>6, <1>7

LEMMA PullInv ==
    ASSUME RoutingAssumption, RoutingInv, Pull
    PROVE  RoutingInv'
<1>1. job # None /\ job.phase = "pull" /\ scan["job"] = None
  BY DEF Pull, RoutingInv, ScanOfJob
<1>2. UNCHANGED <<up, live, routes, last, relisted, everListed, scan, known, overlapped>>
  BY DEF Pull
<1>3. /\ job \in Jobs /\ job.at \in Runtimes /\ job.model \in Models
      /\ job.tried \in 0 .. Len(Managers) /\ Pulls(job.at)
  BY <1>1 DEF RoutingInv, RouteTypeOK, Jobs, JobIsSound
<1>4. ScanOfJob'
  BY <1>1, <1>2 DEF ScanOfJob
<1>5. has' \in [Runtimes -> SUBSET Models]
  BY <1>3 DEF Pull, RoutingInv, Types
<1>6. JobOK'
  <2>1. CASE To("verify", job.at, job.tried) /\ UNCHANGED did
    <3>1. job' \in Jobs /\ job'.phase = "verify" /\ job'.at = job.at
      BY <1>3, <2>1, JobTo
    <3>2. RunsWhereListed'
      BY <1>2, <2>1, OutcomeKept
    <3> QED BY <1>3, <3>1, <3>2 DEF JobOK, JobIsSound, Pulls
  <2>2. CASE Missing
    BY <1>1, <1>2, <2>2, MissingOK
  <2> QED BY <2>1, <2>2 DEF Pull
<1> QED BY <1>2, <1>4, <1>5, <1>6, MapsKept DEF RoutingInv, Types, Founded

LEMMA VerifyInv ==
    ASSUME RoutingAssumption, RoutingInv, Verify
    PROVE  RoutingInv'
<1>1. job # None /\ job.phase = "verify" /\ scan["job"] = None
  BY DEF Verify, RoutingInv, ScanOfJob
<1>2. UNCHANGED <<up, has, live, routes, last, relisted, scan, overlapped>>
  BY DEF Verify
<1>3. job.at \in Runtimes
  BY <1>1 DEF RoutingInv, RouteTypeOK
<1>4. ScanOfJob'
  BY <1>1, <1>2 DEF ScanOfJob
<1>5. PICK listed \in Lists(job.at) :
        /\ RefreshModels(job.at, listed)
        /\ IF job.model \in listed THEN Ensured /\ UNCHANGED did ELSE Missing
  BY DEF Verify
<1>6. /\ known' \in [Runtimes -> SUBSET Models] /\ everListed \subseteq everListed'
      /\ \A x \in Runtimes : \A m \in known'[x] : <<x, m>> \in everListed'
      /\ \A m \in listed : <<job.at, m>> \in everListed'
  BY <1>3, <1>5, RefreshKeeps
<1>7. JobOK'
  <2>1. CASE job.model \in listed
    BY <1>1, <1>3, <1>5, <1>6, <2>1, EnsuredOK
  <2>2. CASE job.model \notin listed
    BY <1>1, <1>5, <1>6, <2>2, MissingOK
  <2> QED BY <2>1, <2>2
<1> QED BY <1>2, <1>4, <1>6, <1>7, MapsKept DEF RoutingInv, Types

LEMMA RunInv ==
    ASSUME RoutingInv, Run
    PROVE  RoutingInv'
<1>1. job # None /\ job.phase = "run" /\ scan["job"] = None
  BY DEF Run, RoutingInv, ScanOfJob
<1>2. UNCHANGED <<up, has, live, routes, last, relisted, everListed, scan, known, overlapped>>
  BY DEF Run, Unchanged
<1>3. Sound(job.at, job.model)
  BY <1>1 DEF RoutingInv, JobIsSound
<1>4. job' = None /\ did' = [kind |-> "run", model |-> job.model, at |-> job.at]
  BY DEF Run, End
<1>5. RunsWhereListed'
  BY <1>2, <1>3, <1>4 DEF RunsWhereListed, Sound, Pulls
<1>6. JobOK'
  BY <1>4, <1>5 DEF JobOK, JobIsSound
<1>7. ScanOfJob'
  BY <1>1, <1>2 DEF ScanOfJob
<1> QED BY <1>2, <1>6, <1>7, MapsKept DEF RoutingInv, Types, Founded

-----------------------------------------------------------------------------
(* The heartbeat's probe, and the listings.                                *)

LEMMA ProbeInv ==
    ASSUME RoutingAssumption, RoutingInv, Probe
    PROVE  RoutingInv'
<1>1. /\ scan["heartbeat"] = None /\ live # up /\ live' = up
      /\ overlapped' = Overlaps("heartbeat")
      /\ relisted' = [r \in Runtimes |-> relisted[r] /\ (up[r] => live[r])]
      /\ UNCHANGED <<up, has, routes, known, job, did, last, everListed>>
  BY DEF Probe
<1>2. scan' = Begun("heartbeat") /\ "heartbeat" \in Tasks /\ "job" \in Tasks \ {"heartbeat"}
  BY <1>1 DEF Probe, Rebuilds, Tasks
<1>3. scan'["heartbeat"] # None /\ scan'["heartbeat"].at = 1 /\ scan'["job"] = scan["job"]
  BY <1>1, <1>2, ScanBegun
<1>4. live' \in [Runtimes -> BOOLEAN] /\ relisted' \in [Runtimes -> BOOLEAN]
  BY <1>1 DEF RoutingInv, Types
<1>5. ListedOrAhead'
  BY <1>3, OrderFacts DEF ListedOrAhead
<1>6. JobOK'
  BY <1>1, JobIsOK DEF JobOK, JobIsSound, Sound, RunsWhereListed
<1>7. ScanOfJob'
  BY <1>1, <1>3 DEF RoutingInv, ScanOfJob
<1> QED BY <1>1, <1>2, <1>4, <1>5, <1>6, <1>7, BegunKeeps

\* What a map has once the runtime after the first n has answered.
LEMMA ClaimedIsFirst ==
    ASSUME RoutingAssumption, NEW n \in 0 .. Len(Order) - 1, NEW m \in Models,
           NEW map \in Maps, FirstUpTo(n, m, map[m]),
           NEW listed \in SUBSET Models, last \in [Runtimes -> SUBSET Models],
           last' = [last EXCEPT ![Order[n + 1]] = listed]
    PROVE  FirstUpTo(n + 1, m, Claimed(map, Order[n + 1], listed)[m])'
<1> DEFINE r == Order[n + 1]
           new == IF m \in listed /\ map[m] = None THEN r ELSE map[m]
<1>1. Claimed(map, r, listed)[m] = new
  BY DEF Claimed
<1>2. n + 1 \in 1 .. Len(Order) /\ r \in Runtimes /\ r # None
  BY OrderFacts
<1>3. last'[r] = listed
  BY <1>2
<1>4. ASSUME NEW i \in 1 .. n PROVE Order[i] \in Runtimes /\ last'[Order[i]] = last[Order[i]]
  <2>1. i \in 1 .. Len(Order) /\ i # n + 1
    BY OrderFacts
  <2>2. Order[i] # r /\ Order[i] \in Runtimes
    BY <1>2, <2>1, OrderFacts
  <2> QED BY <2>2
<1> HIDE DEF r
<1>5. CASE map[m] # None
  <2>1. PICK i \in 1 .. n : /\ map[m] = Order[i] /\ m \in last[map[m]]
                            /\ \A j \in 1 .. i - 1 : m \notin last[Order[j]]
    BY <1>5 DEF FirstUpTo
  <2>2. m \in last'[map[m]] /\ i \in 1 .. n + 1
    BY <1>4, <2>1
  <2>3. \A j \in 1 .. i - 1 : m \notin last'[Order[j]]
    BY <1>4, <2>1
  <2>4. new = map[m]
    BY <1>5
  <2> HIDE DEF new
  <2> QED BY <1>1, <1>5, <2>1, <2>2, <2>3, <2>4 DEF FirstUpTo, r
<1>6. CASE map[m] = None
  <2>1. \A i \in 1 .. n : m \notin last'[Order[i]]
    BY <1>4, <1>6 DEF FirstUpTo
  <2>2. CASE m \in listed
    <3>1. new = r /\ m \in last'[r]
      BY <1>3, <1>6, <2>2
    <3>2. \A j \in 1 .. (n + 1) - 1 : m \notin last'[Order[j]]
      BY <2>1
    <3> HIDE DEF new
    <3>3. n + 1 \in 1 .. n + 1
      OBVIOUS
    <3> QED BY <1>1, <1>2, <3>1, <3>2, <3>3 DEF FirstUpTo, r
  <2>3. CASE m \notin listed
    <3>1. new = None
      BY <1>6, <2>3
    <3>2. ASSUME NEW i \in 1 .. n + 1 PROVE m \notin last'[Order[i]]
      <4>1. i \in 1 .. n \/ i = n + 1
        OBVIOUS
      <4> QED BY <4>1, <2>1, <2>3, <1>3 DEF r
    <3> HIDE DEF new
    <3> QED BY <1>1, <3>1, <3>2 DEF FirstUpTo, r
  <2> QED BY <2>2, <2>3
<1> QED BY <1>5, <1>6

LEMMA ListInv ==
    ASSUME RoutingAssumption, RoutingInv, NEW t \in Tasks, List(t)
    PROVE  RoutingInv'
<1>a. /\ scan \in [Tasks -> Scans \cup {None}] /\ scan[t] # None /\ scan[t] \in Scans
      /\ scan[t].at \in 1 .. Len(Order) /\ scan[t].map \in Maps
  BY OrderFacts DEF List, RoutingInv, RouteTypeOK, Scans
<1>b. PICK n \in 0 .. Len(Order) - 1, old \in Maps : n + 1 = scan[t].at /\ old = scan[t].map
  <2>1. scan[t].at - 1 \in 0 .. Len(Order) - 1 /\ (scan[t].at - 1) + 1 = scan[t].at
    BY <1>a, OrderFacts
  <2> QED BY <1>a, <2>1
<1> DEFINE k == n + 1
           r == Order[k]
<1>1. /\ scan \in [Tasks -> Scans \cup {None}] /\ scan[t] # None /\ scan[t] \in Scans
      /\ k \in 1 .. Len(Order) /\ k = scan[t].at /\ k - 1 = n /\ r \in Runtimes
      /\ scan[t].map = old /\ old \in Maps
  BY <1>a, <1>b, OrderFacts
<1>2. PICK listed \in Lists(r) :
        LET map == Claimed(old, r, listed)
        IN  /\ IF k = Len(Order)
               THEN scan' = [scan EXCEPT ![t] = None] /\ routes' = map
               ELSE scan' = [scan EXCEPT ![t] = [at |-> @.at + 1, map |-> map]] /\ UNCHANGED routes
            /\ last' = [last EXCEPT ![r] = listed]
            /\ relisted' = [relisted EXCEPT ![r] = TRUE]
            /\ everListed' = everListed \cup ({r} \X listed)
  BY <1>1 DEF List
<1>3. UNCHANGED <<up, has, live, known, job, did, overlapped>>
  BY DEF List
<1> DEFINE map == Claimed(old, r, listed)
<1>4. listed \in SUBSET Models
  BY <1>1 DEF Lists, RoutingInv, Types
<1>5. map \in Maps
  BY <1>1 DEF Claimed, Maps
<1>6. ASSUME NEW m \in Models, map[m] # None
      PROVE  (map[m] = r /\ m \in listed) \/ map[m] = old[m]
  BY DEF Claimed
<1>7. everListed \subseteq everListed' /\ \A m \in listed : <<r, m>> \in everListed'
  BY <1>2
<1>8. /\ last \in [Runtimes -> SUBSET Models] /\ relisted \in [Runtimes -> BOOLEAN]
      /\ routes \in Maps
  BY DEF RoutingInv, Types, RouteTypeOK
<1>9. Types'
  BY <1>1, <1>2, <1>3, <1>4, <1>8 DEF RoutingInv, Types
<1>10. JobOK'
  BY <1>3, <1>7, JobIsOK DEF JobOK, JobIsSound, Sound, RunsWhereListed
<1>11. \A m \in Models : map[m] # None => <<map[m], m>> \in everListed'
  BY <1>1, <1>6, <1>7 DEF RoutingInv, Founded
<1>12. \A m \in Models : map[m] # None => \E i \in 1 .. k : map[m] = Order[i]
  <2> SUFFICES ASSUME NEW m \in Models, map[m] # None PROVE \E i \in 1 .. k : map[m] = Order[i]
    OBVIOUS
  <2>1. CASE map[m] = r
    BY <1>1, <2>1
  <2>2. CASE map[m] = old[m]
    <3>1. \E i \in 1 .. k - 1 : map[m] = Order[i]
      BY <1>1, <2>2 DEF RoutingInv, RouteTypeOK
    <3> QED BY <1>1, <3>1
  <2> QED BY <1>6, <2>1, <2>2
<1>13. ~overlapped => \A m \in Models : FirstUpTo(k, m, map[m])'
  <2> SUFFICES ASSUME ~overlapped, NEW m \in Models PROVE FirstUpTo(k, m, map[m])'
    OBVIOUS
  <2>1. FirstUpTo(n, m, old[m])
    BY <1>1 DEF RoutingInv, OneScan
  <2> QED BY <1>1, <1>2, <1>4, <1>8, <2>1, ClaimedIsFirst
<1>14. \A u \in Tasks : \A m \in Models : ~overlapped /\ scan[u] # None /\ u # t => FALSE
  BY <1>1 DEF RoutingInv, OneScan, Tasks
<1>15. CASE k = Len(Order)
  <2>1. /\ scan' = [scan EXCEPT ![t] = None] /\ routes' = map
        /\ relisted' = [relisted EXCEPT ![r] = TRUE]
    BY <1>2, <1>15
  <2> HIDE DEF map
  <2>2. RouteTypeOK'
    <3>1. \A u \in Tasks : scan'[u] # None => scan'[u] = scan[u]
      BY <1>1, <2>1
    <3> QED BY <1>1, <1>5, <1>10, <2>1, <3>1 DEF RoutingInv, RouteTypeOK, JobOK
  <2>3. Founded'
    <3>1. \A u \in Tasks : scan'[u] # None => scan'[u] = scan[u]
      BY <1>1, <2>1
    <3>2. \A x \in Runtimes : \A m \in known'[x] : <<x, m>> \in everListed'
      BY <1>3, <1>7 DEF RoutingInv, Founded
    <3>3. \A u \in Tasks : scan'[u] # None =>
            \A m \in Models : scan'[u].map[m] # None => <<scan'[u].map[m], m>> \in everListed'
      BY <1>7, <3>1 DEF RoutingInv, Founded
    <3> QED BY <1>11, <2>1, <3>2, <3>3 DEF Founded
  <2>4. ScanOfJob'
    BY <1>1, <1>3, <2>1 DEF RoutingInv, ScanOfJob, Tasks
  <2>5. ListedOrAhead'
    <3> SUFFICES ASSUME NEW x \in Runtimes, live[x], ~relisted'[x]
                 PROVE  /\ scan'["heartbeat"] # None
                        /\ \E i \in scan'["heartbeat"].at .. Len(Order) : x = Order[i]
      BY <1>3 DEF ListedOrAhead
    <3>1. x # r /\ ~relisted[x]
      BY <1>1, <1>8, <2>1
    <3>2. /\ scan["heartbeat"] # None
          /\ \E i \in scan["heartbeat"].at .. Len(Order) : x = Order[i]
      BY <3>1 DEF RoutingInv, ListedOrAhead
    <3>3. t # "heartbeat"
      BY <1>1, <1>15, <3>1, <3>2
    <3> QED BY <1>1, <2>1, <3>2, <3>3 DEF Tasks
  <2>6. OneScan'
    <3> SUFFICES ASSUME ~overlapped PROVE OneScan'
      BY <1>3 DEF OneScan
    <3>1. \A u \in Tasks : scan'[u] = None
      BY <1>1, <2>1 DEF RoutingInv, OneScan, Tasks
    <3>2. \A m \in Models : FirstUpTo(Len(Order), m, routes[m])'
      BY <1>13, <1>15, <2>1
    <3> QED BY <3>1, <3>2 DEF OneScan, Tasks
  <2> QED BY <1>9, <1>10, <2>2, <2>3, <2>4, <2>5, <2>6 DEF RoutingInv, JobOK
<1>16. CASE k # Len(Order)
  <2>1. /\ scan' = [scan EXCEPT ![t] = [at |-> k + 1, map |-> map]] /\ UNCHANGED routes
        /\ relisted' = [relisted EXCEPT ![r] = TRUE]
    BY <1>1, <1>2, <1>16
  <2> HIDE DEF map
  <2>2. [at |-> k + 1, map |-> map] \in Scans
    BY <1>1, <1>5, <1>16, OrderFacts DEF Scans
  <2>3. /\ scan'[t] = [at |-> k + 1, map |-> map] /\ scan'[t] # None
        /\ scan'[t].at = k + 1 /\ scan'[t].map = map
    BY <1>1, <2>1, <2>2, OrderFacts
  <2>4. \A u \in Tasks \ {t} : scan'[u] = scan[u]
    BY <1>1, <2>1
  <2>5. RouteTypeOK'
    <3>1. \A m \in Models : scan'[t].map[m] # None =>
            \E i \in 1 .. scan'[t].at - 1 : scan'[t].map[m] = Order[i]
      BY <1>1, <1>12, <2>3
    <3>2. scan' \in [Tasks -> Scans \cup {None}]
      BY <1>1, <2>1, <2>2
    <3>3. \A u \in Tasks : scan'[u] # None => \A m \in Models : scan'[u].map[m] # None =>
            \E i \in 1 .. scan'[u].at - 1 : scan'[u].map[m] = Order[i]
      BY <2>4, <3>1 DEF RoutingInv, RouteTypeOK
    <3> QED BY <1>8, <1>10, <2>1, <3>2, <3>3 DEF RouteTypeOK, JobOK
  <2>6. Founded'
    <3>1. \A u \in Tasks : scan'[u] # None =>
            \A m \in Models : scan'[u].map[m] # None => <<scan'[u].map[m], m>> \in everListed'
      BY <1>7, <1>11, <2>3, <2>4 DEF RoutingInv, Founded
    <3>2. \A x \in Runtimes : \A m \in known'[x] : <<x, m>> \in everListed'
      BY <1>3, <1>7 DEF RoutingInv, Founded
    <3>3. \A m \in Models : routes'[m] # None => <<routes'[m], m>> \in everListed'
      BY <1>7, <2>1 DEF RoutingInv, Founded
    <3> QED BY <3>1, <3>2, <3>3 DEF Founded
  <2>7. ScanOfJob'
    BY <1>1, <1>3, <2>3, <2>4 DEF RoutingInv, ScanOfJob, Tasks
  <2>8. ListedOrAhead'
    <3> SUFFICES ASSUME NEW x \in Runtimes, live[x], ~relisted'[x]
                 PROVE  /\ scan'["heartbeat"] # None
                        /\ \E i \in scan'["heartbeat"].at .. Len(Order) : x = Order[i]
      BY <1>3 DEF ListedOrAhead
    <3>1. x # r /\ ~relisted[x]
      BY <1>1, <1>8, <2>1
    <3>2. scan["heartbeat"] # None
      BY <3>1 DEF RoutingInv, ListedOrAhead
    <3>3. PICK i \in scan["heartbeat"].at .. Len(Order) : x = Order[i]
      BY <3>1 DEF RoutingInv, ListedOrAhead
    <3>4. CASE t = "heartbeat"
      <4>1. i \in k .. Len(Order) /\ i # k
        BY <1>1, <3>1, <3>3, <3>4
      <4>2. i \in k + 1 .. Len(Order)
        BY <1>1, <4>1, OrderFacts
      <4> QED BY <2>3, <3>3, <3>4, <4>2
    <3>5. CASE t # "heartbeat"
      <4>1. scan'["heartbeat"] = scan["heartbeat"]
        BY <2>4, <3>5 DEF Tasks
      <4> QED BY <3>2, <3>3, <4>1
    <3> QED BY <3>4, <3>5
  <2>9. OneScan'
    <3> SUFFICES ASSUME ~overlapped PROVE OneScan'
      BY <1>3 DEF OneScan
    <3>1. \A u \in Tasks \ {t} : scan'[u] = None
      BY <1>1, <2>4 DEF RoutingInv, OneScan, Tasks
    <3>2. ~Still'
      BY <2>3 DEF Still
    <3>3. \A m \in Models : FirstUpTo(scan[t].at - 1, m, scan[t].map[m])'
      <4>1. scan'[t].at - 1 = k
        BY <1>1, <2>3
      <4> QED BY <1>13, <2>3, <4>1
    <3> QED BY <3>1, <3>2, <3>3 DEF OneScan, Tasks
  <2> QED BY <1>9, <1>10, <2>5, <2>6, <2>7, <2>8, <2>9 DEF RoutingInv, JobOK
<1> QED BY <1>15, <1>16

-----------------------------------------------------------------------------
\* What Routing's steps keep, whatever the runtimes do and however the scans
\* of the two tasks interleave.
THEOREM RoutingInvariant == ASSUME RoutingAssumption PROVE RouteSpec => []RoutingInv
<1>1. RouteInit => RoutingInv
  BY RoutingInitInv
<1>2. RoutingInv /\ [RouteNext]_routeVars => RoutingInv'
  <2> SUFFICES ASSUME RoutingInv, [RouteNext]_routeVars PROVE RoutingInv'
    OBVIOUS
  <2>1. CASE Event
    BY <2>1, EventInv
  <2>2. CASE Probe
    BY <2>2, ProbeInv
  <2>3. CASE Start
    BY <2>3, StartInv
  <2>4. CASE JobStep
    BY <2>4, RouteInv, ResolveInv, EnsureInv, PullInv, VerifyInv, RunInv DEF JobStep
  <2>5. ASSUME NEW t \in Tasks, List(t) PROVE RoutingInv'
    BY <2>5, ListInv
  <2>6. CASE UNCHANGED routeVars
    <3>1. UNCHANGED <<up, has, live, routes, scan, known, job, did, last, relisted, everListed, overlapped>>
      BY <2>6 DEF routeVars, history
    <3>2. JobOK'
      BY <3>1, JobIsOK DEF JobOK, JobIsSound, Sound, RunsWhereListed
    <3>3. ScanOfJob'
      BY <3>1 DEF RoutingInv, ScanOfJob
    <3> QED BY <3>1, <3>2, <3>3, MapsKept DEF RoutingInv, Types, Founded
  <2> QED BY <2>1, <2>2, <2>3, <2>4, <2>5, <2>6 DEF RouteNext
<1> QED BY <1>1, <1>2, PTL DEF RouteSpec

\* The map, the scans and the job of worker.py are of their types: a runtime in
\* a scan's map is one the scan has already asked.
THEOREM RoutingTypeCorrect == ASSUME RoutingAssumption PROVE RouteSpec => []RouteTypeOK
<1>1. RoutingInv => RouteTypeOK
  BY DEF RoutingInv
<1> QED BY <1>1, RoutingInvariant, PTL

LEMMA MapFollows == ASSUME RoutingAssumption, RoutingInv PROVE MapIsLastScan
<1> SUFFICES ASSUME Still, ~overlapped, NEW m \in Models PROVE routes[m] = FirstOf(m)
  BY DEF MapIsLastScan
<1>1. FirstUpTo(Len(Order), m, routes[m]) /\ routes[m] \in Runtimes \cup {None}
  BY DEF RoutingInv, OneScan, RouteTypeOK, Maps
<1> QED BY <1>1, MapIsFirst

LEMMA ReturnFollows == RoutingInv => ReturnIsListed
BY DEF RoutingInv, ListedOrAhead, ReturnIsListed, Still, Tasks

\* As long as no two scans overlap, _model_runtimes is what the last scan was
\* told, the first runtime of the configuration winning; when no scan runs, a
\* runtime that is live has been listed since it came back; and a job runs only
\* where its model was listed, or at the one runtime of a worker that cannot pull.
THEOREM RoutesAlwaysListings == ASSUME RoutingAssumption PROVE RouteSpec => []RoutesAreListings
<1>1. RoutingInv => RoutesAreListings
  BY MapFollows, ReturnFollows DEF RoutingInv, RoutesAreListings
<1> QED BY <1>1, RoutingInvariant, PTL

-----------------------------------------------------------------------------
(* The three side by side.                                                 *)

\* A behaviour of the composition is one of each part: what is proved of a
\* part holds in the run that checks all three.
THEOREM JobsAreOfAll == JobsSpec => Spec /\ RouteSpec /\ PoolSpec
<1>1. JobsInit => Init /\ RouteInit /\ PoolInit
  BY DEF JobsInit
<1>2. [JobsNext]_all => [Next]_vars /\ [RouteNext]_routeVars /\ [PoolNext]_poolVars
  BY DEF JobsNext, all
<1> QED BY <1>1, <1>2, PTL DEF JobsSpec, Spec, RouteSpec, PoolSpec

\* Batches and streams, the routing and the pool keep their types, whichever
\* part moves.
THEOREM JobsTypeCorrect == ASSUME PoolAssumption, RoutingAssumption PROVE FairJobs => []JobsTypeOK
<1> DEFINE OneSide == side \in {"intake", "routing", "prompts"}
<1>1. JobsInit => OneSide
  BY DEF JobsInit
<1>2. OneSide /\ [JobsNext]_all => OneSide'
  BY DEF JobsNext, all
<1>3. JobsSpec => []OneSide
  BY <1>1, <1>2, PTL DEF JobsSpec
<1>4. OneSide /\ TypeOK /\ RouteTypeOK /\ PoolTypeOK => JobsTypeOK
  BY DEF JobsTypeOK
<1>5. JobsSpec => []TypeOK
  BY JobsAreOfAll, IntakeTypeCorrect, PTL
<1>6. JobsSpec => []RouteTypeOK
  BY JobsAreOfAll, RoutingTypeCorrect, PTL
<1>7. JobsSpec => []PoolTypeOK
  BY JobsAreOfAll, PoolTypeCorrect, PTL
<1>8. FairJobs => JobsSpec
  BY DEF FairJobs
<1> QED BY <1>3, <1>4, <1>5, <1>6, <1>7, <1>8, PTL
=============================================================================
