----------------------------- MODULE FleetProofs -----------------------------
(***************************************************************************)
(* Theorems about the backend's view of the workers, for any fleet,        *)
(* catalogue, queue, policies, reports and heartbeats.                     *)
(*                                                                         *)
(* Scheduling and the rules of Matching: a poll takes the batch that the   *)
(* documentation of the rules promises, under a name its worker holds, and *)
(* the pool shows what would be dispatched.                                *)
(*                                                                         *)
(* Inventory: the rows say what was reported, of the entry that pins it,   *)
(* and a step takes a name away or gives it back only on evidence.  The    *)
(* inductive invariant is StockInv.                                        *)
(***************************************************************************)
EXTENDS MCFleet, FiniteSetTheorems, SequenceTheorems, WellFoundedInduction, TLAPS

-----------------------------------------------------------------------------
(* Numbers.                                                                *)

\* Every set of numbers has a least one.
LEMMA LeastNumber ==
    ASSUME NEW S \in SUBSET Nat, S # {}
    PROVE  \E n \in S : \A m \in S : n <= m
<1> DEFINE R == StrictSubsetOrdering(Nat)
           Below == {0..n : n \in S}
<1>1. Below \subseteq FiniteSubsetsOf(Nat) /\ Below # {}
  <2> SUFFICES ASSUME NEW n \in S PROVE 0..n \in FiniteSubsetsOf(Nat)
    OBVIOUS
  <2>1. IsFiniteSet(0..n)
    BY FS_Interval
  <2> QED BY <2>1 DEF FiniteSubsetsOf
<1>2. IsWellFoundedOn(R, FiniteSubsetsOf(Nat))
  BY FS_StrictSubsetOrderingWellFounded
<1> HIDE DEF R
<1>3. \E x \in Below : \A y \in Below : ~(<<y, x>> \in R)
  BY <1>1, <1>2, WFMin
<1>4. PICK n \in S : \A m \in S : <<0..m, 0..n>> \notin R
  BY <1>3
<1>5. ASSUME NEW m \in S, m < n PROVE FALSE
  <2>1. 0..m \subseteq 0..n /\ n \notin 0..m /\ n \in 0..n
    BY <1>5
  <2>2. 0..m \in SUBSET Nat /\ 0..n \in SUBSET Nat /\ 0..m # 0..n
    BY <2>1
  <2>3. <<0..m, 0..n>> \in R
    BY <2>1, <2>2, Zenon DEF R, StrictSubsetOrdering
  <2> QED BY <2>3, <1>4
<1> QED BY <1>4, <1>5

\* The choice of the least of some positions is a position, and the least.
LEMMA FirstIsLeast ==
    ASSUME NEW S \in SUBSET Nat, S # {}
    PROVE  First(S) \in S /\ \A j \in S : First(S) <= j
BY LeastNumber DEF First

\* A finite set of numbers has a greatest one.
LEMMA GreatestNumber ==
    ASSUME NEW S \in SUBSET Nat, S # {}, IsFiniteSet(S)
    PROVE  \E n \in S : \A m \in S : m <= n
<1> DEFINE R == StrictSubsetOrdering(S)
           Without == {T \in FiniteSubsetsOf(S) : T # {} /\ ~\E n \in T : \A m \in T : m <= n}
<1>1. SUFFICES ASSUME Without # {} PROVE FALSE
  <2>1. S \notin Without
    BY <1>1
  <2> QED BY <2>1 DEF FiniteSubsetsOf
<1>2. IsWellFoundedOn(R, FiniteSubsetsOf(S))
  BY FS_StrictSubsetOrderingWellFounded
<1> HIDE DEF R
<1>3. PICK T \in Without : \A U \in Without : <<U, T>> \notin R
  <2>1. Without \subseteq FiniteSubsetsOf(S)
    OBVIOUS
  <2> HIDE DEF Without
  <2> QED BY <1>1, <1>2, <2>1, WFMin
<1>4. T \in SUBSET S /\ IsFiniteSet(T) /\ T # {}
  BY DEF FiniteSubsetsOf
<1>5. PICK x \in T : TRUE
  BY <1>4
<1> DEFINE U == T \ {x}
<1>6. U \in FiniteSubsetsOf(S)
  <2>1. IsFiniteSet(U)
    BY <1>4, FS_Subset
  <2> QED BY <1>4, <2>1 DEF FiniteSubsetsOf
<1>7. <<U, T>> \in R
  <2>1. U \subseteq T /\ U # T /\ U \in SUBSET S
    BY <1>4, <1>5
  <2> HIDE DEF U
  <2> QED BY <1>4, <2>1, Zenon DEF R, StrictSubsetOrdering
<1>8. U \notin Without
  BY <1>3, <1>7
<1>9. CASE U = {}
  <2>1. \A m \in T : m = x
    BY <1>9
  <2>2. x \in Nat
    BY <1>4, <1>5
  <2> QED BY <1>5, <2>1, <2>2
<1>10. CASE U # {}
  <2>1. PICK y \in U : \A m \in U : m <= y
    BY <1>6, <1>8, <1>10
  <2>2. x \in Nat /\ y \in Nat /\ y \in T /\ U \subseteq Nat
    BY <1>4, <1>5
  <2>3. \A m \in T : m = x \/ m \in U
    OBVIOUS
  <2>4. CASE x <= y
    <3>1. \A m \in T : m <= y
      BY <2>1, <2>3, <2>4
    <3> QED BY <2>2, <3>1
  <2>5. CASE ~(x <= y)
    <3>1. \A m \in T : m <= x
      BY <2>1, <2>2, <2>3, <2>5
    <3> QED BY <1>5, <3>1
  <2> QED BY <2>4, <2>5
<1> QED BY <1>9, <1>10

-----------------------------------------------------------------------------
(* The window.                                                             *)

\* What a remainder is, for a number within one turn of the clock either way.
LEMMA Remainder ==
    ASSUME NEW d \in Nat \ {0}, NEW x \in Int
    PROVE  /\ x \in 0 .. d - 1 => x % d = x
           /\ x \in d .. 2 * d - 1 => x % d = x - d
           /\ x \in -d .. -1 => x % d = x + d
           /\ x % d \in 0 .. d - 1
<1>1. CASE x \in 0 .. d - 1
  BY <1>1
<1>2. CASE x \in d .. 2 * d - 1
  BY <1>2
<1>3. CASE x \in -d .. -1
  BY <1>3
<1>4. x % d \in 0 .. d - 1
  OBVIOUS
<1> QED BY <1>1, <1>2, <1>3, <1>4

\* The comparisons of in_window and a walk round the clock find the same
\* minutes, whichever way the window wraps (backend/scheduler.py:334-340).
LEMMA WindowIsWalk ==
    ASSUME NEW p, p.start \in 0 .. Day - 1, p.end \in 0 .. Day - 1, p.start # p.end,
           NEW m \in 0 .. Day - 1
    PROVE  InWindow(p, m) <=> m \in Walk(p)
<1> DEFINE s == p.start
           e == p.end
           n == (e - s) % Day
<1>1. Day \in Nat \ {0} /\ s # None /\ e # None
  BY SchedulingAssumption
<1>2. ASSUME NEW k \in 0 .. 2 * Day - 1 PROVE k % Day = IF k < Day THEN k ELSE k - Day
  <2>1. CASE k < Day
    <3>1. k \in Int /\ k \in 0 .. Day - 1
      BY <1>1, <1>2, <2>1
    <3>2. k % Day = k
      BY <1>1, <3>1, Remainder
    <3> QED BY <2>1, <3>2
  <2>2. CASE ~(k < Day)
    <3>1. k \in Int /\ k \in Day .. 2 * Day - 1
      BY <1>1, <1>2, <2>2
    <3>2. k % Day = k - Day
      BY <1>1, <3>1, Remainder
    <3> QED BY <2>2, <3>2
  <2> QED BY <1>1, <2>1, <2>2
<1>3. n = IF s < e THEN e - s ELSE e - s + Day
  <2>1. CASE s < e
    <3>1. e - s \in 0 .. Day - 1
      BY <1>1, <2>1
    <3> QED BY <1>1, <2>1, <3>1, Remainder
  <2>2. CASE ~(s < e)
    <3>1. e - s \in -Day .. -1
      BY <1>1, <2>2
    <3> QED BY <1>1, <2>2, <3>1, Remainder
  <2> QED BY <2>1, <2>2
<1>4. InWindow(p, m) <=> IF s < e THEN s <= m /\ m < e ELSE s <= m \/ m < e
  BY <1>1 DEF InWindow
<1>5. ASSUME NEW k \in 0 .. n - 1 PROVE (s + k) % Day = IF s + k < Day THEN s + k ELSE s + k - Day
  BY <1>1, <1>2, <1>3
<1>6. ASSUME m \in Walk(p) PROVE InWindow(p, m)
  <2>1. PICK k \in 0 .. n - 1 : m = (s + k) % Day
    BY <1>6 DEF Walk
  <2> QED BY <1>1, <1>3, <1>4, <1>5, <2>1
<1>7. ASSUME InWindow(p, m) PROVE m \in Walk(p)
  <2> DEFINE k == IF s <= m THEN m - s ELSE m - s + Day
  <2>1. k \in 0 .. n - 1 /\ m = IF s + k < Day THEN s + k ELSE s + k - Day
    BY <1>1, <1>3, <1>4, <1>7
  <2>2. m = (s + k) % Day
    BY <1>5, <2>1
  <2> QED BY <2>1, <2>2 DEF Walk
<1> QED BY <1>6, <1>7

-----------------------------------------------------------------------------
(* A worker that can serve is one that takes.                              *)

\* Positions are numbers.
LEMMA Places ==
    ASSUME NEW w \in Worker
    PROVE  /\ w.runtimes \in Seq(Runtime) /\ DOMAIN w.runtimes = 1 .. Len(w.runtimes)
           /\ Len(w.runtimes) \in Nat
           /\ \A i \in DOMAIN w.runtimes : w.runtimes[i] \in Runtime
BY DEF Worker

\* A row is the artifact if the hashes say so, and where one of them is not
\* known if the name does (backend/scheduler.py:66-104).
LEMMA IsByHash ==
    ASSUME NEW e, NEW m
    PROVE  Is(e, m) <=> IF e.pin = None \/ m.digest = None THEN m.name \in e.targets
                                                        ELSE m.digest = e.pin
<1>1. CASE e.pin = None \/ m.digest = None
  BY <1>1 DEF Is
<1>2. CASE e.pin # None /\ m.digest # None
  BY <1>2 DEF Is
<1> QED BY <1>1, <1>2

\* A runtime hosts what it holds, while it is ready.
LEMMA HostsHeld ==
    ASSUME NEW rt \in Runtime, NEW e
    PROVE  Hosts(Advertised(rt), e) <=> rt.ready /\ Holds(rt, e)
<1>1. \A m \in rt.models : Schedulable(m) <=> m.status = "available"
  BY DEF Runtime, Model, Schedulable
<1>2. Hosts(Advertised(rt), e) <=> rt.ready /\ \E m \in rt.models : m.status = "available" /\ Is(e, m)
  BY <1>1 DEF Hosts, Advertised
<1> QED BY <1>2, IsByHash DEF Holds

LEMMA HostingHeld ==
    ASSUME NEW w \in Worker, NEW e
    PROVE  /\ Hosting(e, w) = {i \in DOMAIN w.runtimes : w.runtimes[i].ready /\ Holds(w.runtimes[i], e)}
           /\ Hosting(e, w) \in SUBSET Nat
<1>1. \A i \in DOMAIN w.runtimes : Hosts(Advertised(w.runtimes[i]), e)
                                    <=> w.runtimes[i].ready /\ Holds(w.runtimes[i], e)
  BY Places, HostsHeld
<1> QED BY <1>1, Places DEF Hosting

\* The runtime that is asked is the first that holds the entry.
LEMMA HostingIsFirst ==
    ASSUME NEW w \in Worker, NEW e, Hosting(e, w) # {}
    PROVE  /\ First(Hosting(e, w)) \in Hosting(e, w) /\ First(Hosting(e, w)) \in DOMAIN w.runtimes
           /\ \A j \in Hosting(e, w) : First(Hosting(e, w)) <= j
           /\ HostingRuntime(e, w) = w.runtimes[First(Hosting(e, w))]
           /\ HostingRuntime(e, w) \in Runtime
<1>1. Hosting(e, w) \in SUBSET Nat /\ Hosting(e, w) \subseteq DOMAIN w.runtimes
  BY HostingHeld
<1>2. /\ First(Hosting(e, w)) \in Hosting(e, w)
      /\ \A j \in Hosting(e, w) : First(Hosting(e, w)) <= j
  BY <1>1, FirstIsLeast
<1>3. HostingRuntime(e, w) = w.runtimes[First(Hosting(e, w))]
  BY DEF HostingRuntime, First
<1> QED BY <1>1, <1>2, <1>3, Places

\* fit_vram_only and fit_vram_plus_ram compare with the memory that one card
\* and the RAM to spare make (backend/scheduler.py:205-281).
LEMMA FitsInMemory ==
    ASSUME NEW w \in Worker, NEW rt, NEW e, e.vram \in Nat
    PROVE  Fits(e, w, rt.engine) <=> 5 * e.vram <= Memory(w, rt)
<1>1. /\ w.gpus \in SUBSET Nat /\ IsFiniteSet(w.gpus) /\ w.vramTotal \in Size
      /\ w.ramTotal \in Size /\ w.ramFree \in Size
  BY DEF Worker
<1>2. \A n \in Nat : n # None
  BY SchedulingAssumption
<1>3. Largest(w) \in Size
  <2>1. CASE w.gpus = {}
    BY <1>1, <2>1 DEF Largest
  <2>2. CASE w.gpus # {}
    <3>1. \E g \in w.gpus : \A h \in w.gpus : h <= g
      BY <1>1, <2>2, GreatestNumber
    <3>2. Largest(w) = CHOOSE g \in w.gpus : \A h \in w.gpus : h <= g
      BY <2>2 DEF Largest
    <3>3. Largest(w) \in w.gpus
      BY <3>1, <3>2
    <3> QED BY <1>1, <3>3 DEF Size
  <2> QED BY <2>1, <2>2
<1>4. Largest(w) = IF w.gpus = {} THEN w.vramTotal ELSE CHOOSE g \in w.gpus : \A h \in w.gpus : h <= g
  BY DEF Largest
<1> DEFINE kept == IF w.ramTotal # None /\ w.ramTotal > 20 THEN w.ramTotal ELSE 20
           left == IF w.ramFree # None /\ 5 * w.ramFree > kept THEN 5 * w.ramFree - kept ELSE 0
<1>5. kept \in Nat /\ kept = Atleast(20, IF w.ramTotal = None THEN 0 ELSE w.ramTotal)
  BY <1>1, <1>2 DEF Size, Atleast
<1>6. left \in Nat /\ left = UsableRam(w)
  <2> HIDE DEF kept
  <2>1. CASE w.ramFree = None
    BY <2>1 DEF UsableRam
  <2>2. CASE w.ramFree # None
    <3>1. w.ramFree \in Nat
      BY <1>1, <2>2 DEF Size
    <3> QED BY <1>5, <2>2, <3>1 DEF UsableRam, Atleast
  <2> QED BY <2>1, <2>2
<1>7. Memory(w, rt) = IF Largest(w) = None THEN -1
                      ELSE 5 * Largest(w) + (IF rt.engine \in Hybrid THEN left ELSE 0)
  BY <1>4 DEF Memory
<1>8. Fits(e, w, rt.engine) <=>
        /\ Largest(w) # None
        /\ 5 * Largest(w) + (IF rt.engine \in Hybrid THEN left ELSE 0) >= 5 * e.vram
  BY <1>6 DEF Fits
<1> HIDE DEF kept, left
<1>9. CASE Largest(w) = None
  BY <1>7, <1>8, <1>9
<1>10. CASE Largest(w) # None
  <2>1. Largest(w) \in Nat
    BY <1>3, <1>10 DEF Size
  <2> QED BY <1>6, <1>7, <1>8, <1>10, <2>1
<1> QED BY <1>9, <1>10

\* can_serve asks the runtime that FirstHolds describes, and what it describes.
LEMMA ServesFirst ==
    ASSUME NEW w \in Worker, NEW b \in Batch
    PROVE  FirstHolds(w, b) <=>
             LET e == Catalog[b.model]
             IN  /\ Hosting(e, w) # {}
                 /\ LET rt == HostingRuntime(e, w) IN b.needs \subseteq rt.caps /\ Fits(e, w, rt.engine)
<1> DEFINE e == Catalog[b.model]
           H == Hosting(e, w)
           Asked(i) == b.needs \subseteq w.runtimes[i].caps /\ 5 * e.vram <= Memory(w, w.runtimes[i])
<1>1. H = {i \in DOMAIN w.runtimes : w.runtimes[i].ready /\ Holds(w.runtimes[i], e)} /\ H \in SUBSET Nat
  BY HostingHeld
<1>2. FirstHolds(w, b) <=> \E i \in H : Asked(i) /\ \A j \in 1 .. i - 1 : j \notin H
  <2>1. \A i \in DOMAIN w.runtimes : \A j \in 1 .. i - 1 : j \in DOMAIN w.runtimes
    <3>1. PICK n \in Nat : DOMAIN w.runtimes = 1 .. n
      BY Places
    <3>2. \A i \in 1 .. n : \A j \in 1 .. i - 1 : j \in 1 .. n
      OBVIOUS
    <3> QED BY <3>1, <3>2
  <2>2. \A i \in DOMAIN w.runtimes : i \in H <=> w.runtimes[i].ready /\ Holds(w.runtimes[i], e)
    BY <1>1
  <2>3. FirstHolds(w, b) <=>
          \E i \in DOMAIN w.runtimes :
              /\ w.runtimes[i].ready /\ Holds(w.runtimes[i], e)
              /\ \A j \in 1 .. i - 1 : ~(w.runtimes[j].ready /\ Holds(w.runtimes[j], e))
              /\ Asked(i)
    BY DEF FirstHolds
  <2>4. H \subseteq DOMAIN w.runtimes
    BY <1>1
  <2> HIDE DEF H, Asked
  <2> QED BY <2>1, <2>2, <2>3, <2>4
<1>3. CASE H = {}
  BY <1>2, <1>3
<1>4. CASE H # {}
  <2> DEFINE f == First(H)
  <2>1. /\ f \in H /\ f \in DOMAIN w.runtimes /\ \A j \in H : f <= j
        /\ HostingRuntime(e, w) = w.runtimes[f]
    BY <1>4, HostingIsFirst
  <2>2. Fits(e, w, w.runtimes[f].engine) <=> 5 * e.vram <= Memory(w, w.runtimes[f])
    <3>1. e.vram \in Nat
      BY SchedulingAssumption DEF Batch
    <3> HIDE DEF f, e
    <3> QED BY <3>1, FitsInMemory
  <2>3. \A i \in H : (\A j \in 1 .. i - 1 : j \notin H) <=> i = f
    <3> HIDE DEF H, f
    <3>1. \A j \in H : j \in Nat /\ j >= 1
      <4>1. H \subseteq DOMAIN w.runtimes
        BY <1>1
      <4> QED BY <4>1, Places
    <3> QED BY <2>1, <3>1
  <2>4. FirstHolds(w, b) <=> Asked(f)
    <3> HIDE DEF H, f, Asked
    <3> QED BY <1>2, <2>1, <2>3
  <2> QED BY <1>4, <2>1, <2>2, <2>4
<1> QED BY <1>3, <1>4

\* The hours of a worker whose window is whole, or not set, on its own clock.
LEMMA HoursHold ==
    ASSUME NEW w \in DOMAIN workers, workers[w].policy \in Policy, ~Raises(workers[w]), NEW utc \in Int
    PROVE  /\ Clock(workers[w], utc) # None
           /\ InWindow(workers[w].policy, Clock(workers[w], utc)) <=> InHours(w, utc)
<1> DEFINE p == workers[w].policy
           c == Clock(workers[w], utc)
<1>1. /\ p.start \in (0 .. Day - 1) \cup {None} /\ p.end \in (0 .. Day - 1) \cup {None}
      /\ p.tz \in DOMAIN Offset \cup {None}
  BY DEF Policy
<1>2. Day \in Nat \ {0} /\ None \notin Int
  BY SchedulingAssumption
<1>3. c \in Int /\ (p.tz # None => c \in 0 .. Day - 1 /\ c = (utc + Offset[p.tz]) % Day)
  <2>1. CASE p.tz = None
    BY <2>1 DEF Clock
  <2>2. CASE p.tz # None
    <3>1. Offset[p.tz] \in Int
      BY <1>1, <2>2, SchedulingAssumption
    <3>2. c = (utc + Offset[p.tz]) % Day
      BY <2>2 DEF Clock
    <3>3. utc + Offset[p.tz] \in Int
      BY <3>1
    <3>4. c \in 0 .. Day - 1
      <4>1. PICK x \in Int : x = utc + Offset[p.tz]
        BY <3>3
      <4>2. x % Day \in 0 .. Day - 1
        BY <1>2, Remainder
      <4> HIDE DEF c, p
      <4> QED BY <3>2, <4>1, <4>2
    <3> QED BY <1>2, <3>2, <3>4
  <2> QED BY <2>1, <2>2
<1>4. CASE p.start = None \/ p.end = None
  BY <1>4 , <1>2, <1>3 DEF InWindow, InHours
<1>5. CASE p.start # None /\ p.end # None
  <2>1. p.tz # None
    BY <1>5 DEF Raises
  <2>2. p.start \in 0 .. Day - 1 /\ p.end \in 0 .. Day - 1 /\ c \in 0 .. Day - 1
    BY <1>1, <1>3, <1>5, <2>1
  <2>3. InHours(w, utc) <=> p.start = p.end \/ c \in Walk(p)
    BY <1>3, <1>5, <2>1 DEF InHours
  <2> HIDE DEF p, c
  <2>4. CASE p.start = p.end
    BY <1>2, <1>5, <2>2, <2>3, <2>4 DEF InWindow, p, c
  <2>5. CASE p.start # p.end
    <3>1. InWindow(p, c) <=> c \in Walk(p)
      BY <2>2, <2>5, WindowIsWalk
    <3> QED BY <1>2, <1>3, <2>3, <2>5, <3>1 DEF p, c
  <2> QED BY <2>4, <2>5 DEF p, c
<1> QED BY <1>4, <1>5

\* Whether can_serve says yes is whether the worker takes the batch.
LEMMA ServesTakes ==
    ASSUME NEW w \in DOMAIN workers, workers[w] \in Worker, ~Raises(workers[w]), NEW utc \in Int,
           NEW b \in Batch
    PROVE  CanServe(Catalog[b.model], workers[w], b.needs, b.size, Clock(workers[w], utc))
             <=> Takes(w, b, utc)
<1>1. workers[w].policy \in Policy
  BY DEF Worker
<1>2. b.size # None
  BY SchedulingAssumption DEF Batch
<1>3. AcceptsSize(workers[w].policy, b.size)
        <=> (workers[w].policy.limit # None => b.size <= workers[w].policy.limit)
  BY <1>2 DEF AcceptsSize
<1>4. PICK r \in Worker : r = workers[w]
  OBVIOUS
<1>5. PICK c : c = Clock(workers[w], utc)
  OBVIOUS
<1>6. c # None /\ (InWindow(r.policy, c) <=> InHours(w, utc))
  BY <1>1, <1>4, <1>5, HoursHold
<1>7. CanServe(Catalog[b.model], r, b.needs, b.size, c)
        <=> /\ c = None \/ InWindow(r.policy, c)
            /\ AcceptsSize(r.policy, b.size)
            /\ FirstHolds(r, b)
  BY ServesFirst DEF CanServe
<1> QED BY <1>3, <1>4, <1>5, <1>6, <1>7 DEF Takes

\* What is loaded is what the worker's ready runtimes have in memory.
LEMMA LoadedHeld ==
    ASSUME NEW w \in DOMAIN workers, workers[w] \in Worker, NEW b \in Batch
    PROVE  Hosts(LoadedModels(workers[w]), Catalog[b.model]) <=> IsLoaded(w, b)
<1>1. PICK r \in Worker : r = workers[w]
  OBVIOUS
<1> DEFINE e == Catalog[b.model]
           Warmed(rt) == [rt EXCEPT !.models = {m \in @ : m.loaded}]
<1>2. ASSUME NEW i \in DOMAIN r.runtimes
      PROVE  (\E m \in Advertised(r.runtimes[i]) : m.loaded /\ Is(e, m))
               <=> r.runtimes[i].ready /\ Holds(Warmed(r.runtimes[i]), e)
  <2>1. PICK rt \in Runtime : rt = r.runtimes[i]
    BY Places
  <2>2. Warmed(rt).models = {m \in rt.models : m.loaded}
    BY DEF Runtime
  <2>3. \A m \in rt.models : Schedulable(m) <=> m.status = "available"
    BY DEF Runtime, Model, Schedulable
  <2> HIDE DEF Warmed, e
  <2>4. Holds(Warmed(rt), e) <=> \E m \in rt.models : m.loaded /\ m.status = "available" /\ Is(e, m)
    BY <2>2, IsByHash DEF Holds
  <2>5. (\E m \in Advertised(rt) : m.loaded /\ Is(e, m))
          <=> rt.ready /\ \E m \in rt.models : m.status = "available" /\ m.loaded /\ Is(e, m)
    BY <2>3 DEF Advertised
  <2> QED BY <2>1, <2>4, <2>5
<1>3. Hosts(LoadedModels(r), e)
        <=> \E i \in DOMAIN r.runtimes : \E m \in Advertised(r.runtimes[i]) : m.loaded /\ Is(e, m)
  BY DEF Hosts, LoadedModels, AdvertisedModels
<1>4. IsLoaded(w, b) <=> \E i \in DOMAIN r.runtimes : r.runtimes[i].ready /\ Holds(Warmed(r.runtimes[i]), e)
  BY <1>1 DEF IsLoaded
<1> HIDE DEF Warmed, e
<1> QED BY <1>1, <1>2, <1>3, <1>4 DEF e

-----------------------------------------------------------------------------
(* The batch a poll gets.                                                  *)

\* find_best_batch takes the first of those whose model is loaded, else the
\* first that the worker takes (backend/scheduler.py:414-440).
LEMMA BestIsFirst ==
    ASSUME NEW w \in DOMAIN workers, workers[w] \in Worker, ~Raises(workers[w]), NEW utc \in Int,
           waiting \in Seq(Batch)
    PROVE  LET i    == FindBest(Catalog, workers[w], waiting, Clock(workers[w], utc))
               can  == {j \in DOMAIN waiting : Takes(w, waiting[j], utc)}
               warm == {j \in can : IsLoaded(w, waiting[j])}
               best == IF warm # {} THEN warm ELSE can
           IN  IF best = {} THEN i = 0 ELSE i \in best /\ \A j \in best : i <= j
<1> DEFINE c    == Clock(workers[w], utc)
           can  == {j \in DOMAIN waiting : Takes(w, waiting[j], utc)}
           warm == {j \in can : IsLoaded(w, waiting[j])}
           S    == Servable(Catalog, workers[w], waiting, c)
           W    == Warm(Catalog, workers[w], waiting, S)
<1>1. \A j \in DOMAIN waiting : waiting[j] \in Batch /\ j \in Nat
  OBVIOUS
<1>2. S = can
  <2>1. \A j \in DOMAIN waiting :
           /\ Catalog[waiting[j].model] # None
           /\ CanServe(Catalog[waiting[j].model], workers[w], waiting[j].needs, waiting[j].size, c)
                <=> Takes(w, waiting[j], utc)
    <3> SUFFICES ASSUME NEW j \in DOMAIN waiting
                 PROVE  /\ Catalog[waiting[j].model] # None
                        /\ CanServe(Catalog[waiting[j].model], workers[w], waiting[j].needs, waiting[j].size, c)
                             <=> Takes(w, waiting[j], utc)
      OBVIOUS
    <3>1. PICK b \in Batch : b = waiting[j]
      BY <1>1
    <3>2. Catalog[b.model] # None
      BY SchedulingAssumption DEF Batch
    <3>3. CanServe(Catalog[b.model], workers[w], b.needs, b.size, c) <=> Takes(w, b, utc)
      BY ServesTakes
    <3> HIDE DEF c
    <3> QED BY <3>1, <3>2, <3>3
  <2> HIDE DEF c
  <2> QED BY <2>1 DEF Servable
<1>3. W = warm
  <2>1. \A j \in DOMAIN waiting : Hosts(LoadedModels(workers[w]), Catalog[waiting[j].model])
                                    <=> IsLoaded(w, waiting[j])
    BY <1>1, LoadedHeld
  <2> HIDE DEF S
  <2> QED BY <1>2, <2>1 DEF Warm
<1>4. can \in SUBSET Nat /\ warm \in SUBSET Nat
  BY <1>1
<1>5. FindBest(Catalog, workers[w], waiting, c) =
        CASE warm # {} -> First(warm)
          [] warm = {} /\ can # {} -> First(can)
          [] OTHER -> 0
  <2> HIDE DEF c, can, warm
  <2> QED BY <1>2, <1>3 DEF FindBest
<1> HIDE DEF can, warm, c
<1>6. CASE warm # {}
  BY <1>4, <1>5, <1>6, FirstIsLeast DEF c, can, warm
<1>7. CASE warm = {} /\ can # {}
  BY <1>4, <1>5, <1>7, FirstIsLeast DEF c, can, warm
<1>8. CASE warm = {} /\ can = {}
  BY <1>5, <1>8 DEF c, can, warm
<1> QED BY <1>6, <1>7, <1>8

\* In every well-typed state a poll picks in order.
LEMMA TypedPicks == TypeOK => PicksInOrder
<1> SUFFICES ASSUME TypeOK, NEW w \in DOMAIN workers, NEW utc \in Minutes, ~Raises(workers[w])
             PROVE  LET i    == FindBest(Catalog, workers[w], waiting, Clock(workers[w], utc))
                        can  == {j \in DOMAIN waiting : Takes(w, waiting[j], utc)}
                        warm == {j \in can : IsLoaded(w, waiting[j])}
                        best == IF warm # {} THEN warm ELSE can
                    IN  IF best = {} THEN i = 0 ELSE i \in best /\ \A j \in best : i <= j
  BY DEF PicksInOrder
<1>1. workers[w] \in Worker /\ utc \in Int
  BY SchedulingAssumption DEF TypeOK
<1>2. Queued \subseteq Batch
  BY SchedulingAssumption DEF Queued
<1>3. waiting \in Seq(Batch)
  BY <1>2 DEF TypeOK
<1> QED BY <1>1, <1>3, BestIsFirst

-----------------------------------------------------------------------------
(* Type correctness.                                                       *)

\* What a PATCH would make of a policy is one.
LEMMA MergedPolicy ==
    ASSUME NEW p \in Policy, NEW sent, Merged(NoPolicy, sent) \in Policy
    PROVE  Merged(p, sent) \in Policy
<1>1. DOMAIN p = {"start", "end", "tz", "limit"} /\ DOMAIN NoPolicy = {"start", "end", "tz", "limit"}
  BY DEF Policy, NoPolicy
<1> DEFINE n == Merged(NoPolicy, sent)
           q == Merged(p, sent)
<1>2. \A f \in {"start", "end", "tz", "limit"} :
         /\ f \in DOMAIN sent => q[f] = n[f]
         /\ f \notin DOMAIN sent => q[f] = p[f]
  BY <1>1 DEF Merged
<1>3. q = [f \in {"start", "end", "tz", "limit"} |-> q[f]]
  BY <1>1 DEF Merged
<1> HIDE DEF n, q
<1>4. /\ q.start \in (0 .. Day - 1) \cup {None} /\ q.end \in (0 .. Day - 1) \cup {None}
      /\ q.tz \in DOMAIN Offset \cup {None} /\ q.limit \in (Nat \ {0}) \cup {None}
  <2>1. n \in Policy
    BY DEF n
  <2> QED BY <1>2, <2>1 DEF Policy
<1>5. q \in Policy
  BY <1>3, <1>4 DEF Policy
<1> QED BY <1>5 DEF q

\* The columns a PATCH writes make a policy of two.
LEMMA WrittenPolicy ==
    ASSUME NEW p \in Policy, NEW new \in Policy, NEW columns
    PROVE  [f \in DOMAIN p |-> IF f \in columns THEN new[f] ELSE p[f]] \in Policy
<1> DEFINE q == [f \in DOMAIN p |-> IF f \in columns THEN new[f] ELSE p[f]]
<1>1. DOMAIN p = {"start", "end", "tz", "limit"}
  BY DEF Policy
<1>2. \A f \in {"start", "end", "tz", "limit"} : q[f] \in {p[f], new[f]}
  BY <1>1
<1>3. q = [f \in {"start", "end", "tz", "limit"} |-> q[f]]
  BY <1>1
<1> HIDE DEF q
<1>4. /\ q.start \in (0 .. Day - 1) \cup {None} /\ q.end \in (0 .. Day - 1) \cup {None}
      /\ q.tz \in DOMAIN Offset \cup {None} /\ q.limit \in (Nat \ {0}) \cup {None}
  BY <1>2 DEF Policy
<1>5. q \in Policy
  BY <1>3, <1>4 DEF Policy
<1> QED BY <1>5 DEF q

\* A heartbeat leaves a row of the schema.
LEMMA BeatenWorker ==
    ASSUME NEW r \in Worker, NEW beat, {beat.vram, beat.ram} \subseteq Size,
           \A engine \in DOMAIN beat.up : beat.up[engine] \in BOOLEAN
    PROVE  Pinged(r, beat) \in Worker
<1>1. ASSUME NEW rt \in Runtime PROVE Beaten(rt, beat) \in Runtime
  <2> DEFINE ready == IF rt.engine \in DOMAIN beat.up THEN beat.up[rt.engine] ELSE rt.ready
             models == {[m EXCEPT !.loaded = m.name \in beat.loaded] : m \in rt.models}
  <2>1. ready \in BOOLEAN
    BY DEF Runtime
  <2>2. models \in SUBSET Model
    <3>1. ASSUME NEW m \in Model PROVE [m EXCEPT !.loaded = m.name \in beat.loaded] \in Model
      <4>1. \A b \in BOOLEAN : [m EXCEPT !.loaded = b] \in Model
        BY DEF Model
      <4>2. (m.name \in beat.loaded) \in BOOLEAN
        OBVIOUS
      <4> QED BY <4>1, <4>2, Zenon
    <3>2. rt.models \subseteq Model
      BY DEF Runtime
    <3> QED BY <3>1, <3>2
  <2>3. Beaten(rt, beat) = [rt EXCEPT !.ready = ready, !.models = models]
    BY DEF Beaten, Runtime
  <2> HIDE DEF ready, models
  <2> QED BY <2>1, <2>2, <2>3 DEF Runtime
<1>2. [i \in DOMAIN r.runtimes |-> Beaten(r.runtimes[i], beat)] \in Seq(Runtime)
  <2>1. \A i \in 1 .. Len(r.runtimes) : Beaten(r.runtimes[i], beat) \in Runtime
    BY <1>1, Places
  <2> QED BY <2>1, Places
<1> QED BY <1>2 DEF Worker, Pinged

\* What is left of a queue after one of it has been taken.
LEMMA LeftOfQueue ==
    ASSUME NEW S, NEW q \in Seq(S), NEW i \in 1 .. Len(q)
    PROVE  RemoveAt(q, i) \in Seq(S)
<1>1. SubSeq(q, 1, i - 1) \in Seq(S) /\ SubSeq(q, i + 1, Len(q)) \in Seq(S)
  OBVIOUS
<1> QED BY <1>1 DEF RemoveAt

\* A snapshot shows entries with the engines that serve them.
LEMMA SnapshotTyped ==
    ASSUME TypeOK, NEW utc \in Minutes
    PROVE  Snapshot(utc) \in Snap
<1>1. workers \in [DOMAIN Fleet -> Worker] /\ IsFiniteSet(DOMAIN Fleet)
  BY SchedulingAssumption DEF TypeOK
<1>2. Cardinality(Online) \in Nat
  <2>1. Online \subseteq DOMAIN Fleet
    BY <1>1 DEF Online
  <2>2. IsFiniteSet(Online)
    BY <1>1, <2>1, FS_Subset
  <2> QED BY <2>2, FS_CardinalityType
<1>3. ASSUME NEW m \in ServableNow(utc) PROVE Shown(m, utc) \in Shows
  <2> DEFINE engines == {HostingRuntime(Catalog[m], workers[w]).engine : w \in Able(m, {}, utc)}
             loaded  == \E w \in Online : Hosts(LoadedModels(workers[w]), Catalog[m])
             caps    == {k \in Capabilities : Able(m, {k}, utc) # {}}
  <2>1. m \in DOMAIN Catalog /\ Able(m, {}, utc) # {}
    BY <1>3 DEF ServableNow
  <2>2. engines # {}
    BY <2>1
  <2>3. engines \subseteq RuntimeTypes
    <3> SUFFICES ASSUME NEW w \in Able(m, {}, utc)
                 PROVE  HostingRuntime(Catalog[m], workers[w]).engine \in RuntimeTypes
      OBVIOUS
    <3>1. w \in DOMAIN workers /\ Hosting(Catalog[m], workers[w]) # {}
      BY DEF Able, Online, CanServe
    <3>2. workers[w] \in Worker
      BY <1>1, <3>1
    <3>3. HostingRuntime(Catalog[m], workers[w]) \in Runtime
      BY <3>1, <3>2, HostingIsFirst
    <3> QED BY <3>3 DEF Runtime
  <2>4. Shown(m, utc) = [id |-> m, loaded |-> loaded, caps |-> caps, engines |-> engines]
    BY DEF Shown
  <2>5. loaded \in BOOLEAN /\ caps \subseteq Capabilities
    OBVIOUS
  <2> HIDE DEF engines, loaded, caps
  <2> QED BY <2>1, <2>2, <2>3, <2>4, <2>5 DEF Shows
<1>4. ServableNow(utc) \subseteq DOMAIN Catalog
  BY DEF ServableNow
<1> DEFINE n == Cardinality(Online)
           all == ServableNow(utc)
           servable == {Shown(m, utc) : m \in all}
<1>5. servable \subseteq Shows
  BY <1>3
<1>6. Snapshot(utc) = [online |-> n, servable |-> servable, at |-> utc, all |-> all]
  BY DEF Snapshot
<1> HIDE DEF n, all, servable
<1> QED BY <1>2, <1>4, <1>5, <1>6 DEF Snap, n, all


LEMMA InitTyped == Init => TypeOK
<1> SUFFICES ASSUME Init PROVE TypeOK
  OBVIOUS
<1>1. workers \in [DOMAIN Fleet -> Worker]
  BY SchedulingAssumption DEF Init
<1>2. waiting \in Seq(Queued)
  <2>1. Batches \in Seq(Queued)
    BY SchedulingAssumption DEF Queued
  <2> QED BY <2>1 DEF Init
<1> QED BY <1>1, <1>2 DEF Init, TypeOK

LEMMA PatchTyped ==
    ASSUME TypeOK, NEW a \in Admins
    PROVE  /\ \A w \in DOMAIN Fleet : \A sent \in Requests[w] : SetPolicyRead(a, w, sent) => TypeOK'
           /\ SetPolicyCommit(a) => TypeOK'
<1>1. ASSUME NEW w \in DOMAIN Fleet, NEW sent \in Requests[w], SetPolicyRead(a, w, sent) PROVE TypeOK'
  <2> DEFINE old == workers[w].policy
             new == Merged(old, sent)
             columns == {f \in DOMAIN old : new[f] # old[f]}
             p == [worker |-> w, columns |-> columns, new |-> new]
  <2>1. old \in Policy
    BY DEF TypeOK, Worker
  <2>2. new \in Policy
    BY <2>1, MergedPolicy, SchedulingAssumption
  <2>3. columns \subseteq DOMAIN NoPolicy
    <3>1. DOMAIN old = DOMAIN NoPolicy
      BY <2>1 DEF Policy, NoPolicy
    <3> QED BY <3>1
  <2>4. patch' = [patch EXCEPT ![a] = p]
    BY <1>1 DEF SetPolicyRead
  <2>5. p \in Patch
    <3> HIDE DEF columns, new
    <3> QED BY <2>2, <2>3 DEF Patch
  <2> HIDE DEF p
  <2>6. UNCHANGED <<workers, waiting, given, cache, call>>
    BY <1>1 DEF SetPolicyRead
  <2> QED BY <2>4, <2>5, <2>6 DEF TypeOK
<1>2. ASSUME SetPolicyCommit(a) PROVE TypeOK'
  <2> DEFINE p == patch[a]
             w == p.worker
             policy == [f \in DOMAIN workers[w].policy |->
                           IF f \in p.columns THEN p.new[f] ELSE workers[w].policy[f]]
  <2>1. p \in Patch
    BY <1>2 DEF SetPolicyCommit, TypeOK
  <2>2. w \in DOMAIN Fleet /\ p.new \in Policy
    BY <2>1 DEF Patch
  <2>3. workers[w] \in Worker
    BY <2>2 DEF TypeOK
  <2>4. policy \in Policy
    <3>1. workers[w].policy \in Policy
      BY <2>3 DEF Worker
    <3> QED BY <2>2, <3>1, WrittenPolicy
  <2>5. workers' = [workers EXCEPT ![w] = [workers[w] EXCEPT !.policy = policy]]
    BY <1>2 DEF SetPolicyCommit
  <2>6. [workers[w] EXCEPT !.policy = policy] \in Worker
    <3> HIDE DEF policy, w
    <3> QED BY <2>3, <2>4 DEF Worker
  <2> HIDE DEF policy
  <2>7. workers' \in [DOMAIN Fleet -> Worker]
    BY <2>2, <2>5, <2>6 DEF TypeOK
  <2>8. patch' = [patch EXCEPT ![a] = None] /\ UNCHANGED <<waiting, given, cache, call>>
    BY <1>2 DEF SetPolicyCommit
  <2> QED BY <2>7, <2>8 DEF TypeOK
<1> QED BY <1>1, <1>2

LEMMA WorkerTyped ==
    ASSUME TypeOK, NEW w \in DOMAIN Fleet
    PROVE  /\ \A beat \in Pings[w] : Ping(w, beat) => TypeOK'
           /\ Silence(w) \/ Sweep(w) \/ Drain(w) \/ Undrain(w) => TypeOK'
<1>1. workers[w] \in Worker
  BY DEF TypeOK
<1>2. ASSUME NEW beat \in Pings[w], Ping(w, beat) PROVE TypeOK'
  <2>1. {beat.vram, beat.ram} \subseteq Size /\ \A engine \in DOMAIN beat.up : beat.up[engine] \in BOOLEAN
    BY SchedulingAssumption
  <2>2. Pinged(workers[w], beat) \in Worker
    BY <1>1, <2>1, BeatenWorker
  <2>3. workers' = [workers EXCEPT ![w] = Pinged(workers[w], beat)]
    BY <1>2 DEF Ping
  <2>4. UNCHANGED <<waiting, patch, given, cache, call>>
    BY <1>2 DEF Ping
  <2> QED BY <2>2, <2>3, <2>4 DEF TypeOK
<1>3. ASSUME Silence(w) PROVE TypeOK'
  <2>1. [workers[w] EXCEPT !.fresh = FALSE] \in Worker
    BY <1>1 DEF Worker
  <2>2. workers' = [workers EXCEPT ![w] = [workers[w] EXCEPT !.fresh = FALSE]]
    BY <1>3 DEF Silence
  <2>3. UNCHANGED <<waiting, patch, given, cache, call>>
    BY <1>3 DEF Silence
  <2> QED BY <2>1, <2>2, <2>3 DEF TypeOK
<1>4. ASSUME NEW from, NEW to \in {"online", "draining", "offline"}, SetStatus(w, from, to) PROVE TypeOK'
  <2>1. [workers[w] EXCEPT !.status = to] \in Worker
    BY <1>1 DEF Worker
  <2>2. workers' = [workers EXCEPT ![w] = [workers[w] EXCEPT !.status = to]]
    BY <1>4 DEF SetStatus
  <2>3. UNCHANGED <<waiting, patch, given, cache, call>>
    BY <1>4 DEF SetStatus
  <2> QED BY <2>1, <2>2, <2>3 DEF TypeOK
<1> QED BY <1>2, <1>3, <1>4 DEF Sweep, Drain, Undrain

LEMMA PollTyped ==
    ASSUME TypeOK, NEW w \in DOMAIN Fleet
    PROVE  /\ \A utc \in Minutes : PollMatch(w, utc) => TypeOK'
           /\ PollAnswer(w) => TypeOK'
<1>1. ASSUME NEW utc \in Minutes, PollMatch(w, utc) PROVE TypeOK'
  <2> DEFINE i == FindBest(Catalog, workers[w], waiting, Clock(workers[w], utc))
  <2>1. i \in DOMAIN waiting
    <3>1. w \in DOMAIN workers /\ workers[w] \in Worker /\ utc \in Int
      BY SchedulingAssumption DEF TypeOK
    <3>2. waiting \in Seq(Batch)
      <4>1. Queued \subseteq Batch
        BY SchedulingAssumption DEF Queued
      <4> QED BY <4>1 DEF TypeOK
    <3>3. ~Raises(workers[w]) /\ i # 0
      BY <1>1 DEF PollMatch
    <3> QED BY <3>1, <3>2, <3>3, BestIsFirst
  <2>2. given' = [given EXCEPT ![w] = [batch |-> waiting[i], utc |-> utc]] /\ waiting' = RemoveAt(waiting, i)
    BY <1>1 DEF PollMatch
  <2>3. UNCHANGED <<workers, patch, cache, call>>
    BY <1>1 DEF PollMatch
  <2> HIDE DEF i
  <2>4. waiting' \in Seq(Queued)
    BY <2>1, <2>2, LeftOfQueue DEF TypeOK
  <2>5. [batch |-> waiting[i], utc |-> utc] \in Given
    BY <2>1 DEF TypeOK, Given
  <2> QED BY <2>2, <2>3, <2>4, <2>5 DEF TypeOK
<1>2. ASSUME PollAnswer(w) PROVE TypeOK'
  BY <1>2 DEF PollAnswer, TypeOK
<1> QED BY <1>1, <1>2

LEMMA CallerTyped ==
    ASSUME TypeOK, NEW c \in Callers
    PROVE  /\ \A utc \in Minutes : Ask(c, utc) => TypeOK'
           /\ Store(c) \/ Reply(c) \/ Expire => TypeOK'
<1> DEFINE Call == [snap : Snap, computed : BOOLEAN]
<1>1. ASSUME NEW utc \in Minutes, Ask(c, utc) PROVE TypeOK'
  <2>1. UNCHANGED <<workers, waiting, patch, given, cache>>
    BY <1>1 DEF Ask
  <2>2. CASE cache # None
    <3>1. call' = [call EXCEPT ![c] = [snap |-> cache, computed |-> FALSE]]
      BY <1>1, <2>2 DEF Ask
    <3>2. [snap |-> cache, computed |-> FALSE] \in Call
      BY <2>2 DEF TypeOK
    <3> QED BY <2>1, <3>1, <3>2 DEF TypeOK
  <2>3. CASE cache = None
    <3>1. call' = [call EXCEPT ![c] = [snap |-> Snapshot(utc), computed |-> TRUE]]
      BY <1>1, <2>3 DEF Ask
    <3>2. [snap |-> Snapshot(utc), computed |-> TRUE] \in Call
      BY SnapshotTyped
    <3> QED BY <2>1, <3>1, <3>2 DEF TypeOK
  <2> QED BY <2>2, <2>3
<1>2. ASSUME Store(c) PROVE TypeOK'
  <2>1. call[c].snap \in Snap
    BY <1>2 DEF Store, TypeOK
  <2>2. cache' = call[c].snap /\ call' = [call EXCEPT ![c] = [snap |-> call[c].snap, computed |-> FALSE]]
    BY <1>2 DEF Store, Kept
  <2>3. [snap |-> call[c].snap, computed |-> FALSE] \in Call
    BY <2>1
  <2>4. UNCHANGED <<workers, waiting, patch, given>>
    BY <1>2 DEF Store
  <2> QED BY <2>1, <2>2, <2>3, <2>4 DEF TypeOK
<1>3. ASSUME Reply(c) PROVE TypeOK'
  BY <1>3 DEF Reply, TypeOK
<1>4. ASSUME Expire PROVE TypeOK'
  BY <1>4 DEF Expire, TypeOK
<1> QED BY <1>1, <1>2, <1>3, <1>4

LEMMA StepTyped == TypeOK /\ [Next]_vars => TypeOK'
<1> SUFFICES ASSUME TypeOK, [Next]_vars PROVE TypeOK'
  OBVIOUS
<1>1. ASSUME NEW w \in DOMAIN Fleet, WorkerStep(w) PROVE TypeOK'
  BY <1>1, WorkerTyped, PollTyped DEF WorkerStep
<1>2. ASSUME NEW a \in Admins, ProviderStep(a) PROVE TypeOK'
  BY <1>2, PatchTyped, WorkerTyped DEF ProviderStep
<1>3. ASSUME NEW c \in Callers, CallerStep(c) PROVE TypeOK'
  BY <1>3, CallerTyped DEF CallerStep
<1>4. CASE Expire
  BY <1>4 DEF Expire, TypeOK
<1>5. CASE UNCHANGED vars
  BY <1>5 DEF vars, TypeOK
<1> QED BY <1>1, <1>2, <1>3, <1>4, <1>5 DEF Next

\* The rows, the queue, what a PATCH and a poll hold between their steps and
\* the snapshots keep their types: a policy that a PATCH writes column by column
\* is one, and an entry is shown with an engine that serves it.
THEOREM SchedulingTypeCorrect == Spec => []TypeOK
BY InitTyped, StepTyped, PTL DEF Spec

\* In every reachable state, a poll of any worker at any minute would get the
\* first batch it takes, a loaded one before another (find_best_batch).
THEOREM PicksAlwaysInOrder == Spec => []PicksInOrder
<1>1. Spec => []TypeOK
  BY SchedulingTypeCorrect
<1>2. TypeOK => PicksInOrder
  BY TypedPicks
<1> QED BY <1>1, <1>2, PTL


-----------------------------------------------------------------------------
(* The name a poll answers.                                                *)

\* The rows dispatch looks through are those under which the worker holds the
\* artifact, and of the names it may send it prefers an alias
\* (backend/scheduler.py:106-176).
LEMMA HandedAreHeld ==
    ASSUME NEW w \in Worker, NEW e, NEW name \in HandedNames(e, AdvertisedModels(w))
    PROVE  IF Held(w, e) = {} THEN name = e.legacy
           ELSE name \in Held(w, e) /\ (Held(w, e) \cap e.targets \cap Bare # {} => name \in Bare)
<1> DEFINE models   == AdvertisedModels(w)
           profiled == {m.name : m \in {x \in models : x.name \in e.targets /\ Is(e, x)}}
           exact    == {m.name : m \in {x \in models : Is(e, x)}}
           H        == Held(w, e)
<1>1. ASSUME NEW i \in DOMAIN w.runtimes, NEW m \in w.runtimes[i].models
      PROVE  Holds([w.runtimes[i] EXCEPT !.models = {m}], e) <=> Schedulable(m) /\ Is(e, m)
  <2>1. PICK rt \in Runtime : rt = w.runtimes[i]
    BY Places
  <2>2. Schedulable(m) <=> m.status = "available"
    <3>1. m \in Model
      BY <2>1 DEF Runtime
    <3> QED BY <3>1 DEF Model, Schedulable
  <2>3. [rt EXCEPT !.models = {m}].models = {m}
    BY DEF Runtime
  <2>4. Holds([rt EXCEPT !.models = {m}], e) <=> m.status = "available" /\ Is(e, m)
    BY <2>3, IsByHash DEF Holds
  <2> QED BY <2>1, <2>2, <2>4
<1>2. H = exact
  <2> DEFINE Of(i) == {m.name : m \in {x \in w.runtimes[i].models :
                                          Holds([w.runtimes[i] EXCEPT !.models = {x}], e)}}
             In(i) == {m.name : m \in {x \in w.runtimes[i].models : Schedulable(x) /\ Is(e, x)}}
             ready == {i \in DOMAIN w.runtimes : w.runtimes[i].ready}
  <2>1. H = UNION {Of(i) : i \in ready}
    BY DEF Held
  <2>2. \A i \in DOMAIN w.runtimes : Of(i) = In(i)
    BY <1>1
  <2>3. exact = UNION {In(i) : i \in ready}
    <3>1. \A n : n \in exact <=> \E i \in DOMAIN w.runtimes : w.runtimes[i].ready /\ n \in In(i)
      <4>1. \A m : m \in models <=> \E i \in DOMAIN w.runtimes :
               w.runtimes[i].ready /\ m \in w.runtimes[i].models /\ Schedulable(m)
        BY DEF AdvertisedModels, Advertised
      <4> HIDE DEF models
      <4> QED BY <4>1
    <3> HIDE DEF In, exact
    <3> QED BY <3>1
  <2> HIDE DEF H, exact, Of, In
  <2> QED BY <2>1, <2>2, <2>3
<1>3. H \cap e.targets = profiled
  <2>1. exact \cap e.targets = profiled
    OBVIOUS
  <2> QED BY <1>2, <2>1
<1>4. HandedNames(e, models) =
        CASE profiled # {} -> PreferBare(profiled)
          [] profiled = {} /\ exact # {} -> PreferBare(exact)
          [] OTHER -> {e.legacy}
  BY DEF HandedNames
<1>5. PICK n : n = name
  OBVIOUS
<1> HIDE DEF profiled, exact, H, models
<1>6. n \in HandedNames(e, models)
  BY <1>5 DEF models
<1>7. CASE profiled # {}
  <2>1. n \in PreferBare(profiled)
    BY <1>4, <1>6, <1>7
  <2>2. n \in profiled /\ (profiled \cap Bare # {} => n \in Bare)
    BY <2>1 DEF PreferBare
  <2> QED BY <1>3, <1>5, <2>2 DEF H
<1>8. CASE profiled = {} /\ exact # {}
  <2>1. n \in PreferBare(exact)
    BY <1>4, <1>6, <1>8
  <2>2. n \in exact
    BY <2>1 DEF PreferBare
  <2> QED BY <1>2, <1>3, <1>5, <1>8, <2>2 DEF H
<1>9. CASE profiled = {} /\ exact = {}
  <2>1. n = e.legacy
    BY <1>4, <1>6, <1>9
  <2> QED BY <1>2, <1>5, <1>9, <2>1 DEF H
<1> QED BY <1>7, <1>8, <1>9

\* Only the answer of a poll and the reply of the pool leave something in did.
LEMMA NextAnswers ==
    Next => did' = None \/ (\E c \in Callers : Reply(c)) \/ (\E w \in DOMAIN Fleet : PollAnswer(w))
<1>1. ASSUME NEW w \in DOMAIN Fleet, WorkerStep(w) PROVE did' = None \/ PollAnswer(w)
  BY <1>1 DEF WorkerStep, Ping, Silence, Sweep, SetStatus, PollMatch, Begin
<1>2. ASSUME NEW a \in Admins, ProviderStep(a) PROVE did' = None
  BY <1>2 DEF ProviderStep, SetPolicyRead, SetPolicyCommit, Drain, Undrain, SetStatus, Begin
<1>3. ASSUME NEW c \in Callers, CallerStep(c) PROVE did' = None \/ Reply(c)
  BY <1>3 DEF CallerStep, Ask, Store, Begin
<1> QED BY <1>1, <1>2, <1>3 DEF Next, Expire

\* The only step that answers a poll reads the rows it answers from; whatever
\* changes the rows later leaves no answer behind.
LEMMA StepHanded == TypeOK /\ HandedIsHeld /\ [Next]_vars => HandedIsHeld'
<1> SUFFICES ASSUME TypeOK, HandedIsHeld, [Next]_vars PROVE HandedIsHeld'
  OBVIOUS
<1>1. CASE \E w \in DOMAIN Fleet : PollAnswer(w)
  <2>1. PICK w \in DOMAIN Fleet : PollAnswer(w)
    BY <1>1
  <2>2. PICK r \in Worker : r = workers[w]
    BY DEF TypeOK
  <2> DEFINE b == given[w].batch
             e == Catalog[b.model]
  <2>3. PICK name \in HandedNames(e, AdvertisedModels(r)) :
           did' = [kind |-> "job", worker |-> w, batch |-> b, name |-> name]
    BY <2>1, <2>2 DEF PollAnswer
  <2>4. workers' = workers
    BY <2>1 DEF PollAnswer
  <2>5. did'.worker = w /\ did'.batch = b /\ did'.name = name
    BY <2>3
  <2> HIDE DEF b
  <2>6. Catalog[did'.batch.model] = e /\ workers'[did'.worker] = r
    BY <2>2, <2>4, <2>5
  <2> HIDE DEF e
  <2>7. IF Held(r, e) = {} THEN name = e.legacy
        ELSE name \in Held(r, e) /\ (Held(r, e) \cap e.targets \cap Bare # {} => name \in Bare)
    BY HandedAreHeld
  <2> QED BY <2>5, <2>6, <2>7 DEF HandedIsHeld
<1>2. CASE \E c \in Callers : Reply(c)
  <2>1. did'.kind = "pool"
    BY <1>2 DEF Reply
  <2> QED BY <2>1 DEF HandedIsHeld
<1>3. CASE UNCHANGED vars
  BY <1>3 DEF vars, HandedIsHeld
<1>4. CASE did' = None
  BY <1>4 DEF HandedIsHeld
<1> QED BY <1>1, <1>2, <1>3, <1>4, NextAnswers

\* The name a poll answers is one under which the worker holds the artifact at
\* that moment, an alias if it has one; and the legacy name if it holds none.
THEOREM HandedAlwaysHeld == Spec => []HandedIsHeld
<1>1. Spec => []TypeOK
  BY SchedulingTypeCorrect
<1>2. Init => HandedIsHeld
  BY DEF Init, HandedIsHeld
<1>3. TypeOK /\ HandedIsHeld /\ [Next]_vars => HandedIsHeld'
  BY StepHanded
<1> QED BY <1>1, <1>2, <1>3, PTL DEF Spec

-----------------------------------------------------------------------------
(* What the pool tells.                                                    *)

\* A worker that could be given something for an entry, whatever its size, takes
\* a batch of one prompt: a limit is at least one.
LEMMA ServesOne ==
    ASSUME NEW w \in DOMAIN workers, workers[w] \in Worker, ~Raises(workers[w]), NEW utc \in Int,
           NEW m \in DOMAIN Catalog, NEW needs \in SUBSET Capabilities,
           CanServe(Catalog[m], workers[w], needs, None, Clock(workers[w], utc))
    PROVE  Takes(w, [model |-> m, needs |-> needs, size |-> 1], utc)
<1> DEFINE b == [model |-> m, needs |-> needs, size |-> 1]
           c == Clock(workers[w], utc)
<1>1. b \in Batch
  BY DEF Batch
<1>2. b.model = m /\ b.needs = needs /\ b.size = 1
  OBVIOUS
<1>3. AcceptsSize(workers[w].policy, 1)
  <2>1. workers[w].policy.limit \in (Nat \ {0}) \cup {None}
    BY DEF Worker, Policy
  <2>2. \A n \in Nat \ {0} : 1 <= n
    OBVIOUS
  <2> QED BY <2>1, <2>2 DEF AcceptsSize
<1> HIDE DEF b, c
<1>4. CanServe(Catalog[m], workers[w], needs, 1, c)
  BY <1>3 DEF CanServe, c
<1>5. CanServe(Catalog[b.model], workers[w], b.needs, b.size, c)
  BY <1>2, <1>4
<1>6. Takes(w, b, utc)
  BY <1>1, <1>5, ServesTakes DEF c
<1> QED BY <1>6 DEF b

\* A snapshot shows every servable entry, and no other.
Whole(snap) == {s.id : s \in snap.servable} = snap.all

\* So do the cache and the snapshots the requests hold.
SnapshotsWhole ==
    /\ cache # None => Whole(cache)
    /\ \A c \in Callers : call[c] # None => Whole(call[c].snap)

LEMMA SnapshotWhole == \A utc : Whole(Snapshot(utc))
<1> SUFFICES ASSUME NEW utc PROVE Whole(Snapshot(utc))
  OBVIOUS
<1> DEFINE all == ServableNow(utc)
           servable == {Shown(m, utc) : m \in all}
<1>1. \A m : Shown(m, utc).id = m
  BY DEF Shown
<1> HIDE DEF all
<1>2. {s.id : s \in servable} = all
  BY <1>1
<1>3. Snapshot(utc).servable = servable /\ Snapshot(utc).all = all
  BY DEF Snapshot, all
<1> QED BY <1>2, <1>3 DEF Whole

LEMMA StepWhole == TypeOK /\ SnapshotsWhole /\ [Next]_vars => SnapshotsWhole'
<1> SUFFICES ASSUME TypeOK, SnapshotsWhole, [Next]_vars PROVE SnapshotsWhole'
  OBVIOUS
<1>1. ASSUME NEW c \in Callers, NEW utc \in Minutes, Ask(c, utc) PROVE SnapshotsWhole'
  <2>1. cache' = cache
    BY <1>1 DEF Ask
  <2>2. PICK snap, b : Whole(snap) /\ call' = [call EXCEPT ![c] = [snap |-> snap, computed |-> b]]
    <3>1. CASE cache # None
      BY <1>1, <3>1 DEF Ask, SnapshotsWhole
    <3>2. CASE cache = None
      BY <1>1, <3>2, SnapshotWhole DEF Ask
    <3> QED BY <3>1, <3>2
  <2> QED BY <2>1, <2>2 DEF SnapshotsWhole, TypeOK
<1>2. ASSUME NEW c \in Callers, Store(c) PROVE SnapshotsWhole'
  <2>1. PICK snap : snap = call[c].snap /\ Whole(snap)
    BY <1>2 DEF Store, SnapshotsWhole
  <2>2. cache' = snap /\ call' = [call EXCEPT ![c] = [snap |-> snap, computed |-> FALSE]]
    BY <1>2, <2>1 DEF Store, Kept
  <2> QED BY <2>1, <2>2 DEF SnapshotsWhole, TypeOK
<1>3. ASSUME NEW c \in Callers, Reply(c) PROVE SnapshotsWhole'
  BY <1>3 DEF Reply, SnapshotsWhole, TypeOK
<1>4. CASE Expire
  BY <1>4 DEF Expire, SnapshotsWhole
<1>5. CASE UNCHANGED <<cache, call>>
  BY <1>5 DEF SnapshotsWhole
<1>6. ASSUME NEW w \in DOMAIN Fleet, WorkerStep(w) PROVE UNCHANGED <<cache, call>>
  BY <1>6 DEF WorkerStep, Ping, Silence, Sweep, SetStatus, PollMatch, PollAnswer
<1>7. ASSUME NEW a \in Admins, ProviderStep(a) PROVE UNCHANGED <<cache, call>>
  BY <1>7 DEF ProviderStep, SetPolicyRead, SetPolicyCommit, Drain, Undrain, SetStatus
<1>8. CASE UNCHANGED vars
  BY <1>5, <1>8 DEF vars
<1> QED BY <1>1, <1>2, <1>3, <1>4, <1>5, <1>6, <1>7, <1>8 DEF Next, CallerStep

\* Whatever a snapshot shows, the poll of a worker who is there would be given.
LEMMA SnapshotRuns ==
    ASSUME TypeOK, NEW utc \in Minutes, \A w \in Online : ~Raises(workers[w]),
           NEW s \in Snapshot(utc).servable
    PROVE  LET Runs(needs) == \E w \in DOMAIN workers :
                  /\ workers[w].status = "online" /\ workers[w].fresh
                  /\ Takes(w, [model |-> s.id, needs |-> needs, size |-> 1], utc)
           IN  Runs({}) /\ \A k \in s.caps : Runs({k})
<1> DEFINE Runs(m, needs) == \E w \in DOMAIN workers :
              /\ workers[w].status = "online" /\ workers[w].fresh
              /\ Takes(w, [model |-> m, needs |-> needs, size |-> 1], utc)
<1>1. PICK m \in ServableNow(utc) : s = Shown(m, utc)
  BY DEF Snapshot
<1>2. m \in DOMAIN Catalog /\ Able(m, {}, utc) # {}
  BY DEF ServableNow
<1>3. s.id = m /\ s.caps = {k \in Capabilities : Able(m, {k}, utc) # {}}
  BY <1>1 DEF Shown
<1>4. ASSUME NEW needs \in SUBSET Capabilities, Able(m, needs, utc) # {} PROVE Runs(m, needs)
  <2>1. PICK w \in Able(m, needs, utc) : TRUE
    BY <1>4
  <2>2. /\ w \in DOMAIN workers /\ w \in Online
        /\ workers[w].status = "online" /\ workers[w].fresh
        /\ CanServe(Catalog[m], workers[w], needs, None, Clock(workers[w], utc))
    BY DEF Able, Online
  <2>3. workers[w] \in Worker /\ utc \in Int
    BY <2>2, SchedulingAssumption DEF TypeOK
  <2>4. ~Raises(workers[w])
    BY <2>2
  <2>5. Takes(w, [model |-> m, needs |-> needs, size |-> 1], utc)
    BY <1>2, <2>2, <2>3, <2>4, ServesOne
  <2> QED BY <2>2, <2>5
<1> HIDE DEF Runs
<1>5. Runs(m, {})
  BY <1>2, <1>4
<1>6. \A k \in s.caps : Runs(m, {k})
  <2> SUFFICES ASSUME NEW k \in s.caps PROVE Runs(m, {k})
    OBVIOUS
  <2>1. {k} \in SUBSET Capabilities /\ Able(m, {k}, utc) # {}
    BY <1>3
  <2> QED BY <1>4, <2>1
<1> QED BY <1>3, <1>5, <1>6 DEF Runs

\* A snapshot is taken by Ask alone, and made of the rows as they are.
LEMMA StepShown == TypeOK /\ Next => ShownRuns
<1> SUFFICES ASSUME TypeOK, Next, NEW c \in Callers,
                    call[c] = None, call'[c] # None, call'[c].computed
             PROVE  LET snap == call'[c].snap
                        Runs(m, needs) == \E w \in DOMAIN workers :
                            /\ workers[w].status = "online" /\ workers[w].fresh
                            /\ Takes(w, [model |-> m, needs |-> needs, size |-> 1], snap.at)
                    IN  \A s \in snap.servable : Runs(s.id, {}) /\ \A k \in s.caps : Runs(s.id, {k})
  BY DEF ShownRuns
<1>1. PICK utc \in Minutes : Ask(c, utc)
  <2>1. ~ UNCHANGED call
    OBVIOUS
  <2>2. \E d \in Callers : CallerStep(d)
    <3>1. ASSUME NEW w \in DOMAIN Fleet, WorkerStep(w) PROVE UNCHANGED call
      BY <3>1 DEF WorkerStep, Ping, Silence, Sweep, SetStatus, PollMatch, PollAnswer
    <3>2. ASSUME NEW a \in Admins, ProviderStep(a) PROVE UNCHANGED call
      BY <3>2 DEF ProviderStep, SetPolicyRead, SetPolicyCommit, Drain, Undrain, SetStatus
    <3> QED BY <2>1, <3>1, <3>2 DEF Next, Expire
  <2>3. PICK d \in Callers : CallerStep(d)
    BY <2>2
  <2>4. ~Store(d) /\ ~Reply(d)
    BY DEF Store, Reply, TypeOK
  <2>5. d = c
    BY <2>3, <2>4 DEF CallerStep, Ask, TypeOK
  <2> QED BY <2>3, <2>4, <2>5 DEF CallerStep
<1>2. CASE cache # None
  BY <1>1, <1>2 DEF Ask, TypeOK
<1>3. CASE cache = None
  <2>1. (\A w \in Online : ~Raises(workers[w])) /\ call'[c].snap = Snapshot(utc)
    BY <1>1, <1>3 DEF Ask, TypeOK
  <2>2. Snapshot(utc).at = utc
    BY DEF Snapshot
  <2>3. PICK snap : snap = Snapshot(utc)
    OBVIOUS
  <2> QED BY <2>1, <2>2, <2>3, SnapshotRuns
<1> QED BY <1>2, <1>3

\* A reply is filtered for the caller, of a snapshot that was not.
LEMMA StepAnswered == SnapshotsWhole /\ Next => AnswerIsForCaller'
<1> SUFFICES ASSUME SnapshotsWhole, Next PROVE AnswerIsForCaller'
  OBVIOUS
<1>1. CASE \E c \in Callers : Reply(c)
  <2>1. PICK c \in Callers : Reply(c)
    BY <1>1
  <2>2. PICK snap : snap = call[c].snap
    OBVIOUS
  <2> DEFINE hardware == c \in Known /\ snap.online >= MinWorkers
             servable == Visible(c, snap.servable)
  <2>3. did' = [kind |-> "pool", caller |-> c, from |-> snap, servable |-> servable, hardware |-> hardware]
    BY <2>1, <2>2 DEF Reply
  <2>4. Whole(snap)
    BY <2>1, <2>2 DEF Reply, SnapshotsWhole
  <2>5. {s.id : s \in servable} = {m \in snap.all : Catalog[m].org = None \/ Catalog[m].org \in Sees[c]}
    BY <2>4 DEF Whole, Visible
  <2>6. hardware => c \in Known /\ snap.online >= MinWorkers
    OBVIOUS
  <2> HIDE DEF hardware, servable
  <2>7. did'.caller = c /\ did'.from = snap /\ did'.servable = servable /\ did'.hardware = hardware
    BY <2>3
  <2> QED BY <2>5, <2>6, <2>7 DEF AnswerIsForCaller
<1>2. CASE \E w \in DOMAIN Fleet : PollAnswer(w)
  <2>1. did'.kind = "job"
    BY <1>2 DEF PollAnswer
  <2> QED BY <2>1 DEF AnswerIsForCaller
<1>3. CASE did' = None
  BY <1>3 DEF AnswerIsForCaller
<1> QED BY <1>1, <1>2, <1>3, NextAnswers

\* What the pool shows is what the scheduler would dispatch, and a caller sees
\* all that is public or theirs, whoever filled the cache.
THEOREM PoolAlwaysTrue == Spec => PoolTellsTheTruth
<1>1. Spec => []TypeOK
  BY SchedulingTypeCorrect
<1>2. Init => SnapshotsWhole
  BY DEF Init, SnapshotsWhole
<1>3. TypeOK /\ SnapshotsWhole /\ [Next]_vars => SnapshotsWhole'
  BY StepWhole
<1> DEFINE Told == ShownRuns /\ AnswerIsForCaller'
<1>4. TypeOK /\ SnapshotsWhole /\ [Next]_vars => [Told]_vars
  BY StepShown, StepAnswered
<1> HIDE DEF Told
<1>5. Spec => [][Told]_vars
  BY <1>1, <1>2, <1>3, <1>4, PTL DEF Spec
<1> QED BY <1>5 DEF PoolTellsTheTruth, Told

-----------------------------------------------------------------------------
(* Inventory: a heartbeat, item by item.                                   *)

\* What the first k items lead to, one item at a time.
LEMMA LandingsAreSteps ==
    ASSUME NEW start, NEW items, Len(items) \in Nat
    PROVE  \A k \in 0 .. Len(items) :
              Landings(start, items)[k] =
                 IF k = 0 THEN start ELSE Landed(Landings(start, items)[k - 1], items[k])
<1> DEFINE n == Len(items)
           P(m, f) == f = [k \in 0 .. m |-> IF k = 0 THEN start ELSE Landed(f[k - 1], items[k])]
           Bad == {m \in Nat : ~\E f : P(m, f)}
<1>1. Bad = {}
  <2>1. SUFFICES ASSUME Bad # {} PROVE FALSE
    OBVIOUS
  <2>2. PICK m \in Bad : \A j \in Bad : m <= j
    <3>1. Bad \in SUBSET Nat
      OBVIOUS
    <3> HIDE DEF Bad
    <3> QED BY <2>1, <3>1, LeastNumber
  <2>3. m # 0
    <3>1. P(0, [k \in 0 .. 0 |-> start])
      OBVIOUS
    <3> QED BY <3>1
  <2>4. m \in Nat /\ m - 1 \in Nat /\ m - 1 \notin Bad
    <3>1. m \in Nat
      OBVIOUS
    <3> HIDE DEF Bad
    <3> QED BY <2>2, <2>3, <3>1
  <2>5. PICK f : P(m - 1, f)
    BY <2>4
  <2> DEFINE g == [k \in 0 .. m |-> IF k = 0 THEN start ELSE Landed(f[k - 1], items[k])]
  <2>6. \A k \in 0 .. m - 1 : f[k] = IF k = 0 THEN start ELSE Landed(f[k - 1], items[k])
    BY <2>5, <2>4
  <2>7. \A k \in 0 .. m - 1 : g[k] = f[k]
    BY <2>6, <2>4
  <2>8. \A k \in 0 .. m : g[k] = IF k = 0 THEN start ELSE Landed(g[k - 1], items[k])
    <3>1. \A k \in 0 .. m : k # 0 => g[k - 1] = f[k - 1]
      <4> HIDE DEF g
      <4> QED BY <2>7, <2>4
    <3> QED BY <3>1
  <2>9. P(m, g)
    <3>1. g = [k \in 0 .. m |-> g[k]]
      OBVIOUS
    <3> HIDE DEF g
    <3> QED BY <3>1, <2>8
  <2> QED BY <2>9
<1>2. \E f : P(n, f)
  BY <1>1
<1>3. Landings(start, items) = CHOOSE f : P(n, f)
  BY DEF Landings
<1>4. P(n, Landings(start, items))
  BY <1>2, <1>3
<1> QED BY <1>4

-----------------------------------------------------------------------------
(* Stored values.                                                          *)

IsList(rts) == \E n \in Nat : rts = [i \in 1 .. n |-> rts[i]]

\* A worker's runtimes, each engine once.
Wired(rts) ==
    /\ IsList(rts) /\ \A i \in DOMAIN rts : IsRuntime(rts[i])
    /\ \A i, j \in DOMAIN rts : rts[i].engine = rts[j].engine => i = j

CatOK(cat) == DOMAIN cat = Ids /\ \A id \in Ids : cat[id] # None => IsEntry(cat[id])

\* The second catalogue differs from the first in names that were learned.
Grown(cat, new) ==
    /\ DOMAIN cat = Ids /\ DOMAIN new = Ids
    /\ \A id \in Ids :
          /\ cat[id] = None <=> new[id] = None
          /\ cat[id] # None =>
                /\ new[id].pin = cat[id].pin /\ new[id].files = cat[id].files /\ new[id].legacy = cat[id].legacy
                /\ DOMAIN new[id].profiles = DOMAIN cat[id].profiles
                /\ \A r \in DOMAIN cat[id].profiles :
                      /\ new[id].profiles[r].name = cat[id].profiles[r].name
                      /\ cat[id].profiles[r].extras \subseteq new[id].profiles[r].extras

\* What RowsFollowReports says of one row against the catalogue.
Pinned(cat, h) == \E id \in Ids : cat[id] # None /\ h \in {cat[id].pin} \cup cat[id].files
Unpinned(cat, n) ==
    \E id \in Ids : cat[id] # None /\ cat[id].pin = None /\ n \in
        {cat[id].legacy} \cup {cat[id].profiles[r].name : r \in DOMAIN cat[id].profiles}
Sound(cat, n, row) ==
    /\ row.entry # None => cat[row.entry] # None
    /\ row.fresh /\ row.hash # None =>
          IF Pinned(cat, row.hash) THEN row.status \in {"available", "missing"}
          ELSE row.status = "available" => Unpinned(cat, n)

\* A runtime against what is remembered of it: its last listing, the beats
\* since, those since one with its liveness, the names it ever had.
RuntimeOK(cat, rt, h, s, q, l) ==
    /\ s \in 0 .. 2 /\ q \in 0 .. 2 /\ h \in (SUBSET ItemSet) \cup {None} /\ l \in SUBSET Labels
    /\ rt.empty <= q
    /\ \A n \in DOMAIN rt.models : n \in l /\ Sound(cat, n, rt.models[n])
    /\ h # None => \A item \in h :
          /\ item.name \in DOMAIN rt.models
          /\ item.hash \in {None, rt.models[item.name].hash}
          /\ s = 0 => rt.models[item.name].loaded = item.loaded

WorkerOK(cat, rts, h, s, q, l) ==
    /\ Wired(rts)
    /\ h = [e \in Engines(rts) |-> h[e]] /\ s = [e \in Engines(rts) |-> s[e]]
    /\ q = [e \in Engines(rts) |-> q[e]] /\ l = [e \in Engines(rts) |-> l[e]]
    /\ \A i \in DOMAIN rts : \A e \in Kinds :
          rts[i].engine = e => RuntimeOK(cat, rts[i], h[e], s[e], q[e], l[e])

Candidates == [hash : Hashes, names : SUBSET Labels, engine : Kinds]

\* An entry of the catalogue has these fields.
LEMMA EntryFields ==
    ASSUME NEW e, IsEntry(e)
    PROVE  /\ e.pin \in Hashes \cup {None} /\ e.files \in SUBSET Hashes /\ e.legacy \in Labels
           /\ DOMAIN e.profiles \subseteq Kinds /\ \A r \in DOMAIN e.profiles : e.profiles[r] \in ProfileSet
           /\ e # None
           /\ e = [pin |-> e.pin, files |-> e.files, legacy |-> e.legacy, profiles |-> e.profiles]
<1>1. e \in EntryOver(DOMAIN e.profiles) /\ DOMAIN e.profiles \in SUBSET Kinds
  BY DEF IsEntry
<1>2. e # None
  BY <1>1, StockAssumption
<1> QED BY <1>1, <1>2 DEF EntryOver

\* What is made of these fields is one.
LEMMA MakeEntry ==
    ASSUME NEW pin \in Hashes \cup {None}, NEW files \in SUBSET Hashes, NEW legacy \in Labels,
           NEW D \in SUBSET Kinds, NEW f \in [D -> ProfileSet]
    PROVE  LET e == [pin |-> pin, files |-> files, legacy |-> legacy, profiles |-> f]
           IN  IsEntry(e) /\ e # None
<1> DEFINE e == [pin |-> pin, files |-> files, legacy |-> legacy, profiles |-> f]
<1>1. IsEntry(e)
  BY DEF IsEntry, EntryOver
<1> QED BY <1>1, EntryFields

\* A runtime has these fields, and its rows are a table.
LEMMA RuntimeFields ==
    ASSUME NEW rt, IsRuntime(rt)
    PROVE  /\ rt.engine \in Kinds /\ rt.ready \in BOOLEAN /\ rt.empty \in 0 .. 2
           /\ DOMAIN rt.models \subseteq Labels /\ \A n \in DOMAIN rt.models : rt.models[n] \in RowSet
           /\ IsTable(rt.models)
BY DEF IsRuntime, IsTable, Delisting

\* A runtime with its liveness, its count and its rows replaced.
LEMMA NewRows ==
    ASSUME NEW rt, IsRuntime(rt), NEW table, IsTable(table)
    PROVE  LET new == [rt EXCEPT !.models = table]
           IN  /\ IsRuntime(new) /\ new.models = table
               /\ new.engine = rt.engine /\ new.ready = rt.ready /\ new.empty = rt.empty
BY DEF IsRuntime

LEMMA NewReady ==
    ASSUME NEW rt, IsRuntime(rt), NEW b \in BOOLEAN
    PROVE  LET new == [rt EXCEPT !.ready = b]
           IN  IsRuntime(new) /\ new.models = rt.models /\ new.engine = rt.engine /\ new.empty = rt.empty
BY DEF IsRuntime

-----------------------------------------------------------------------------
(* The catalogue.                                                          *)

LEMMA GrownTwice ==
    ASSUME NEW a, NEW b, NEW c, Grown(a, b), Grown(b, c)
    PROVE  Grown(a, c)
<1>1. DOMAIN a = Ids /\ DOMAIN c = Ids
  BY DEF Grown
<1>2. \A id \in Ids : a[id] = None <=> c[id] = None
  BY DEF Grown
<1>3. ASSUME NEW id \in Ids, a[id] # None
      PROVE  /\ c[id].pin = a[id].pin /\ c[id].files = a[id].files /\ c[id].legacy = a[id].legacy
             /\ DOMAIN c[id].profiles = DOMAIN a[id].profiles
             /\ \A r \in DOMAIN a[id].profiles :
                   /\ c[id].profiles[r].name = a[id].profiles[r].name
                   /\ a[id].profiles[r].extras \subseteq c[id].profiles[r].extras
  <2>1. b[id] # None
    BY <1>3 DEF Grown
  <2> QED BY <1>3, <2>1 DEF Grown
<1> QED BY <1>1, <1>2, <1>3 DEF Grown

\* NamesOf that were learned change neither what is pinned nor what is not.
LEMMA GrownSound ==
    ASSUME NEW a, NEW b, Grown(a, b), CatOK(a)
    PROVE  /\ \A h : Pinned(a, h) <=> Pinned(b, h)
           /\ \A n : Unpinned(a, n) <=> Unpinned(b, n)
           /\ \A n, row : row.entry \in Ids \cup {None} => (Sound(a, n, row) <=> Sound(b, n, row))
<1>1. \A h : Pinned(a, h) <=> Pinned(b, h)
  BY DEF Pinned, Grown
<1>2. \A n : Unpinned(a, n) <=> Unpinned(b, n)
  <2>1. ASSUME NEW id \in Ids, a[id] # None
        PROVE  {b[id].profiles[r].name : r \in DOMAIN b[id].profiles} = {a[id].profiles[r].name : r \in DOMAIN a[id].profiles}
    BY <2>1 DEF Grown
  <2>2. \A id \in Ids : a[id] # None => b[id].pin = a[id].pin /\ b[id].legacy = a[id].legacy
    BY DEF Grown
  <2>3. \A id \in Ids : a[id] = None <=> b[id] = None
    BY DEF Grown
  <2> QED BY <2>1, <2>2, <2>3 DEF Unpinned
<1>3. \A id \in Ids : a[id] = None <=> b[id] = None
  BY DEF Grown
<1> QED BY <1>1, <1>2, <1>3, StockAssumption DEF Sound

\* Teaching a profile a name changes nothing but what it has learned.
LEMMA TaughtGrows ==
    ASSUME NEW cat, CatOK(cat), NEW id \in Ids \cup {None}, id # None => cat[id] # None,
           NEW name \in Labels, NEW engine
    PROVE  CatOK(Taught(cat, id, name, engine)) /\ Grown(cat, Taught(cat, id, name, engine))
<1> DEFINE new == Taught(cat, id, name, engine)
<1>1. CASE ~(id # None /\ name \notin Targets(cat[id]) /\ engine \in DOMAIN cat[id].profiles)
  <2>1. new = cat
    BY <1>1 DEF Taught
  <2> QED BY <2>1 DEF CatOK, Grown
<1>2. CASE id # None /\ name \notin Targets(cat[id]) /\ engine \in DOMAIN cat[id].profiles
  <2> DEFINE e == cat[id]
             p == e.profiles[engine]
             q == [e.profiles EXCEPT ![engine] = [p EXCEPT !.extras = p.extras \cup {name}]]
             f == [e EXCEPT !.profiles = q]
  <2>1. IsEntry(e) /\ id \in Ids /\ e # None
    BY <1>2 DEF CatOK
  <2>2. new = [cat EXCEPT ![id] = f]
    BY <1>2 DEF Taught
  <2>3. /\ e.pin \in Hashes \cup {None} /\ e.files \in SUBSET Hashes /\ e.legacy \in Labels
        /\ DOMAIN e.profiles \in SUBSET Kinds /\ \A r \in DOMAIN e.profiles : e.profiles[r] \in ProfileSet
        /\ e = [pin |-> e.pin, files |-> e.files, legacy |-> e.legacy, profiles |-> e.profiles]
    <3> HIDE DEF e
    <3> QED BY <2>1, EntryFields
  <2>4. e.profiles \in [DOMAIN e.profiles -> ProfileSet]
    BY <2>1 DEF IsEntry, EntryOver
  <2>5. /\ q \in [DOMAIN e.profiles -> ProfileSet] /\ DOMAIN q = DOMAIN e.profiles
        /\ \A r \in DOMAIN e.profiles : q[r].name = e.profiles[r].name /\ e.profiles[r].extras \subseteq q[r].extras
    <3> HIDE DEF e
    <3> QED BY <1>2, <2>3, <2>4 DEF ProfileSet, e
  <2>6. f = [pin |-> e.pin, files |-> e.files, legacy |-> e.legacy, profiles |-> q]
    <3> HIDE DEF e, q
    <3> QED BY <2>3
  <2>7. /\ IsEntry(f) /\ f # None /\ f.pin = e.pin /\ f.files = e.files /\ f.legacy = e.legacy
        /\ f.profiles = q
    <3>1. DOMAIN e.profiles \in SUBSET Kinds
      BY <2>3
    <3> HIDE DEF e, q, f
    <3> QED BY <2>3, <2>5, <2>6, <3>1, MakeEntry
  <2>8. /\ DOMAIN new = Ids /\ new[id] = f /\ \A x \in Ids : x # id => new[x] = cat[x]
    <3> HIDE DEF new, f
    <3> QED BY <2>1, <2>2 DEF CatOK
  <2>9. CatOK(new)
    <3> HIDE DEF new, f
    <3> QED BY <2>7, <2>8 DEF CatOK
  <2>10. Grown(cat, new)
    <3>1. ASSUME NEW x \in Ids, cat[x] # None, x # id
          PROVE  new[x] = cat[x]
      BY <3>1, <2>8
    <3>2. cat[id] = e
      OBVIOUS
    <3>3. DOMAIN cat = Ids
      BY DEF CatOK
    <3> HIDE DEF new, f, e, q
    <3> QED BY <2>1, <2>5, <2>7, <2>8, <3>2, <3>3 DEF Grown
  <2> QED BY <2>9, <2>10
<1> QED BY <1>1, <1>2

\* classify_entry gives a status that the pins allow.
LEMMA ClassifyIsSound ==
    ASSUME NEW cat, CatOK(cat), NEW name \in Labels, NEW h \in Hashes \cup {None}
    PROVE  /\ Classify(cat, name, h).status \in {"available", "unregistered", "drift"}
           /\ Classify(cat, name, h).entry \in Ids \cup {None}
           /\ Classify(cat, name, h).entry # None => cat[Classify(cat, name, h).entry] # None
           /\ h = None => Classify(cat, name, h).status = "available"
           /\ h # None => IF Pinned(cat, h) THEN Classify(cat, name, h).status = "available"
                          ELSE Classify(cat, name, h).status = "available" => Unpinned(cat, name)
<1> DEFINE c == Classify(cat, name, h)
           found == ByHash(cat, h)
           named == ByName(cat, name)
<1>1. CASE h = None
  <2>1. c = [status |-> "available", entry |-> None]
    BY <1>1 DEF Classify, ByHash
  <2> QED BY <1>1, <2>1
<1>2. CASE h # None /\ found # {}
  <2>1. c = [status |-> "available", entry |-> CHOOSE id \in found : TRUE]
    BY <1>2 DEF Classify
  <2>2. (CHOOSE id \in found : TRUE) \in found
    BY <1>2
  <2>3. \A id \in found : id \in Ids /\ cat[id] # None
    BY DEF ByHash, Entries
  <2>4. Pinned(cat, h)
    BY <1>2 DEF ByHash, Entries, Pinned
  <2> HIDE DEF found
  <2> QED BY <1>2, <2>1, <2>2, <2>3, <2>4
<1>3. CASE h # None /\ found = {} /\ named = {}
  <2>1. c = [status |-> "unregistered", entry |-> None]
    BY <1>3 DEF Classify
  <2>2. ~Pinned(cat, h)
    BY <1>3 DEF ByHash, Entries, Pinned
  <2> QED BY <1>3, <2>1, <2>2
<1>4. CASE h # None /\ found = {} /\ named # {}
  <2> DEFINE st == IF \A id \in named : cat[id].pin # None THEN "drift" ELSE "available"
  <2>1. c = [status |-> st, entry |-> None]
    BY <1>4 DEF Classify
  <2>2. ~Pinned(cat, h)
    BY <1>4 DEF ByHash, Entries, Pinned
  <2>3. st \in {"drift", "available"}
    OBVIOUS
  <2>4. st = "available" => Unpinned(cat, name)
    BY DEF ByName, Entries, Unpinned
  <2> HIDE DEF st
  <2> QED BY <1>4, <2>1, <2>2, <2>3, <2>4
<1> QED BY <1>1, <1>2, <1>3, <1>4

\* A row that was just classified.
LEMMA RowIsSound ==
    ASSUME NEW cat, CatOK(cat), NEW name \in Labels, NEW h \in Hashes \cup {None}, NEW on \in BOOLEAN
    PROVE  /\ Row(cat, name, h, on) \in RowSet /\ Sound(cat, name, Row(cat, name, h, on))
           /\ Row(cat, name, h, on).hash = h /\ Row(cat, name, h, on).loaded = on
           /\ Row(cat, name, h, on).entry = Classify(cat, name, h).entry
           /\ Row(cat, name, h, on).entry \in Ids \cup {None}
<1> DEFINE c == Classify(cat, name, h)
           row == Row(cat, name, h, on)
<1>1. row = [hash |-> h, status |-> c.status, entry |-> c.entry, loaded |-> on, fresh |-> TRUE]
  BY DEF Row
<1>2. /\ c.status \in {"available", "unregistered", "drift"} /\ c.entry \in Ids \cup {None}
      /\ c.entry # None => cat[c.entry] # None
      /\ h # None => IF Pinned(cat, h) THEN c.status = "available" ELSE c.status = "available" => Unpinned(cat, name)
  BY ClassifyIsSound
<1> HIDE DEF c, row
<1>3. row \in RowSet
  BY <1>1, <1>2 DEF RowSet
<1>4. Sound(cat, name, row)
  BY <1>1, <1>2 DEF Sound
<1> QED BY <1>1, <1>2, <1>3, <1>4 DEF c, row

-----------------------------------------------------------------------------
(* Registration.                                                           *)

\* A registered runtime holds the rows of its request, each classified.
LEMMA RegisteredOK ==
    ASSUME NEW cat, CatOK(cat), NEW r \in RequestSet
    PROVE  /\ IsRuntime(Registered(cat, r)) /\ Registered(cat, r).engine = r.engine
           /\ Registered(cat, r).empty = 0
           /\ \A n \in DOMAIN Registered(cat, r).models : Sound(cat, n, Registered(cat, r).models[n])
<1> DEFINE hashed == {i.name : i \in r.inventory}
           T(name) == IF name \in hashed THEN Row(cat, name, Item(r, name).hash, Item(r, name).loaded)
                      ELSE Row(cat, name, None, FALSE)
           D == r.models \cup hashed
           table == [name \in D |-> T(name)]
<1>1. /\ r.engine \in Kinds /\ r.ready \in BOOLEAN /\ r.models \in SUBSET Labels
      /\ r.inventory \in SUBSET ItemSet
  BY DEF RequestSet
<1>2. D \subseteq Labels
  BY <1>1 DEF ItemSet
<1>3. ASSUME NEW name \in D
      PROVE  T(name) \in RowSet /\ Sound(cat, name, T(name))
  <2>1. CASE name \in hashed
    <3>1. Item(r, name) \in r.inventory
      BY <2>1 DEF Item
    <3>2. Item(r, name).hash \in Hashes \cup {None} /\ Item(r, name).loaded \in BOOLEAN
      BY <1>1, <3>1 DEF ItemSet
    <3>3. T(name) = Row(cat, name, Item(r, name).hash, Item(r, name).loaded)
      BY <2>1
    <3> HIDE DEF T
    <3> QED BY <1>2, <3>2, <3>3, RowIsSound
  <2>2. CASE name \notin hashed
    <3>1. T(name) = Row(cat, name, None, FALSE)
      BY <2>2
    <3>2. name \in Labels
      BY <1>2
    <3>3. \A on \in BOOLEAN : Row(cat, name, None, on) \in RowSet /\ Sound(cat, name, Row(cat, name, None, on))
      BY <3>2, RowIsSound
    <3>4. Row(cat, name, None, FALSE) \in RowSet /\ Sound(cat, name, Row(cat, name, None, FALSE))
      BY <3>3, Zenon
    <3> HIDE DEF T
    <3> QED BY <3>1, <3>4
  <2> QED BY <2>1, <2>2
<1>4. Registered(cat, r) = [engine |-> r.engine, ready |-> r.ready, empty |-> 0, models |-> table]
  BY DEF Registered
<1> HIDE DEF T, D
<1>5. IsTable(table)
  BY <1>2, <1>3 DEF IsTable
<1>6. DOMAIN table = D /\ \A name \in D : table[name] = T(name)
  OBVIOUS
<1> HIDE DEF table
<1> QED BY <1>1, <1>3, <1>4, <1>5, <1>6 DEF IsRuntime, Delisting

\* After a registration nothing has been heard, and nothing missed.
LEMMA RegisterOK ==
    ASSUME NEW cat, CatOK(cat), NEW req \in Seq(RequestSet),
           \A i, j \in DOMAIN req : req[i].engine = req[j].engine => i = j
    PROVE  LET rts == [i \in DOMAIN req |-> Registered(cat, req[i])]
               L(e) == UNION {DOMAIN rts[i].models : i \in {i \in DOMAIN req : req[i].engine = e}}
           IN  /\ WorkerOK(cat, rts, [e \in Engines(req) |-> None], [e \in Engines(req) |-> 0],
                           [e \in Engines(req) |-> 0], [e \in Engines(req) |-> L(e)])
               /\ DOMAIN rts = DOMAIN req /\ Engines(rts) = Engines(req)
<1> DEFINE rts == [i \in DOMAIN req |-> Registered(cat, req[i])]
           L(e) == UNION {DOMAIN rts[i].models : i \in {i \in DOMAIN req : req[i].engine = e}}
           h == [e \in Engines(req) |-> None]
           z == [e \in Engines(req) |-> 0]
           l == [e \in Engines(req) |-> L(e)]
<1>1. DOMAIN req = 1 .. Len(req) /\ Len(req) \in Nat /\ \A i \in DOMAIN req : req[i] \in RequestSet
  OBVIOUS
<1>2. ASSUME NEW i \in DOMAIN req
      PROVE  /\ IsRuntime(rts[i]) /\ rts[i].engine = req[i].engine /\ rts[i].empty = 0
             /\ rts[i].engine \in Engines(req)
             /\ \A n \in DOMAIN rts[i].models : Sound(cat, n, rts[i].models[n])
  <2>1. rts[i] = Registered(cat, req[i]) /\ req[i] \in RequestSet
    BY <1>1
  <2>2. req[i].engine \in Engines(req)
    BY DEF Engines
  <2> HIDE DEF rts
  <2> QED BY <2>1, <2>2, RegisteredOK
<1>3. DOMAIN rts = DOMAIN req /\ rts = [i \in 1 .. Len(req) |-> rts[i]]
  BY <1>1
<1>4. IsList(rts)
  BY <1>1, <1>3 DEF IsList
<1>5. \A i \in DOMAIN req : DOMAIN rts[i].models \subseteq Labels
  <2> HIDE DEF rts
  <2> QED BY <1>2, RuntimeFields
<1>6. \A e : L(e) \in SUBSET Labels
  BY <1>5
<1>7. \A i \in DOMAIN req : DOMAIN rts[i].models \subseteq L(req[i].engine)
  OBVIOUS
<1> HIDE DEF rts, L
<1>8. Wired(rts)
  <2>1. \A i \in DOMAIN rts : IsRuntime(rts[i]) /\ rts[i].engine = req[i].engine
    BY <1>2, <1>3
  <2>2. \A i, j \in DOMAIN rts : rts[i].engine = rts[j].engine => i = j
    BY <2>1, <1>3
  <2> QED BY <1>4, <2>1, <2>2 DEF Wired
<1>9. Engines(rts) = Engines(req)
  <2>1. \A i \in DOMAIN req : rts[i].engine = req[i].engine
    BY <1>2
  <2>2. DOMAIN rts = DOMAIN req
    BY <1>3
  <2>3. {rts[i].engine : i \in DOMAIN rts} = {req[i].engine : i \in DOMAIN req}
    BY <2>1, <2>2
  <2> QED BY <2>3 DEF Engines
<1>10. ASSUME NEW i \in DOMAIN rts, NEW e \in Kinds, rts[i].engine = e
       PROVE  RuntimeOK(cat, rts[i], h[e], z[e], z[e], l[e])
  <2>1. e \in Engines(req) /\ e = req[i].engine
    BY <1>2, <1>3, <1>10
  <2>2. h[e] = None /\ z[e] = 0 /\ l[e] = L(e)
    BY <2>1
  <2>3. rts[i].empty = 0 /\ \A n \in DOMAIN rts[i].models : n \in L(e) /\ Sound(cat, n, rts[i].models[n])
    BY <1>2, <1>3, <1>7, <2>1
  <2>4. L(e) \in SUBSET Labels
    BY <1>6
  <2> HIDE DEF h, z, l
  <2> QED BY <2>2, <2>3, <2>4 DEF RuntimeOK
<1>11. /\ h = [e \in Engines(rts) |-> h[e]] /\ z = [e \in Engines(rts) |-> z[e]]
       /\ l = [e \in Engines(rts) |-> l[e]]
  BY <1>9
<1>12. WorkerOK(cat, rts, h, z, z, l)
  <2> HIDE DEF h, z, l
  <2> QED BY <1>8, <1>10, <1>11 DEF WorkerOK
<1> QED BY <1>3, <1>9, <1>12 DEF rts, L

-----------------------------------------------------------------------------
(* The runtimes of a worker, and the parts of a heartbeat.                 *)

\* An item goes to the runtime of its tag, and to the first without one.
LEMMA PlaceHosts ==
    ASSUME NEW rts, Wired(rts), rts # <<>>, NEW x
    PROVE  /\ 1 \in DOMAIN rts /\ Place(rts, x) \in DOMAIN rts
           /\ \A i \in DOMAIN rts : rts[i].engine = x => Place(rts, x) = i
           /\ x \notin Engines(rts) => Place(rts, x) = 1
<1> DEFINE at == {i \in DOMAIN rts : rts[i].engine = x}
<1>1. PICK n \in Nat : rts = [i \in 1 .. n |-> rts[i]]
  BY DEF Wired, IsList
<1>2. DOMAIN rts = 1 .. n
  BY <1>1
<1>3. 1 \in DOMAIN rts
  <2>1. CASE n = 0
    <3>1. rts = <<>>
      BY <1>1, <2>1
    <3> QED BY <3>1
  <2>2. CASE n # 0
    BY <1>2, <2>2
  <2> QED BY <2>1, <2>2
<1>4. CASE at = {}
  <2>1. Place(rts, x) = 1
    BY <1>4 DEF Place
  <2> QED BY <1>3, <1>4, <2>1 DEF Engines
<1>5. CASE at # {}
  <2>1. PICK i \in at : TRUE
    BY <1>5
  <2>2. at = {i}
    BY <2>1 DEF Wired
  <2>3. i <= i
    BY <1>2, <2>1
  <2>4. Place(rts, x) = i
    <3>1. Place(rts, x) = CHOOSE k \in at : \A j \in at : j <= k
      BY <1>5 DEF Place
    <3> HIDE DEF at
    <3> QED BY <3>1, <2>2, <2>3
  <2> QED BY <1>3, <2>1, <2>2, <2>4 DEF Engines
<1> QED BY <1>4, <1>5

\* Where an item goes depends on the engines alone.
LEMMA SamePlace ==
    ASSUME NEW a, NEW b, DOMAIN a = DOMAIN b, \A i \in DOMAIN a : a[i].engine = b[i].engine
    PROVE  Engines(a) = Engines(b) /\ \A x : Place(a, x) = Place(b, x)
<1>1. Engines(a) = Engines(b)
  BY DEF Engines
<1>2. ASSUME NEW x PROVE Place(a, x) = Place(b, x)
  <2>1. {i \in DOMAIN a : a[i].engine = x} = {i \in DOMAIN b : b[i].engine = x}
    OBVIOUS
  <2> DEFINE A == {i \in DOMAIN a : a[i].engine = x}
             B == {i \in DOMAIN b : b[i].engine = x}
  <2>2. Place(a, x) = IF A = {} THEN 1 ELSE CHOOSE i \in A : \A j \in A : j <= i
    BY DEF Place
  <2>3. Place(b, x) = IF B = {} THEN 1 ELSE CHOOSE i \in B : \A j \in B : j <= i
    BY DEF Place
  <2>4. A = B
    BY <2>1
  <2> HIDE DEF A, B
  <2> QED BY <2>2, <2>3, <2>4
<1> QED BY <1>1, <1>2

LEMMA WiredAgain ==
    ASSUME NEW a, Wired(a), NEW b, b = [i \in DOMAIN a |-> b[i]],
           \A i \in DOMAIN a : IsRuntime(b[i]) /\ b[i].engine = a[i].engine
    PROVE  Wired(b) /\ DOMAIN b = DOMAIN a
<1>1. DOMAIN b = DOMAIN a
  OBVIOUS
<1>2. PICK n \in Nat : a = [i \in 1 .. n |-> a[i]]
  BY DEF Wired, IsList
<1>3. DOMAIN a = 1 .. n
  BY <1>2
<1>4. IsList(b)
  BY <1>3 DEF IsList
<1> QED BY <1>1, <1>4 DEF Wired

\* The liveness a beat brings leaves the rows alone.
LEMMA ProbedOK ==
    ASSUME NEW rts, Wired(rts), NEW beat, IsBeat(beat)
    PROVE  /\ Wired(Probed(rts, beat)) /\ DOMAIN Probed(rts, beat) = DOMAIN rts
           /\ \A i \in DOMAIN rts :
                 /\ Probed(rts, beat)[i].engine = rts[i].engine /\ Probed(rts, beat)[i].empty = rts[i].empty
                 /\ Probed(rts, beat)[i].models = rts[i].models
<1> DEFINE b(i) == IF rts[i].engine \in DOMAIN beat.up THEN beat.up[rts[i].engine] ELSE rts[i].ready
           P == [i \in DOMAIN rts |-> [rts[i] EXCEPT !.ready = b(i)]]
<1>1. Probed(rts, beat) = P
  BY DEF Probed
<1>2. ASSUME NEW i \in DOMAIN rts
      PROVE  IsRuntime(P[i]) /\ P[i].engine = rts[i].engine /\ P[i].empty = rts[i].empty /\ P[i].models = rts[i].models
  <2>1. IsRuntime(rts[i])
    BY DEF Wired
  <2>2. beat.up \in [DOMAIN beat.up -> BOOLEAN] /\ rts[i].ready \in BOOLEAN
    BY <2>1, RuntimeFields DEF IsBeat
  <2>3. b(i) \in BOOLEAN
    BY <2>2
  <2>4. P[i] = [rts[i] EXCEPT !.ready = b(i)]
    OBVIOUS
  <2> HIDE DEF b, P
  <2> QED BY <2>1, <2>3, <2>4, NewReady
<1>3. P = [i \in DOMAIN rts |-> P[i]]
  OBVIOUS
<1> HIDE DEF P
<1>4. Wired(P) /\ DOMAIN P = DOMAIN rts
  BY <1>2, <1>3, WiredAgain
<1> QED BY <1>1, <1>2, <1>4

\* What the loaded names of a beat make of the rows: new names may come.
LitFrom(table, news, lit) ==
    /\ IsTable(lit) /\ DOMAIN lit = DOMAIN table \cup news
    /\ \A n \in DOMAIN table :
          /\ lit[n].hash = table[n].hash /\ lit[n].status = table[n].status
          /\ lit[n].entry = table[n].entry /\ lit[n].fresh = table[n].fresh
    /\ \A n \in news \ DOMAIN table : lit[n].hash = None /\ Sound(catalog, n, lit[n])

\* Loaded names light the rows and add unhashed ones, which are servable.
LEMMA LitTableOK ==
    ASSUME CatOK(catalog), NEW table, IsTable(table), NEW news \in SUBSET Labels, NEW beat
    PROVE  LitFrom(table, news, LitTable(table, news, beat))
<1> DEFINE T(n) == IF n \in DOMAIN table THEN LitRow(table[n], n \in beat.loaded) ELSE Row(catalog, n, None, TRUE)
           D == DOMAIN table \cup news
           new == [n \in D |-> T(n)]
<1>1. LitTable(table, news, beat) = new
  BY DEF LitTable
<1>2. DOMAIN table \subseteq Labels /\ \A n \in DOMAIN table : table[n] \in RowSet
  BY DEF IsTable
<1>3. \A row \in RowSet, b \in BOOLEAN :
         /\ LitRow(row, b) \in RowSet /\ LitRow(row, b).hash = row.hash /\ LitRow(row, b).status = row.status
         /\ LitRow(row, b).entry = row.entry /\ LitRow(row, b).fresh = row.fresh
  BY DEF LitRow, RowSet
<1>4. ASSUME NEW n \in DOMAIN table
      PROVE  /\ T(n) \in RowSet /\ T(n).hash = table[n].hash /\ T(n).status = table[n].status
             /\ T(n).entry = table[n].entry /\ T(n).fresh = table[n].fresh
  <2>1. T(n) = LitRow(table[n], n \in beat.loaded)
    OBVIOUS
  <2>2. (n \in beat.loaded) \in BOOLEAN
    OBVIOUS
  <2>3. table[n] \in RowSet
    BY <1>2
  <2>4. \A b \in BOOLEAN :
           /\ LitRow(table[n], b) \in RowSet /\ LitRow(table[n], b).hash = table[n].hash
           /\ LitRow(table[n], b).status = table[n].status
           /\ LitRow(table[n], b).entry = table[n].entry /\ LitRow(table[n], b).fresh = table[n].fresh
    BY <1>3, <2>3
  <2> HIDE DEF T
  <2>5. /\ LitRow(table[n], n \in beat.loaded) \in RowSet
        /\ LitRow(table[n], n \in beat.loaded).hash = table[n].hash
        /\ LitRow(table[n], n \in beat.loaded).status = table[n].status
        /\ LitRow(table[n], n \in beat.loaded).entry = table[n].entry
        /\ LitRow(table[n], n \in beat.loaded).fresh = table[n].fresh
    BY <2>2, <2>4, Zenon
  <2> QED BY <2>1, <2>5, Zenon
<1>5. ASSUME NEW n \in Labels, n \notin DOMAIN table
      PROVE  T(n) \in RowSet /\ T(n).hash = None /\ Sound(catalog, n, T(n))
  <2>1. \A on \in BOOLEAN : /\ Row(catalog, n, None, on) \in RowSet /\ Row(catalog, n, None, on).hash = None
                            /\ Sound(catalog, n, Row(catalog, n, None, on))
    BY RowIsSound
  <2>2. T(n) = Row(catalog, n, None, TRUE)
    BY <1>5
  <2> HIDE DEF T
  <2> QED BY <2>1, <2>2, Zenon
<1> HIDE DEF T
<1>6. IsTable(new)
  BY <1>2, <1>4, <1>5 DEF IsTable
<1>7. DOMAIN new = D /\ \A n \in D : new[n] = T(n)
  OBVIOUS
<1> HIDE DEF new
<1> QED BY <1>1, <1>4, <1>5, <1>6, <1>7 DEF LitFrom

LEMMA LitOK ==
    ASSUME CatOK(catalog), NEW rts, Wired(rts), NEW beat, IsBeat(beat)
    PROVE  /\ Wired(Lit(rts, beat)) /\ DOMAIN Lit(rts, beat) = DOMAIN rts
           /\ \A i \in DOMAIN rts :
                 /\ Lit(rts, beat)[i].engine = rts[i].engine /\ Lit(rts, beat)[i].empty = rts[i].empty
                 /\ LitFrom(rts[i].models, News(rts, beat, i), Lit(rts, beat)[i].models)
<1> DEFINE T(i) == LitTable(rts[i].models, News(rts, beat, i), beat)
           L == [i \in DOMAIN rts |-> [rts[i] EXCEPT !.models = T(i)]]
<1>1. Lit(rts, beat) = L
  BY DEF Lit
<1>2. ASSUME NEW i \in DOMAIN rts
      PROVE  /\ IsRuntime(rts[i]) /\ IsTable(rts[i].models) /\ News(rts, beat, i) \in SUBSET Labels
             /\ News(rts, beat, i) \cap DOMAIN rts[i].models = {}
  <2>1. IsRuntime(rts[i])
    BY DEF Wired
  <2>2. beat.loaded \in SUBSET Labels
    BY DEF IsBeat
  <2> QED BY <2>1, <2>2, RuntimeFields DEF News, KnownNames
<1>3. \A i \in DOMAIN rts : LitFrom(rts[i].models, News(rts, beat, i), T(i))
  BY <1>2, LitTableOK
<1>4. ASSUME NEW i \in DOMAIN rts
      PROVE  IsRuntime(L[i]) /\ L[i].engine = rts[i].engine /\ L[i].empty = rts[i].empty /\ L[i].models = T(i)
  <2>1. L[i] = [rts[i] EXCEPT !.models = T(i)]
    OBVIOUS
  <2>2. IsRuntime(rts[i]) /\ IsTable(T(i))
    BY <1>2, <1>3 DEF LitFrom
  <2> HIDE DEF T, L
  <2> QED BY <2>1, <2>2, NewRows
<1>5. L = [i \in DOMAIN rts |-> L[i]]
  OBVIOUS
<1> HIDE DEF L, T
<1>6. Wired(L) /\ DOMAIN L = DOMAIN rts
  BY <1>4, <1>5, WiredAgain
<1> QED BY <1>1, <1>3, <1>4, <1>6

-----------------------------------------------------------------------------
(* The items of an inventory, one after the other.                         *)

\* An item that has landed in the rows of its runtime.
ItemIn(item, table) ==
    /\ item.name \in DOMAIN table /\ table[item.name].loaded = item.loaded
    /\ item.hash \in {None, table[item.name].hash}
    /\ Sound(catalog, item.name, table[item.name])

LandedIn(old, item, table) ==
    /\ IsTable(table) /\ DOMAIN table = DOMAIN old \cup {item.name}
    /\ \A n \in DOMAIN old : n # item.name => table[n] = old[n]
    /\ ItemIn(item, table) /\ table[item.name].status # "missing"

\* What the items before have left of the runtimes and of the catalogue.
Midway(start, acc) ==
    /\ Wired(acc.rts) /\ DOMAIN acc.rts = DOMAIN start
    /\ \A i \in DOMAIN start : acc.rts[i].engine = start[i].engine /\ acc.rts[i].empty = start[i].empty
    /\ CatOK(acc.cat) /\ Grown(catalog, acc.cat)

\* One item replaces one row of one runtime, and may teach the catalogue.
LEMMA LandedOK ==
    ASSUME CatOK(catalog), NEW start, start # <<>>, NEW acc, Midway(start, acc), NEW item \in ItemSet
    PROVE  LET i == Place(start, item.engine)
           IN  /\ Midway(start, Landed(acc, item)) /\ i \in DOMAIN start
               /\ LandedIn(acc.rts[i].models, item, Landed(acc, item).rts[i].models)
               /\ \A x \in DOMAIN start : x # i => Landed(acc, item).rts[x] = acc.rts[x]
<1> DEFINE i    == Place(start, item.engine)
           old  == acc.rts[i].models
           was  == IF item.name \in DOMAIN old THEN old[item.name] ELSE [hash |-> item.hash, loaded |-> item.loaded]
           new  == Row(acc.cat, item.name, HashNow(was, item), LoadedNow(was, item))
           table == [n \in DOMAIN old \cup {item.name} |-> IF n = item.name THEN new ELSE old[n]]
           rts  == [acc.rts EXCEPT ![i].models = table]
           cat  == Taught(acc.cat, new.entry, item.name, acc.rts[i].engine)
<1>1. /\ Wired(acc.rts) /\ DOMAIN acc.rts = DOMAIN start /\ CatOK(acc.cat) /\ Grown(catalog, acc.cat)
      /\ \A x \in DOMAIN start : acc.rts[x].engine = start[x].engine /\ acc.rts[x].empty = start[x].empty
  BY DEF Midway
<1>2. Place(acc.rts, item.engine) = i
  BY <1>1, SamePlace
<1>3. Landed(acc, item) = [rts |-> rts, cat |-> cat]
  BY <1>2 DEF Landed
<1>4. i \in DOMAIN start
  <2>1. acc.rts # <<>>
    <3>1. start = <<>> \/ DOMAIN start # {}
      BY <1>1 DEF Wired, IsList
    <3> QED BY <1>1, <3>1
  <2> QED BY <1>1, <1>2, <2>1, PlaceHosts
<1>5. IsRuntime(acc.rts[i]) /\ IsTable(old)
  BY <1>1, <1>4, RuntimeFields DEF Wired
<1>6. DOMAIN old \subseteq Labels /\ \A n \in DOMAIN old : old[n] \in RowSet
  BY <1>5 DEF IsTable
<1>7. /\ item.name \in Labels /\ item.hash \in Hashes \cup {None} /\ item.loaded \in BOOLEAN
  BY DEF ItemSet
<1> HIDE DEF i, old
<1>8. was.hash \in Hashes \cup {None}
  BY <1>6, <1>7 DEF RowSet
<1> HIDE DEF was
<1>9. /\ HashNow(was, item) \in Hashes \cup {None} /\ item.hash \in {None, HashNow(was, item)}
      /\ LoadedNow(was, item) = item.loaded
  BY <1>7, <1>8 DEF HashNow, LoadedNow
<1>10. /\ new \in RowSet /\ Sound(acc.cat, item.name, new) /\ new.hash = HashNow(was, item)
       /\ new.loaded = item.loaded /\ new.entry \in Ids \cup {None}
       /\ new.status # "missing"
  <2>1. /\ new \in RowSet /\ Sound(acc.cat, item.name, new) /\ new.hash = HashNow(was, item)
        /\ new.loaded = LoadedNow(was, item) /\ new.entry \in Ids \cup {None}
    BY <1>1, <1>7, <1>9, RowIsSound
  <2>2. new.status = Classify(acc.cat, item.name, HashNow(was, item)).status
    BY DEF Row
  <2>3. new.status # "missing"
    BY <1>1, <1>7, <1>9, <2>2, ClassifyIsSound
  <2> HIDE DEF new
  <2> QED BY <1>9, <2>1, <2>3
<1> HIDE DEF new
<1>11. Sound(catalog, item.name, new)
  BY <1>1, <1>10, GrownSound
<1>12. LandedIn(old, item, table)
  <2>1. DOMAIN table = DOMAIN old \cup {item.name} /\ table[item.name] = new
    OBVIOUS
  <2>2. \A n \in DOMAIN old : n # item.name => table[n] = old[n]
    OBVIOUS
  <2>3. \A n \in DOMAIN table : table[n] \in RowSet
    BY <1>6, <1>10
  <2>4. table = [n \in DOMAIN table |-> table[n]]
    OBVIOUS
  <2> HIDE DEF table
  <2>5. IsTable(table)
    BY <1>6, <1>7, <2>1, <2>3, <2>4 DEF IsTable
  <2>6. ItemIn(item, table)
    BY <1>9, <1>10, <1>11, <2>1 DEF ItemIn
  <2> QED BY <1>10, <2>1, <2>2, <2>5, <2>6 DEF LandedIn
<1>13. IsTable(table)
  BY <1>12 DEF LandedIn
<1> HIDE DEF table
<1>14. /\ DOMAIN rts = DOMAIN start /\ rts[i] = [acc.rts[i] EXCEPT !.models = table]
       /\ \A x \in DOMAIN start : x # i => rts[x] = acc.rts[x]
       /\ rts = [x \in DOMAIN acc.rts |-> rts[x]]
  BY <1>1, <1>4 DEF Wired, IsList
<1> HIDE DEF rts
<1>15. /\ IsRuntime(rts[i]) /\ rts[i].models = table /\ rts[i].engine = acc.rts[i].engine
       /\ rts[i].empty = acc.rts[i].empty
  BY <1>5, <1>13, <1>14, NewRows
<1>16. \A x \in DOMAIN start : IsRuntime(rts[x]) /\ rts[x].engine = acc.rts[x].engine /\ rts[x].empty = acc.rts[x].empty
  BY <1>1, <1>14, <1>15 DEF Wired
<1>17. Wired(rts)
  BY <1>1, <1>14, <1>16, WiredAgain
<1>18. CatOK(cat) /\ Grown(acc.cat, cat)
  <2>1. new.entry # None => acc.cat[new.entry] # None
    BY <1>10 DEF Sound
  <2> QED BY <1>1, <1>7, <1>10, <2>1, TaughtGrows
<1> HIDE DEF cat
<1>19. Grown(catalog, cat)
  BY <1>1, <1>18, GrownTwice
<1>20. Landed(acc, item).rts = rts /\ Landed(acc, item).cat = cat
  BY <1>3
<1>21. Midway(start, Landed(acc, item))
  BY <1>1, <1>14, <1>16, <1>17, <1>18, <1>19, <1>20 DEF Midway
<1> QED BY <1>4, <1>12, <1>14, <1>15, <1>20, <1>21 DEF i, old

At(start, items, j, i) == Place(start, items[j].engine) = i

\* An inventory lists a name once for each runtime.
Once(start, items) ==
    \A j, k \in DOMAIN items :
        Place(start, items[j].engine) = Place(start, items[k].engine) /\ items[j].name = items[k].name => j = k

\* Of one runtime, what the first k items have left.
RowsAfter(start, items, k, i, table) ==
    /\ DOMAIN table = DOMAIN start[i].models \cup {items[j].name : j \in {j \in 1 .. k : At(start, items, j, i)}}
    /\ \A j \in 1 .. k : At(start, items, j, i) => ItemIn(items[j], table) /\ table[items[j].name].status # "missing"
    /\ \A n \in DOMAIN start[i].models :
          (\A j \in 1 .. k : At(start, items, j, i) => items[j].name # n) => table[n] = start[i].models[n]

After(start, items, k, acc) ==
    /\ Midway(start, acc)
    /\ \A i \in DOMAIN start : RowsAfter(start, items, k, i, acc.rts[i].models)

\* One item more: names are once to a runtime, so no earlier one is touched.
LEMMA OneMore ==
    ASSUME CatOK(catalog), NEW start, start # <<>>, NEW items \in Seq(ItemSet), Once(start, items),
           NEW k \in 1 .. Len(items), NEW acc, After(start, items, k - 1, acc)
    PROVE  After(start, items, k, Landed(acc, items[k]))
<1> DEFINE item == items[k]
           p == Place(start, item.engine)
           new == Landed(acc, item)
<1>1. item \in ItemSet /\ k \in DOMAIN items /\ k \in Nat /\ Len(items) \in Nat
  OBVIOUS
<1>2. Midway(start, acc)
  BY DEF After
<1>3. /\ Midway(start, new) /\ p \in DOMAIN start
      /\ LandedIn(acc.rts[p].models, item, new.rts[p].models)
      /\ \A x \in DOMAIN start : x # p => new.rts[x] = acc.rts[x]
  <2> HIDE DEF item
  <2> QED BY <1>1, <1>2, LandedOK
<1>4. \A j \in 1 .. k : j = k \/ j \in 1 .. k - 1
  BY <1>1
<1>4a. \A j \in 1 .. k - 1 : j \in 1 .. k /\ j # k /\ j \in DOMAIN items
  BY <1>1
<1>5. At(start, items, k, p) /\ \A x : At(start, items, k, x) => x = p
  BY DEF At
<1>5a. item = items[k]
  OBVIOUS
<1> HIDE DEF new, item
<1>6. ASSUME NEW i \in DOMAIN start, i # p
      PROVE  RowsAfter(start, items, k, i, new.rts[i].models)
  <2>1. RowsAfter(start, items, k - 1, i, acc.rts[i].models) /\ new.rts[i] = acc.rts[i]
    BY <1>3, <1>6 DEF After
  <2>2. {j \in 1 .. k : At(start, items, j, i)} = {j \in 1 .. k - 1 : At(start, items, j, i)}
    BY <1>4, <1>4a, <1>5, <1>6
  <2>3. \A j \in 1 .. k : At(start, items, j, i) => j \in 1 .. k - 1
    BY <1>4, <1>5, <1>6
  <2> HIDE DEF p
  <2> QED BY <2>1, <2>2, <2>3, <1>4a DEF RowsAfter
<1>7. RowsAfter(start, items, k, p, new.rts[p].models)
  <2> DEFINE old == acc.rts[p].models
             table == new.rts[p].models
             S == {items[j].name : j \in {j \in 1 .. k : At(start, items, j, p)}}
             R == {items[j].name : j \in {j \in 1 .. k - 1 : At(start, items, j, p)}}
  <2>1. RowsAfter(start, items, k - 1, p, old)
    BY <1>3 DEF After
  <2>2. /\ DOMAIN table = DOMAIN old \cup {item.name}
        /\ \A n \in DOMAIN old : n # item.name => table[n] = old[n]
        /\ ItemIn(item, table) /\ table[item.name].status # "missing"
    BY <1>3 DEF LandedIn
  <2>3. S = R \cup {item.name}
    BY <1>1, <1>4, <1>4a, <1>5, <1>5a
  <2>4. \A j \in 1 .. k - 1 : At(start, items, j, p) => items[j].name # item.name
    BY <1>1, <1>4a, <1>5, <1>5a DEF Once, At
  <2> HIDE DEF p, old, table, S, R
  <2>5. DOMAIN table = DOMAIN start[p].models \cup S
    <3>1. DOMAIN old = DOMAIN start[p].models \cup R
      BY <2>1 DEF RowsAfter, R
    <3> QED BY <2>2, <2>3, <3>1
  <2>6. ASSUME NEW j \in 1 .. k, At(start, items, j, p)
        PROVE  ItemIn(items[j], table) /\ table[items[j].name].status # "missing"
    <3>1. CASE j = k
      BY <2>2, <3>1, <1>5a
    <3>2. CASE j \in 1 .. k - 1
      <4>1. ItemIn(items[j], old) /\ old[items[j].name].status # "missing"
        BY <2>1, <2>6, <3>2 DEF RowsAfter
      <4>2. items[j].name # item.name
        BY <2>4, <2>6, <3>2
      <4>3. items[j].name \in DOMAIN old
        BY <4>1 DEF ItemIn
      <4>4. table[items[j].name] = old[items[j].name]
        BY <2>2, <4>2, <4>3
      <4> QED BY <2>2, <4>1, <4>3, <4>4 DEF ItemIn
    <3> QED BY <1>4, <3>1, <3>2
  <2>7. ASSUME NEW n \in DOMAIN start[p].models, \A j \in 1 .. k : At(start, items, j, p) => items[j].name # n
        PROVE  table[n] = start[p].models[n]
    <3>1. n # item.name
      BY <2>7, <1>1, <1>5, <1>5a
    <3>2. old[n] = start[p].models[n] /\ n \in DOMAIN old
      BY <2>1, <2>7, <1>4a DEF RowsAfter
    <3> QED BY <2>2, <3>1, <3>2
  <2> QED BY <2>5, <2>6, <2>7 DEF RowsAfter, S, table
<1> QED BY <1>3, <1>6, <1>7, <1>5a DEF After, new

\* All items: by the least number of items after which it would not be so.
LEMMA ItemsLand ==
    ASSUME CatOK(catalog), NEW rts, Wired(rts), rts # <<>>, NEW items \in Seq(ItemSet), Once(rts, items)
    PROVE  After(rts, items, Len(items), Landings([rts |-> rts, cat |-> catalog], items)[Len(items)])
<1> DEFINE start == [rts |-> rts, cat |-> catalog]
           A(k) == Landings(start, items)[k]
           Bad == {k \in 0 .. Len(items) : ~After(rts, items, k, A(k))}
<1>1. Len(items) \in Nat
  OBVIOUS
<1>2. \A k \in 0 .. Len(items) : A(k) = IF k = 0 THEN start ELSE Landed(A(k - 1), items[k])
  <2> HIDE DEF start
  <2> QED BY <1>1, LandingsAreSteps
<1>3. After(rts, items, 0, start)
  <2>1. Grown(catalog, catalog)
    BY DEF Grown, CatOK
  <2>2. start.rts = rts /\ start.cat = catalog
    OBVIOUS
  <2> HIDE DEF start
  <2>3. Midway(rts, start)
    BY <2>1, <2>2 DEF Midway
  <2>4. \A i \in DOMAIN rts : RowsAfter(rts, items, 0, i, rts[i].models)
    BY DEF RowsAfter
  <2> QED BY <2>2, <2>3, <2>4 DEF After
<1> HIDE DEF A, start
<1>4. Bad = {}
  <2>1. SUFFICES ASSUME Bad # {} PROVE FALSE
    OBVIOUS
  <2>2. Bad \in SUBSET Nat /\ \A k \in Bad : k \in 0 .. Len(items) /\ ~After(rts, items, k, A(k))
    BY <1>1
  <2>2a. \A k \in 0 .. Len(items) : k \notin Bad => After(rts, items, k, A(k))
    OBVIOUS
  <2> HIDE DEF Bad
  <2>3. PICK k \in Bad : \A m \in Bad : k <= m
    BY <2>1, <2>2, LeastNumber
  <2>4. k # 0
    <3>1. 0 \in 0 .. Len(items)
      BY <1>1
    <3>2. A(0) = start
      BY <1>2, <3>1
    <3> QED BY <1>3, <2>2, <3>2
  <2>5. k \in 1 .. Len(items) /\ k - 1 \in 0 .. Len(items) /\ k - 1 \notin Bad
    BY <1>1, <2>2, <2>3, <2>4
  <2>6. After(rts, items, k - 1, A(k - 1))
    BY <2>2a, <2>5
  <2>7. A(k) = Landed(A(k - 1), items[k])
    BY <1>2, <2>2, <2>4
  <2>8. After(rts, items, k, A(k))
    BY <2>5, <2>6, <2>7, OneMore
  <2> QED BY <2>2, <2>8
<1>5. Len(items) \in 0 .. Len(items)
  BY <1>1
<1> QED BY <1>4, <1>5 DEF A, start

-----------------------------------------------------------------------------
(* The names that were not listed, and the beats that were empty.          *)

\* Rows that may only have gone missing.
Dropped(table, kept, new) ==
    /\ IsTable(new) /\ DOMAIN new = DOMAIN table
    /\ \A n \in DOMAIN table :
          /\ new[n].hash = table[n].hash /\ new[n].status \in {table[n].status, "missing"}
          /\ Sound(catalog, n, table[n]) => Sound(catalog, n, new[n])
          /\ n \in kept => new[n] = table[n]

\* The rows that a listing leaves out go missing, and no others.
LEMMA SweptOK ==
    ASSUME NEW table, IsTable(table), NEW seen
    PROVE  /\ Dropped(table, seen, Swept(table, seen))
           /\ seen = {} => \A n \in DOMAIN table : Swept(table, seen)[n] = table[n]
<1> DEFINE T(n) == IF seen # {} /\ n \notin seen /\ table[n].status # "missing" THEN Gone(table[n]) ELSE table[n]
           new == [n \in DOMAIN table |-> T(n)]
<1>1. Swept(table, seen) = new
  BY DEF Swept
<1>2. DOMAIN table \subseteq Labels /\ \A n \in DOMAIN table : table[n] \in RowSet
  BY DEF IsTable
<1>3. \A row \in RowSet :
         /\ Gone(row) \in RowSet /\ Gone(row).hash = row.hash /\ Gone(row).status = "missing"
         /\ Gone(row).entry = None
  BY DEF Gone, RowSet
<1>4. ASSUME NEW n \in DOMAIN table
      PROVE  /\ T(n) \in RowSet /\ T(n).hash = table[n].hash /\ T(n).status \in {table[n].status, "missing"}
             /\ Sound(catalog, n, table[n]) => Sound(catalog, n, T(n))
  <2>1. table[n] \in RowSet
    BY <1>2
  <2>2. Sound(catalog, n, Gone(table[n]))
    BY <1>3, <2>1 DEF Sound
  <2>3. CASE T(n) = table[n]
    BY <2>1, <2>3
  <2>4. CASE T(n) = Gone(table[n])
    <3> HIDE DEF T
    <3> QED BY <1>3, <2>1, <2>2, <2>4
  <2> QED BY <2>3, <2>4
<1>5. \A n \in DOMAIN table : n \in seen \/ seen = {} => T(n) = table[n]
  OBVIOUS
<1> HIDE DEF T
<1>6. DOMAIN new = DOMAIN table /\ \A n \in DOMAIN table : new[n] = T(n)
  OBVIOUS
<1>7. IsTable(new)
  BY <1>2, <1>4 DEF IsTable
<1> HIDE DEF new
<1> QED BY <1>1, <1>4, <1>5, <1>6, <1>7 DEF Dropped

\* An empty runtime's rows go missing and change in nothing else.
LEMMA DelistedOK ==
    ASSUME NEW table, IsTable(table)
    PROVE  /\ Dropped(table, {}, Delisted(table))
           /\ \A n \in DOMAIN table : Delisted(table)[n].loaded = table[n].loaded
<1> DEFINE gone(n) == [table[n] EXCEPT !.status = "missing"]
           T(n) == IF table[n].status = "available" THEN gone(n) ELSE table[n]
           new == [n \in DOMAIN table |-> T(n)]
<1>1. Delisted(table) = new
  BY DEF Delisted
<1>2. DOMAIN table \subseteq Labels /\ \A n \in DOMAIN table : table[n] \in RowSet
  BY DEF IsTable
<1>3. ASSUME NEW n \in DOMAIN table
      PROVE  /\ gone(n) \in RowSet /\ gone(n).hash = table[n].hash /\ gone(n).status = "missing"
             /\ gone(n).entry = table[n].entry /\ gone(n).fresh = table[n].fresh
             /\ gone(n).loaded = table[n].loaded
  BY <1>2 DEF RowSet
<1> HIDE DEF gone
<1>4. ASSUME NEW n \in DOMAIN table
      PROVE  /\ T(n) \in RowSet /\ T(n).hash = table[n].hash /\ T(n).status \in {table[n].status, "missing"}
             /\ T(n).loaded = table[n].loaded
             /\ Sound(catalog, n, table[n]) => Sound(catalog, n, T(n))
  <2>1. table[n] \in RowSet
    BY <1>2
  <2>2. Sound(catalog, n, table[n]) => Sound(catalog, n, gone(n))
    BY <1>3 DEF Sound
  <2>3. CASE T(n) = table[n]
    BY <2>1, <2>3
  <2>4. CASE T(n) = gone(n)
    <3> HIDE DEF T
    <3> QED BY <1>3, <2>1, <2>2, <2>4
  <2> QED BY <2>3, <2>4
<1> HIDE DEF T
<1>6. DOMAIN new = DOMAIN table /\ \A n \in DOMAIN table : new[n] = T(n)
  OBVIOUS
<1>7. IsTable(new)
  BY <1>2, <1>4 DEF IsTable
<1> HIDE DEF new
<1> QED BY <1>1, <1>4, <1>6, <1>7 DEF Dropped

-----------------------------------------------------------------------------
(* Where a beat files what it names.                                       *)

\* The tag that decides where a loaded name is filed is one of the beat's.
LEMMA LastTagIs ==
    ASSUME NEW beat, IsBeat(beat), NEW name, Tags(beat, name) # {}
    PROVE  \E k \in Tags(beat, name) : LastTag(beat, name) = beat.items[k].engine
<1> DEFINE S == Tags(beat, name)
<1>1. beat.items \in Seq(ItemSet)
  BY DEF IsBeat
<1>2. S \subseteq 1 .. Len(beat.items) /\ Len(beat.items) \in Nat
  BY <1>1 DEF Tags
<1>3. IsFiniteSet(1 .. Len(beat.items))
  BY <1>2, FS_Interval
<1>4. IsFiniteSet(S) /\ S \in SUBSET Nat /\ S # {}
  BY <1>2, <1>3, FS_Subset
<1>5. LastTag(beat, name) = beat.items[CHOOSE k \in S : \A j \in S : j <= k].engine
  BY DEF LastTag
<1> HIDE DEF S
<1>6. \E k \in S : \A j \in S : j <= k
  BY <1>4, GreatestNumber
<1>7. (CHOOSE k \in S : \A j \in S : j <= k) \in S
  BY <1>6
<1> QED BY <1>5, <1>7 DEF S

\* What the assumptions say of a beat.
Named(beat) ==
    /\ IsBeat(beat)
    /\ \A j, k \in DOMAIN beat.items :
          beat.items[j].engine = beat.items[k].engine /\ beat.items[j].name = beat.items[k].name => j = k

\* What a runtime listed is what the code files under it.
LEMMA ItemsArePlaced ==
    ASSUME NEW rts, Wired(rts), rts # <<>>, NEW beat, Named(beat), Sends(rts, beat)
    PROVE  /\ Once(rts, beat.items)
           /\ \A i \in DOMAIN rts :
                 /\ Listing(rts, beat, rts[i].engine) =
                       {beat.items[j] : j \in {j \in DOMAIN beat.items : At(rts, beat.items, j, i)}}
                 /\ SeenAt(rts, beat, i) = {item.name : item \in Listing(rts, beat, rts[i].engine)}
                 /\ Listing(rts, beat, rts[i].engine) \in SUBSET ItemSet
                 /\ Empty(rts[i], beat) => Listing(rts, beat, rts[i].engine) = {}
<1> DEFINE items == beat.items
<1>1. /\ items \in Seq(ItemSet) /\ \A j \in DOMAIN items : items[j] \in ItemSet
  BY DEF Named, IsBeat
<1>2. \A x : /\ Place(rts, x) \in DOMAIN rts
             /\ x \in Engines(rts) => rts[Place(rts, x)].engine = x
  <2>1. \A x : /\ Place(rts, x) \in DOMAIN rts
               /\ \A i \in DOMAIN rts : rts[i].engine = x => Place(rts, x) = i
    BY PlaceHosts
  <2> QED BY <2>1 DEF Engines
<1>4. Tagged(beat) # {} => \A j \in DOMAIN items : items[j].engine \in Engines(rts)
  BY DEF Sends
<1>5. Tagged(beat) = {} => \A j \in DOMAIN items : items[j].engine = None
  BY DEF Tagged
<1>6. ASSUME NEW j \in DOMAIN items, NEW k \in DOMAIN items,
             Place(rts, items[j].engine) = Place(rts, items[k].engine)
      PROVE  items[j].engine = items[k].engine
  BY <1>2, <1>4, <1>5, <1>6
<1>7. Once(rts, items)
  BY <1>6 DEF Once, Named
<1>8. ASSUME NEW i \in DOMAIN rts
      PROVE  /\ Listing(rts, beat, rts[i].engine) = {items[j] : j \in {j \in DOMAIN items : At(rts, items, j, i)}}
             /\ SeenAt(rts, beat, i) = {items[j].name : j \in {j \in DOMAIN items : At(rts, items, j, i)}}
  <2> DEFINE A == {j \in DOMAIN items : rts[Place(rts, items[j].engine)].engine = rts[i].engine}
             B == {j \in DOMAIN items : At(rts, items, j, i)}
             C == {j \in DOMAIN items : Place(rts, items[j].engine) = i}
  <2>1. A = B
    BY <1>2 DEF Wired, At
  <2>2. B = C
    BY DEF At
  <2>3. Listing(rts, beat, rts[i].engine) = {items[j] : j \in A} /\ SeenAt(rts, beat, i) = {items[j].name : j \in C}
    BY DEF Listing, SeenAt
  <2> HIDE DEF A, B, C
  <2>4. Listing(rts, beat, rts[i].engine) = {items[j] : j \in B} /\ SeenAt(rts, beat, i) = {items[j].name : j \in B}
    BY <2>1, <2>2, <2>3
  <2> QED BY <2>4 DEF B
<1>9. ASSUME NEW i \in DOMAIN rts, Empty(rts[i], beat), NEW j \in DOMAIN items, At(rts, items, j, i)
      PROVE  FALSE
  <2>1. items[j].engine \in Engines(rts) /\ rts[i].engine \notin Tagged(beat)
    BY <1>4, <1>9 DEF Empty
  <2>2. rts[i].engine = items[j].engine
    BY <1>2, <1>9, <2>1 DEF At
  <2>3. rts[i].engine # None
    BY StockAssumption, RuntimeFields DEF Wired
  <2> QED BY <2>1, <2>2, <2>3 DEF Tagged
<1>10. \A i \in DOMAIN rts : Empty(rts[i], beat) => Listing(rts, beat, rts[i].engine) = {}
  BY <1>8, <1>9
<1>11. ASSUME NEW i \in DOMAIN rts
       PROVE  /\ SeenAt(rts, beat, i) = {item.name : item \in Listing(rts, beat, rts[i].engine)}
              /\ Listing(rts, beat, rts[i].engine) \in SUBSET ItemSet
  <2> DEFINE B == {j \in DOMAIN items : At(rts, items, j, i)}
             S == {items[j] : j \in B}
  <2>1. {items[j].name : j \in B} = {item.name : item \in S}
    OBVIOUS
  <2>2. S \in SUBSET ItemSet
    BY <1>1
  <2> QED BY <1>8, <2>1, <2>2
<1> QED BY <1>7, <1>8, <1>10, <1>11

\* What a beat's loaded names add is remembered of their runtime.
LEMMA NewsIsListed ==
    ASSUME NEW rts, Wired(rts), rts # <<>>, NEW beat, Named(beat), NEW i \in DOMAIN rts
    PROVE  /\ Filed(rts, beat, rts[i].engine) =
                 {[name |-> n, hash |-> None, loaded |-> TRUE, engine |-> rts[i].engine] : n \in News(rts, beat, i)}
           /\ Filed(rts, beat, rts[i].engine) \in SUBSET ItemSet
           /\ News(rts, beat, i) \subseteq Listed(rts, beat, rts[i].engine)
           /\ Listed(rts, beat, rts[i].engine) \in SUBSET Labels
<1> DEFINE e == rts[i].engine
           New == beat.loaded \ KnownNames(rts)
<1>1. \A x : Place(rts, x) \in DOMAIN rts /\ 1 \in DOMAIN rts
  BY PlaceHosts
<1>2. \A n : Target(rts, beat, n) \in DOMAIN rts
  BY <1>1 DEF Target
<1>3. {n \in New : rts[Target(rts, beat, n)].engine = e} = News(rts, beat, i)
  BY <1>2 DEF News, Wired
<1>4. Filed(rts, beat, e) = {[name |-> n, hash |-> None, loaded |-> TRUE, engine |-> e] : n \in News(rts, beat, i)}
  BY <1>3 DEF Filed
<1>5. News(rts, beat, i) \subseteq Labels /\ beat.loaded \subseteq Labels
  BY DEF News, Named, IsBeat
<1>6. e \in Kinds
  BY RuntimeFields DEF Wired
<1>7. ASSUME NEW n \in News(rts, beat, i)
      PROVE  [name |-> n, hash |-> None, loaded |-> TRUE, engine |-> e] \in ItemSet
  BY <1>5, <1>6 DEF ItemSet
<1>8. \A j \in DOMAIN beat.items : beat.items[j] \in ItemSet
  BY DEF Named, IsBeat
<1>9. Listed(rts, beat, e) \in SUBSET Labels
  <2>1. {x.name : x \in Listing(rts, beat, e)} \subseteq Labels
    BY <1>8 DEF Listing, ItemSet
  <2>2. Untagged(rts, beat) \subseteq Labels
    BY <1>5 DEF Untagged
  <2> QED BY <2>1, <2>2 DEF Listed
<1>10. ASSUME NEW n \in News(rts, beat, i)
       PROVE  n \in Listed(rts, beat, e)
  <2>1. n \in New /\ Target(rts, beat, n) = i
    BY DEF News
  <2>2. CASE Tags(beat, n) = {}
    <3>1. i = 1
      BY <2>1, <2>2 DEF Target
    <3>2. n \in Untagged(rts, beat)
      BY <2>1, <2>2 DEF Untagged
    <3> QED BY <3>1, <3>2 DEF Listed
  <2>3. CASE Tags(beat, n) # {}
    <3>1. PICK k \in Tags(beat, n) : LastTag(beat, n) = beat.items[k].engine
      BY <2>3, LastTagIs DEF Named
    <3>2. Place(rts, beat.items[k].engine) = i /\ k \in DOMAIN beat.items /\ beat.items[k].name = n
      BY <2>1, <2>3, <3>1 DEF Target, Tags
    <3>3. beat.items[k] \in Listing(rts, beat, e)
      BY <3>2 DEF Listing
    <3>4. n \in {x.name : x \in Listing(rts, beat, e)}
      BY <3>2, <3>3
    <3> QED BY <3>4 DEF Listed
  <2> QED BY <2>2, <2>3
<1> QED BY <1>4, <1>7, <1>9, <1>10

-----------------------------------------------------------------------------
(* A whole beat.                                                           *)

NamesOf(listing) == {item.name : item \in listing}

RowsAfterBeat(rts, beat, i, table) ==
    LET old == rts[i].models
        listing == Listing(rts, beat, rts[i].engine)
    IN  /\ IsTable(table) /\ DOMAIN table = DOMAIN old \cup News(rts, beat, i) \cup NamesOf(listing)
        /\ \A item \in listing : ItemIn(item, table) /\ table[item.name].status # "missing"
        /\ \A n \in DOMAIN old \ NamesOf(listing) :
              /\ table[n].hash = old[n].hash /\ table[n].status \in {old[n].status, "missing"}
              /\ Sound(catalog, n, old[n]) => Sound(catalog, n, table[n])
              /\ listing = {} /\ table[n].status # old[n].status =>
                    Empty(rts[i], beat) /\ EmptyBeats(rts[i], beat) >= 2
        /\ \A n \in News(rts, beat, i) \ NamesOf(listing) : table[n].hash = None /\ Sound(catalog, n, table[n])

LEMMA HeldWhenDropped ==
    ASSUME NEW table, NEW kept, NEW new, Dropped(table, kept, new), NEW item, ItemIn(item, table),
           new[item.name].loaded = table[item.name].loaded
    PROVE  ItemIn(item, new)
BY DEF Dropped, ItemIn

LEMMA LitSame ==
    ASSUME NEW rts, Wired(rts), NEW beat, IsBeat(beat)
    PROVE  \A i : News(Probed(rts, beat), beat, i) = News(rts, beat, i)
<1> DEFINE P == Probed(rts, beat)
<1>1. /\ DOMAIN P = DOMAIN rts
      /\ \A i \in DOMAIN rts : P[i].engine = rts[i].engine /\ P[i].models = rts[i].models
  BY ProbedOK
<1> HIDE DEF P
<1>2. KnownNames(P) = KnownNames(rts)
  BY <1>1 DEF KnownNames
<1>3. \A x : Place(P, x) = Place(rts, x)
  BY <1>1, SamePlace
<1>4. \A n : Target(P, beat, n) = Target(rts, beat, n)
  BY <1>3 DEF Target
<1> QED BY <1>2, <1>4 DEF News, P

\* Of one runtime, what the parts of a beat make of its rows.
LEMMA PartsCompose ==
    ASSUME NEW rts, Wired(rts), rts # <<>>, NEW beat, Named(beat), Sends(rts, beat),
           NEW i \in DOMAIN rts,
           NEW lit, LitFrom(rts[i].models, News(rts, beat, i), lit),
           NEW landed, IsTable(landed),
           DOMAIN landed = DOMAIN lit \cup {beat.items[j].name : j \in {j \in DOMAIN beat.items : At(rts, beat.items, j, i)}},
           \A j \in DOMAIN beat.items : At(rts, beat.items, j, i) =>
              ItemIn(beat.items[j], landed) /\ landed[beat.items[j].name].status # "missing",
           \A n \in DOMAIN lit : (\A j \in DOMAIN beat.items : At(rts, beat.items, j, i) => beat.items[j].name # n)
              => landed[n] = lit[n],
           NEW swept, swept = Swept(landed, SeenAt(rts, beat, i)),
           NEW final, final = IF Empty(rts[i], beat) /\ EmptyBeats(rts[i], beat) >= 2 THEN Delisted(swept) ELSE swept
    PROVE  RowsAfterBeat(rts, beat, i, final)
<1> DEFINE old == rts[i].models
           news == News(rts, beat, i)
           listing == Listing(rts, beat, rts[i].engine)
           seen == NamesOf(listing)
           B == {j \in DOMAIN beat.items : At(rts, beat.items, j, i)}
<1>1. /\ listing = {beat.items[j] : j \in B} /\ SeenAt(rts, beat, i) = seen
      /\ Empty(rts[i], beat) => listing = {}
  BY ItemsArePlaced DEF NamesOf
<1>2. {beat.items[j].name : j \in B} = seen
  <2>1. {beat.items[j].name : j \in B} = {item.name : item \in {beat.items[j] : j \in B}}
    OBVIOUS
  <2> QED BY <1>1, <2>1 DEF NamesOf
<1>3. \A item \in listing : ItemIn(item, landed) /\ landed[item.name].status # "missing" /\ item.name \in seen
  BY <1>1 DEF NamesOf
<1>4. \A n \in DOMAIN lit \ seen : landed[n] = lit[n]
  <2>1. ASSUME NEW n \in DOMAIN lit \ seen, NEW j \in DOMAIN beat.items, At(rts, beat.items, j, i)
        PROVE  beat.items[j].name # n
    BY <1>2, <2>1
  <2> QED BY <2>1
<1>5. DOMAIN landed = DOMAIN lit \cup seen
  BY <1>2
<1>6. Dropped(landed, seen, swept) /\ (seen = {} => \A n \in DOMAIN landed : swept[n] = landed[n])
  BY <1>1, SweptOK
<1>7. /\ IsTable(lit) /\ DOMAIN lit = DOMAIN old \cup news
      /\ \A n \in DOMAIN old :
            /\ lit[n].hash = old[n].hash /\ lit[n].status = old[n].status
            /\ lit[n].entry = old[n].entry /\ lit[n].fresh = old[n].fresh
      /\ \A n \in news : lit[n].hash = None /\ Sound(catalog, n, lit[n])
  <2>1. news \ DOMAIN old = news
    BY DEF News, KnownNames
  <2> QED BY <2>1 DEF LitFrom
<1>8. seen = {} <=> listing = {}
  BY DEF NamesOf
<1>9. CASE ~(Empty(rts[i], beat) /\ EmptyBeats(rts[i], beat) >= 2)
  <2>1. final = swept
    BY <1>9
  <2> HIDE DEF old, news, listing, seen, B
  <2>2. IsTable(final) /\ DOMAIN final = DOMAIN old \cup news \cup seen
    BY <1>5, <1>6, <1>7, <2>1 DEF Dropped
  <2>3. ASSUME NEW item \in listing
        PROVE  ItemIn(item, final) /\ final[item.name].status # "missing"
    <3>1. /\ ItemIn(item, landed) /\ landed[item.name].status # "missing" /\ item.name \in seen
          /\ item.name \in DOMAIN landed
      BY <1>3, <1>5
    <3>2. final[item.name] = landed[item.name]
      BY <1>6, <2>1, <3>1 DEF Dropped
    <3> QED BY <1>6, <2>1, <3>1, <3>2, HeldWhenDropped
  <2>4. ASSUME NEW n \in DOMAIN lit \ seen
        PROVE  /\ final[n].hash = lit[n].hash /\ final[n].status \in {lit[n].status, "missing"}
               /\ Sound(catalog, n, lit[n]) => Sound(catalog, n, final[n])
               /\ listing = {} => final[n].status = lit[n].status
    <3>1. landed[n] = lit[n] /\ n \in DOMAIN landed
      BY <1>4, <1>5
    <3> QED BY <1>6, <1>8, <2>1, <3>1 DEF Dropped
  <2>5. ASSUME NEW n \in DOMAIN old \ seen
        PROVE  /\ final[n].hash = old[n].hash /\ final[n].status \in {old[n].status, "missing"}
               /\ Sound(catalog, n, old[n]) => Sound(catalog, n, final[n])
               /\ listing = {} => final[n].status = old[n].status
    <3>1. n \in DOMAIN lit \ seen /\ n \in DOMAIN old
      BY <1>7
    <3>2. Sound(catalog, n, old[n]) => Sound(catalog, n, lit[n])
      BY <1>7, <3>1 DEF Sound
    <3>3. lit[n].hash = old[n].hash /\ lit[n].status = old[n].status
      BY <1>7, <3>1
    <3> QED BY <2>4, <3>1, <3>2, <3>3
  <2>6. \A n \in news \ seen : final[n].hash = None /\ Sound(catalog, n, final[n])
    BY <1>7, <2>4
  <2> QED BY <2>2, <2>3, <2>5, <2>6 DEF RowsAfterBeat, old, news, listing, seen
<1>10. CASE Empty(rts[i], beat) /\ EmptyBeats(rts[i], beat) >= 2
  <2>1. final = Delisted(swept) /\ listing = {}
    BY <1>1, <1>10
  <2>1a. seen = {}
    BY <1>8, <2>1
  <2>1b. IsTable(swept)
    BY <1>6 DEF Dropped
  <2>1c. Dropped(swept, {}, final)
    BY <2>1, <2>1b, DelistedOK
  <2> HIDE DEF old, news, listing, seen, B
  <2>2. IsTable(final) /\ DOMAIN final = DOMAIN old \cup news \cup seen
    BY <1>5, <1>6, <1>7, <2>1c DEF Dropped
  <2>4. ASSUME NEW n \in DOMAIN lit
        PROVE  /\ final[n].hash = lit[n].hash /\ final[n].status \in {lit[n].status, "missing"}
               /\ Sound(catalog, n, lit[n]) => Sound(catalog, n, final[n])
    <3>1. swept[n] = lit[n] /\ n \in DOMAIN swept
      BY <1>4, <1>5, <1>6, <2>1a DEF Dropped
    <3> QED BY <2>1c, <3>1 DEF Dropped
  <2>5. ASSUME NEW n \in DOMAIN old
        PROVE  /\ final[n].hash = old[n].hash /\ final[n].status \in {old[n].status, "missing"}
               /\ Sound(catalog, n, old[n]) => Sound(catalog, n, final[n])
    <3>1. n \in DOMAIN lit
      BY <1>7
    <3>2. Sound(catalog, n, old[n]) => Sound(catalog, n, lit[n])
      BY <1>7, <3>1 DEF Sound
    <3>3. lit[n].hash = old[n].hash /\ lit[n].status = old[n].status
      BY <1>7, <3>1
    <3> QED BY <2>4, <3>1, <3>2, <3>3
  <2>6. \A n \in news : final[n].hash = None /\ Sound(catalog, n, final[n])
    BY <1>7, <2>4
  <2>7. \A item \in listing : ItemIn(item, final) /\ final[item.name].status # "missing"
    BY <2>1
  <2> QED BY <1>10, <2>2, <2>5, <2>6, <2>7 DEF RowsAfterBeat, old, news, listing, seen
<1> QED BY <1>9, <1>10

LEMMA CountIsSmall ==
    ASSUME NEW rt, IsRuntime(rt), NEW beat
    PROVE  EmptyBeats(rt, beat) \in 0 .. 2
BY RuntimeFields DEF EmptyBeats, Delisting

LEMMA OnceAgain ==
    ASSUME NEW rts, NEW items, Once(rts, items), NEW lit, \A x : Place(lit, x) = Place(rts, x)
    PROVE  Once(lit, items)
BY DEF Once

\* The rows after a whole beat: liveness, names, items, sweep and count.
LEMMA BeatRows ==
    ASSUME CatOK(catalog), NEW rts, Wired(rts), rts # <<>>, NEW beat, Named(beat), Sends(rts, beat),
           NEW done, done = Applied(Lit(Probed(rts, beat), beat), beat)
    PROVE  /\ CatOK(done.cat) /\ Grown(catalog, done.cat)
           /\ Wired(Counted(done.rts, beat)) /\ DOMAIN Counted(done.rts, beat) = DOMAIN rts
           /\ \A i \in DOMAIN rts :
                 /\ Counted(done.rts, beat)[i].engine = rts[i].engine
                 /\ Counted(done.rts, beat)[i].empty = EmptyBeats(rts[i], beat)
                 /\ RowsAfterBeat(rts, beat, i, Counted(done.rts, beat)[i].models)
<1> DEFINE P == Probed(rts, beat)
           L == Lit(P, beat)
           items == beat.items
           acc == Landings([rts |-> L, cat |-> catalog], items)[Len(items)]
           swept(i) == Swept(acc.rts[i].models, SeenAt(L, beat, i))
           S == [i \in DOMAIN L |-> [acc.rts[i] EXCEPT !.models = swept(i)]]
           final(i) == IF Empty(S[i], beat) /\ EmptyBeats(S[i], beat) >= Delisting
                       THEN Delisted(S[i].models) ELSE S[i].models
           F == [i \in DOMAIN S |-> [S[i] EXCEPT !.empty = EmptyBeats(S[i], beat), !.models = final(i)]]
<1>1. IsBeat(beat) /\ items \in Seq(ItemSet) /\ DOMAIN items = 1 .. Len(items)
  BY DEF Named, IsBeat
<1>2. done = [cat |-> acc.cat, rts |-> S]
  BY DEF Applied
<1>3. Counted(S, beat) = F
  BY DEF Counted
<1>4. done.cat = acc.cat /\ Counted(done.rts, beat) = F
  <2> HIDE DEF acc, S, F
  <2> QED BY <1>2, <1>3
<1>5. /\ Wired(P) /\ DOMAIN P = DOMAIN rts
      /\ \A i \in DOMAIN rts : P[i].engine = rts[i].engine /\ P[i].empty = rts[i].empty /\ P[i].models = rts[i].models
  BY <1>1, ProbedOK
<1>6. \A i : News(P, beat, i) = News(rts, beat, i)
  BY <1>1, LitSame
<1> HIDE DEF P
<1>7. /\ Wired(L) /\ DOMAIN L = DOMAIN P
      /\ \A i \in DOMAIN P :
            /\ L[i].engine = P[i].engine /\ L[i].empty = P[i].empty
            /\ LitFrom(P[i].models, News(P, beat, i), L[i].models)
  BY <1>1, <1>5, LitOK
<1> HIDE DEF L
<1>8. /\ DOMAIN L = DOMAIN rts
      /\ \A i \in DOMAIN rts :
            /\ L[i].engine = rts[i].engine /\ L[i].empty = rts[i].empty
            /\ LitFrom(rts[i].models, News(rts, beat, i), L[i].models)
  BY <1>5, <1>6, <1>7
<1>9. \A x : Place(L, x) = Place(rts, x)
  BY <1>8, SamePlace
<1>10. Once(L, items)
  BY <1>9, ItemsArePlaced, OnceAgain
<1>11. L # <<>> /\ rts # <<>>
  <2>1. DOMAIN rts # {}
    BY PlaceHosts
  <2>2. DOMAIN L # {}
    BY <1>8, <2>1
  <2> QED BY <2>2
<1>12. After(L, items, Len(items), acc)
  BY <1>1, <1>7, <1>10, <1>11, ItemsLand
<1> HIDE DEF acc
<1>13. /\ Wired(acc.rts) /\ DOMAIN acc.rts = DOMAIN rts /\ CatOK(acc.cat) /\ Grown(catalog, acc.cat)
       /\ \A i \in DOMAIN rts : acc.rts[i].engine = rts[i].engine /\ acc.rts[i].empty = rts[i].empty
  BY <1>8, <1>12 DEF After, Midway
<1>14. \A i : SeenAt(L, beat, i) = SeenAt(rts, beat, i)
  BY <1>9 DEF SeenAt
<1>15. \A i \in DOMAIN rts : swept(i) = Swept(acc.rts[i].models, SeenAt(rts, beat, i))
  BY <1>14
<1>16. ASSUME NEW i \in DOMAIN rts
       PROVE  /\ IsRuntime(S[i]) /\ S[i].engine = rts[i].engine /\ S[i].empty = rts[i].empty
              /\ S[i].models = swept(i) /\ IsTable(swept(i)) /\ IsTable(acc.rts[i].models)
  <2>1. S[i] = [acc.rts[i] EXCEPT !.models = swept(i)]
    BY <1>8
  <2>2. IsRuntime(acc.rts[i]) /\ IsTable(acc.rts[i].models)
    BY <1>13, RuntimeFields DEF Wired
  <2>3. IsTable(swept(i))
    BY <1>15, <2>2, SweptOK DEF Dropped
  <2> HIDE DEF S, swept
  <2> QED BY <1>13, <2>1, <2>2, <2>3, NewRows
<1>17. DOMAIN S = DOMAIN rts
  BY <1>8
<1> HIDE DEF S, swept
<1>18. ASSUME NEW i \in DOMAIN rts
       PROVE  /\ EmptyBeats(S[i], beat) = EmptyBeats(rts[i], beat)
              /\ final(i) = IF Empty(rts[i], beat) /\ EmptyBeats(rts[i], beat) >= 2 THEN Delisted(swept(i)) ELSE swept(i)
  <2>1. EmptyBeats(S[i], beat) = EmptyBeats(rts[i], beat) /\ (Empty(S[i], beat) <=> Empty(rts[i], beat))
    BY <1>16 DEF EmptyBeats, Empty
  <2> QED BY <1>16, <2>1 DEF Delisting
<1> HIDE DEF final
<1>19. ASSUME NEW i \in DOMAIN rts
       PROVE  RowsAfterBeat(rts, beat, i, final(i))
  <2> DEFINE landed == acc.rts[i].models
             lit == L[i].models
  <2>1. RowsAfter(L, items, Len(items), i, landed)
    BY <1>8, <1>12 DEF After
  <2>2. \A j : At(L, items, j, i) <=> At(rts, items, j, i)
    BY <1>9 DEF At
  <2>3. {j \in 1 .. Len(items) : At(L, items, j, i)} = {j \in DOMAIN items : At(rts, items, j, i)}
    BY <1>1, <2>2
  <2>4. DOMAIN landed = DOMAIN lit \cup {items[j].name : j \in {j \in DOMAIN items : At(rts, items, j, i)}}
    BY <2>1, <2>3 DEF RowsAfter
  <2>5. /\ \A j \in DOMAIN items : At(rts, items, j, i) => ItemIn(items[j], landed) /\ landed[items[j].name].status # "missing"
        /\ \A n \in DOMAIN lit : (\A j \in DOMAIN items : At(rts, items, j, i) => items[j].name # n) => landed[n] = lit[n]
    BY <1>1, <2>1, <2>2 DEF RowsAfter
  <2>6. LitFrom(rts[i].models, News(rts, beat, i), lit) /\ IsTable(landed)
    BY <1>8, <1>16
  <2> HIDE DEF landed, lit
  <2>7. swept(i) = Swept(landed, SeenAt(rts, beat, i))
    BY <1>15 DEF landed
  <2> QED BY <1>18, <2>4, <2>5, <2>6, <2>7, PartsCompose
<1>20. ASSUME NEW i \in DOMAIN rts
       PROVE  IsRuntime(F[i]) /\ F[i].engine = rts[i].engine /\ F[i].empty = EmptyBeats(rts[i], beat) /\ F[i].models = final(i)
  <2>1. F[i] = [S[i] EXCEPT !.empty = EmptyBeats(S[i], beat), !.models = final(i)]
    BY <1>17
  <2>2. IsTable(final(i))
    BY <1>19 DEF RowsAfterBeat
  <2>3. EmptyBeats(S[i], beat) \in 0 .. 2
    BY <1>16, CountIsSmall
  <2>4. IsRuntime(S[i])
    BY <1>16
  <2> HIDE DEF F
  <2>5. IsRuntime(F[i]) /\ F[i].engine = S[i].engine /\ F[i].empty = EmptyBeats(S[i], beat) /\ F[i].models = final(i)
    <3> DEFINE rt == S[i]
               c == EmptyBeats(S[i], beat)
               table == final(i)
               new == F[i]
    <3>1. IsRuntime(rt) /\ c \in 0 .. 2 /\ IsTable(table) /\ new = [rt EXCEPT !.empty = c, !.models = table]
      BY <2>1, <2>2, <2>3, <2>4
    <3> HIDE DEF rt, c, table, new
    <3>2. IsRuntime(new) /\ new.engine = rt.engine /\ new.empty = c /\ new.models = table
      BY <3>1 DEF IsRuntime, Delisting
    <3> QED BY <3>2 DEF rt, c, table, new
  <2> QED BY <1>16, <1>18, <2>5
<1>21. F = [i \in DOMAIN rts |-> F[i]]
  BY <1>17
<1> HIDE DEF F
<1>22. Wired(F) /\ DOMAIN F = DOMAIN rts
  BY <1>20, <1>21, WiredAgain
<1> QED BY <1>4, <1>13, <1>19, <1>20, <1>22

\* The properties' count of beats stops at two.
LEMMA FurtherIsSmall ==
    \A n \in 0 .. 2 : Further(n) \in 1 .. 2 /\ n <= Further(n) /\ (n < 2 => Further(n) = n + 1)
BY DEF Further

\* The code's count of empty beats is never ahead of the beats that there were.
LEMMA CountIsQuiet ==
    ASSUME NEW rts, Wired(rts), rts # <<>>, NEW beat, Named(beat), Sends(rts, beat), NEW i \in DOMAIN rts,
           NEW q \in 0 .. 2, rts[i].empty <= q
    PROVE  /\ Quiet(rts, beat, rts[i].engine, q) \in 0 .. 2
           /\ EmptyBeats(rts[i], beat) <= Quiet(rts, beat, rts[i].engine, q)
<1> DEFINE rt == rts[i]
           listing == Listing(rts, beat, rt.engine)
<1>1. rt.empty \in 0 .. 2
  BY RuntimeFields DEF Wired
<1>2. Further(q) \in 0 .. 2 /\ q <= Further(q) /\ (q < 2 => Further(q) = q + 1)
  BY FurtherIsSmall
<1>3. Empty(rt, beat) => listing = {}
  BY ItemsArePlaced
<1>4. Quiet(rts, beat, rt.engine, q) =
         IF listing = {} THEN Further(q) ELSE IF rt.engine \in DOMAIN beat.up /\ rt.engine \in Tagged(beat) THEN 0 ELSE q
  BY DEF Quiet
<1> HIDE DEF rt, listing
<1>5. CASE rt.engine \notin DOMAIN beat.up \/ Tagged(beat) = {}
  <2>1. EmptyBeats(rt, beat) = rt.empty
    BY <1>5 DEF EmptyBeats
  <2> QED BY <1>1, <1>2, <1>4, <1>5, <2>1 DEF rt
<1>6. CASE rt.engine \in DOMAIN beat.up /\ rt.engine \in Tagged(beat)
  <2>1. EmptyBeats(rt, beat) = 0
    BY <1>6 DEF EmptyBeats
  <2> QED BY <1>2, <1>4, <1>6, <2>1 DEF rt
<1>7. CASE Empty(rt, beat)
  <2>1. EmptyBeats(rt, beat) = IF rt.empty < 2 THEN rt.empty + 1 ELSE 2
    BY <1>7 DEF EmptyBeats, Empty, Delisting
  <2> QED BY <1>1, <1>2, <1>3, <1>4, <1>7, <2>1 DEF rt
<1> QED BY <1>5, <1>6, <1>7 DEF Empty, rt

\* A runtime and what is remembered of it, after a beat.
LEMMA RuntimeAfterBeat ==
    ASSUME CatOK(catalog), NEW rts, Wired(rts), rts # <<>>, NEW beat, Named(beat), Sends(rts, beat), NEW i \in DOMAIN rts,
           NEW h, NEW s, NEW q, NEW l, RuntimeOK(catalog, rts[i], h, s, q, l),
           NEW cat, Grown(catalog, cat),
           NEW new, RowsAfterBeat(rts, beat, i, new.models), new.empty = EmptyBeats(rts[i], beat)
    PROVE  LET e == rts[i].engine
           IN  RuntimeOK(cat, new, Heard(rts, beat, e, h), Silent(rts, beat, e, s), Quiet(rts, beat, e, q),
                         l \cup Listed(rts, beat, e))
<1> DEFINE e == rts[i].engine
           old == rts[i].models
           table == new.models
           listing == Listing(rts, beat, e)
           news == News(rts, beat, i)
           h1 == Heard(rts, beat, e, h)
           s1 == Silent(rts, beat, e, s)
           l1 == l \cup Listed(rts, beat, e)
<1>1. /\ s \in 0 .. 2 /\ q \in 0 .. 2 /\ h \in (SUBSET ItemSet) \cup {None} /\ l \in SUBSET Labels /\ rts[i].empty <= q
      /\ \A n \in DOMAIN old : n \in l /\ Sound(catalog, n, old[n])
      /\ h # None => \A item \in h : item.name \in DOMAIN old /\ item.hash \in {None, old[item.name].hash}
  BY DEF RuntimeOK
<1>2. /\ IsTable(table) /\ DOMAIN table = DOMAIN old \cup news \cup NamesOf(listing)
      /\ \A item \in listing : ItemIn(item, table)
      /\ \A n \in DOMAIN old \ NamesOf(listing) :
            table[n].hash = old[n].hash /\ (Sound(catalog, n, old[n]) => Sound(catalog, n, table[n]))
      /\ \A n \in news \ NamesOf(listing) : table[n].hash = None /\ Sound(catalog, n, table[n])
  BY DEF RowsAfterBeat
<1>3. listing \in SUBSET ItemSet
  BY ItemsArePlaced
<1>4. /\ Filed(rts, beat, e) = {[name |-> n, hash |-> None, loaded |-> TRUE, engine |-> e] : n \in news}
      /\ Filed(rts, beat, e) \in SUBSET ItemSet
      /\ news \subseteq Listed(rts, beat, e) /\ Listed(rts, beat, e) \in SUBSET Labels
  BY NewsIsListed
<1>5. NamesOf(listing) \subseteq Listed(rts, beat, e)
  BY DEF Listed, NamesOf
<1>6. s1 \in 0 .. 2 /\ (s1 = 0 => listing # {})
  <2>1. Further(s) \in 1 .. 2
    BY <1>1, FurtherIsSmall
  <2> QED BY <2>1 DEF Silent
<1>7. /\ Quiet(rts, beat, e, q) \in 0 .. 2 /\ new.empty <= Quiet(rts, beat, e, q)
  BY <1>1, CountIsQuiet
<1>8. h1 = IF listing # {} THEN listing ELSE IF h = None THEN None ELSE h \cup Filed(rts, beat, e)
  BY DEF Heard
<1> HIDE DEF old, table, listing, news, h1, s1
<1>9. ASSUME NEW n \in DOMAIN table
      PROVE  n \in l1 /\ Sound(cat, n, table[n])
  <2>1. Sound(catalog, n, table[n])
    <3>1. CASE n \in NamesOf(listing)
      <4>1. PICK item \in listing : item.name = n
        BY <3>1 DEF NamesOf
      <4> QED BY <1>2, <4>1 DEF ItemIn
    <3>2. CASE n \notin NamesOf(listing) /\ n \in DOMAIN old
      BY <1>1, <1>2, <3>2
    <3>3. CASE n \notin NamesOf(listing) /\ n \in news
      BY <1>2, <3>3
    <3> QED BY <1>2, <3>1, <3>2, <3>3
  <2>2. table[n].entry \in Ids \cup {None}
    BY <1>2 DEF IsTable, RowSet
  <2>3. Sound(cat, n, table[n])
    BY <2>1, <2>2, GrownSound
  <2> QED BY <1>1, <1>2, <1>4, <1>5, <2>3
<1>10. h1 \in (SUBSET ItemSet) \cup {None}
  BY <1>1, <1>3, <1>4, <1>8
<1>11. ASSUME h1 # None, NEW item \in h1
       PROVE  /\ item.name \in DOMAIN table /\ item.hash \in {None, table[item.name].hash}
              /\ s1 = 0 => table[item.name].loaded = item.loaded
  <2>1. CASE listing # {}
    <3>1. ItemIn(item, table)
      BY <1>2, <1>8, <1>11, <2>1
    <3> QED BY <3>1 DEF ItemIn
  <2>2. CASE listing = {}
    <3>1. s1 # 0 /\ NamesOf(listing) = {}
      BY <1>6, <2>2 DEF NamesOf
    <3>2. h # None /\ item \in h \cup Filed(rts, beat, e)
      BY <1>8, <1>11, <2>2
    <3>3. CASE item \in h
      BY <1>1, <1>2, <3>1, <3>2, <3>3
    <3>4. CASE item \in Filed(rts, beat, e)
      <4>1. item.name \in news /\ item.hash = None
        BY <1>4, <3>4
      <4> QED BY <1>2, <3>1, <4>1
    <3> QED BY <3>2, <3>3, <3>4
  <2> QED BY <2>1, <2>2
<1>12. l1 \in SUBSET Labels
  BY <1>1, <1>4
<1> HIDE DEF l1
<1> QED BY <1>6, <1>7, <1>9, <1>10, <1>11, <1>12 DEF RuntimeOK, table, h1, s1, l1

\* A worker and what is remembered of it, after a beat.
LEMMA HeartbeatOK ==
    ASSUME CatOK(catalog), NEW rts, NEW h, NEW s, NEW q, NEW l, WorkerOK(catalog, rts, h, s, q, l),
           rts # <<>>, NEW beat, Named(beat), Sends(rts, beat),
           NEW done, done = Applied(Lit(Probed(rts, beat), beat), beat)
    PROVE  /\ CatOK(done.cat) /\ Grown(catalog, done.cat)
           /\ WorkerOK(done.cat, Counted(done.rts, beat),
                       [e \in Engines(rts) |-> Heard(rts, beat, e, h[e])],
                       [e \in Engines(rts) |-> Silent(rts, beat, e, s[e])],
                       [e \in Engines(rts) |-> Quiet(rts, beat, e, q[e])],
                       [e \in Engines(rts) |-> l[e] \cup Listed(rts, beat, e)])
<1> DEFINE new == Counted(done.rts, beat)
           h1 == [e \in Engines(rts) |-> Heard(rts, beat, e, h[e])]
           s1 == [e \in Engines(rts) |-> Silent(rts, beat, e, s[e])]
           q1 == [e \in Engines(rts) |-> Quiet(rts, beat, e, q[e])]
           l1 == [e \in Engines(rts) |-> l[e] \cup Listed(rts, beat, e)]
<1>1. Wired(rts)
  BY DEF WorkerOK
<1>2. /\ CatOK(done.cat) /\ Grown(catalog, done.cat) /\ Wired(new) /\ DOMAIN new = DOMAIN rts
      /\ \A i \in DOMAIN rts :
            /\ new[i].engine = rts[i].engine /\ new[i].empty = EmptyBeats(rts[i], beat)
            /\ RowsAfterBeat(rts, beat, i, new[i].models)
  BY <1>1, BeatRows
<1> HIDE DEF new
<1>3. Engines(new) = Engines(rts)
  BY <1>2, SamePlace
<1>4. ASSUME NEW i \in DOMAIN new, NEW e \in Kinds, new[i].engine = e
      PROVE  RuntimeOK(done.cat, new[i], h1[e], s1[e], q1[e], l1[e])
  <2>1. i \in DOMAIN rts /\ rts[i].engine = e
    BY <1>2, <1>4
  <2>2. RuntimeOK(catalog, rts[i], h[e], s[e], q[e], l[e])
    BY <2>1 DEF WorkerOK
  <2>3. RuntimeOK(done.cat, new[i], Heard(rts, beat, e, h[e]), Silent(rts, beat, e, s[e]), Quiet(rts, beat, e, q[e]),
                  l[e] \cup Listed(rts, beat, e))
    BY <1>1, <1>2, <2>1, <2>2, RuntimeAfterBeat
  <2>4. e \in Engines(rts)
    BY <2>1 DEF Engines
  <2> QED BY <2>3, <2>4
<1>5. /\ h1 = [e \in Engines(new) |-> h1[e]] /\ s1 = [e \in Engines(new) |-> s1[e]]
      /\ q1 = [e \in Engines(new) |-> q1[e]] /\ l1 = [e \in Engines(new) |-> l1[e]]
  BY <1>3
<1> HIDE DEF h1, s1, q1, l1
<1>6. WorkerOK(done.cat, new, h1, s1, q1, l1)
  BY <1>2, <1>4, <1>5 DEF WorkerOK
<1> QED BY <1>2, <1>6 DEF new, h1, s1, q1, l1

-----------------------------------------------------------------------------
(* Changes of the catalogue.                                               *)

\* What one worker teaches does no harm to another.
LEMMA GrownWorker ==
    ASSUME NEW a, NEW b, Grown(a, b), CatOK(a), NEW rts, NEW h, NEW s, NEW q, NEW l, WorkerOK(a, rts, h, s, q, l)
    PROVE  WorkerOK(b, rts, h, s, q, l)
<1>1. ASSUME NEW i \in DOMAIN rts, NEW e \in Kinds, rts[i].engine = e
      PROVE  RuntimeOK(b, rts[i], h[e], s[e], q[e], l[e])
  <2>1. RuntimeOK(a, rts[i], h[e], s[e], q[e], l[e]) /\ IsRuntime(rts[i])
    BY <1>1 DEF WorkerOK, Wired
  <2>2. \A n \in DOMAIN rts[i].models : rts[i].models[n].entry \in Ids \cup {None}
    BY <2>1, RuntimeFields DEF RowSet
  <2>3. \A n \in DOMAIN rts[i].models : Sound(a, n, rts[i].models[n]) => Sound(b, n, rts[i].models[n])
    BY <2>2, GrownSound
  <2> QED BY <2>1, <2>3 DEF RuntimeOK
<1> QED BY <1>1 DEF WorkerOK

\* Rows that keep their hash and their residence, and are sound in another catalogue.
SoundRows(table, cat, new) ==
    /\ IsTable(new) /\ DOMAIN new = DOMAIN table
    /\ \A n \in DOMAIN table :
          new[n].hash = table[n].hash /\ new[n].loaded = table[n].loaded /\ Sound(cat, n, new[n])

Refilled(rts, cat, new) ==
    /\ new = [i \in DOMAIN rts |-> new[i]]
    /\ \A i \in DOMAIN rts : \E table : SoundRows(rts[i].models, cat, table) /\ new[i] = [rts[i] EXCEPT !.models = table]

\* Rows that keep their hash and flag, and are sound, keep the worker so.
LEMMA KeptWorker ==
    ASSUME NEW a, NEW b, NEW rts, NEW h, NEW s, NEW q, NEW l, WorkerOK(a, rts, h, s, q, l),
           NEW new, Refilled(rts, b, new)
    PROVE  WorkerOK(b, new, h, s, q, l)
<1>1. Wired(rts)
  BY DEF WorkerOK
<1>2. ASSUME NEW i \in DOMAIN rts
      PROVE  /\ IsRuntime(new[i]) /\ new[i].engine = rts[i].engine /\ new[i].empty = rts[i].empty
             /\ SoundRows(rts[i].models, b, new[i].models)
  <2>1. PICK table : SoundRows(rts[i].models, b, table) /\ new[i] = [rts[i] EXCEPT !.models = table]
    BY DEF Refilled
  <2>2. IsRuntime(rts[i]) /\ IsTable(table)
    BY <1>1, <2>1 DEF Wired, SoundRows
  <2> DEFINE changed == [rts[i] EXCEPT !.models = table]
  <2>3. /\ IsRuntime(changed) /\ changed.models = table
        /\ changed.engine = rts[i].engine /\ changed.empty = rts[i].empty
    BY <2>2, NewRows
  <2>4. new[i] = changed
    BY <2>1
  <2> HIDE DEF changed
  <2> QED BY <2>1, <2>3, <2>4
<1>3. new = [i \in DOMAIN rts |-> new[i]]
  BY DEF Refilled
<1>4. Wired(new) /\ DOMAIN new = DOMAIN rts
  BY <1>1, <1>2, <1>3, WiredAgain
<1>5. Engines(new) = Engines(rts)
  BY <1>2, <1>4, SamePlace
<1>6. ASSUME NEW i \in DOMAIN new, NEW e \in Kinds, new[i].engine = e
      PROVE  RuntimeOK(b, new[i], h[e], s[e], q[e], l[e])
  <2>1. i \in DOMAIN rts /\ rts[i].engine = e
    BY <1>2, <1>4, <1>6
  <2>2. RuntimeOK(a, rts[i], h[e], s[e], q[e], l[e])
    BY <2>1 DEF WorkerOK
  <2>3. SoundRows(rts[i].models, b, new[i].models) /\ new[i].empty = rts[i].empty
    BY <1>2, <2>1
  <2> QED BY <2>2, <2>3 DEF RuntimeOK, SoundRows
<1> QED BY <1>4, <1>5, <1>6 DEF WorkerOK

\* Rows that a start makes stale claim nothing of the new pins.
LEMMA StaleKept ==
    ASSUME NEW a, NEW b, \A id \in Ids : a[id] # None => b[id] # None,
           NEW table, IsTable(table), \A n \in DOMAIN table : Sound(a, n, table[n])
    PROVE  /\ SoundRows(table, b, Stale(table))
           /\ \A n \in DOMAIN table : Stale(table)[n].status = table[n].status
<1> DEFINE T(n) == [table[n] EXCEPT !.fresh = FALSE]
           new == [n \in DOMAIN table |-> T(n)]
<1>1. Stale(table) = new
  BY DEF Stale
<1>2. DOMAIN table \subseteq Labels /\ \A n \in DOMAIN table : table[n] \in RowSet
  BY DEF IsTable
<1>3. \A row \in RowSet :
         LET r == [row EXCEPT !.fresh = FALSE]
         IN  r \in RowSet /\ r.hash = row.hash /\ r.loaded = row.loaded /\ r.entry = row.entry /\ r.fresh = FALSE
             /\ r.status = row.status
  BY DEF RowSet
<1>4. ASSUME NEW n \in DOMAIN table
      PROVE  /\ T(n) \in RowSet /\ T(n).hash = table[n].hash /\ T(n).loaded = table[n].loaded
             /\ Sound(b, n, T(n)) /\ T(n).status = table[n].status
  <2>1. /\ T(n) \in RowSet /\ T(n).hash = table[n].hash /\ T(n).loaded = table[n].loaded
        /\ T(n).entry = table[n].entry /\ T(n).fresh = FALSE
        /\ T(n).status = table[n].status
    BY <1>2, <1>3
  <2>2. table[n].entry \in Ids \cup {None} /\ (table[n].entry # None => a[table[n].entry] # None)
    BY <1>2 DEF RowSet, Sound
  <2> HIDE DEF T
  <2> QED BY <2>1, <2>2 DEF Sound
<1> HIDE DEF T
<1>5. DOMAIN new = DOMAIN table /\ \A n \in DOMAIN table : new[n] = T(n)
  OBVIOUS
<1>6. IsTable(new)
  BY <1>2, <1>4 DEF IsTable
<1> HIDE DEF new
<1> QED BY <1>1, <1>4, <1>5, <1>6 DEF SoundRows

\* An adopted hash is classified again; other rows see the same pins.
LEMMA RecheckedKept ==
    ASSUME NEW a, CatOK(a), NEW b, CatOK(b), NEW h \in Hashes,
           \A id \in Ids : a[id] # None => b[id] = a[id],
           \A x : x # h /\ x # None => (Pinned(a, x) <=> Pinned(b, x)),
           NEW table, IsTable(table), \A n \in DOMAIN table : Sound(a, n, table[n])
    PROVE  /\ SoundRows(table, b, Rechecked(table, b, h))
           /\ \A n \in DOMAIN table :
                 IF table[n].hash # h THEN Rechecked(table, b, h)[n] = table[n]
                 ELSE Rechecked(table, b, h)[n].status # "missing"
<1> DEFINE T(n) == IF table[n].hash = h THEN Again(b, table[n], n) ELSE table[n]
           new == [n \in DOMAIN table |-> T(n)]
<1>1. Rechecked(table, b, h) = new
  BY DEF Rechecked
<1>2. DOMAIN table \subseteq Labels /\ \A n \in DOMAIN table : table[n] \in RowSet
  BY DEF IsTable
<1>3. \A n : Unpinned(a, n) => Unpinned(b, n)
  BY DEF Unpinned
<1>4. ASSUME NEW n \in DOMAIN table, table[n].hash = h
      PROVE  T(n) \in RowSet /\ T(n).hash = table[n].hash /\ T(n).loaded = table[n].loaded /\ Sound(b, n, T(n))
             /\ T(n).status # "missing"
  <2> DEFINE c == Classify(b, n, h)
             row == table[n]
             again == [row EXCEPT !.status = c.status, !.entry = c.entry, !.fresh = TRUE]
  <2>1. T(n) = again
    BY <1>4 DEF Again
  <2>2. n \in Labels /\ row \in RowSet /\ h # None
    BY <1>2, StockAssumption
  <2>3. /\ c.status \in {"available", "unregistered", "drift"} /\ c.entry \in Ids \cup {None}
        /\ c.entry # None => b[c.entry] # None
        /\ IF Pinned(b, h) THEN c.status = "available" ELSE c.status = "available" => Unpinned(b, n)
    BY <2>2, ClassifyIsSound
  <2> HIDE DEF c, row, T
  <2>4. /\ again \in RowSet /\ again.hash = row.hash /\ again.loaded = row.loaded
        /\ again.status = c.status /\ again.entry = c.entry
    BY <2>2, <2>3 DEF RowSet
  <2>5. row.hash = h
    BY <1>4 DEF row
  <2> HIDE DEF again
  <2>6. Sound(b, n, again)
    BY <2>3, <2>4, <2>5 DEF Sound
  <2> QED BY <2>1, <2>3, <2>4, <2>6 DEF row
<1>5. ASSUME NEW n \in DOMAIN table, table[n].hash # h
      PROVE  T(n) = table[n] /\ Sound(b, n, table[n])
  <2>1. Sound(a, n, table[n]) /\ table[n].entry \in Ids \cup {None}
    BY <1>2 DEF RowSet
  <2>2. table[n].entry # None => b[table[n].entry] # None
    BY <2>1 DEF Sound
  <2> QED BY <1>3, <1>5, <2>1, <2>2 DEF Sound
<1>6. \A n \in DOMAIN table :
         T(n) \in RowSet /\ T(n).hash = table[n].hash /\ T(n).loaded = table[n].loaded /\ Sound(b, n, T(n))
  <2> HIDE DEF T
  <2> QED BY <1>2, <1>4, <1>5
<1>7. \A n \in DOMAIN table : IF table[n].hash # h THEN T(n) = table[n] ELSE T(n).status # "missing"
  <2> HIDE DEF T
  <2> QED BY <1>4, <1>5
<1> HIDE DEF T
<1>8. DOMAIN new = DOMAIN table /\ \A n \in DOMAIN table : new[n] = T(n)
  OBVIOUS
<1>9. IsTable(new)
  BY <1>2, <1>6 DEF IsTable
<1> HIDE DEF new
<1> QED BY <1>1, <1>6, <1>7, <1>8, <1>9 DEF SoundRows

\* The manifest's entry, with what the profile has learned.
LEMMA WrittenIsEntry ==
    ASSUME NEW old, old = None \/ IsEntry(old), NEW new,
           DOMAIN new.profiles \subseteq Kinds,
           new \in [pin : Hashes \cup {None}, files : SUBSET Hashes, legacy : Labels,
                    profiles : [DOMAIN new.profiles -> Labels]]
    PROVE  /\ IsEntry(Written(old, new)) /\ Written(old, new) # None
           /\ old # None => \A r \in DOMAIN old.profiles : r \in DOMAIN Written(old, new).profiles =>
                 old.profiles[r].extras \subseteq Written(old, new).profiles[r].extras
<1> DEFINE before == IF old = None THEN <<>> ELSE old.profiles
           D == DOMAIN new.profiles
           X(r) == IF r \in DOMAIN before THEN before[r].extras ELSE {}
           P(r) == [name |-> new.profiles[r], extras |-> X(r)]
           profiles == [r \in D |-> P(r)]
<1>1. /\ new.pin \in Hashes \cup {None} /\ new.files \in SUBSET Hashes /\ new.legacy \in Labels
      /\ D \in SUBSET Kinds /\ \A r \in D : new.profiles[r] \in Labels
  OBVIOUS
<1>2. Written(old, new) = [pin |-> new.pin, files |-> new.files, legacy |-> new.legacy, profiles |-> profiles]
  BY DEF Written, Synced
<1>3. \A r \in DOMAIN before : before[r].extras \in SUBSET Labels
  <2>1. CASE old = None
    <3>1. DOMAIN before = {}
      BY <2>1
    <3> QED BY <3>1
  <2>2. CASE old # None
    <3>1. \A r \in DOMAIN old.profiles : old.profiles[r] \in ProfileSet
      BY <2>2, EntryFields
    <3> QED BY <2>2, <3>1 DEF ProfileSet
  <2> QED BY <2>1, <2>2
<1>3a. old # None => before = old.profiles
  OBVIOUS
<1> HIDE DEF before, D
<1>4. \A r \in D : X(r) \in SUBSET Labels
  BY <1>3
<1>5. \A r \in DOMAIN before : X(r) = before[r].extras
  OBVIOUS
<1> HIDE DEF X
<1>6. \A r \in D : P(r) \in ProfileSet /\ P(r).extras = X(r)
  BY <1>1, <1>4 DEF ProfileSet, D
<1> HIDE DEF P
<1>7. profiles \in [D -> ProfileSet] /\ DOMAIN profiles = D /\ \A r \in D : profiles[r].extras = X(r)
  BY <1>6
<1> HIDE DEF profiles
<1>8. IsEntry(Written(old, new)) /\ Written(old, new) # None
  BY <1>1, <1>2, <1>7, MakeEntry
<1>9. Written(old, new).profiles = profiles
  BY <1>2
<1>10. old # None => \A r \in DOMAIN old.profiles : r \in D => old.profiles[r].extras \subseteq profiles[r].extras
  BY <1>3a, <1>5, <1>7
<1> QED BY <1>7, <1>8, <1>9, <1>10

\* A start keeps the other entries and drops no learned name.
LEMMA SeededOK ==
    ASSUME NEW cat, CatOK(cat), NEW seed, IsSeed(seed)
    PROVE  /\ CatOK(Seeded(cat, seed))
           /\ \A id \in Ids : cat[id] # None =>
                 /\ Seeded(cat, seed)[id] # None
                 /\ \A r \in DOMAIN cat[id].profiles : r \in DOMAIN Seeded(cat, seed)[id].profiles =>
                       cat[id].profiles[r].extras \subseteq Seeded(cat, seed)[id].profiles[r].extras
<1> DEFINE W(id) == IF id \in DOMAIN seed THEN Written(cat[id], seed[id]) ELSE cat[id]
           new == [id \in Ids |-> W(id)]
<1>1. Seeded(cat, seed) = new
  BY DEF Seeded
<1>2. ASSUME NEW id \in Ids
      PROVE  /\ W(id) # None => IsEntry(W(id))
             /\ cat[id] # None =>
                  /\ W(id) # None
                  /\ \A r \in DOMAIN cat[id].profiles : r \in DOMAIN W(id).profiles =>
                        cat[id].profiles[r].extras \subseteq W(id).profiles[r].extras
  <2>1. CASE id \in DOMAIN seed
    <3>1. cat[id] = None \/ IsEntry(cat[id])
      BY DEF CatOK
    <3>2. /\ DOMAIN seed[id].profiles \subseteq Kinds
          /\ seed[id] \in [pin : Hashes \cup {None}, files : SUBSET Hashes, legacy : Labels,
                           profiles : [DOMAIN seed[id].profiles -> Labels]]
      BY <2>1 DEF IsSeed
    <3>3. W(id) = Written(cat[id], seed[id])
      BY <2>1
    <3> HIDE DEF W
    <3> QED BY <3>1, <3>2, <3>3, WrittenIsEntry
  <2>2. CASE id \notin DOMAIN seed
    <3>1. W(id) = cat[id]
      BY <2>2
    <3> HIDE DEF W
    <3> QED BY <3>1 DEF CatOK
  <2> QED BY <2>1, <2>2
<1> HIDE DEF W
<1>3. DOMAIN new = Ids /\ \A id \in Ids : new[id] = W(id)
  OBVIOUS
<1> HIDE DEF new
<1> QED BY <1>1, <1>2, <1>3 DEF CatOK

\* The rows of an adopted hash teach its entry.
LEMMA TaughtByGrows ==
    ASSUME NEW cat, CatOK(cat), NEW id \in Ids, cat[id] # None, NEW h,
           \A r : NamesAt(h, r) \subseteq Labels
    PROVE  CatOK(TaughtBy(cat, id, h)) /\ Grown(cat, TaughtBy(cat, id, h))
<1> DEFINE e == cat[id]
           D == DOMAIN e.profiles
           X(r) == e.profiles[r].extras \cup (NamesAt(h, r) \ Targets(e))
           P(r) == [name |-> e.profiles[r].name, extras |-> X(r)]
           profiles == [r \in D |-> P(r)]
           f == [e EXCEPT !.profiles = profiles]
           new == TaughtBy(cat, id, h)
<1>1. new = [cat EXCEPT ![id] = f]
  BY DEF TaughtBy
<1>2. IsEntry(e)
  BY DEF CatOK
<1> HIDE DEF e
<1>3. /\ e.pin \in Hashes \cup {None} /\ e.files \in SUBSET Hashes /\ e.legacy \in Labels
      /\ D \in SUBSET Kinds /\ \A r \in D : e.profiles[r].name \in Labels /\ e.profiles[r].extras \in SUBSET Labels
      /\ e # None
      /\ e = [pin |-> e.pin, files |-> e.files, legacy |-> e.legacy, profiles |-> e.profiles]
  BY <1>2, EntryFields DEF ProfileSet
<1> HIDE DEF D
<1>4. \A r \in D : X(r) \in SUBSET Labels /\ e.profiles[r].extras \subseteq X(r)
  BY <1>3
<1> HIDE DEF X
<1>5. \A r \in D : P(r) \in ProfileSet /\ P(r).extras = X(r) /\ P(r).name = e.profiles[r].name
  BY <1>3, <1>4 DEF ProfileSet
<1> HIDE DEF P
<1>6. profiles \in [D -> ProfileSet] /\ DOMAIN profiles = D /\ \A r \in D : profiles[r] = P(r)
  BY <1>5
<1> HIDE DEF profiles
<1>7. f = [pin |-> e.pin, files |-> e.files, legacy |-> e.legacy, profiles |-> profiles]
  BY <1>3
<1>8. /\ IsEntry(f) /\ f # None /\ f.pin = e.pin /\ f.files = e.files /\ f.legacy = e.legacy /\ f.profiles = profiles
  <2> HIDE DEF f
  <2> QED BY <1>3, <1>6, <1>7, MakeEntry
<1> HIDE DEF f, new
<1>9. DOMAIN cat = Ids /\ DOMAIN new = Ids /\ new[id] = f /\ \A x \in Ids : x # id => new[x] = cat[x]
  BY <1>1 DEF CatOK
<1>10. CatOK(new)
  BY <1>8, <1>9 DEF CatOK
<1>11. cat[id] = e /\ DOMAIN e.profiles = D
  BY DEF e, D
<1>12. Grown(cat, new)
  BY <1>3, <1>4, <1>5, <1>6, <1>8, <1>9, <1>11 DEF Grown
<1> QED BY <1>10, <1>12 DEF new

-----------------------------------------------------------------------------
(* The invariant.                                                          *)

Stocked(c, r, h, s, q, l) ==
    /\ CatOK(c)
    /\ r = [w \in Workers |-> r[w]] /\ h = [w \in Workers |-> h[w]] /\ s = [w \in Workers |-> s[w]]
    /\ q = [w \in Workers |-> q[w]] /\ l = [w \in Workers |-> l[w]]
    /\ \A w \in Workers : WorkerOK(c, r[w], h[w], s[w], q[w], l[w])

StockInv ==
    /\ \A c, r, h, s, q, l :
          c = catalog /\ r = runtimes /\ h = heard /\ s = silent /\ q = quiet /\ l = listed => Stocked(c, r, h, s, q, l)
    /\ pass \subseteq Candidates /\ adoptions \in 0 .. MaxAdoptions /\ seeds \in 0 .. MaxSeeds

LEMMA Unchanging ==
    ASSUME NEW a, CatOK(a)
    PROVE  Grown(a, a)
BY DEF CatOK, Grown

\* A step of one worker, that teaches the catalogue.
LEMMA StockedUpdate ==
    ASSUME NEW a, NEW r, NEW h, NEW s, NEW q, NEW l, Stocked(a, r, h, s, q, l),
           NEW b, CatOK(b), Grown(a, b), NEW w \in Workers,
           NEW r1, NEW h1, NEW s1, NEW q1, NEW l1, WorkerOK(b, r1, h1, s1, q1, l1)
    PROVE  Stocked(b, [r EXCEPT ![w] = r1], [h EXCEPT ![w] = h1], [s EXCEPT ![w] = s1],
                      [q EXCEPT ![w] = q1], [l EXCEPT ![w] = l1])
<1> DEFINE R == [r EXCEPT ![w] = r1]
           H == [h EXCEPT ![w] = h1]
           S == [s EXCEPT ![w] = s1]
           Q == [q EXCEPT ![w] = q1]
           L == [l EXCEPT ![w] = l1]
<1>1. /\ CatOK(a) /\ r = [x \in Workers |-> r[x]] /\ h = [x \in Workers |-> h[x]] /\ s = [x \in Workers |-> s[x]]
      /\ q = [x \in Workers |-> q[x]] /\ l = [x \in Workers |-> l[x]]
      /\ \A x \in Workers : WorkerOK(a, r[x], h[x], s[x], q[x], l[x])
  BY DEF Stocked
<1>2. /\ R = [x \in Workers |-> R[x]] /\ R[w] = r1 /\ \A x \in Workers : x # w => R[x] = r[x]
      /\ H = [x \in Workers |-> H[x]] /\ H[w] = h1 /\ \A x \in Workers : x # w => H[x] = h[x]
      /\ S = [x \in Workers |-> S[x]] /\ S[w] = s1 /\ \A x \in Workers : x # w => S[x] = s[x]
  BY <1>1
<1>3. /\ Q = [x \in Workers |-> Q[x]] /\ Q[w] = q1 /\ \A x \in Workers : x # w => Q[x] = q[x]
      /\ L = [x \in Workers |-> L[x]] /\ L[w] = l1 /\ \A x \in Workers : x # w => L[x] = l[x]
  BY <1>1
<1> HIDE DEF R, H, S, Q, L
<1>4. ASSUME NEW x \in Workers
      PROVE  WorkerOK(b, R[x], H[x], S[x], Q[x], L[x])
  <2>1. CASE x = w
    BY <1>2, <1>3, <2>1
  <2>2. CASE x # w
    <3>1. WorkerOK(b, r[x], h[x], s[x], q[x], l[x])
      BY <1>1, GrownWorker
    <3> QED BY <1>2, <1>3, <2>2, <3>1
  <2> QED BY <2>1, <2>2
<1>5. Stocked(b, R, H, S, Q, L)
  BY <1>2, <1>3, <1>4 DEF Stocked
<1> QED BY <1>5 DEF R, H, S, Q, L

\* The invariant, of the variables.
LEMMA StockHolds ==
    ASSUME StockInv
    PROVE  /\ Stocked(catalog, runtimes, heard, silent, quiet, listed) /\ CatOK(catalog)
           /\ \A w \in Workers : WorkerOK(catalog, runtimes[w], heard[w], silent[w], quiet[w], listed[w])
           /\ \A w \in Workers : Wired(runtimes[w])
<1>1. Stocked(catalog, runtimes, heard, silent, quiet, listed)
  BY DEF StockInv
<1> QED BY <1>1 DEF Stocked, WorkerOK

LEMMA InitStocked ==
    ASSUME StockInit
    PROVE  StockInv
<1> DEFINE none == [id \in Ids |-> None]
           cat == Seeded(none, FirstSeed)
           empty == [w \in Workers |-> <<>>]
<1>1. CatOK(none)
  BY DEF CatOK
<1>2. CatOK(cat)
  <2> HIDE DEF none
  <2> QED BY <1>1, SeededOK, StockAssumption
<1> HIDE DEF cat
<1>3. WorkerOK(cat, <<>>, <<>>, <<>>, <<>>, <<>>)
  <2>1. Engines(<<>>) = {}
    BY DEF Engines
  <2>2. <<>> = [i \in 1 .. 0 |-> <<>>[i]] /\ 0 \in Nat
    OBVIOUS
  <2>3. Wired(<<>>)
    BY <2>2 DEF Wired, IsList
  <2> QED BY <2>1, <2>3 DEF WorkerOK
<1>4. Stocked(cat, empty, empty, empty, empty, empty)
  <2>1. empty = [w \in Workers |-> empty[w]] /\ \A w \in Workers : empty[w] = <<>>
    OBVIOUS
  <2> HIDE DEF empty
  <2> QED BY <1>2, <1>3, <2>1 DEF Stocked
<1>5. catalog = cat /\ runtimes = empty /\ heard = empty /\ silent = empty /\ quiet = empty /\ listed = empty
  BY DEF StockInit, cat
<1> HIDE DEF empty
<1>6. pass \subseteq Candidates /\ adoptions \in 0 .. MaxAdoptions /\ seeds \in 0 .. MaxSeeds
  BY StockAssumption DEF StockInit
<1> QED BY <1>4, <1>5, <1>6 DEF StockInv

LEMMA RegisterStep ==
    ASSUME StockInv, NEW w \in Workers, NEW req \in Registrations[w], Register(w, req)
    PROVE  StockInv'
<1> DEFINE rts == [i \in DOMAIN req |-> Registered(catalog, req[i])]
           L(e) == UNION {DOMAIN rts[i].models : i \in {i \in DOMAIN req : req[i].engine = e}}
           h == [e \in Engines(req) |-> None]
           z == [e \in Engines(req) |-> 0]
           l == [e \in Engines(req) |-> L(e)]
           M(e) == UNION {DOMAIN runtimes'[w][i].models : i \in {i \in DOMAIN req : req[i].engine = e}}
<1>1. CatOK(catalog) /\ Stocked(catalog, runtimes, heard, silent, quiet, listed)
  BY StockHolds
<1>2. req \in Seq(RequestSet) /\ \A i, j \in DOMAIN req : req[i].engine = req[j].engine => i = j
  BY StockAssumption
<1>3. WorkerOK(catalog, rts, h, z, z, l)
  BY <1>1, <1>2, RegisterOK
<1>4. /\ runtimes' = [runtimes EXCEPT ![w] = rts] /\ heard' = [heard EXCEPT ![w] = h]
      /\ silent' = [silent EXCEPT ![w] = z] /\ quiet' = [quiet EXCEPT ![w] = z]
      /\ listed' = [listed EXCEPT ![w] = [e \in Engines(req) |-> M(e)]]
      /\ catalog' = catalog /\ UNCHANGED <<pass, adoptions, seeds>>
  BY DEF Register
<1>5. runtimes'[w] = rts
  <2> HIDE DEF rts
  <2> QED BY <1>1, <1>4 DEF Stocked
<1>6. \A e : M(e) = L(e)
  BY <1>5
<1>7. [e \in Engines(req) |-> M(e)] = l
  <2> HIDE DEF M, L
  <2> QED BY <1>6
<1> HIDE DEF rts, h, z, l, M, L
<1>8. Stocked(catalog, [runtimes EXCEPT ![w] = rts], [heard EXCEPT ![w] = h], [silent EXCEPT ![w] = z],
              [quiet EXCEPT ![w] = z], [listed EXCEPT ![w] = l])
  BY <1>1, <1>3, Unchanging, StockedUpdate
<1>9. Stocked(catalog', runtimes', heard', silent', quiet', listed')
  BY <1>4, <1>7, <1>8
<1>10. pass' \subseteq Candidates /\ adoptions' \in 0 .. MaxAdoptions /\ seeds' \in 0 .. MaxSeeds
  BY <1>4 DEF StockInv
<1> QED BY <1>9, <1>10 DEF StockInv

LEMMA HeartbeatStep ==
    ASSUME StockInv, NEW w \in Workers, NEW beat \in Beats[w], Heartbeat(w, beat)
    PROVE  StockInv' /\ Grown(catalog, catalog')
<1> DEFINE rts == runtimes[w]
           done == Applied(Lit(Probed(rts, beat), beat), beat)
           r1 == Counted(done.rts, beat)
           h1 == [e \in Engines(rts) |-> Heard(rts, beat, e, heard[w][e])]
           s1 == [e \in Engines(rts) |-> Silent(rts, beat, e, silent[w][e])]
           q1 == [e \in Engines(rts) |-> Quiet(rts, beat, e, quiet[w][e])]
           l1 == [e \in Engines(rts) |-> listed[w][e] \cup Listed(rts, beat, e)]
<1>1. /\ CatOK(catalog) /\ Stocked(catalog, runtimes, heard, silent, quiet, listed)
      /\ WorkerOK(catalog, rts, heard[w], silent[w], quiet[w], listed[w])
  BY StockHolds
<1>2. Named(beat)
  BY StockAssumption DEF Named
<1>3. rts # <<>> /\ Sends(rts, beat)
  BY DEF Heartbeat
<1>4. /\ runtimes' = [runtimes EXCEPT ![w] = r1] /\ catalog' = done.cat
      /\ heard' = [heard EXCEPT ![w] = h1] /\ silent' = [silent EXCEPT ![w] = s1]
      /\ quiet' = [quiet EXCEPT ![w] = q1] /\ listed' = [listed EXCEPT ![w] = l1]
      /\ UNCHANGED <<pass, adoptions, seeds>>
  BY DEF Heartbeat
<1> HIDE DEF rts
<1>5. done = Applied(Lit(Probed(rts, beat), beat), beat)
  OBVIOUS
<1> HIDE DEF done
<1>6. CatOK(done.cat) /\ Grown(catalog, done.cat) /\ WorkerOK(done.cat, r1, h1, s1, q1, l1)
  BY <1>1, <1>2, <1>3, <1>5, HeartbeatOK
<1> HIDE DEF r1, h1, s1, q1, l1
<1>7. Stocked(done.cat, [runtimes EXCEPT ![w] = r1], [heard EXCEPT ![w] = h1], [silent EXCEPT ![w] = s1],
              [quiet EXCEPT ![w] = q1], [listed EXCEPT ![w] = l1])
  BY <1>1, <1>6, StockedUpdate
<1>8. Stocked(catalog', runtimes', heard', silent', quiet', listed')
  BY <1>4, <1>7
<1>9. pass' \subseteq Candidates /\ adoptions' \in 0 .. MaxAdoptions /\ seeds' \in 0 .. MaxSeeds
  BY <1>4 DEF StockInv
<1> QED BY <1>4, <1>6, <1>8, <1>9 DEF StockInv

LEMMA AdoptStep ==
    ASSUME StockInv, NEW id \in Ids, NEW h \in Hashes, NEW engine \in Kinds, NEW name \in Labels,
           NEW extras \in SUBSET Labels, Adopt(id, h, engine, name, extras), pass' \subseteq Candidates
    PROVE  /\ StockInv'
           /\ \A x \in Ids : catalog[x] # None => catalog'[x] = catalog[x]
           /\ catalog[id] = None /\ catalog'[id] # None /\ catalog'[id].pin = h /\ adoptions' > adoptions
           /\ \A w \in Workers : \A i \in DOMAIN runtimes[w] : \A n \in DOMAIN runtimes[w][i].models :
                 /\ i \in DOMAIN runtimes'[w]
                 /\ IF runtimes[w][i].models[n].hash # h
                    THEN runtimes'[w][i].models[n] = runtimes[w][i].models[n]
                    ELSE runtimes'[w][i].models[n].status # "missing"
<1> DEFINE entry == [pin |-> h, files |-> {}, legacy |-> name,
                     profiles |-> [r \in {engine} |-> [name |-> name, extras |-> extras]]]
           cat == [catalog EXCEPT ![id] = entry]
           new == TaughtBy(cat, id, h)
           R(w) == [i \in DOMAIN runtimes[w] |->
                      [runtimes[w][i] EXCEPT !.models = Rechecked(runtimes[w][i].models, cat, h)]]
<1>1. /\ CatOK(catalog) /\ Stocked(catalog, runtimes, heard, silent, quiet, listed)
      /\ \A w \in Workers : WorkerOK(catalog, runtimes[w], heard[w], silent[w], quiet[w], listed[w])
      /\ \A w \in Workers : Wired(runtimes[w])
  BY StockHolds
<1>2. /\ catalog[id] = None /\ ByHash(catalog, h) = {} /\ adoptions < MaxAdoptions
      /\ runtimes' = Reclassified(cat, h) /\ catalog' = new /\ adoptions' = adoptions + 1
      /\ UNCHANGED <<seeds, heard, silent, quiet, listed>>
  BY DEF Adopt, Adoptable, ghosts
<1>3. IsEntry(entry) /\ entry # None
  <2>1. [r \in {engine} |-> [name |-> name, extras |-> extras]] \in [{engine} -> ProfileSet]
    BY DEF ProfileSet
  <2> QED BY <2>1, MakeEntry
<1>4. entry.pin = h /\ entry.files = {}
  OBVIOUS
<1> HIDE DEF entry
<1>5. /\ DOMAIN cat = Ids /\ cat[id] = entry /\ \A x \in Ids : x # id => cat[x] = catalog[x]
  BY <1>1 DEF CatOK
<1> HIDE DEF cat, new
<1>6. CatOK(cat)
  BY <1>1, <1>3, <1>5 DEF CatOK
<1>7. \A p \in Rows : p[3] \in Labels
  BY DEF Rows
<1>8. \A r : NamesAt(h, r) \subseteq Labels
  BY <1>7 DEF NamesAt
<1>9. CatOK(new) /\ Grown(cat, new)
  BY <1>3, <1>5, <1>6, <1>8, TaughtByGrows DEF new
<1>10. \A x : x # h /\ x # None => (Pinned(catalog, x) <=> Pinned(cat, x))
  BY <1>2, <1>4, <1>5 DEF Pinned
<1>11. \A x \in Ids : catalog[x] # None => cat[x] = catalog[x]
  BY <1>2, <1>5
<1>12. ASSUME NEW w \in Workers, NEW i \in DOMAIN runtimes[w]
       PROVE  /\ SoundRows(runtimes[w][i].models, cat, Rechecked(runtimes[w][i].models, cat, h))
              /\ \A n \in DOMAIN runtimes[w][i].models :
                    IF runtimes[w][i].models[n].hash # h
                    THEN Rechecked(runtimes[w][i].models, cat, h)[n] = runtimes[w][i].models[n]
                    ELSE Rechecked(runtimes[w][i].models, cat, h)[n].status # "missing"
  <2> DEFINE rt == runtimes[w][i]
             e == rt.engine
  <2>1. IsTable(rt.models) /\ e \in Kinds
    BY <1>1, RuntimeFields DEF Wired
  <2>2. RuntimeOK(catalog, rt, heard[w][e], silent[w][e], quiet[w][e], listed[w][e])
    BY <1>1, <2>1 DEF WorkerOK
  <2>3. \A n \in DOMAIN rt.models : Sound(catalog, n, rt.models[n])
    BY <2>2 DEF RuntimeOK
  <2> HIDE DEF rt
  <2>4. /\ SoundRows(rt.models, cat, Rechecked(rt.models, cat, h))
        /\ \A n \in DOMAIN rt.models :
              IF rt.models[n].hash # h THEN Rechecked(rt.models, cat, h)[n] = rt.models[n]
              ELSE Rechecked(rt.models, cat, h)[n].status # "missing"
    BY <1>1, <1>6, <1>10, <1>11, <2>1, <2>3, RecheckedKept
  <2> QED BY <2>4 DEF rt
<1>13. runtimes' = [w \in Workers |-> R(w)]
  BY <1>2 DEF Reclassified
<1>14. ASSUME NEW w \in Workers
       PROVE  WorkerOK(new, R(w), heard[w], silent[w], quiet[w], listed[w])
  <2>1. R(w) = [i \in DOMAIN runtimes[w] |-> R(w)[i]]
    OBVIOUS
  <2>2. \A i \in DOMAIN runtimes[w] : R(w)[i] = [runtimes[w][i] EXCEPT !.models = Rechecked(runtimes[w][i].models, cat, h)]
    OBVIOUS
  <2> HIDE DEF R
  <2>3. Refilled(runtimes[w], cat, R(w))
    BY <1>12, <2>1, <2>2 DEF Refilled
  <2>4. WorkerOK(cat, R(w), heard[w], silent[w], quiet[w], listed[w])
    BY <1>1, <2>3, KeptWorker
  <2> QED BY <1>6, <1>9, <2>4, GrownWorker
<1>15. ASSUME NEW w \in Workers, NEW i \in DOMAIN runtimes[w]
       PROVE  /\ i \in DOMAIN runtimes'[w]
              /\ runtimes'[w][i].models = Rechecked(runtimes[w][i].models, cat, h)
  <2>1. runtimes'[w] = R(w)
    BY <1>13
  <2>2. R(w)[i] = [runtimes[w][i] EXCEPT !.models = Rechecked(runtimes[w][i].models, cat, h)] /\ i \in DOMAIN R(w)
    OBVIOUS
  <2>3. IsRuntime(runtimes[w][i]) /\ IsTable(Rechecked(runtimes[w][i].models, cat, h))
    BY <1>1, <1>12 DEF Wired, SoundRows
  <2> HIDE DEF R
  <2> QED BY <2>1, <2>2, <2>3, NewRows
<1>16. runtimes' = [w \in Workers |-> runtimes'[w]] /\ \A w \in Workers : runtimes'[w] = R(w)
  BY <1>13
<1> HIDE DEF R
<1>17. Stocked(catalog', runtimes', heard', silent', quiet', listed')
  BY <1>1, <1>2, <1>9, <1>14, <1>16 DEF Stocked
<1>18. adoptions' \in 0 .. MaxAdoptions /\ seeds' \in 0 .. MaxSeeds /\ adoptions' > adoptions
  BY <1>2, StockAssumption DEF StockInv
<1>19. StockInv'
  BY <1>17, <1>18 DEF StockInv
<1>20. \A x \in Ids : x # id => new[x] = cat[x]
  BY <1>5 DEF new, TaughtBy
<1>21. new[id] # None /\ new[id].pin = h
  BY <1>3, <1>4, <1>5, <1>9 DEF Grown
<1> QED BY <1>2, <1>5, <1>12, <1>15, <1>18, <1>19, <1>20, <1>21

LEMMA SeedStep ==
    ASSUME StockInv, NEW seed \in Seeds, Seed(seed)
    PROVE  /\ StockInv'
           /\ \A w \in Workers : \A i \in DOMAIN runtimes[w] : \A n \in DOMAIN runtimes[w][i].models :
                 runtimes'[w][i].models[n].status = runtimes[w][i].models[n].status
           /\ \A id \in Ids : catalog[id] # None => \A r \in DOMAIN catalog[id].profiles :
                 r \in DOMAIN catalog'[id].profiles => catalog[id].profiles[r].extras \subseteq catalog'[id].profiles[r].extras
<1> DEFINE new == Seeded(catalog, seed)
           R(w) == [i \in DOMAIN runtimes[w] |->
                      [runtimes[w][i] EXCEPT !.models = Stale(runtimes[w][i].models)]]
<1>1. /\ CatOK(catalog) /\ Stocked(catalog, runtimes, heard, silent, quiet, listed)
      /\ \A w \in Workers : WorkerOK(catalog, runtimes[w], heard[w], silent[w], quiet[w], listed[w])
      /\ \A w \in Workers : Wired(runtimes[w])
  BY StockHolds
<1>2. /\ seeds < MaxSeeds /\ seeds' = seeds + 1 /\ catalog' = new /\ pass' = {}
      /\ runtimes' = [w \in Workers |-> R(w)]
      /\ UNCHANGED <<adoptions, heard, silent, quiet, listed>>
  BY DEF Seed, ghosts
<1>3. IsSeed(seed)
  BY StockAssumption
<1>4. /\ CatOK(new)
      /\ \A id \in Ids : catalog[id] # None =>
            /\ new[id] # None
            /\ \A r \in DOMAIN catalog[id].profiles :
                  r \in DOMAIN new[id].profiles => catalog[id].profiles[r].extras \subseteq new[id].profiles[r].extras
  BY <1>1, <1>3, SeededOK
<1> HIDE DEF new
<1>5. ASSUME NEW w \in Workers, NEW i \in DOMAIN runtimes[w]
      PROVE  /\ SoundRows(runtimes[w][i].models, new, Stale(runtimes[w][i].models))
             /\ \A n \in DOMAIN runtimes[w][i].models :
                   Stale(runtimes[w][i].models)[n].status = runtimes[w][i].models[n].status
  <2> DEFINE rt == runtimes[w][i]
             e == rt.engine
  <2>1. IsTable(rt.models) /\ e \in Kinds
    BY <1>1, RuntimeFields DEF Wired
  <2>2. RuntimeOK(catalog, rt, heard[w][e], silent[w][e], quiet[w][e], listed[w][e])
    BY <1>1, <2>1 DEF WorkerOK
  <2>3. \A n \in DOMAIN rt.models : Sound(catalog, n, rt.models[n])
    BY <2>2 DEF RuntimeOK
  <2> HIDE DEF rt
  <2>4. SoundRows(rt.models, new, Stale(rt.models)) /\ \A n \in DOMAIN rt.models : Stale(rt.models)[n].status = rt.models[n].status
    BY <1>4, <2>1, <2>3, StaleKept
  <2> QED BY <2>4 DEF rt
<1>6. ASSUME NEW w \in Workers
      PROVE  WorkerOK(new, R(w), heard[w], silent[w], quiet[w], listed[w])
  <2>1. R(w) = [i \in DOMAIN runtimes[w] |-> R(w)[i]]
    OBVIOUS
  <2>2. \A i \in DOMAIN runtimes[w] : R(w)[i] = [runtimes[w][i] EXCEPT !.models = Stale(runtimes[w][i].models)]
    OBVIOUS
  <2> HIDE DEF R
  <2>3. Refilled(runtimes[w], new, R(w))
    BY <1>5, <2>1, <2>2 DEF Refilled
  <2> QED BY <1>1, <2>3, KeptWorker
<1>6a. ASSUME NEW w \in Workers, NEW i \in DOMAIN runtimes[w]
       PROVE  runtimes'[w][i].models = Stale(runtimes[w][i].models)
  <2>1. runtimes'[w] = R(w)
    BY <1>2
  <2>2. R(w)[i] = [runtimes[w][i] EXCEPT !.models = Stale(runtimes[w][i].models)]
    OBVIOUS
  <2>3. IsRuntime(runtimes[w][i]) /\ IsTable(Stale(runtimes[w][i].models))
    BY <1>1, <1>5 DEF Wired, SoundRows
  <2> HIDE DEF R
  <2> QED BY <2>1, <2>2, <2>3, NewRows
<1>7. runtimes' = [w \in Workers |-> runtimes'[w]] /\ \A w \in Workers : runtimes'[w] = R(w)
  BY <1>2
<1> HIDE DEF R
<1>8. Stocked(catalog', runtimes', heard', silent', quiet', listed')
  BY <1>1, <1>2, <1>4, <1>6, <1>7 DEF Stocked
<1>9. adoptions' \in 0 .. MaxAdoptions /\ seeds' \in 0 .. MaxSeeds
  BY <1>2, StockAssumption DEF StockInv
<1> QED BY <1>2, <1>4, <1>5, <1>6a, <1>8, <1>9 DEF StockInv

\* A row has a worker, a runtime of it and a name.
LEMMA RowPlaces ==
    ASSUME NEW p \in Rows
    PROVE  /\ p[1] \in Workers /\ p[2] \in DOMAIN runtimes[p[1]] /\ p[3] \in DOMAIN runtimes[p[1]][p[2]].models
           /\ p[3] \in Labels /\ RowAt(p) = runtimes[p[1]][p[2]].models[p[3]]
BY DEF Rows, RowAt

\* An admin's adoption is an adoption.
LEMMA AdminStep ==
    ASSUME StockInv, AdoptByAdmin
    PROVE  \E id \in Ids, h \in Hashes, engine \in Kinds, name \in Labels, extras \in SUBSET Labels :
              Adopt(id, h, engine, name, extras) /\ pass' \subseteq Candidates
<1>1. PICK h \in Hashes, w \in Workers : \E i \in DOMAIN runtimes[w] : \E name \in DOMAIN runtimes[w][i].models :
         Entries(catalog) # Ids /\ Adopt(NewId, h, runtimes[w][i].engine, name, {}) /\ UNCHANGED pass
  BY DEF AdoptByAdmin
<1>1a. PICK i \in DOMAIN runtimes[w] : \E name \in DOMAIN runtimes[w][i].models :
          Entries(catalog) # Ids /\ Adopt(NewId, h, runtimes[w][i].engine, name, {}) /\ UNCHANGED pass
  BY <1>1
<1>2. PICK name \in DOMAIN runtimes[w][i].models :
         Entries(catalog) # Ids /\ Adopt(NewId, h, runtimes[w][i].engine, name, {}) /\ UNCHANGED pass
  BY <1>1a
<1>3. NewId \in Ids
  <2>1. \E id \in Ids : catalog[id] = None
    BY <1>2 DEF Entries
  <2> QED BY <2>1 DEF NewId
<1>4. runtimes[w][i].engine \in Kinds /\ name \in Labels
  BY StockHolds, RuntimeFields DEF Wired
<1>5. pass' \subseteq Candidates
  BY <1>2 DEF StockInv
<1>6. {} \in SUBSET Labels
  OBVIOUS
<1> QED BY <1>2, <1>3, <1>4, <1>5, <1>6

\* A candidate is adopted or passed over.
LEMMA AutoStep ==
    ASSUME StockInv, NEW c \in pass, AutoAdopt(c)
    PROVE  \/ \E id \in Ids, h \in Hashes, engine \in Kinds, name \in Labels, extras \in SUBSET Labels :
                 Adopt(id, h, engine, name, extras) /\ pass' \subseteq Candidates
           \/ UNCHANGED <<catalog, runtimes, adoptions, seeds, heard, silent, quiet, listed>> /\ pass' \subseteq Candidates
<1> DEFINE confirmed == {n \in c.names : <<n, c.hash>> \in Public}
           S == IF c.engine = "vllm" /\ c.names \cap Bare # {} THEN c.names \cap Bare ELSE confirmed
           name == Served(c, confirmed)
           extras == Extras(c, name)
<1>1. pass' \subseteq Candidates /\ c \in Candidates
  BY DEF AutoAdopt, StockInv
<1>2. CASE confirmed # {} /\ Entries(catalog) # Ids /\ Adoptable(NewId, c.hash, {name} \cup extras)
  <2>1. Adopt(NewId, c.hash, c.engine, name, extras)
    BY <1>2 DEF AutoAdopt
  <2>2. NewId \in Ids
    <3>1. \E id \in Ids : catalog[id] = None
      BY <1>2 DEF Entries
    <3> QED BY <3>1 DEF NewId
  <2>3. c.hash \in Hashes /\ c.engine \in Kinds /\ c.names \in SUBSET Labels
    BY <1>1 DEF Candidates
  <2>4. name = CHOOSE n \in S : TRUE
    BY DEF Served
  <2>5. S # {} /\ S \subseteq c.names
    BY <1>2
  <2> HIDE DEF confirmed, S, name, extras
  <2>6. name \in Labels
    BY <2>3, <2>4, <2>5
  <2>7. extras \in SUBSET Labels
    BY <2>3 DEF Extras, extras
  <2> QED BY <1>1, <2>1, <2>2, <2>3, <2>6, <2>7
<1>3. CASE ~(confirmed # {} /\ Entries(catalog) # Ids /\ Adoptable(NewId, c.hash, {name} \cup extras))
  <2>1. UNCHANGED <<catalog, runtimes, adoptions, seeds, ghosts>>
    BY <1>3 DEF AutoAdopt
  <2> QED BY <1>1, <2>1 DEF ghosts
<1> QED BY <1>2, <1>3

\* The pass reads candidates and changes nothing.
LEMMA ReadStep ==
    ASSUME StockInv, AutoRead
    PROVE  /\ pass' \subseteq Candidates
           /\ UNCHANGED <<catalog, runtimes, adoptions, seeds, heard, silent, quiet, listed>>
<1>1. ASSUME NEW h \in Hashes, Quarantined(h) # {}
      PROVE  Candidate(h) \in Candidates
  <2> DEFINE p == CHOOSE p \in Quarantined(h) : TRUE
             names == {x[3] : x \in Quarantined(h)}
             engine == runtimes[p[1]][p[2]].engine
  <2>1. Candidate(h) = [hash |-> h, names |-> names, engine |-> engine]
    BY DEF Candidate
  <2>2. p \in Rows
    BY <1>1 DEF Quarantined
  <2>3. \A x \in Quarantined(h) : x[3] \in Labels
    BY RowPlaces DEF Quarantined
  <2> HIDE DEF p
  <2>4. engine \in Kinds
    BY <2>2, RowPlaces, StockHolds, RuntimeFields DEF Wired
  <2>5. names \in SUBSET Labels
    BY <2>3
  <2> HIDE DEF names, engine
  <2> QED BY <2>1, <2>4, <2>5 DEF Candidates
<1>2. pass' = {Candidate(h) : h \in {h \in Hashes : Quarantined(h) # {}}}
  BY DEF AutoRead
<1>3. UNCHANGED <<catalog, runtimes, adoptions, seeds, ghosts>>
  BY DEF AutoRead
<1> QED BY <1>1, <1>2, <1>3 DEF ghosts

LEMMA SameStock ==
    ASSUME StockInv, UNCHANGED <<catalog, runtimes, adoptions, seeds, heard, silent, quiet, listed>>, pass' \subseteq Candidates
    PROVE  StockInv'
<1>1. Stocked(catalog', runtimes', heard', silent', quiet', listed')
  BY StockHolds
<1>2. adoptions' \in 0 .. MaxAdoptions /\ seeds' \in 0 .. MaxSeeds
  BY DEF StockInv
<1> QED BY <1>1, <1>2 DEF StockInv

\* Every step keeps the invariant.
LEMMA StockStep ==
    ASSUME StockInv, [StockNext]_stockVars
    PROVE  StockInv'
<1>1. CASE \E w \in Workers : \E req \in Registrations[w] : Register(w, req)
  BY <1>1, RegisterStep
<1>2. CASE \E w \in Workers : \E beat \in Beats[w] : Heartbeat(w, beat)
  BY <1>2, HeartbeatStep
<1>3. CASE AdoptByAdmin
  BY <1>3, AdminStep, AdoptStep
<1>4. CASE AutoRead
  BY <1>4, ReadStep, SameStock
<1>5. CASE \E c \in pass : AutoAdopt(c)
  <2>1. PICK c \in pass : AutoAdopt(c)
    BY <1>5
  <2>2. CASE \E id \in Ids, h \in Hashes, engine \in Kinds, name \in Labels, extras \in SUBSET Labels :
                Adopt(id, h, engine, name, extras) /\ pass' \subseteq Candidates
    BY <2>2, AdoptStep
  <2>3. CASE UNCHANGED <<catalog, runtimes, adoptions, seeds, heard, silent, quiet, listed>> /\ pass' \subseteq Candidates
    BY <2>3, SameStock
  <2> QED BY <2>1, <2>2, <2>3, AutoStep
<1>6. CASE \E seed \in Seeds : Seed(seed)
  BY <1>6, SeedStep
<1>7. CASE UNCHANGED stockVars
  <2>1. pass' \subseteq Candidates
    BY <1>7 DEF stockVars, StockInv
  <2> QED BY <1>7, <2>1, SameStock DEF stockVars
<1> QED BY <1>1, <1>2, <1>3, <1>4, <1>5, <1>6, <1>7 DEF StockNext

\* Whatever the workers report, and in whatever order registrations,
\* heartbeats, adoptions and starts come, a runtime's rows are names it has
\* listed, each servable only as the pins of its hash or name allow, with the
\* hash and the flag of its last listing, and its count of empty beats is of
\* beats that were empty (register_worker, heartbeat, apply_inventory, adopt).
THEOREM StockInvariant == StockSpec => []StockInv
<1>1. StockInit => StockInv
  BY InitStocked
<1>2. StockInv /\ [StockNext]_stockVars => StockInv'
  BY StockStep
<1> QED BY <1>1, <1>2, PTL DEF StockSpec

-----------------------------------------------------------------------------
(* What the invariant says of rows and entries.                            *)

\* The invariant implies the types.
LEMMA StockIsTyped ==
    ASSUME StockInv
    PROVE  StockTypeOK
<1>1. /\ Stocked(catalog, runtimes, heard, silent, quiet, listed) /\ CatOK(catalog)
      /\ \A w \in Workers : WorkerOK(catalog, runtimes[w], heard[w], silent[w], quiet[w], listed[w])
      /\ \A w \in Workers : Wired(runtimes[w])
  BY StockHolds
<1>2. DOMAIN catalog = Ids /\ \A id \in Entries(catalog) : IsEntry(catalog[id])
  BY <1>1 DEF CatOK, Entries
<1>3. DOMAIN runtimes = Workers /\ DOMAIN heard = Workers /\ DOMAIN silent = Workers /\ DOMAIN quiet = Workers /\ DOMAIN listed = Workers
  BY <1>1 DEF Stocked
<1>4. ASSUME NEW w \in Workers
      PROVE  /\ runtimes[w] \in Seq({runtimes[w][i] : i \in DOMAIN runtimes[w]})
             /\ \A i \in DOMAIN runtimes[w] : IsRuntime(runtimes[w][i])
             /\ \A i, j \in DOMAIN runtimes[w] : runtimes[w][i].engine = runtimes[w][j].engine => i = j
  <2> DEFINE rts == runtimes[w]
             V == {rts[i] : i \in DOMAIN rts}
  <2>1. Wired(rts)
    BY <1>1
  <2> HIDE DEF rts
  <2>2. PICK n \in Nat : rts = [i \in 1 .. n |-> rts[i]]
    BY <2>1 DEF Wired, IsList
  <2>3. DOMAIN rts = 1 .. n
    BY <2>2
  <2>4. \A i \in 1 .. n : rts[i] \in V
    BY <2>3
  <2> HIDE DEF V
  <2>5. rts \in Seq(V)
    BY <2>2, <2>4
  <2> QED BY <2>1, <2>5 DEF Wired, rts, V
<1>5. ASSUME NEW w \in Workers
      PROVE  /\ heard[w]  \in [Engines(runtimes[w]) -> (SUBSET ItemSet) \cup {None}]
             /\ silent[w] \in [Engines(runtimes[w]) -> 0 .. 2]
             /\ quiet[w]  \in [Engines(runtimes[w]) -> 0 .. 2]
             /\ listed[w] \in [Engines(runtimes[w]) -> SUBSET Labels]
  <2> DEFINE E == Engines(runtimes[w])
  <2>1. WorkerOK(catalog, runtimes[w], heard[w], silent[w], quiet[w], listed[w])
    BY <1>1
  <2>2. /\ heard[w] = [e \in E |-> heard[w][e]] /\ silent[w] = [e \in E |-> silent[w][e]]
        /\ quiet[w] = [e \in E |-> quiet[w][e]] /\ listed[w] = [e \in E |-> listed[w][e]]
    BY <2>1 DEF WorkerOK
  <2>3. ASSUME NEW e \in E
        PROVE  /\ heard[w][e] \in (SUBSET ItemSet) \cup {None} /\ silent[w][e] \in 0 .. 2
               /\ quiet[w][e] \in 0 .. 2 /\ listed[w][e] \in SUBSET Labels
    <3>1. PICK i \in DOMAIN runtimes[w] : runtimes[w][i].engine = e
      BY <2>3 DEF Engines
    <3>2. e \in Kinds
      BY <1>1, <3>1, RuntimeFields DEF Wired
    <3>3. RuntimeOK(catalog, runtimes[w][i], heard[w][e], silent[w][e], quiet[w][e], listed[w][e])
      BY <2>1, <3>1, <3>2 DEF WorkerOK
    <3> QED BY <3>3 DEF RuntimeOK
  <2> HIDE DEF E
  <2> QED BY <2>2, <2>3 DEF E
<1>6. ASSUME NEW p \in Rows, RowAt(p).entry # None
      PROVE  catalog[RowAt(p).entry] # None
  <2> DEFINE rt == runtimes[p[1]][p[2]]
             e == rt.engine
             w == p[1]
  <2>1. p[1] \in Workers /\ p[2] \in DOMAIN runtimes[p[1]] /\ p[3] \in DOMAIN rt.models /\ RowAt(p) = rt.models[p[3]]
    BY RowPlaces
  <2>2. e \in Kinds
    BY <1>1, <2>1, RuntimeFields DEF Wired
  <2>3. RuntimeOK(catalog, rt, heard[w][e], silent[w][e], quiet[w][e], listed[w][e])
    BY <1>1, <2>1, <2>2 DEF WorkerOK
  <2>4. Sound(catalog, p[3], rt.models[p[3]])
    BY <2>1, <2>3 DEF RuntimeOK
  <2> QED BY <1>6, <2>1, <2>4 DEF Sound
<1>7. pass \subseteq [hash : Hashes, names : SUBSET Labels, engine : Kinds] /\ adoptions \in 0 .. MaxAdoptions /\ seeds \in 0 .. MaxSeeds
  BY DEF StockInv, Candidates
<1> QED BY <1>2, <1>3, <1>4, <1>5, <1>6, <1>7 DEF StockTypeOK

\* The row of a runtime, and what is remembered of the runtime.
LEMMA RowHolds ==
    ASSUME StockInv, NEW p \in Rows
    PROVE  LET w == p[1]  rt == runtimes[w][p[2]]  e == rt.engine
           IN  /\ w \in Workers /\ p[2] \in DOMAIN runtimes[w] /\ e \in Kinds /\ e \in Engines(runtimes[w])
               /\ p[3] \in DOMAIN rt.models /\ RowAt(p) = rt.models[p[3]] /\ RowAt(p) \in RowSet
               /\ RuntimeOK(catalog, rt, heard[w][e], silent[w][e], quiet[w][e], listed[w][e])
               /\ p[3] \in listed[w][e] /\ Sound(catalog, p[3], RowAt(p))
<1> DEFINE w == p[1]
           rt == runtimes[w][p[2]]
           e == rt.engine
<1>1. w \in Workers /\ p[2] \in DOMAIN runtimes[w] /\ p[3] \in DOMAIN rt.models /\ RowAt(p) = rt.models[p[3]]
  BY RowPlaces
<1>2. Wired(runtimes[w]) /\ WorkerOK(catalog, runtimes[w], heard[w], silent[w], quiet[w], listed[w])
  BY <1>1, StockHolds
<1>3. e \in Kinds /\ \A n \in DOMAIN rt.models : rt.models[n] \in RowSet
  BY <1>1, <1>2, RuntimeFields DEF Wired
<1>4. RuntimeOK(catalog, rt, heard[w][e], silent[w][e], quiet[w][e], listed[w][e])
  BY <1>1, <1>2, <1>3 DEF WorkerOK
<1>5. p[3] \in listed[w][e] /\ Sound(catalog, p[3], RowAt(p))
  BY <1>1, <1>4 DEF RuntimeOK
<1>6. e \in Engines(runtimes[w])
  BY <1>1 DEF Engines
<1> HIDE DEF w, rt
<1> QED BY <1>1, <1>3, <1>4, <1>5, <1>6 DEF w, rt

\* Quarantine and filing, from the soundness of each row.
LEMMA RowsAreSound ==
    ASSUME StockInv
    PROVE  QuarantineIsByHash /\ FiledWhereListed
<1>1. ASSUME NEW p \in Rows
      PROVE  LET row == RowAt(p)
             IN  row.fresh /\ row.hash # None =>
                    IF \E id \in Ids : catalog[id] # None /\ row.hash \in {catalog[id].pin} \cup catalog[id].files
                    THEN row.status \in {"available", "missing"}
                    ELSE row.status = "available" =>
                         \E id \in Ids : catalog[id] # None /\ catalog[id].pin = None /\ p[3] \in
                             {catalog[id].legacy} \cup {catalog[id].profiles[r].name : r \in DOMAIN catalog[id].profiles}
  <2>1. Sound(catalog, p[3], RowAt(p))
    BY RowHolds
  <2> DEFINE row == RowAt(p)
             n == p[3]
  <2> HIDE DEF row, n
  <2>2. Sound(catalog, n, row)
    BY <2>1 DEF row, n
  <2>3. Pinned(catalog, row.hash) <=> \E id \in Ids : catalog[id] # None /\ row.hash \in {catalog[id].pin} \cup catalog[id].files
    BY DEF Pinned
  <2>4. Unpinned(catalog, n) <=>
           \E id \in Ids : catalog[id] # None /\ catalog[id].pin = None /\ n \in
               {catalog[id].legacy} \cup {catalog[id].profiles[r].name : r \in DOMAIN catalog[id].profiles}
    BY DEF Unpinned
  <2>5. row.fresh /\ row.hash # None =>
           IF Pinned(catalog, row.hash) THEN row.status \in {"available", "missing"}
           ELSE row.status = "available" => Unpinned(catalog, n)
    BY <2>2 DEF Sound
  <2> QED BY <2>3, <2>4, <2>5, Zenon DEF row, n
<1>2. QuarantineIsByHash
  BY <1>1 DEF QuarantineIsByHash
<1>3. FiledWhereListed
  BY RowHolds DEF FiledWhereListed
<1> QED BY <1>2, <1>3

\* Flags, hashes and counts, from what is remembered of each runtime.
LEMMA RowsAreAsHeard ==
    ASSUME StockInv
    PROVE  LoadedIsOwn /\ HashIsAsHeard /\ EmptyIsQuiet
<1>1. ASSUME NEW p \in Rows
      PROVE  LET w == p[1]  e == runtimes[w][p[2]].engine
             IN  heard[w][e] # None => \A item \in heard[w][e] : item.name = p[3] =>
                    item.hash \in {None, RowAt(p).hash} /\ (silent[w][e] = 0 => RowAt(p).loaded = item.loaded)
  <2> DEFINE w == p[1]
             rt == runtimes[w][p[2]]
             e == rt.engine
  <2>1. RuntimeOK(catalog, rt, heard[w][e], silent[w][e], quiet[w][e], listed[w][e]) /\ RowAt(p) = rt.models[p[3]]
    BY RowHolds
  <2> HIDE DEF w, rt, e
  <2>2. heard[w][e] # None => \A item \in heard[w][e] : item.name = p[3] =>
           item.hash \in {None, RowAt(p).hash} /\ (silent[w][e] = 0 => RowAt(p).loaded = item.loaded)
    BY <2>1 DEF RuntimeOK
  <2> QED BY <2>2 DEF w, rt, e
<1>2. HashIsAsHeard
  BY <1>1 DEF HashIsAsHeard
<1>3. ASSUME NEW p \in Rows
      PROVE  LET e == runtimes[p[1]][p[2]].engine
             IN  p[3] \in HeardNames(p[1], e) /\ silent[p[1]][e] = 0 =>
                    (RowAt(p).loaded <=> \E i \in heard[p[1]][e] : i.name = p[3] /\ i.loaded)
  <2> DEFINE w == p[1]
             e == runtimes[w][p[2]].engine
  <2>1. heard[w][e] # None /\ silent[w][e] = 0 => \A item \in heard[w][e] : item.name = p[3] => RowAt(p).loaded = item.loaded
    BY <1>1
  <2>2. RowAt(p).loaded \in BOOLEAN
    BY RowHolds DEF RowSet
  <2>3. heard[w][e] # None => \A item \in heard[w][e] : item.loaded \in BOOLEAN
    <3>1. heard[w][e] \in (SUBSET ItemSet) \cup {None}
      BY RowHolds DEF RuntimeOK
    <3> HIDE DEF w, e
    <3> QED BY <3>1 DEF ItemSet
  <2> HIDE DEF w, e
  <2>4. p[3] \in HeardNames(w, e) => heard[w][e] # None /\ \E item \in heard[w][e] : item.name = p[3]
    BY DEF HeardNames
  <2>5. p[3] \in HeardNames(w, e) /\ silent[w][e] = 0 => (RowAt(p).loaded <=> \E i \in heard[w][e] : i.name = p[3] /\ i.loaded)
    BY <2>1, <2>2, <2>3, <2>4
  <2> QED BY <2>5 DEF w, e
<1>4. LoadedIsOwn
  BY <1>3 DEF LoadedIsOwn
<1>5. ASSUME NEW w \in Workers, NEW i \in DOMAIN runtimes[w]
      PROVE  runtimes[w][i].empty <= quiet[w][runtimes[w][i].engine]
  <2> DEFINE rt == runtimes[w][i]
             e == rt.engine
  <2>1. WorkerOK(catalog, runtimes[w], heard[w], silent[w], quiet[w], listed[w])
    BY StockHolds
  <2>2. e \in Kinds
    BY StockHolds, RuntimeFields DEF Wired
  <2>3. RuntimeOK(catalog, rt, heard[w][e], silent[w][e], quiet[w][e], listed[w][e])
    BY <2>1, <2>2 DEF WorkerOK
  <2> QED BY <2>3 DEF RuntimeOK
<1>6. EmptyIsQuiet
  BY <1>5 DEF EmptyIsQuiet
<1> QED BY <1>2, <1>4, <1>6

-----------------------------------------------------------------------------
(* From the rows to the names that a poll hands out.                       *)

\* A name that is handed out is of a model with the entry's hash.
LEMMA HandedNameHeld ==
    ASSUME NEW entry, NEW models, \E m \in models : Is(entry, m), NEW name \in HandedNames(entry, models)
    PROVE  \E m \in models : m.name = name /\ Is(entry, m)
<1> DEFINE profiled == {m.name : m \in {x \in models : x.name \in entry.targets /\ Is(entry, x)}}
           exact == {m.name : m \in {x \in models : Is(entry, x)}}
<1>1. exact # {} /\ profiled \subseteq exact
  OBVIOUS
<1>2. HandedNames(entry, models) = PreferBare(profiled) \/ HandedNames(entry, models) = PreferBare(exact)
  BY <1>1 DEF HandedNames
<1>3. PreferBare(profiled) \subseteq profiled /\ PreferBare(exact) \subseteq exact
  BY DEF PreferBare
<1>4. name \in exact
  <2> HIDE DEF profiled, exact
  <2> QED BY <1>1, <1>2, <1>3
<1> QED BY <1>4

\* A pinned entry's name stands for pinned bytes.
LEMMA HandedIsPinned ==
    ASSUME StockInv
    PROVE  HandedBytesArePinned
<1> SUFFICES ASSUME NEW w \in Workers, NEW id \in Entries(catalog),
                    catalog[id].pin # None, Hosting(Wanted(id), View(w)) # {},
                    NEW name \in HandedNames(Wanted(id), AdvertisedModels(View(w)))
             PROVE  \E i \in DOMAIN runtimes[w] :
                      /\ runtimes[w][i].ready /\ name \in DOMAIN runtimes[w][i].models
                      /\ runtimes[w][i].models[name].status = "available"
                      /\ runtimes[w][i].models[name].hash \in {None, catalog[id].pin}
                      /\ LET said == heard[w][runtimes[w][i].engine]
                         IN  said # None => \A item \in said : item.name = name => item.hash \in {None, catalog[id].pin}
  BY DEF HandedBytesArePinned
<1> DEFINE entry == Wanted(id)
           v == View(w)
           models == AdvertisedModels(v)
           rts == runtimes[w]
           M(i) == {[name |-> n, digest |-> rts[i].models[n].hash, loaded |-> rts[i].models[n].loaded,
                     status |-> rts[i].models[n].status] : n \in DOMAIN rts[i].models}
           V(i) == [engine |-> rts[i].engine, ready |-> rts[i].ready, caps |-> {}, models |-> M(i)]
<1>1. v.runtimes = [i \in DOMAIN rts |-> V(i)]
  BY DEF View
<1>2. DOMAIN v.runtimes = DOMAIN rts /\ \A i \in DOMAIN rts : v.runtimes[i] = V(i)
  BY <1>1
<1>3. ASSUME NEW i \in DOMAIN rts
      PROVE  v.runtimes[i].ready = rts[i].ready /\ v.runtimes[i].models = M(i)
  <2>1. V(i).ready = rts[i].ready /\ V(i).models = M(i)
    OBVIOUS
  <2>2. v.runtimes[i] = V(i)
    BY <1>2
  <2> HIDE DEF V, M, v, rts
  <2> QED BY <2>1, <2>2
<1>4. entry.pin = catalog[id].pin
  BY DEF Wanted
<1> HIDE DEF v, entry
<1>5. \E m \in models : Is(entry, m)
  BY DEF Hosting, Hosts, AdvertisedModels, v, entry
<1>6. PICK m \in models : m.name = name /\ Is(entry, m)
  BY <1>5, HandedNameHeld DEF entry, v
<1>7. PICK i \in DOMAIN rts : rts[i].ready /\ m \in M(i) /\ Schedulable(m)
  <2>1. PICK i \in DOMAIN v.runtimes : m \in Advertised(v.runtimes[i])
    BY <1>6 DEF AdvertisedModels
  <2>2. v.runtimes[i].ready /\ m \in v.runtimes[i].models /\ Schedulable(m)
    BY <2>1 DEF Advertised
  <2>3. i \in DOMAIN rts /\ v.runtimes[i].ready = rts[i].ready /\ v.runtimes[i].models = M(i)
    BY <1>2, <1>3, <2>1
  <2> HIDE DEF M, rts
  <2> QED BY <2>2, <2>3
<1>8. PICK n \in DOMAIN rts[i].models :
         m = [name |-> n, digest |-> rts[i].models[n].hash, loaded |-> rts[i].models[n].loaded,
              status |-> rts[i].models[n].status]
  BY <1>7
<1> HIDE DEF models, M
<1>9. n = name /\ rts[i].models[n].hash = m.digest /\ rts[i].models[n].status = m.status
  BY <1>6, <1>8
<1>10. m.digest \in {None, catalog[id].pin}
  BY <1>4, <1>6 DEF Is
<1>11. Wired(rts) /\ WorkerOK(catalog, rts, heard[w], silent[w], quiet[w], listed[w])
  BY StockHolds
<1> HIDE DEF rts
<1>12. IsRuntime(rts[i])
  BY <1>7, <1>11 DEF Wired
<1>13. rts[i].models[n].status = "available"
  <2>1. rts[i].models[n] \in RowSet
    BY <1>8, <1>12, RuntimeFields
  <2> QED BY <1>7, <1>9, <2>1 DEF RowSet, Schedulable
<1>14. heard[w][rts[i].engine] # None => \A item \in heard[w][rts[i].engine] : item.name = name => item.hash \in {None, catalog[id].pin}
  <2> DEFINE e == rts[i].engine
  <2>1. e \in Kinds
    BY <1>12, RuntimeFields
  <2>2. RuntimeOK(catalog, rts[i], heard[w][e], silent[w][e], quiet[w][e], listed[w][e])
    BY <1>7, <1>11, <2>1 DEF WorkerOK
  <2> HIDE DEF e
  <2>3. heard[w][e] # None => \A item \in heard[w][e] : item.hash \in {None, rts[i].models[item.name].hash}
    BY <2>2 DEF RuntimeOK
  <2>4. heard[w][e] # None => \A item \in heard[w][e] : item.name = name => item.hash \in {None, catalog[id].pin}
    BY <1>9, <1>10, <2>3
  <2> QED BY <2>4 DEF e
<1> QED BY <1>7, <1>8, <1>9, <1>10, <1>13, <1>14 DEF rts

\* The invariant implies the run's.
LEMMA StockIsRight ==
    ASSUME StockInv
    PROVE  RowsFollowReports
BY RowsAreSound, RowsAreAsHeard, HandedIsPinned DEF RowsFollowReports

\* Whatever the workers report and whatever the catalogue goes through,
\* stored values have their types.
THEOREM StockTypeCorrect == StockSpec => []StockTypeOK
BY StockInvariant, StockIsTyped, PTL

\* In every reachable state quarantine is by hash, a model is filed under the
\* runtime that listed it and shown with the hash and the flag of its last
\* listing, and the name a poll hands out for a pinned entry stands for the
\* pinned bytes (classify_entry, apply_inventory, resolve_runtime_model_id).
THEOREM RowsFollowReportsAlways == StockSpec => []RowsFollowReports
BY StockInvariant, StockIsRight, PTL

-----------------------------------------------------------------------------
(* What a step may give up and what it may restore.                        *)

\* One step as seen from one row.
Reasons(p) ==
    LET w == p[1]  i == p[2]  n == p[3]  row == RowAt(p)
        e == runtimes[w][i].engine  e1 == runtimes'[w][i].engine
    IN  /\ row.status = "available" /\ Status(w, i, n)' = "missing" /\ n \in HeardNames(w, e) /\ e1 = e /\ silent'[w][e] > 0
              => quiet'[w][e] >= 2
        /\ row.status = "missing" /\ Status(w, i, n)' = "available" =>
              \/ silent'[w][e1] = 0 /\ (heard'[w][e1] # None => \E item \in heard'[w][e1] : item.name = n)
              \/ adoptions' > adoptions /\ \E id \in Ids : catalog[id] = None /\ catalog'[id] # None
                                                          /\ catalog'[id].pin = row.hash

\* A row with a status is there.
LEMMA NoStatus ==
    ASSUME NEW w, NEW i, NEW n, Status(w, i, n)' \in {"available", "missing"}
    PROVE  /\ i \in DOMAIN runtimes'[w] /\ n \in DOMAIN runtimes'[w][i].models
           /\ Status(w, i, n)' = runtimes'[w][i].models[n].status
BY StockAssumption DEF Status

\* A row whose status stays needs no evidence.
LEMMA SameStatus ==
    ASSUME NEW p \in Rows,
           Status(p[1], p[2], p[3])' \in {"available", "missing"} => Status(p[1], p[2], p[3])' = RowAt(p).status
    PROVE  Reasons(p)
BY DEF Reasons

LEMMA OtherWorker ==
    ASSUME NEW p \in Rows, runtimes'[p[1]] = runtimes[p[1]]
    PROVE  Reasons(p)
<1> DEFINE S == Status(p[1], p[2], p[3])
<1>1. S' = IF p[2] \in DOMAIN runtimes'[p[1]] /\ p[3] \in DOMAIN runtimes'[p[1]][p[2]].models
           THEN runtimes'[p[1]][p[2]].models[p[3]].status ELSE None
  BY DEF Status
<1>2. S' = RowAt(p).status
  BY <1>1, RowPlaces
<1> QED BY <1>2, SameStatus

\* A registration has listed nothing yet.
LEMMA RegisterReasons ==
    ASSUME StockInv, NEW w \in Workers, NEW req \in Registrations[w], Register(w, req), NEW p \in Rows
    PROVE  Reasons(p)
<1>1. /\ runtimes = [x \in Workers |-> runtimes[x]] /\ heard = [x \in Workers |-> heard[x]]
      /\ silent = [x \in Workers |-> silent[x]] /\ CatOK(catalog)
  BY StockHolds DEF Stocked
<1>2. CASE p[1] # w
  <2>1. runtimes'[p[1]] = runtimes[p[1]]
    BY <1>1, <1>2, RowPlaces DEF Register
  <2> QED BY <2>1, OtherWorker
<1>3. CASE p[1] = w
  <2> DEFINE rts == [i \in DOMAIN req |-> Registered(catalog, req[i])]
             E == Engines(req)
             e1 == runtimes'[w][p[2]].engine
  <2>1. runtimes'[w] = rts /\ heard'[w] = [e \in E |-> None] /\ silent'[w] = [e \in E |-> 0]
    BY <1>1 DEF Register
  <2>2. ASSUME p[2] \in DOMAIN runtimes'[w]
        PROVE  silent'[w][e1] = 0 /\ heard'[w][e1] = None
    <3>1. p[2] \in DOMAIN req /\ e1 = Registered(catalog, req[p[2]]).engine
      BY <2>1, <2>2
    <3>2. req[p[2]] \in RequestSet
      BY <3>1, StockAssumption
    <3>3. e1 = req[p[2]].engine
      BY <1>1, <3>1, <3>2, RegisteredOK
    <3>4. e1 \in E
      BY <3>1, <3>3 DEF Engines
    <3> HIDE DEF e1, E
    <3> QED BY <2>1, <3>4
  <2>3. Status(w, p[2], p[3])' \in {"available", "missing"} => p[2] \in DOMAIN runtimes'[w]
    BY NoStatus
  <2> HIDE DEF rts, E, e1
  <2>4. CASE Status(w, p[2], p[3])' \in {"available", "missing"}
    <3>1. silent'[w][e1] = 0 /\ heard'[w][e1] = None
      BY <2>2, <2>3, <2>4
    <3> QED BY <1>3, <3>1 DEF Reasons, e1
  <2>5. CASE Status(w, p[2], p[3])' \notin {"available", "missing"}
    BY <1>3, <2>5, SameStatus
  <2> QED BY <2>4, <2>5
<1> QED BY <1>2, <1>3

\* A beat drops what it does not list, or what two beats have not.
LEMMA BeatReasons ==
    ASSUME StockInv, NEW w \in Workers, NEW beat \in Beats[w], Heartbeat(w, beat), NEW p \in Rows
    PROVE  Reasons(p)
<1>1. /\ runtimes = [x \in Workers |-> runtimes[x]] /\ heard = [x \in Workers |-> heard[x]]
      /\ silent = [x \in Workers |-> silent[x]] /\ quiet = [x \in Workers |-> quiet[x]] /\ CatOK(catalog)
      /\ Wired(runtimes[w])
  BY StockHolds DEF Stocked
<1>2. CASE p[1] # w
  <2>1. runtimes'[p[1]] = runtimes[p[1]]
    BY <1>1, <1>2, RowPlaces DEF Heartbeat
  <2> QED BY <2>1, OtherWorker
<1>3. CASE p[1] = w
  <2> DEFINE rts == runtimes[w]
             done == Applied(Lit(Probed(rts, beat), beat), beat)
             new == Counted(done.rts, beat)
             i == p[2]
             n == p[3]
             e == rts[i].engine
             listing == Listing(rts, beat, e)
             old == rts[i].models[n].status
  <2>1. Named(beat) /\ rts # <<>> /\ Sends(rts, beat)
    BY StockAssumption DEF Named, Heartbeat
  <2>2. /\ runtimes'[w] = new /\ heard'[w] = [x \in Engines(rts) |-> Heard(rts, beat, x, heard[w][x])]
        /\ silent'[w] = [x \in Engines(rts) |-> Silent(rts, beat, x, silent[w][x])]
        /\ quiet'[w] = [x \in Engines(rts) |-> Quiet(rts, beat, x, quiet[w][x])]
    BY <1>1 DEF Heartbeat
  <2>3. /\ i \in DOMAIN rts /\ n \in DOMAIN rts[i].models /\ e \in Engines(rts) /\ RowAt(p).status = old
        /\ RuntimeOK(catalog, rts[i], heard[w][e], silent[w][e], quiet[w][e], listed[w][e])
    BY <1>3, RowHolds
  <2> HIDE DEF rts
  <2>4. done = Applied(Lit(Probed(rts, beat), beat), beat)
    OBVIOUS
  <2> HIDE DEF done
  <2>5. new[i].engine = e /\ RowsAfterBeat(rts, beat, i, new[i].models)
    <3>1. Wired(rts)
      BY <1>1 DEF rts
    <3>2. \A x \in DOMAIN rts : new[x].engine = rts[x].engine /\ RowsAfterBeat(rts, beat, x, new[x].models)
      BY <1>1, <2>1, <2>4, <3>1, BeatRows
    <3> HIDE DEF new
    <3> QED BY <2>3, <3>2
  <2>6. /\ heard'[w][e] = Heard(rts, beat, e, heard[w][e]) /\ silent'[w][e] = Silent(rts, beat, e, silent[w][e])
        /\ quiet'[w][e] = Quiet(rts, beat, e, quiet[w][e])
    <3> HIDE DEF e
    <3> QED BY <2>2, <2>3
  <2> HIDE DEF new
  <2>7. runtimes'[w][i].engine = e /\ runtimes'[w][i].models = new[i].models
    BY <2>2, <2>5
  <2>8. Status(w, i, n)' \in {"available", "missing"} => Status(w, i, n)' = new[i].models[n].status
    BY <2>7, NoStatus
  <2>9. CASE n \in NamesOf(listing)
    <3>1. PICK item \in listing : item.name = n
      BY <2>9 DEF NamesOf
    <3>2. new[i].models[n].status # "missing"
      BY <2>5, <3>1 DEF RowsAfterBeat
    <3>3. silent'[w][e] = 0 /\ heard'[w][e] = listing
      BY <2>6, <3>1 DEF Silent, Heard
    <3> HIDE DEF e, listing, old, i, n
    <3>4. Status(w, i, n)' # "missing"
      BY <2>8, <3>2
    <3> QED BY <1>3, <2>7, <3>1, <3>3, <3>4 DEF Reasons, i, n
  <2>10. CASE n \notin NamesOf(listing)
    <3>1. /\ new[i].models[n].status \in {old, "missing"}
          /\ listing = {} /\ new[i].models[n].status # old => Empty(rts[i], beat) /\ EmptyBeats(rts[i], beat) >= 2
      BY <2>3, <2>5, <2>10 DEF RowsAfterBeat
    <3>2. quiet[w][e] \in 0 .. 2 /\ silent[w][e] \in 0 .. 2 /\ rts[i].empty <= quiet[w][e]
      BY <2>3 DEF RuntimeOK
    <3>3. quiet'[w][e] \in 0 .. 2 /\ EmptyBeats(rts[i], beat) <= quiet'[w][e]
      <4> DEFINE q == quiet[w][e]
      <4>1. Wired(rts) /\ i \in DOMAIN rts /\ q \in 0 .. 2 /\ rts[i].empty <= q
        BY <1>1, <2>3, <3>2 DEF rts
      <4> HIDE DEF q, i
      <4>2. Quiet(rts, beat, rts[i].engine, q) \in 0 .. 2 /\ EmptyBeats(rts[i], beat) <= Quiet(rts, beat, rts[i].engine, q)
        BY <2>1, <4>1, CountIsQuiet
      <4>3. quiet'[w][e] = Quiet(rts, beat, rts[i].engine, q)
        BY <2>6 DEF q, i
      <4> QED BY <4>2, <4>3
    <3>4. EmptyBeats(rts[i], beat) \in 0 .. 2
      BY <1>1, <2>3, CountIsSmall DEF Wired, rts
    <3>5. silent'[w][e] > 0 => listing = {}
      BY <2>6 DEF Silent
    <3>6. RowAt(p).status = old
      BY <2>3
    <3> HIDE DEF e, listing, old, i, n
    <3>7. old = "available" /\ Status(w, i, n)' = "missing" /\ silent'[w][e] > 0 => quiet'[w][e] >= 2
      BY <2>8, <3>1, <3>3, <3>4, <3>5
    <3>8. ~(old = "missing" /\ Status(w, i, n)' = "available")
      BY <2>8, <3>1
    <3>9. e = runtimes[w][i].engine
      BY DEF e, rts
    <3> QED BY <1>3, <3>6, <3>7, <3>8, <3>9 DEF Reasons, i, n
  <2> QED BY <2>9, <2>10
<1> QED BY <1>2, <1>3

\* An adoption gives back only the hash it adopts.
LEMMA AdoptReasons ==
    ASSUME StockInv, NEW id \in Ids, NEW h \in Hashes, NEW engine \in Kinds, NEW name \in Labels,
           NEW extras \in SUBSET Labels, Adopt(id, h, engine, name, extras), pass' \subseteq Candidates, NEW p \in Rows
    PROVE  Reasons(p)
<1> DEFINE w == p[1]
           i == p[2]
           n == p[3]
           row == RowAt(p)
           row1 == runtimes'[w][i].models[n]
<1>1. w \in Workers /\ i \in DOMAIN runtimes[w] /\ n \in DOMAIN runtimes[w][i].models /\ row = runtimes[w][i].models[n]
  BY RowPlaces
<1>2. IF row.hash # h THEN row1 = row ELSE row1.status # "missing"
  <2>1. \A x \in Workers : \A y \in DOMAIN runtimes[x] : \A z \in DOMAIN runtimes[x][y].models :
           IF runtimes[x][y].models[z].hash # h
           THEN runtimes'[x][y].models[z] = runtimes[x][y].models[z]
           ELSE runtimes'[x][y].models[z].status # "missing"
    BY AdoptStep
  <2>2. IF runtimes[w][i].models[n].hash # h
        THEN row1 = runtimes[w][i].models[n]
        ELSE row1.status # "missing"
    BY <1>1, <2>1
  <2> QED BY <1>1, <2>2
<1>3. adoptions' > adoptions /\ catalog[id] = None /\ catalog'[id] # None /\ catalog'[id].pin = h
  BY AdoptStep
<1>4. Status(w, i, n)' \in {"available", "missing"} => Status(w, i, n)' = row1.status
  BY NoStatus
<1> HIDE DEF row1, row
<1>5. CASE row.hash # h
  BY <1>2, <1>4, <1>5, SameStatus DEF row
<1>6. CASE row.hash = h
  <2>1. Status(w, i, n)' # "missing"
    BY <1>2, <1>4, <1>6
  <2>2. adoptions' > adoptions /\ \E x \in Ids : catalog[x] = None /\ catalog'[x] # None /\ catalog'[x].pin = row.hash
    BY <1>3, <1>6
  <2> QED BY <2>1, <2>2 DEF Reasons, row
<1> QED BY <1>5, <1>6

\* A start classifies no row.
LEMMA SeedReasons ==
    ASSUME StockInv, NEW seed \in Seeds, Seed(seed), NEW p \in Rows
    PROVE  Reasons(p)
<1>1. runtimes'[p[1]][p[2]].models[p[3]].status = RowAt(p).status
  BY RowPlaces, SeedStep
<1>2. Status(p[1], p[2], p[3])' \in {"available", "missing"}
        => Status(p[1], p[2], p[3])' = RowAt(p).status
  BY <1>1, NoStatus
<1> QED BY <1>2, SameStatus

LEMMA EveryStepHasReasons ==
    ASSUME StockInv, StockNext, NEW p \in Rows
    PROVE  Reasons(p)
<1>1. CASE \E w \in Workers : \E req \in Registrations[w] : Register(w, req)
  BY <1>1, RegisterReasons
<1>2. CASE \E w \in Workers : \E beat \in Beats[w] : Heartbeat(w, beat)
  BY <1>2, BeatReasons
<1>3. CASE AdoptByAdmin
  BY <1>3, AdminStep, AdoptReasons
<1>4. CASE runtimes' = runtimes
  BY <1>4, OtherWorker
<1>5. CASE AutoRead
  BY <1>4, <1>5, ReadStep
<1>6. CASE \E c \in pass : AutoAdopt(c)
  <2>1. PICK c \in pass : AutoAdopt(c)
    BY <1>6
  <2>2. CASE \E id \in Ids, h \in Hashes, engine \in Kinds, name \in Labels, extras \in SUBSET Labels :
                Adopt(id, h, engine, name, extras) /\ pass' \subseteq Candidates
    BY <2>2, AdoptReasons
  <2> QED BY <1>4, <2>1, <2>2, AutoStep
<1>7. CASE \E seed \in Seeds : Seed(seed)
  BY <1>7, SeedReasons
<1> QED BY <1>1, <1>2, <1>3, <1>5, <1>6, <1>7 DEF StockNext

\* No step drops a learned name of a profile that stays.
LEMMA LearnedIsKept ==
    ASSUME StockInv, StockNext
    PROVE  KeepsTaught
<1>1. CASE catalog' = catalog
  BY <1>1 DEF KeepsTaught
<1>2. CASE Grown(catalog, catalog')
  BY <1>2 DEF KeepsTaught, Grown, Entries
<1>3. CASE \E id \in Ids, h \in Hashes, engine \in Kinds, name \in Labels, extras \in SUBSET Labels :
              Adopt(id, h, engine, name, extras) /\ pass' \subseteq Candidates
  <2>1. \A x \in Ids : catalog[x] # None => catalog'[x] = catalog[x]
    BY <1>3, AdoptStep
  <2> QED BY <2>1 DEF KeepsTaught, Entries
<1>4. CASE \E seed \in Seeds : Seed(seed)
  <2>1. \A id \in Ids : catalog[id] # None => \A r \in DOMAIN catalog[id].profiles :
           r \in DOMAIN catalog'[id].profiles => catalog[id].profiles[r].extras \subseteq catalog'[id].profiles[r].extras
    BY <1>4, SeedStep
  <2> QED BY <2>1 DEF KeepsTaught, Entries
<1>5. CASE \E w \in Workers : \E req \in Registrations[w] : Register(w, req)
  BY <1>1, <1>5 DEF Register
<1>6. CASE \E w \in Workers : \E beat \in Beats[w] : Heartbeat(w, beat)
  BY <1>2, <1>6, HeartbeatStep
<1>7. CASE AdoptByAdmin
  BY <1>3, <1>7, AdminStep
<1>8. CASE AutoRead
  BY <1>1, <1>8, ReadStep
<1>9. CASE \E c \in pass : AutoAdopt(c)
  BY <1>1, <1>3, <1>9, AutoStep
<1> QED BY <1>4, <1>5, <1>6, <1>7, <1>8, <1>9 DEF StockNext

LEMMA StepsHaveEvidence ==
    ASSUME StockInv, StockNext
    PROVE  DelistsAfterTwo /\ MissingComesBackBy /\ KeepsTaught
<1>1. DelistsAfterTwo
  BY EveryStepHasReasons DEF DelistsAfterTwo, Reasons
<1>2. MissingComesBackBy
  BY EveryStepHasReasons DEF MissingComesBackBy, Reasons
<1> QED BY <1>1, <1>2, LearnedIsKept

\* A runtime loses a name it was heard to hold only after two silent beats
\* that carried its liveness, a missing name comes back only by a listing,
\* a registration or an adoption, and what a report taught stays.
THEOREM ChangesAlwaysOnEvidence == StockSpec => ChangesOnEvidence
<1>1. StockInv /\ [StockNext]_stockVars => [DelistsAfterTwo /\ MissingComesBackBy /\ KeepsTaught]_stockVars
  BY StepsHaveEvidence
<1> QED BY <1>1, StockInvariant, PTL DEF StockSpec, ChangesOnEvidence

-----------------------------------------------------------------------------
(* The two halves side by side.                                            *)

\* A behaviour of the composition is one of each half: what is proved of
\* either half holds in the run that checks both.
THEOREM FleetIsOfBoth == FleetSpec => StockSpec /\ Spec
<1>1. FleetInit => StockInit /\ Init
  BY DEF FleetInit
<1>2. [FleetNext]_fleet => [StockNext]_stockVars /\ [Next]_vars
  BY DEF FleetNext, fleet
<1> QED BY <1>1, <1>2, PTL DEF FleetSpec, StockSpec, Spec

\* The rows, the catalogue, the queue, the policies and the snapshots keep
\* their types, whichever half moves.
THEOREM FleetTypeCorrect == FleetSpec => []FleetTypeOK
<1> DEFINE OneSide == side \in {"inventory", "scheduling"}
<1>1. FleetInit => OneSide
  BY DEF FleetInit
<1>2. OneSide /\ [FleetNext]_fleet => OneSide'
  BY DEF FleetNext, fleet
<1>3. FleetSpec => []OneSide
  BY <1>1, <1>2, PTL DEF FleetSpec
<1>4. OneSide /\ StockTypeOK /\ TypeOK => FleetTypeOK
  BY DEF FleetTypeOK
<1> QED BY <1>3, <1>4, FleetIsOfBoth, StockTypeCorrect, SchedulingTypeCorrect, PTL
=============================================================================
