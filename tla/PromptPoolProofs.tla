-------------------------- MODULE PromptPoolProofs --------------------------
(***************************************************************************)
(* For any inputs, any number of tasks and any chunk size, every row is    *)
(* answered once, with its own answer, and the counters say so.  The       *)
(* argument: the units cut from an input share no row and leave none out;  *)
(* from then on a row without a result is in the queue or with one task,   *)
(* and nowhere twice.                                                      *)
(***************************************************************************)
EXTENDS PromptPool, SequenceTheorems, FiniteSetTheorems, TLAPS

Distinct(u) == \A k, l \in 1..Len(u) : u[k] = u[l] => k = l
Apart(u, v) == RowsIn(u) \cap RowsIn(v) = {}

\* Nothing has been done before the partition, and nothing but the answer that
\* no runtime hosts the model is given when none does.
StartOK ==
    stage = "start" => /\ queue = <<>> /\ completed = 0 /\ failed = 0
                     /\ \A i \in Indices : result[i] = None

IdleOK ==
    stage = "start" \/ ~hosted => \A w \in Workers : worker[w].pc = "idle"

HostOK == ~hosted => stage \in {"start", "returned"} /\ shown = Zero

\* In the pool the units wait for rows that have no result, each its own.
QueueOK == stage = "pool" => \A j \in 1..Len(queue) :
    /\ Distinct(queue[j]) /\ RowsIn(queue[j]) \subseteq Unrun
    /\ \A l \in 1..Len(queue) : l # j => Apart(queue[j], queue[l])

WorkOK == \A w \in Workers : worker[w].pc = "running" =>
    LET u == worker[w].unit IN
    /\ Distinct(u) /\ RowsIn(u) \subseteq Unrun
    /\ \A j \in 1..Len(queue) : Apart(queue[j], u)
    /\ \A v \in Workers : v # w /\ worker[v].pc = "running" => Apart(worker[v].unit, u)

\* A row without a result is in the queue or in the hands of a task.
CoverOK == stage = "pool" => \A i \in Unrun :
    \/ \E j \in 1..Len(queue) : i \in RowsIn(queue[j])
    \/ \E w \in Workers : worker[w].pc = "running" /\ i \in RowsIn(worker[w].unit)

\* A task leaves an empty queue behind unless the daemon stops, and the queue
\* has had a task from the start.
LeaveOK == stage = "pool" =>
    /\ queue # <<>> => \E w \in Workers : worker[w].pc # "idle"
    /\ running /\ (\E w \in Workers : worker[w].pc = "done") => queue = <<>>

Unbroken == running /\ \A w \in Workers : worker[w].pc # "broken"
NoneStranded == \A i \in Indices :
    result[i] # None => result[i].says \notin {"unrun", "shutdown"}

SaysOK == stage = "pool" => NoneStranded

EndOK == stage \in {"ended", "returned"} =>
    PoolEnded /\ Unrun = {} /\ (Unbroken => NoneStranded)

\* What is shown, or on its way, has been done.
ShownOK ==
    /\ shown.completed <= completed /\ shown.failed <= failed
    /\ \A w \in Workers : worker[w].pc = "reporting" =>
          worker[w].snap.completed <= completed /\ worker[w].snap.failed <= failed

PoolInv == /\ PoolTypeOK /\ StartOK /\ IdleOK /\ HostOK /\ QueueOK /\ WorkOK /\ CoverOK
       /\ LeaveOK /\ SaysOK /\ EndOK /\ ShownOK /\ AnswerIsOwn /\ CountsAreOfRows
-----------------------------------------------------------------------------
(* A set of positions can be put in order.                                 *)

\* Every set of numbers has a least one.
LEMMA LeastNumber ==
    ASSUME NEW S \in SUBSET Nat, S # {}
    PROVE  \E n \in S : \A m \in S : n <= m
<1> DEFINE R == StrictSubsetOrdering(Nat)
           Below == {0..n : n \in S}
<1>1. Below \subseteq FiniteSubsetsOf(Nat) /\ Below # {}
  <2> SUFFICES ASSUME NEW n \in S PROVE 0..n \in FiniteSubsetsOf(Nat)
    OBVIOUS
  <2>1. IsFiniteSet(0..n)
    BY FS_Interval
  <2> QED BY <2>1 DEF FiniteSubsetsOf
<1>2. IsWellFoundedOn(R, FiniteSubsetsOf(Nat))
  BY FS_StrictSubsetOrderingWellFounded
<1> HIDE DEF R
<1>3. \E x \in Below : \A y \in Below : ~(<<y, x>> \in R)
  BY <1>1, <1>2, WFMin
<1>4. PICK n \in S : \A m \in S : <<0..m, 0..n>> \notin R
  BY <1>3
<1>5. ASSUME NEW m \in S, m < n PROVE FALSE
  <2>1. 0..m \subseteq 0..n /\ n \notin 0..m /\ n \in 0..n
    BY <1>5
  <2>2. 0..m \in SUBSET Nat /\ 0..n \in SUBSET Nat /\ 0..m # 0..n
    BY <2>1
  <2>3. <<0..m, 0..n>> \in R
    BY <2>1, <2>2, Zenon DEF R, StrictSubsetOrdering
  <2> QED BY <2>3, <1>4
<1> QED BY <1>4, <1>5

LEMMA LargestOf ==
    ASSUME NEW L \in Nat, NEW S \in SUBSET (1..L), S # {}
    PROVE  \E n \in S : \A m \in S : m <= n
<1> DEFINE D == {L - x : x \in S}
<1>1. D \in SUBSET Nat /\ D # {}
  <2> SUFFICES ASSUME NEW x \in S PROVE L - x \in Nat
    OBVIOUS
  <2>1. x \in Nat /\ x <= L
    OBVIOUS
  <2> QED BY <2>1
<1>2. PICK d \in D : \A e \in D : d <= e
  BY <1>1, LeastNumber
<1>3. PICK n \in S : d = L - n
  OBVIOUS
<1>4. ASSUME NEW m \in S PROVE m <= n
  <2>1. d <= L - m
    BY <1>2
  <2> QED BY <2>1, <1>3
<1> QED BY <1>4

LEMMA PartFinite ==
    ASSUME NEW L \in Nat, NEW S \in SUBSET (1..L)
    PROVE  IsFiniteSet(S) /\ Cardinality(S) \in Nat
<1>1. IsFiniteSet(1..L)
  BY FS_Interval
<1>2. IsFiniteSet(S)
  BY <1>1, FS_Subset
<1> QED BY <1>2, FS_CardinalityType

Rising(s) == \A j, k \in DOMAIN s : j < k => s[j] < s[k]
Listing(S) == {s \in [1..Cardinality(S) -> S] : Rising(s)}

\* By induction on the set: its largest element comes last.
LEMMA ListingExists ==
    ASSUME NEW L \in Nat, NEW S \in SUBSET (1..L)
    PROVE  Listing(S) # {}
<1> DEFINE R == StrictSubsetOrdering(1..L)
           Bad == {T \in SUBSET (1..L) : Listing(T) = {}}
<1>1. ASSUME NEW T \in SUBSET (1..L) PROVE IsFiniteSet(T) /\ Cardinality(T) \in Nat
  BY PartFinite
<1>2. Bad \subseteq FiniteSubsetsOf(1..L)
  BY <1>1 DEF FiniteSubsetsOf
<1>3. IsWellFoundedOn(R, FiniteSubsetsOf(1..L))
  BY FS_StrictSubsetOrderingWellFounded
<1>4. SUFFICES ASSUME Bad # {} PROVE FALSE
  OBVIOUS
<1> HIDE DEF R, Bad
<1>5. PICK T \in Bad : \A U \in Bad : <<U, T>> \notin R
  <2>1. \E T \in Bad : \A U \in Bad : ~(<<U, T>> \in R)
    BY <1>2, <1>3, <1>4, WFMin
  <2> QED BY <2>1
<1> USE DEF Bad
<1>6. CASE T = {}
  <2>1. Cardinality(T) = 0
    BY <1>6, FS_EmptySet
  <2>2. [j \in 1..0 |-> 0] \in [1..Cardinality(T) -> T]
    BY <2>1
  <2>3. Rising([j \in 1..0 |-> 0])
    BY DEF Rising
  <2> QED BY <2>2, <2>3, <1>5 DEF Listing
<1>7. CASE T # {}
  <2>1. PICK n \in T : \A m \in T : m <= n
    BY <1>7, LargestOf
  <2> DEFINE U == T \ {n}
             c == Cardinality(U)
  <2>2. c \in Nat /\ Cardinality(T) = c + 1
    BY <1>1, FS_RemoveElement
  <2>3. <<U, T>> \in R
    BY Zenon DEF R, StrictSubsetOrdering
  <2>4. PICK s \in Listing(U) : TRUE
    BY <2>3, <1>5
  <2> HIDE DEF c
  <2>5. s \in [1..c -> U] /\ Rising(s)
    BY <2>4 DEF Listing, c
  <2> DEFINE t == [j \in 1..c + 1 |-> IF j <= c THEN s[j] ELSE n]
  <2>6. t \in [1..Cardinality(T) -> T]
    BY <2>2, <2>5
  <2>7. ASSUME NEW j \in 1..c + 1, NEW k \in 1..c + 1, j < k PROVE t[j] < t[k]
    <3>1. j \in 1..c /\ t[j] = s[j] /\ s[j] \in U
      BY <2>2, <2>5, <2>7
    <3>2. CASE k <= c
      BY <2>2, <2>5, <2>7, <3>1, <3>2 DEF Rising
    <3>3. CASE k = c + 1
      <4>1. s[j] \in T /\ s[j] # n /\ T \subseteq Int
        BY <3>1
      <4>2. s[j] \in Int /\ n \in Int /\ s[j] <= n
        BY <2>1, <4>1
      <4> QED BY <2>2, <3>1, <3>3, <4>1, <4>2
    <3> QED BY <2>2, <3>2, <3>3
  <2>8. Rising(t)
    BY <2>7 DEF Rising
  <2> QED BY <2>6, <2>8, <1>5 DEF Listing
<1> QED BY <1>6, <1>7

\* s lists S: every element once.
IsOrder(s, S) == s \in Seq(S) /\ Distinct(s) /\ RowsIn(s) = S

LEMMA InOrderLists ==
    ASSUME NEW L \in Nat, NEW S \in SUBSET (1..L)
    PROVE  IsOrder(InOrder(S), S)
<1> DEFINE s == InOrder(S)
           c == Cardinality(S)
<1>1. IsFiniteSet(S) /\ c \in Nat
  BY PartFinite
<1>2. s \in Listing(S)
  BY ListingExists DEF InOrder, Listing, Rising
<1> HIDE DEF s, c
<1>3. s \in [1..c -> S] /\ Rising(s)
  BY <1>2 DEF Listing, c
<1>4. s \in Seq(S) /\ Len(s) = c
  BY <1>1, <1>3
<1>5. Distinct(s)
  <2> SUFFICES ASSUME NEW k \in 1..c, NEW l \in 1..c, s[k] = s[l], k # l PROVE FALSE
    BY <1>4 DEF Distinct
  <2>1. s[k] \in S /\ s[l] \in S /\ S \subseteq Int
    BY <1>3
  <2>2. \A a, b \in 1..c : a < b => s[a] < s[b]
    BY <1>3 DEF Rising
  <2>3. k < l \/ l < k
    BY <1>1
  <2>4. s[k] \in Int /\ s[l] \in Int
    BY <2>1
  <2> QED BY <2>2, <2>3, <2>4
<1>6. s \in Injection(1..c, S)
  BY <1>3, <1>4, <1>5 DEF Distinct, Injection, IsInjective
<1>7. Cardinality(1..c) = c
  BY <1>1, FS_Interval
<1>8. s \in Surjection(1..c, S)
  BY <1>1, <1>6, <1>7, FS_Injection DEF c
<1>9. RowsIn(s) = S
  BY <1>3, <1>4, <1>8 DEF RowsIn, Surjection
<1> QED BY <1>4, <1>5, <1>9 DEF IsOrder, s
-----------------------------------------------------------------------------
(* The units of an input hold each row that is to be run, once.            *)

\* q deals the rows S out to units.
Deals(q, S) ==
    /\ q \in Seq(Seq(S))
    /\ \A j \in 1..Len(q) : Distinct(q[j])
    /\ \A j, l \in 1..Len(q) : j # l => Apart(q[j], q[l])
    /\ \A i \in S : \E j \in 1..Len(q) : i \in RowsIn(q[j])

LEMMA AloneDeals ==
    ASSUME NEW S, NEW s, IsOrder(s, S)
    PROVE  Deals(Alone(s), S)
<1> DEFINE q == Alone(s)
<1>1. s \in Seq(S) /\ Len(s) \in Nat
  BY DEF IsOrder
<1>2. q \in Seq(Seq(S)) /\ Len(q) = Len(s) /\ \A j \in 1..Len(s) : q[j] = <<s[j]>>
  BY <1>1 DEF Alone
<1> HIDE DEF q
<1>3. ASSUME NEW j \in 1..Len(s) PROVE Len(q[j]) = 1 /\ q[j][1] = s[j]
  <2>1. q[j] = <<s[j]>>
    BY <1>2
  <2> QED BY <2>1
<1>4. \A j \in 1..Len(s) : RowsIn(q[j]) = {s[j]} /\ Distinct(q[j])
  BY <1>3 DEF RowsIn, Distinct
<1>5. \A j, l \in 1..Len(s) : j # l => s[j] # s[l]
  BY DEF IsOrder, Distinct
<1>6. \A i \in S : \E j \in 1..Len(s) : i = s[j]
  BY DEF IsOrder, RowsIn
<1>7. \A j, l \in 1..Len(s) : j # l => Apart(q[j], q[l])
  BY <1>4, <1>5 DEF Apart
<1>8. \A i \in S : \E j \in 1..Len(s) : i \in RowsIn(q[j])
  BY <1>4, <1>6
<1> QED BY <1>2, <1>4, <1>7, <1>8 DEF Deals, q

LEMMA TogetherDeal ==
    ASSUME NEW S, NEW T, S \cap T = {}, NEW q, Deals(q, S), NEW r, Deals(r, T)
    PROVE  Deals(q \o r, S \cup T)
<1> DEFINE n == Len(q)
           m == Len(r)
           o == q \o r
<1>1. q \in Seq(Seq(S)) /\ r \in Seq(Seq(T)) /\ n \in Nat /\ m \in Nat
  BY DEF Deals
<1>2. q \in Seq(Seq(S \cup T)) /\ r \in Seq(Seq(S \cup T))
  BY <1>1
<1>3. o \in Seq(Seq(S \cup T)) /\ Len(o) = n + m
  BY <1>2
<1>4. \A j \in 1..n + m : o[j] = IF j <= n THEN q[j] ELSE r[j - n]
  BY <1>2, ConcatProperties
<1>5. \A j \in 1..n : RowsIn(q[j]) \subseteq S
  BY <1>1 DEF RowsIn
<1>6. \A j \in 1..m : RowsIn(r[j]) \subseteq T
  BY <1>1 DEF RowsIn
<1> HIDE DEF n, m, o
<1>7. ASSUME NEW j \in 1..n + m PROVE Distinct(o[j])
  BY <1>1, <1>4 DEF Deals, n, m
<1>8. ASSUME NEW j \in 1..n + m, NEW l \in 1..n + m, j < l PROVE Apart(o[j], o[l])
  <2>1. CASE l <= n
    BY <1>1, <1>4, <1>8, <2>1 DEF Deals, n
  <2>2. CASE n < j
    <3>1. j - n \in 1..m /\ l - n \in 1..m /\ j - n # l - n
      BY <1>1, <1>8, <2>2
    <3>2. o[j] = r[j - n] /\ o[l] = r[l - n]
      BY <1>1, <1>4, <1>8, <2>2
    <3> QED BY <3>1, <3>2 DEF Deals, m
  <2>3. CASE j <= n /\ n < l
    <3>1. l - n \in 1..m /\ j \in 1..n
      BY <1>1, <1>8, <2>3
    <3>2. o[j] = q[j] /\ o[l] = r[l - n]
      BY <1>1, <1>4, <2>3
    <3> QED BY <1>5, <1>6, <3>1, <3>2 DEF Apart
  <2> QED BY <1>1, <1>8, <2>1, <2>2, <2>3
<1>9. \A j, l \in 1..n + m : j # l => Apart(o[j], o[l])
  <2> SUFFICES ASSUME NEW j \in 1..n + m, NEW l \in 1..n + m, j # l PROVE Apart(o[j], o[l])
    OBVIOUS
  <2>1. j < l \/ l < j
    BY <1>1
  <2> QED BY <1>8, <2>1 DEF Apart
<1>10. ASSUME NEW i \in S PROVE \E j \in 1..n + m : i \in RowsIn(o[j])
  <2>1. PICK j \in 1..n : i \in RowsIn(q[j])
    BY DEF Deals, n
  <2>2. j \in 1..n + m /\ o[j] = q[j]
    BY <1>1, <1>4
  <2> QED BY <2>1, <2>2
<1>11. ASSUME NEW i \in T PROVE \E j \in 1..n + m : i \in RowsIn(o[j])
  <2>1. PICK j \in 1..m : i \in RowsIn(r[j])
    BY DEF Deals, m
  <2>2. n + j \in 1..n + m /\ o[n + j] = r[j]
    BY <1>1, <1>4
  <2> QED BY <2>1, <2>2
<1> QED BY <1>3, <1>7, <1>9, <1>10, <1>11 DEF Deals, o
\* Position p of s is in slice k, at place p - (k - 1) * c.
LEMMA Slice ==
    ASSUME NEW c \in Nat \ {0}, NEW n \in Nat
    PROVE  /\ (n + c - 1) \div c \in Nat
           /\ \A p \in 1..n : \E k \in 1..(n + c - 1) \div c :
                 (k - 1) * c + 1 <= p /\ p <= k * c
           /\ \A k, l \in Nat : k < l => k * c <= (l - 1) * c
           /\ \A k \in 1..(n + c - 1) \div c : (k - 1) * c + 1 <= n
<1> DEFINE N == (n + c - 1) \div c
<1>1. ASSUME NEW a \in Nat
      PROVE  a \div c \in Nat /\ (a \div c) * c <= a /\ a < (a \div c) * c + c
  OBVIOUS
<1>2. N \in Nat /\ N * c <= n + c - 1 /\ n + c - 1 < N * c + c
  <2>1. n + c - 1 \in Nat
    OBVIOUS
  <2> QED BY <1>1, <2>1
<1> HIDE DEF N
<1>3. ASSUME NEW k \in Nat, NEW l \in Nat, k <= l PROVE k * c <= l * c
  BY <1>3
<1>4. ASSUME NEW k \in Nat, NEW l \in Nat, k < l PROVE k * c <= (l - 1) * c
  <2>1. l - 1 \in Nat /\ k <= l - 1
    BY <1>4
  <2> QED BY <1>3, <2>1
<1>5. \A k \in Nat : (k + 1) * c = k * c + c /\ k * c \in Nat
  OBVIOUS
<1>6. ASSUME NEW k \in 1..N PROVE (k - 1) * c + 1 <= n
  <2>1. k \in Nat /\ k - 1 \in Nat /\ k <= N
    BY <1>2
  <2>2. k * c <= N * c
    BY <1>2, <1>3, <2>1
  <2>3. k * c = (k - 1) * c + c /\ (k - 1) * c \in Nat /\ k * c \in Nat /\ N * c \in Nat
    BY <1>2, <1>5, <2>1
  <2> QED BY <1>2, <2>2, <2>3
<1>7. ASSUME NEW p \in 1..n
      PROVE  \E k \in 1..N : (k - 1) * c + 1 <= p /\ p <= k * c
  <2> DEFINE d == (p - 1) \div c
  <2>1. d \in Nat /\ d * c <= p - 1 /\ p - 1 < d * c + c
    <3>1. p - 1 \in Nat
      OBVIOUS
    <3> QED BY <1>1, <3>1
  <2> HIDE DEF d
  <2>2. (d + 1) * c = d * c + c /\ d * c \in Nat /\ N * c \in Nat
    BY <1>2, <1>5, <2>1
  <2>3. d + 1 <= N
    <3> SUFFICES ASSUME N <= d PROVE FALSE
      BY <1>2, <2>1
    <3>1. N * c <= d * c
      BY <1>2, <1>3, <2>1
    <3> QED BY <1>2, <2>1, <2>2, <3>1
  <2>4. d + 1 \in 1..N /\ (d + 1) - 1 = d
    BY <1>2, <2>1, <2>3
  <2>5. d * c + 1 <= p /\ p <= (d + 1) * c
    BY <2>1, <2>2
  <2> QED BY <2>4, <2>5
<1> QED BY <1>2, <1>4, <1>6, <1>7 DEF N
LEMMA ChunkedDeals ==
    ASSUME PoolAssumption, NEW S, NEW s, IsOrder(s, S)
    PROVE  Deals(Chunked(s), S)
<1> DEFINE c == ChunkSize
           n == Len(s)
           N == LastChunk(s)
           lo(k) == (k - 1) * c
           hi(k) == IF k * c < n THEN k * c ELSE n
           q == Chunked(s)
<1>1. s \in Seq(S) /\ n \in Nat /\ c \in Nat \ {0}
  BY DEF IsOrder, PoolAssumption
<1>2. /\ N \in Nat
      /\ \A p \in 1..n : \E k \in 1..N : lo(k) + 1 <= p /\ p <= k * c
      /\ \A k, l \in Nat : k < l => k * c <= lo(l)
      /\ \A k \in 1..N : lo(k) + 1 <= n
  BY <1>1, Slice, Zenon DEF LastChunk
<1>3. \A k \in 1..N : lo(k) \in Nat /\ k * c \in Nat /\ lo(k) + c = k * c
  <2> SUFFICES ASSUME NEW k \in 1..N
               PROVE  lo(k) \in Nat /\ k * c \in Nat /\ lo(k) + c = k * c
    OBVIOUS
  <2>1. k - 1 \in Nat /\ k \in Nat
    BY <1>2
  <2> QED BY <1>1, <2>1
<1> HIDE DEF c, n, N, lo
<1>4. ASSUME NEW k \in 1..N
      PROVE  hi(k) \in Nat /\ lo(k) < hi(k) /\ hi(k) <= n /\ hi(k) <= k * c
  BY <1>1, <1>2, <1>3
<1>5. q = [k \in 1..N |-> SubSeq(s, lo(k) + 1, hi(k))]
  BY DEF Chunked, N, n, c, lo
<1> HIDE DEF hi, q
<1>6. ASSUME NEW k \in 1..N
      PROVE  /\ q[k] \in Seq(S) /\ Len(q[k]) = hi(k) - lo(k)
             /\ \A i \in 1..hi(k) - lo(k) : q[k][i] = s[lo(k) + i]
  <2>1. q[k] = SubSeq(s, lo(k) + 1, hi(k))
    BY <1>5
  <2>2. \A i \in lo(k) + 1..hi(k) : s[i] \in S
    <3>1. \A i \in lo(k) + 1..hi(k) : i \in 1..n
      BY <1>1, <1>3, <1>4
    <3> QED BY <1>1, <3>1 DEF n
  <2>3. lo(k) + 1 \in Int /\ hi(k) \in Int /\ lo(k) + 1 <= hi(k)
    BY <1>3, <1>4
  <2>4. /\ q[k] \in Seq(S)
        /\ Len(q[k]) = IF lo(k) + 1 <= hi(k) THEN hi(k) - (lo(k) + 1) + 1 ELSE 0
        /\ \A i \in 1..hi(k) - (lo(k) + 1) + 1 : q[k][i] = s[lo(k) + 1 + i - 1]
    BY <2>1, <2>2, <2>3, SubSeqProperties
  <2>5. hi(k) - (lo(k) + 1) + 1 = hi(k) - lo(k)
    BY <1>3, <1>4
  <2>6. \A i \in 1..hi(k) - lo(k) : lo(k) + 1 + i - 1 = lo(k) + i
    BY <1>3, <1>4
  <2> QED BY <2>3, <2>4, <2>5, <2>6
<1>7. ASSUME NEW k \in 1..N, NEW i \in 1..hi(k) - lo(k)
      PROVE  lo(k) + i \in 1..n /\ lo(k) + i <= k * c
  BY <1>1, <1>3, <1>4
<1>8. \A a, b \in 1..n : s[a] = s[b] => a = b
  BY DEF IsOrder, Distinct, n
<1>9. ASSUME NEW k \in 1..N PROVE Distinct(q[k])
  <2> SUFFICES ASSUME NEW i \in 1..hi(k) - lo(k), NEW j \in 1..hi(k) - lo(k), q[k][i] = q[k][j]
               PROVE  i = j
    BY <1>6 DEF Distinct
  <2>1. lo(k) + i = lo(k) + j
    <3>1. s[lo(k) + i] = s[lo(k) + j]
      BY <1>6
    <3>2. lo(k) + i \in 1..n /\ lo(k) + j \in 1..n
      BY <1>7
    <3> QED BY <1>8, <3>1, <3>2
  <2> QED BY <1>3, <1>4, <2>1
<1>10. ASSUME NEW k \in 1..N, NEW l \in 1..N, k < l PROVE Apart(q[k], q[l])
  <2> SUFFICES ASSUME NEW i \in 1..hi(k) - lo(k), NEW j \in 1..hi(l) - lo(l), q[k][i] = q[l][j]
               PROVE  FALSE
    BY <1>6 DEF Apart, RowsIn
  <2>1. lo(k) + i = lo(l) + j
    <3>1. s[lo(k) + i] = s[lo(l) + j]
      BY <1>6
    <3>2. lo(k) + i \in 1..n /\ lo(l) + j \in 1..n
      BY <1>7
    <3> QED BY <1>8, <3>1, <3>2
  <2>2. k * c <= lo(l)
    BY <1>2, <1>10
  <2>3. lo(k) + i <= k * c
    BY <1>7
  <2>4. lo(l) \in Nat /\ lo(k) \in Nat /\ j \in Nat \ {0} /\ i \in Nat
    BY <1>3, <1>4
  <2>5. PICK x, y \in Nat : x = lo(k) + i /\ y = lo(l)
    BY <2>4
  <2>6. x <= y /\ x = y + j
    <3>1. k * c \in Int
      BY <1>1
    <3> QED BY <2>1, <2>2, <2>3, <2>5, <3>1
  <2> QED BY <2>4, <2>6
<1>11. \A k, l \in 1..N : k # l => Apart(q[k], q[l])
  <2> SUFFICES ASSUME NEW k \in 1..N, NEW l \in 1..N, k # l PROVE Apart(q[k], q[l])
    OBVIOUS
  <2>1. k < l \/ l < k
    BY <1>2
  <2> QED BY <1>10, <2>1 DEF Apart
<1>12. ASSUME NEW x \in S PROVE \E k \in 1..N : x \in RowsIn(q[k])
  <2>1. PICK p \in 1..n : x = s[p]
    BY DEF IsOrder, RowsIn, n
  <2>2. PICK k \in 1..N : lo(k) + 1 <= p /\ p <= k * c
    BY <1>2
  <2> DEFINE i == p - lo(k)
  <2>3. i \in 1..hi(k) - lo(k) /\ lo(k) + i = p
    BY <1>1, <1>3, <1>4, <2>2 DEF hi
  <2>4. q[k][i] = x
    BY <1>6, <2>1, <2>3
  <2> QED BY <1>6, <2>3, <2>4 DEF RowsIn
<1>13. q \in Seq(Seq(S)) /\ Len(q) = N
  BY <1>2, <1>5, <1>6
<1> QED BY <1>9, <1>11, <1>12, <1>13 DEF Deals, q

\* Every row that is not refused is in one unit, once, and no other row is.
LEMMA UnitsDeal ==
    ASSUME PoolAssumption, rows \in Inputs
    PROVE  Deals(Units, {i \in Indices : ~Refused(i)})
<1>1. rows \in Seq(Row) /\ Len(rows) \in Nat
  BY DEF PoolAssumption
<1>2. \A ks : IsOrder(Of(ks), KeptRows(ks))
  <2> SUFFICES ASSUME NEW ks PROVE IsOrder(Of(ks), KeptRows(ks))
    OBVIOUS
  <2>1. KeptRows(ks) \in SUBSET (1..Len(rows))
    BY DEF KeptRows, Indices
  <2> QED BY <1>1, <2>1, InOrderLists DEF Of
<1>3. \A i \in Indices : rows[i].kind \in {"chat", "embed", "list", "stream"}
  <2> SUFFICES ASSUME NEW i \in Indices
               PROVE  rows[i].kind \in {"chat", "embed", "list", "stream"}
    OBVIOUS
  <2>1. rows[i] \in Row
    BY <1>1 DEF Indices
  <2> QED BY <2>1 DEF Row
<1>4. \A i \in Indices : ~Refused(i) => rows[i].kind \in {"chat", "embed", "list"}
  BY <1>3 DEF Refused
<1>5. Deals(Alone(Of({"chat"})), KeptRows({"chat"}))
  BY <1>2, AloneDeals
<1>6. CASE ChunkSize > 1
  <2>1. Deals(Chunked(Of({"embed"})), KeptRows({"embed"}))
    BY <1>2, ChunkedDeals
  <2>2. Deals(Alone(Of({"list"})), KeptRows({"list"}))
    BY <1>2, AloneDeals
  <2>3. KeptRows({"embed"}) \cap KeptRows({"list"}) = {}
    BY DEF KeptRows
  <2> DEFINE r == Chunked(Of({"embed"})) \o Alone(Of({"list"}))
             T == KeptRows({"embed"}) \cup KeptRows({"list"})
  <2>4. Deals(r, T)
    BY <2>1, <2>2, <2>3, TogetherDeal
  <2>5. KeptRows({"chat"}) \cap T = {}
    BY DEF KeptRows
  <2>6. KeptRows({"chat"}) \cup T = {i \in Indices : ~Refused(i)}
    BY <1>4 DEF KeptRows
  <2>7. Units = Alone(Of({"chat"})) \o r
    BY <1>6 DEF Units
  <2> HIDE DEF r, T
  <2> QED BY <1>5, <2>4, <2>5, <2>6, <2>7, TogetherDeal
<1>7. CASE ~(ChunkSize > 1)
  <2> DEFINE r == Alone(Of({"embed", "list"}))
             T == KeptRows({"embed", "list"})
  <2>1. Deals(r, T)
    BY <1>2, AloneDeals
  <2>2. KeptRows({"chat"}) \cap T = {}
    BY DEF KeptRows
  <2>3. KeptRows({"chat"}) \cup T = {i \in Indices : ~Refused(i)}
    BY <1>4 DEF KeptRows
  <2>4. Units = Alone(Of({"chat"})) \o r
    BY <1>7 DEF Units
  <2> HIDE DEF r, T
  <2> QED BY <1>5, <2>1, <2>2, <2>3, <2>4, TogetherDeal
<1> QED BY <1>6, <1>7
-----------------------------------------------------------------------------
(* The initial state, the partition, and the tasks.                        *)

Answered == [id : Ids, says : Says]
Task == [pc : {"idle", "loop", "running", "reporting", "done", "broken"},
         unit : Seq(Indices), snap : Count]

LEMMA IdleTask ==
    /\ Idle \in Task /\ Idle.pc = "idle"
    /\ \A p \in {"loop", "broken"} :
          [Idle EXCEPT !.pc = p] \in Task /\ [Idle EXCEPT !.pc = p].pc = p
<1>1. Idle \in Task /\ Idle.pc = "idle"
  BY DEF Idle, Task, Zero, Count
<1> QED BY <1>1 DEF Task

LEMMA TellsRow ==
    ASSUME PoolAssumption, rows \in Inputs, NEW i \in Indices, NEW s \in Says
    PROVE  /\ Told(i, s) \in Answered /\ Told(i, s) # None
           /\ Told(i, s).id = rows[i].id /\ Told(i, s).says = s
<1>1. rows \in Seq(Row)
  BY DEF PoolAssumption
<1>2. rows[i] \in Row
  BY <1>1 DEF Indices
<1>3. rows[i].id \in Ids
  BY <1>2 DEF Row
<1>4. Told(i, s) = [id |-> rows[i].id, says |-> s]
  BY DEF Told
<1>5. Told(i, s) \in Answered
  BY <1>3, <1>4 DEF Answered
<1> QED BY <1>4, <1>5 DEF Answered, PoolAssumption

\* There are n positions in a sequence of n.
LEMMA OneTo ==
    ASSUME NEW n \in Nat
    PROVE  IsFiniteSet(1..n) /\ Cardinality(1..n) = n
<1>1. /\ IsFiniteSet(1..n)
      /\ Cardinality(1..n) = IF 1 > n THEN 0 ELSE n - 1 + 1
  BY FS_Interval
<1>2. (IF 1 > n THEN 0 ELSE n - 1 + 1) = n
  OBVIOUS
<1> QED BY <1>1, <1>2

LEMMA Positions ==
    ASSUME PoolAssumption, rows \in Inputs
    PROVE  /\ Len(rows) \in Nat /\ Indices \subseteq Nat
           /\ \A S \in SUBSET Indices :
                 IsFiniteSet(S) /\ Cardinality(S) \in 0..Len(rows)
<1>1. Len(rows) \in Nat
  <2>1. rows \in Seq(Row)
    BY DEF PoolAssumption
  <2> QED BY <2>1
<1>2. IsFiniteSet(Indices) /\ Cardinality(Indices) = Len(rows)
  BY <1>1, OneTo DEF Indices
<1>3. ASSUME NEW S \in SUBSET Indices
      PROVE  IsFiniteSet(S) /\ Cardinality(S) \in 0..Len(rows)
  <2>1. IsFiniteSet(S) /\ Cardinality(S) <= Len(rows)
    BY <1>2, FS_Subset
  <2>2. Cardinality(S) \in Nat
    BY <2>1, FS_CardinalityType
  <2> QED BY <1>1, <2>1, <2>2
<1> QED BY <1>1, <1>3 DEF Indices

LEMMA PoolInitInv ==
    ASSUME PoolAssumption, PoolInit
    PROVE  PoolInv
<1> USE DEF PoolInit
<1>1. \A w \in Workers : worker[w] = Idle
  OBVIOUS
<1>2. Idle \in Task /\ Idle.pc = "idle" /\ Zero \in Count
  BY IdleTask DEF Zero, Count
<1>3. Len(rows) \in Nat
  BY Positions
<1>4. PoolTypeOK
  BY <1>2, <1>3 DEF PoolTypeOK, Task, Count
<1>5. StartOK /\ IdleOK /\ HostOK /\ QueueOK /\ CoverOK /\ LeaveOK /\ SaysOK /\ EndOK
  BY <1>1, <1>2 DEF StartOK, IdleOK, HostOK, QueueOK, CoverOK, LeaveOK, SaysOK, EndOK
<1>6. WorkOK /\ ShownOK
  BY <1>1, <1>2 DEF WorkOK, ShownOK, Zero
<1>7. AnswerIsOwn /\ CountsAreOfRows
  BY DEF AnswerIsOwn, CountsAreOfRows
<1> QED BY <1>4, <1>5, <1>6, <1>7 DEF PoolInv

LEMMA PartitionStep ==
    ASSUME PoolAssumption, PoolInv, Partition
    PROVE  PoolInv'
<1> DEFINE S == {i \in Indices : ~Refused(i)}
<1> USE DEF PoolInv
<1>1. /\ rows' = rows /\ hosted' = hosted /\ running' = running /\ Indices' = Indices
      /\ completed' = completed /\ shown' = shown /\ stage' = "pool" /\ queue' = Units
      /\ rows \in Inputs /\ hosted /\ stage = "start"
  BY DEF Partition, PoolTypeOK, Indices
<1>2. \A i \in Indices :
         IF Refused(i) THEN /\ result'[i] \in Answered /\ result'[i] # None
                           /\ result'[i].id = rows[i].id
                           /\ result'[i].says \in {"duplicate", "stream"}
                      ELSE result'[i] = None
  <2> SUFFICES ASSUME NEW i \in Indices
               PROVE  IF Refused(i) THEN /\ result'[i] \in Answered /\ result'[i] # None
                                         /\ result'[i].id = rows[i].id
                                         /\ result'[i].says \in {"duplicate", "stream"}
                                    ELSE result'[i] = None
    OBVIOUS
  <2>1. result'[i] = IF Duplicate(i) THEN Told(i, "duplicate")
                     ELSE IF Refused(i) THEN Told(i, "stream") ELSE None
    BY DEF Partition
  <2> QED BY <1>1, <2>1, TellsRow DEF Says, Refused
<1>3. result' \in [Indices -> Answered \cup {None}]
  BY <1>2 DEF Partition
<1>4. Unrun' = S
  BY <1>1, <1>2 DEF Unrun
<1>5. \A w \in Workers : worker'[w] \in Task /\ worker'[w].pc \in {"idle", "loop"}
  <2>1. \A w \in Workers : worker'[w] \in {Idle, [Idle EXCEPT !.pc = "loop"]}
    BY DEF Partition
  <2> QED BY <2>1, IdleTask
<1>6. worker' \in [Workers -> Task]
  BY <1>5 DEF Partition
<1>7. Deals(Units, S)
  BY <1>1, UnitsDeal
<1>8. Units \in Seq(Seq(S)) /\ Units \in Seq(Seq(Indices))
  BY <1>7 DEF Deals
<1>9. \A j \in 1..Len(Units) : RowsIn(Units[j]) \subseteq S
  BY <1>8 DEF RowsIn
<1>10. completed = 0 /\ Len(rows) \in Nat
  BY <1>1, Positions DEF StartOK
<1>11. failed' = Cardinality(Indices \ S) /\ failed' \in 0..Len(rows)
  <2>1. {i \in Indices : Refused(i)} = Indices \ S
    OBVIOUS
  <2>2. failed' = Cardinality(Indices \ S)
    BY <2>1 DEF Partition
  <2> QED BY <1>1, <2>2, Positions
<1>12. Successes(result)' = 0
  <2>1. {i \in Indices : result'[i] # None /\ result'[i].says = "ok"} = {}
    BY <1>2
  <2> QED BY <1>1, <2>1, FS_EmptySet DEF Successes
<1>13. PoolTypeOK'
  BY <1>1, <1>3, <1>6, <1>8, <1>10, <1>11 DEF PoolTypeOK, Task, Answered
<1>14. QueueOK'
  BY <1>1, <1>4, <1>7, <1>9 DEF QueueOK, Deals
<1>15. WorkOK'
  BY <1>5 DEF WorkOK
<1>16. CoverOK'
  BY <1>1, <1>4, <1>7 DEF CoverOK, Deals
<1>17. LeaveOK'
  <2>1. ASSUME Units # <<>> PROVE 1 \in Workers /\ worker'[1].pc = "loop"
    <3>1. Len(Units) \in Nat /\ Len(Units) >= 1 /\ MaxConcurrent >= 1 /\ MaxConcurrent \in Nat
      BY <1>8, <2>1, EmptySeq, LenProperties DEF PoolAssumption
    <3>2. 1 \in Workers /\ 1 <= PoolSize(Len(Units))
      BY <3>1 DEF Workers, PoolSize
    <3> QED BY <3>2 DEF Partition, Idle
  <2> QED BY <1>1, <1>5, <2>1 DEF LeaveOK
<1>18. CountsAreOfRows'
  BY <1>1, <1>4, <1>10, <1>11, <1>12 DEF CountsAreOfRows
<1>19. ShownOK'
  <2>1. failed = 0 /\ shown.failed <= failed /\ shown.completed <= completed
    BY <1>1 DEF StartOK, ShownOK
  <2>2. shown.failed \in Nat
    BY DEF PoolTypeOK, Count
  <2>3. shown.failed <= failed'
    BY <1>10, <1>11, <2>1, <2>2
  <2> QED BY <1>1, <1>5, <2>1, <2>3 DEF ShownOK
<1>20. StartOK' /\ IdleOK' /\ HostOK' /\ SaysOK' /\ EndOK' /\ AnswerIsOwn'
  BY <1>1, <1>2, <1>5 DEF StartOK, IdleOK, HostOK, SaysOK, NoneStranded, EndOK, AnswerIsOwn
<1> QED BY <1>13, <1>14, <1>15, <1>16, <1>17, <1>18, <1>19, <1>20 DEF PoolInv
LEMMA NoRuntimeStep ==
    ASSUME PoolAssumption, PoolInv, NoRuntime
    PROVE  PoolInv'
<1> USE DEF PoolInv
<1>1. /\ rows' = rows /\ hosted' = hosted /\ running' = running /\ Indices' = Indices
      /\ completed' = completed /\ failed' = failed /\ shown' = shown /\ stage' = "returned"
      /\ queue' = queue /\ worker' = worker /\ rows \in Inputs /\ ~hosted /\ stage = "start"
  BY DEF NoRuntime, PoolTypeOK, Indices
<1>2. ASSUME NEW i \in Indices
      PROVE  /\ result'[i] \in Answered /\ result'[i] # None
             /\ result'[i].id = rows[i].id /\ result'[i].says = "no_runtime"
  <2>1. result'[i] = Told(i, "no_runtime")
    BY DEF NoRuntime
  <2> QED BY <1>1, <2>1, TellsRow DEF Says
<1>3. result' \in [Indices -> Answered \cup {None}]
  BY <1>2 DEF NoRuntime
<1>4. \A w \in Workers : worker[w].pc = "idle"
  BY <1>1 DEF IdleOK
<1>5. Unrun' = {}
  BY <1>1, <1>2 DEF Unrun
<1>6. PoolTypeOK'
  BY <1>1, <1>3 DEF PoolTypeOK, Answered
<1>7. EndOK'
  BY <1>1, <1>2, <1>4, <1>5 DEF EndOK, PoolEnded, NoneStranded
<1>8. WorkOK' /\ ShownOK'
  BY <1>1, <1>4 DEF WorkOK, ShownOK
<1>9. StartOK' /\ IdleOK' /\ HostOK' /\ QueueOK' /\ CoverOK' /\ LeaveOK' /\ SaysOK'
  BY <1>1, <1>4 DEF StartOK, IdleOK, HostOK, QueueOK, CoverOK, LeaveOK, SaysOK
<1>10. AnswerIsOwn' /\ CountsAreOfRows'
  BY <1>1, <1>2 DEF AnswerIsOwn, CountsAreOfRows
<1> QED BY <1>6, <1>7, <1>8, <1>9, <1>10 DEF PoolInv

-----------------------------------------------------------------------------
(* A task.                                                                 *)

\* A task acts only in the pool.
LEMMA InPool ==
    ASSUME PoolInv, NEW w \in Workers, worker[w].pc \in {"loop", "running", "reporting"}
    PROVE  stage = "pool" /\ hosted
BY DEF PoolInv, IdleOK, EndOK, PoolEnded, HostOK, PoolTypeOK

LEMMA TakeStep ==
    ASSUME PoolAssumption, PoolInv, NEW w \in Workers, Take(w)
    PROVE  PoolInv'
<1> USE DEF PoolInv
<1>1. /\ rows' = rows /\ hosted' = hosted /\ running' = running /\ stage' = stage
      /\ result' = result /\ completed' = completed /\ failed' = failed /\ shown' = shown
      /\ Indices' = Indices /\ Unrun' = Unrun /\ running /\ worker[w].pc = "loop"
  BY DEF Take, Indices, Unrun
<1>2. stage = "pool" /\ hosted
  BY <1>1, InPool
<1>3. /\ queue \in Seq(Seq(Indices)) /\ queue # <<>>
      /\ queue' = Tail(queue) /\ Len(queue) \in Nat /\ Len(queue) >= 1
  BY DEF Take, PoolTypeOK
<1>4. /\ queue' \in Seq(Seq(Indices)) /\ Len(queue') = Len(queue) - 1
      /\ \A j \in 1..Len(queue') : j + 1 \in 1..Len(queue) /\ queue'[j] = queue[j + 1]
  BY <1>3, HeadTailProperties
<1>5. Head(queue) = queue[1] /\ 1 \in 1..Len(queue) /\ queue[1] \in Seq(Indices)
  BY <1>3
<1>6. worker \in [Workers -> Task]
  BY DEF PoolTypeOK, Task
<1>7. /\ worker' \in [Workers -> Task] /\ worker'[w].pc = "running"
      /\ worker'[w].unit = queue[1]
      /\ \A v \in Workers : v # w => worker'[v] = worker[v]
  BY <1>5, <1>6 DEF Take, Task
<1>8. PoolTypeOK'
  BY <1>1, <1>4, <1>7 DEF PoolTypeOK, Task
<1>9. QueueOK'
  <2> SUFFICES ASSUME NEW j \in 1..Len(queue')
               PROVE  /\ Distinct(queue'[j]) /\ RowsIn(queue'[j]) \subseteq Unrun
                      /\ \A l \in 1..Len(queue') : l # j => Apart(queue'[j], queue'[l])
    BY <1>1 DEF QueueOK
  <2>1. \A l \in 1..Len(queue') : l # j => l + 1 # j + 1
    BY <1>3, <1>4
  <2> QED BY <1>2, <1>4, <2>1 DEF QueueOK
<1>10. WorkOK'
  <2>1. ASSUME NEW j \in 1..Len(queue') PROVE Apart(queue'[j], queue[1])
    <3>1. j + 1 # 1
      BY <1>3, <1>4
    <3> QED BY <1>2, <1>4, <1>5, <3>1 DEF QueueOK
  <2>2. Distinct(queue[1]) /\ RowsIn(queue[1]) \subseteq Unrun
    BY <1>2, <1>5 DEF QueueOK
  <2>3. ASSUME NEW v \in Workers, v # w, worker'[v].pc = "running"
        PROVE  /\ Distinct(worker[v].unit) /\ RowsIn(worker[v].unit) \subseteq Unrun
               /\ Apart(queue[1], worker[v].unit) /\ Apart(worker[v].unit, queue[1])
               /\ \A j \in 1..Len(queue') : Apart(queue'[j], worker[v].unit)
    BY <1>4, <1>5, <1>7, <2>3 DEF WorkOK, Apart
  <2>4. \A u, v \in Workers : u # v /\ u # w /\ v # w /\ worker'[u].pc = "running" /\ worker'[v].pc = "running"
          => Apart(worker[u].unit, worker[v].unit)
    BY <1>7 DEF WorkOK
  <2> QED BY <1>1, <1>7, <2>1, <2>2, <2>3, <2>4 DEF WorkOK
<1>11. CoverOK'
  <2> SUFFICES ASSUME NEW i \in Unrun
               PROVE  \/ \E j \in 1..Len(queue') : i \in RowsIn(queue'[j])
                      \/ \E v \in Workers : worker'[v].pc = "running" /\ i \in RowsIn(worker'[v].unit)
    BY <1>1 DEF CoverOK
  <2>1. CASE \E j \in 1..Len(queue) : i \in RowsIn(queue[j])
    <3>1. PICK j \in 1..Len(queue) : i \in RowsIn(queue[j])
      BY <2>1
    <3>2. CASE j = 1
      BY <1>7, <3>1, <3>2
    <3>3. CASE j # 1
      <4>1. j - 1 \in 1..Len(queue') /\ (j - 1) + 1 = j
        BY <1>3, <1>4, <3>3
      <4> QED BY <1>4, <3>1, <4>1
    <3> QED BY <3>2, <3>3
  <2>2. CASE \E v \in Workers : worker[v].pc = "running" /\ i \in RowsIn(worker[v].unit)
    BY <1>1, <1>7, <2>2
  <2> QED BY <1>2, <2>1, <2>2 DEF CoverOK
<1>12. LeaveOK'
  BY <1>1, <1>2, <1>3, <1>7 DEF LeaveOK
<1>13. StartOK' /\ IdleOK' /\ HostOK' /\ SaysOK' /\ EndOK' /\ AnswerIsOwn'
  BY <1>1, <1>2 DEF StartOK, IdleOK, HostOK, SaysOK, NoneStranded, EndOK, AnswerIsOwn
<1>14. ShownOK' /\ CountsAreOfRows'
  BY <1>1, <1>2, <1>7 DEF ShownOK, CountsAreOfRows, Successes
<1> QED BY <1>8, <1>9, <1>10, <1>11, <1>12, <1>13, <1>14 DEF PoolInv
\* A task that goes on without a unit leaves the rows as they are.
LEMMA IdlerStep ==
    ASSUME PoolInv, NEW w \in Workers, worker[w].pc \in {"loop", "reporting"},
           worker' \in [Workers -> Task], worker'[w].pc \in {"loop", "done"},
           \A v \in Workers : v # w => worker'[v] = worker[v],
           UNCHANGED <<rows, hosted, running, stage, queue, result, completed, failed>>
    PROVE  /\ QueueOK' /\ WorkOK' /\ CoverOK' /\ SaysOK' /\ AnswerIsOwn'
           /\ CountsAreOfRows' /\ stage = "pool" /\ hosted
<1> USE DEF PoolInv
<1>1. stage = "pool" /\ hosted
  BY InPool
<1>2. Indices' = Indices /\ Unrun' = Unrun
  BY DEF Indices, Unrun
<1>3. QueueOK'
  BY <1>1, <1>2 DEF QueueOK
<1>4. \A v \in Workers : worker'[v].pc = "running" => v # w /\ worker'[v] = worker[v]
  OBVIOUS
<1>5. WorkOK'
  BY <1>2, <1>4 DEF WorkOK
<1>6. CoverOK'
  <2>1. \A v \in Workers : worker[v].pc = "running" => worker'[v] = worker[v]
    OBVIOUS
  <2> QED BY <1>1, <1>2, <2>1 DEF CoverOK
<1> QED BY <1>1, <1>2, <1>3, <1>5, <1>6
        DEF SaysOK, NoneStranded, AnswerIsOwn, CountsAreOfRows, Successes

LEMMA LeaveStep ==
    ASSUME PoolAssumption, PoolInv, NEW w \in Workers, Leave(w)
    PROVE  PoolInv'
<1> USE DEF PoolInv
<1>1. /\ UNCHANGED <<rows, hosted, running, stage, queue, result, completed, failed, shown>>
      /\ worker[w].pc = "loop" /\ Indices' = Indices
  BY DEF Leave, Indices
<1>2. worker \in [Workers -> Task]
  BY DEF PoolTypeOK, Task
<1>3. /\ worker' \in [Workers -> Task] /\ worker'[w].pc = "done"
      /\ \A v \in Workers : v # w => worker'[v] = worker[v]
  BY <1>2 DEF Leave, Task
<1>4. /\ QueueOK' /\ WorkOK' /\ CoverOK' /\ SaysOK' /\ AnswerIsOwn'
      /\ CountsAreOfRows' /\ stage = "pool" /\ hosted
  BY <1>1, <1>3, IdlerStep
<1>5. PoolTypeOK'
  BY <1>1, <1>3 DEF PoolTypeOK, Task
<1>6. LeaveOK'
  BY <1>1, <1>3 DEF LeaveOK, Leave
<1>7. ShownOK'
  BY <1>1, <1>3 DEF ShownOK
<1>8. StartOK' /\ IdleOK' /\ HostOK' /\ EndOK'
  BY <1>1, <1>4 DEF StartOK, IdleOK, HostOK, EndOK
<1> QED BY <1>4, <1>5, <1>6, <1>7, <1>8 DEF PoolInv

LEMMA ReportStep ==
    ASSUME PoolAssumption, PoolInv, NEW w \in Workers, Report(w)
    PROVE  PoolInv'
<1> USE DEF PoolInv
<1>1. /\ UNCHANGED <<rows, hosted, running, stage, queue, result, completed, failed>>
      /\ worker[w].pc = "reporting" /\ Indices' = Indices
  BY DEF Report, Indices
<1>2. worker \in [Workers -> Task]
  BY DEF PoolTypeOK, Task
<1>3. [Idle EXCEPT !.pc = "loop"] \in Task /\ [Idle EXCEPT !.pc = "loop"].pc = "loop"
  BY IdleTask
<1>4. /\ worker' \in [Workers -> Task] /\ worker'[w].pc = "loop"
      /\ \A v \in Workers : v # w => worker'[v] = worker[v]
  BY <1>2, <1>3 DEF Report
<1>5. /\ QueueOK' /\ WorkOK' /\ CoverOK' /\ SaysOK' /\ AnswerIsOwn'
      /\ CountsAreOfRows' /\ stage = "pool" /\ hosted
  BY <1>1, <1>4, IdlerStep
<1>6. shown \in Count /\ worker[w].snap \in Count
  BY <1>2 DEF PoolTypeOK, Task
<1>7. shown' \in Count /\ shown'.completed <= completed /\ shown'.failed <= failed
  <2>1. Shown(worker[w].snap) \in Count
    BY <1>6 DEF Shown, Count
  <2>2. /\ Shown(worker[w].snap).completed <= completed
        /\ Shown(worker[w].snap).failed <= failed
    BY <1>1, <1>6 DEF Shown, ShownOK
  <2> QED BY <1>6, <2>1, <2>2 DEF Report, ShownOK
<1>8. PoolTypeOK'
  BY <1>1, <1>4, <1>7 DEF PoolTypeOK, Task
<1>9. LeaveOK'
  BY <1>1, <1>4 DEF LeaveOK
<1>10. ShownOK'
  BY <1>1, <1>4, <1>7 DEF ShownOK
<1>11. StartOK' /\ IdleOK' /\ HostOK' /\ EndOK'
  BY <1>1, <1>5 DEF StartOK, IdleOK, HostOK, EndOK
<1> QED BY <1>5, <1>8, <1>9, <1>10, <1>11 DEF PoolInv

-----------------------------------------------------------------------------
(* An answer.                                                              *)

\* The rows of a unit are told something, each under its own id; no other is.
LEMMA RecordedRows ==
    ASSUME PoolAssumption, PoolTypeOK, NEW u \in Seq(Indices), NEW a \in Answers(u)
    PROVE  /\ Recorded(u, a) \in [Indices -> Answered \cup {None}]
           /\ \A i \in Indices : i \notin RowsIn(u) => Recorded(u, a)[i] = result[i]
           /\ \A i \in RowsIn(u) :
                 /\ Recorded(u, a)[i] # None /\ Recorded(u, a)[i].id = rows[i].id
                 /\ Recorded(u, a)[i].says \in {"ok", "error", "internal"}
<1> DEFINE R == Recorded(u, a)
<1>1. RowsIn(u) \subseteq Indices
  BY DEF RowsIn
<1>2. rows \in Inputs /\ result \in [Indices -> Answered \cup {None}]
  BY DEF PoolTypeOK, Answered
<1>3. \A p \in 1..Len(a) : a[p].row \in RowsIn(u)
  <2>1. PICK n \in 0..Len(u) : a \in [1..n -> [row : RowsIn(u), ok : BOOLEAN]]
    BY Zenon DEF Answers
  <2>2. n \in Nat
    OBVIOUS
  <2>3. Len(a) = n
    BY <2>1, <2>2
  <2>4. \A p \in 1..n : a[p] \in [row : RowsIn(u), ok : BOOLEAN]
    BY <2>1
  <2> QED BY <2>3, <2>4
<1>4. ASSUME NEW i \in RowsIn(u)
      PROVE  /\ R[i] \in Answered /\ R[i] # None /\ R[i].id = rows[i].id
             /\ R[i].says \in {"ok", "error", "internal"}
  <2>1. CASE Paired(u, a, i) = {}
    <3>1. R[i] = Told(i, "internal")
      BY <1>1, <2>1 DEF Recorded
    <3> QED BY <1>1, <1>2, <3>1, TellsRow DEF Says
  <2>2. CASE Paired(u, a, i) # {}
    <3>1. PICK p \in Paired(u, a, i) : R[i] = Said(i, a[p])
      BY <1>1, <2>2 DEF Recorded
    <3>2. p \in 1..Len(a) /\ rows[a[p].row].id = rows[i].id
      BY DEF Paired
    <3>3. \E s \in {"ok", "error"} : Said(i, a[p]) = Told(i, s)
      BY <3>2 DEF Said, Told
    <3> QED BY <1>1, <1>2, <3>1, <3>3, TellsRow DEF Says
  <2> QED BY <2>1, <2>2
<1>5. \A i \in Indices : i \notin RowsIn(u) => R[i] = result[i]
  BY DEF Recorded
<1>6. R \in [Indices -> Answered \cup {None}]
  <2>1. \A i \in Indices : R[i] \in Answered \cup {None}
    BY <1>2, <1>4, <1>5
  <2> QED BY <2>1 DEF Recorded
<1> QED BY <1>4, <1>5, <1>6

\* A unit whose rows are distinct and without a result is counted once.
LEMMA UnitCounts ==
    ASSUME PoolAssumption, PoolTypeOK, NEW u \in Seq(Indices), Distinct(u), RowsIn(u) \subseteq Unrun,
           NEW R \in [Indices -> Answered \cup {None}],
           \A i \in Indices : i \notin RowsIn(u) => R[i] = result[i],
           \A i \in RowsIn(u) : R[i] # None
    PROVE  /\ Successes(R) - Successes(result) \in 0..Len(u) /\ Len(u) \in Nat
           /\ {i \in Indices : R[i] = None} = Unrun \ RowsIn(u)
           /\ Cardinality(Indices \ {i \in Indices : R[i] = None})
                 = Cardinality(Indices \ Unrun) + Len(u)
           /\ Successes(R) \in 0..Len(rows)
           /\ Successes(R) <= Cardinality(Indices \ {i \in Indices : R[i] = None})
<1> DEFINE Old == {i \in Indices : result[i] # None /\ result[i].says = "ok"}
           New == {i \in Indices : R[i] # None /\ R[i].says = "ok"}
           U   == RowsIn(u)
           N   == {i \in Indices : R[i] = None}
<1>1. rows \in Inputs /\ U \subseteq Indices /\ Len(u) \in Nat
  BY DEF PoolTypeOK, RowsIn
<1>2. \A S \in SUBSET Indices : IsFiniteSet(S) /\ Cardinality(S) \in 0..Len(rows)
  BY <1>1, Positions
<1>3. Cardinality(U) = Len(u)
  <2>1. u \in [1..Len(u) -> U]
    BY DEF RowsIn
  <2>2. u \in Injection(1..Len(u), U)
    BY <2>1 DEF Distinct, Injection, IsInjective
  <2>3. u \in Surjection(1..Len(u), U)
    BY <2>1 DEF RowsIn, Surjection
  <2>4. IsFiniteSet(U)
    BY <1>1, <1>2
  <2>5. Cardinality(1..Len(u)) = Len(u)
    BY <1>1, OneTo
  <2> QED BY <2>2, <2>3, <2>4, <2>5, FS_Injection
<1>4. Old \subseteq New /\ New \ Old \subseteq U
  BY DEF Unrun
<1>5. Cardinality(New) = Cardinality(Old) + Cardinality(New \ Old)
  <2> DEFINE D == New \ Old
  <2>1. IsFiniteSet(Old) /\ IsFiniteSet(D)
    BY <1>2
  <2>2. New = Old \cup D /\ Old \cap D = {}
    BY <1>4
  <2>3. Cardinality(Old \cap D) = 0
    BY <2>2, FS_EmptySet
  <2> HIDE DEF Old, New, D
  <2>4. Cardinality(Old \cup D) = Cardinality(Old) + Cardinality(D) - Cardinality(Old \cap D)
    BY <2>1, FS_Union
  <2>5. Cardinality(Old) \in Nat /\ Cardinality(D) \in Nat
    BY <2>1, FS_CardinalityType
  <2>6. Cardinality(New) = Cardinality(Old) + Cardinality(D)
    BY <2>2, <2>3, <2>4, <2>5
  <2> QED BY <2>6 DEF D
<1>6. Cardinality(New \ Old) \in 0..Len(u)
  <2>1. IsFiniteSet(U) /\ IsFiniteSet(New \ Old)
    BY <1>1, <1>2
  <2> HIDE DEF Old, New, U
  <2>2. Cardinality(New \ Old) <= Cardinality(U) /\ Cardinality(New \ Old) \in Nat
    BY <1>4, <2>1, FS_Subset, FS_CardinalityType
  <2> QED BY <1>1, <1>3, <2>2
<1>7. N = Unrun \ U
  BY DEF Unrun
<1>8. Indices \ N = (Indices \ Unrun) \cup U /\ (Indices \ Unrun) \cap U = {}
  BY <1>1, <1>7 DEF Unrun
<1>9. Cardinality(Indices \ N) = Cardinality(Indices \ Unrun) + Len(u)
  <2> DEFINE A == Indices \ Unrun
  <2>1. IsFiniteSet(A) /\ IsFiniteSet(U)
    BY <1>1, <1>2
  <2>2. Cardinality(A \cap U) = 0
    BY <1>8, FS_EmptySet
  <2>3. Indices \ N = A \cup U
    BY <1>8
  <2> HIDE DEF A, U, N
  <2>4. Cardinality(A \cup U) = Cardinality(A) + Cardinality(U) - Cardinality(A \cap U)
    BY <2>1, FS_Union
  <2>5. Cardinality(A) \in Nat
    BY <2>1, FS_CardinalityType
  <2>6. Cardinality(Indices \ N) = Cardinality(A \cup U)
    BY <2>3
  <2>7. Cardinality(A \cup U) = Cardinality(A) + Len(u)
    BY <1>1, <1>3, <2>2, <2>4, <2>5
  <2> QED BY <2>6, <2>7 DEF A
<1>10. Cardinality(Old) \in 0..Len(rows) /\ Cardinality(New) \in 0..Len(rows)
  BY <1>2
<1>11. Cardinality(New) <= Cardinality(Indices \ N)
  <2>1. New \subseteq Indices \ N
    OBVIOUS
  <2>2. IsFiniteSet(Indices \ N)
    BY <1>2
  <2> HIDE DEF New, N
  <2> QED BY <2>1, <2>2, FS_Subset
<1>12. Successes(R) = Cardinality(New) /\ Successes(result) = Cardinality(Old)
  BY DEF Successes
<1> HIDE DEF Old, New, N, U
<1>13. Cardinality(New) - Cardinality(Old) = Cardinality(New \ Old)
  BY <1>5, <1>6, <1>10
<1> QED BY <1>1, <1>6, <1>7, <1>9, <1>10, <1>11, <1>12, <1>13 DEF N, U
LEMMA Split ==
    ASSUME NEW c \in Nat, NEW f \in Nat, NEW l \in Nat, NEW n \in 0..l
    PROVE  /\ c + n \in Nat /\ f + l - n \in Nat /\ c <= c + n /\ f <= f + l - n
           /\ (c + n) + (f + l - n) = (c + f) + l
OBVIOUS

LEMMA AnswerStep ==
    ASSUME PoolAssumption, PoolInv, NEW w \in Workers, Answer(w)
    PROVE  /\ PoolInv'
           /\ completed <= completed' /\ failed <= failed'
<1> DEFINE u == worker[w].unit
           U == RowsIn(u)
<1> USE DEF PoolInv
<1>1. /\ UNCHANGED <<rows, hosted, running, stage, queue, shown>>
      /\ worker[w].pc = "running" /\ Indices' = Indices /\ rows \in Inputs
  BY DEF Answer, Indices, PoolTypeOK
<1>2. stage = "pool" /\ hosted
  BY <1>1, InPool
<1>3. worker \in [Workers -> Task] /\ u \in Seq(Indices)
  BY DEF PoolTypeOK, Task
<1>4. /\ Distinct(u) /\ U \subseteq Unrun /\ U \subseteq Indices
      /\ \A j \in 1..Len(queue) : Apart(queue[j], u)
      /\ \A v \in Workers : v # w /\ worker[v].pc = "running" => Apart(worker[v].unit, u)
  BY <1>1, <1>3 DEF WorkOK, RowsIn
<1>5. PICK a \in Answers(u) :
         LET n == Successes(Recorded(u, a)) - Successes(result) IN
         /\ result' = Recorded(u, a)
         /\ completed' = completed + n /\ failed' = failed + Len(u) - n
  BY DEF Answer
<1>6. /\ result' \in [Indices -> Answered \cup {None}]
      /\ \A i \in Indices : i \notin U => result'[i] = result[i]
      /\ \A i \in U : /\ result'[i] # None /\ result'[i].id = rows[i].id
                      /\ result'[i].says \in {"ok", "error", "internal"}
  BY <1>3, <1>5, RecordedRows
<1>7. Unrun' = {i \in Indices : result'[i] = None} /\ Successes(result)' = Successes(result')
  BY <1>1 DEF Unrun, Successes
<1>8. /\ Successes(result') - Successes(result) \in 0..Len(u) /\ Len(u) \in Nat
      /\ Unrun' = Unrun \ U
      /\ Cardinality(Indices \ Unrun') = Cardinality(Indices \ Unrun) + Len(u)
      /\ Successes(result') \in 0..Len(rows)
      /\ Successes(result') <= Cardinality(Indices \ Unrun')
  BY <1>3, <1>4, <1>6, <1>7, UnitCounts
<1>9. /\ Len(rows) \in Nat /\ Cardinality(Indices \ Unrun') \in 0..Len(rows)
      /\ Cardinality(Indices \ Unrun) \in 0..Len(rows)
  BY <1>1, Positions
<1>10. /\ completed = Successes(result) /\ completed \in 0..Len(rows) /\ failed \in 0..Len(rows)
       /\ completed + failed = Cardinality(Indices \ Unrun)
  BY <1>2 DEF CountsAreOfRows, PoolTypeOK
<1>11. /\ completed' = Successes(result') /\ completed' + failed' = Cardinality(Indices \ Unrun')
       /\ completed' \in 0..Len(rows) /\ failed' \in 0..Len(rows)
       /\ completed <= completed' /\ failed <= failed'
  <2> DEFINE done == Cardinality(Indices \ Unrun')
             was == Cardinality(Indices \ Unrun)
  <2>1. PICK n \in 0..Len(u) : /\ n = Successes(result') - Successes(result)
                              /\ completed' = completed + n /\ failed' = failed + Len(u) - n
    BY <1>5, <1>8
  <2>2. done = was + Len(u) /\ done <= Len(rows) /\ Len(u) \in Nat
    BY <1>8, <1>9
  <2>3. completed' = Successes(result')
    BY <1>8, <1>10, <2>1
  <2>4. /\ was \in Nat /\ completed \in Nat /\ failed \in Nat /\ completed + failed = was
        /\ Len(rows) \in Nat
    BY <1>9, <1>10
  <2> HIDE DEF done, was
  <2>5. /\ completed + n \in Nat /\ failed + Len(u) - n \in Nat
        /\ completed <= completed + n /\ failed <= failed + Len(u) - n
        /\ (completed + n) + (failed + Len(u) - n) = (completed + failed) + Len(u)
    <3> HIDE DEF u
    <3>1. n \in 0..Len(u) /\ Len(u) \in Nat /\ completed \in Nat /\ failed \in Nat
      BY <2>1, <2>2, <2>4
    <3> QED BY <3>1, Split
  <2>6. /\ completed' + failed' = done /\ completed' \in Nat /\ failed' \in Nat
        /\ completed <= completed' /\ failed <= failed'
    BY <2>1, <2>2, <2>4, <2>5
  <2>7. completed' \in 0..Len(rows) /\ failed' \in 0..Len(rows)
    BY <2>2, <2>4, <2>6
  <2> QED BY <2>3, <2>6, <2>7 DEF done
<1>12. /\ worker' \in [Workers -> Task]
       /\ worker'[w].pc \in {"loop", "reporting", "broken"}
       /\ worker'[w].pc = "reporting" => worker'[w].snap = [completed |-> completed', failed |-> failed']
       /\ \A v \in Workers : v # w => worker'[v] = worker[v]
  <2> DEFINE r == [pc |-> "reporting", unit |-> <<>>,
                   snap |-> [completed |-> completed', failed |-> failed']]
  <2>1. r \in Task
    BY <1>11 DEF Task, Count
  <2>2. PICK t \in {r} \cup {[Idle EXCEPT !.pc = p] : p \in {"loop", "broken"}} :
             worker' = [worker EXCEPT ![w] = t]
    BY Zenon DEF Answer
  <2>3. t = r \/ (t \in Task /\ t.pc \in {"loop", "broken"})
    BY IdleTask
  <2>4. t \in Task /\ t.pc \in {"loop", "reporting", "broken"} /\ (t.pc = "reporting" => t = r)
    BY <2>1, <2>3
  <2> QED BY <1>3, <2>2, <2>4
<1>13. PoolTypeOK'
  BY <1>1, <1>6, <1>11, <1>12 DEF PoolTypeOK, Task, Answered
<1>14. QueueOK'
  BY <1>1, <1>2, <1>4, <1>8 DEF QueueOK, Apart
<1>15. WorkOK'
  <2>1. \A v \in Workers : worker'[v].pc = "running" => v # w /\ worker'[v] = worker[v]
    BY <1>12
  <2>2. ASSUME NEW v \in Workers, v # w, worker[v].pc = "running"
        PROVE  RowsIn(worker[v].unit) \subseteq Unrun'
    BY <1>4, <1>8, <2>2 DEF WorkOK, Apart
  <2> QED BY <1>1, <2>1, <2>2 DEF WorkOK
<1>16. CoverOK'
  <2> SUFFICES ASSUME NEW i \in Unrun'
               PROVE  \/ \E j \in 1..Len(queue) : i \in RowsIn(queue[j])
                      \/ \E v \in Workers : worker'[v].pc = "running" /\ i \in RowsIn(worker'[v].unit)
    BY <1>1 DEF CoverOK
  <2>1. i \in Unrun /\ i \notin U
    BY <1>8
  <2> QED BY <1>2, <1>12, <2>1 DEF CoverOK
<1>17. LeaveOK'
  BY <1>1, <1>2, <1>12 DEF LeaveOK
<1>18. ShownOK'
  <2>1. /\ shown.completed <= completed /\ shown.failed <= failed
        /\ shown.completed \in Nat /\ shown.failed \in Nat
    BY DEF ShownOK, PoolTypeOK, Count
  <2>2. ASSUME NEW v \in Workers, worker'[v].pc = "reporting"
        PROVE  worker'[v].snap.completed <= completed' /\ worker'[v].snap.failed <= failed'
    <3>1. CASE v = w
      BY <1>11, <1>12, <2>2, <3>1
    <3>2. CASE v # w
      <4>1. worker'[v] = worker[v] /\ worker[v].snap.completed \in Nat /\ worker[v].snap.failed \in Nat
        BY <1>3, <1>12, <3>2 DEF Task, Count
      <4>2. worker[v].snap.completed <= completed /\ worker[v].snap.failed <= failed
        BY <2>2, <4>1 DEF ShownOK
      <4>3. PICK c, d \in Nat : c = worker[v].snap.completed /\ d = worker[v].snap.failed
        BY <4>1
      <4>4. /\ c <= completed /\ completed <= completed' /\ completed \in Nat /\ completed' \in Nat
            /\ d <= failed /\ failed <= failed' /\ failed \in Nat /\ failed' \in Nat
        BY <1>10, <1>11, <4>2, <4>3
      <4>5. c <= completed' /\ d <= failed'
        BY <4>4
      <4> QED BY <4>1, <4>3, <4>5
    <3> QED BY <3>1, <3>2
  <2>3. shown' = shown /\ shown.completed <= completed' /\ shown.failed <= failed'
    BY <1>1, <1>10, <1>11, <2>1
  <2> QED BY <2>2, <2>3 DEF ShownOK
<1>19. SaysOK' /\ AnswerIsOwn'
  BY <1>1, <1>2, <1>6 DEF SaysOK, NoneStranded, AnswerIsOwn
<1>20. StartOK' /\ IdleOK' /\ HostOK' /\ EndOK' /\ CountsAreOfRows'
  BY <1>1, <1>2, <1>7, <1>11 DEF StartOK, IdleOK, HostOK, EndOK, CountsAreOfRows
<1> QED BY <1>11, <1>13, <1>14, <1>15, <1>16, <1>17, <1>18, <1>19, <1>20 DEF PoolInv
-----------------------------------------------------------------------------
(* The end, and the theorems.                                              *)

LEMMA FillStep ==
    ASSUME PoolAssumption, PoolInv, Fill
    PROVE  PoolInv' /\ failed <= failed'
<1> USE DEF PoolInv
<1>1. /\ UNCHANGED <<rows, hosted, running, queue, worker, completed, shown>>
      /\ Indices' = Indices /\ rows \in Inputs /\ stage = "pool" /\ stage' = "ended" /\ PoolEnded
  BY DEF Fill, Indices, PoolTypeOK
<1>2. hosted
  BY <1>1 DEF HostOK
<1>3. result \in [Indices -> Answered \cup {None}]
  BY DEF PoolTypeOK, Answered
<1>4. ASSUME NEW i \in Indices
      PROVE  /\ result'[i] \in Answered /\ result'[i] # None /\ result'[i].id = rows[i].id
             /\ i \notin Unrun => result'[i] = result[i]
             /\ i \in Unrun => result'[i].says = IF running THEN "unrun" ELSE "shutdown"
  <2>1. CASE i \in Unrun
    <3>1. result'[i] = Told(i, IF running THEN "unrun" ELSE "shutdown")
      BY <2>1 DEF Fill
    <3>2. (IF running THEN "unrun" ELSE "shutdown") \in Says
      BY DEF Says
    <3> QED BY <1>1, <2>1, <3>1, <3>2, TellsRow
  <2>2. CASE i \notin Unrun
    <3>1. result'[i] = result[i]
      BY <2>2 DEF Fill
    <3> QED BY <1>3, <2>2, <3>1 DEF Unrun, AnswerIsOwn
  <2> QED BY <2>1, <2>2
<1>5. result' \in [Indices -> Answered \cup {None}]
  BY <1>4 DEF Fill
<1>6. Unrun' = {}
  BY <1>1, <1>4 DEF Unrun
\* With no task broken and no shutdown the queue is empty, and nobody holds a unit.
<1>7. ASSUME Unbroken PROVE Unrun = {}
  <2>1. \A w \in Workers : worker[w].pc \in {"idle", "done"}
    BY <1>1, <1>7 DEF PoolEnded, Unbroken
  <2>2. queue = <<>>
    BY <1>1, <1>7, <2>1 DEF LeaveOK, Unbroken
  <2>3. 1..Len(queue) = {}
    BY <2>2
  <2> QED BY <1>1, <2>1, <2>3 DEF CoverOK
<1>8. EndOK'
  <2>1. PoolEnded' /\ (Unbroken' => Unbroken)
    BY <1>1 DEF PoolEnded, Unbroken
  <2>2. ASSUME Unbroken PROVE NoneStranded'
    BY <1>1, <1>3, <1>4, <1>7, <2>2 DEF SaysOK, NoneStranded
  <2>3. Unbroken' => NoneStranded'
    BY <2>1, <2>2
  <2> QED BY <1>6, <2>1, <2>3 DEF EndOK
<1>9. /\ Cardinality(Indices \ Unrun) + UnrunCount = Len(rows) /\ UnrunCount \in Nat
      /\ Cardinality(Indices) = Len(rows) /\ Len(rows) \in Nat
      /\ Cardinality(Indices \ Unrun) \in Nat
  <2> DEFINE A == Indices \ Unrun
  <2>1. Len(rows) \in Nat /\ IsFiniteSet(A) /\ IsFiniteSet(Unrun)
    BY <1>1, Positions DEF Unrun
  <2>2. Cardinality(Indices) = Len(rows)
    BY <2>1, OneTo DEF Indices
  <2>3. Indices = A \cup Unrun /\ A \cap Unrun = {}
    BY DEF Unrun
  <2>4. Cardinality(A \cap Unrun) = 0
    BY <2>3, FS_EmptySet
  <2> HIDE DEF A
  <2>5. Cardinality(A \cup Unrun) = Cardinality(A) + Cardinality(Unrun) - Cardinality(A \cap Unrun)
    BY <2>1, FS_Union
  <2>6. Cardinality(A) \in Nat /\ Cardinality(Unrun) \in Nat
    BY <2>1, FS_CardinalityType
  <2>7. Cardinality(A \cup Unrun) = Len(rows)
    BY <2>2, <2>3
  <2>8. Cardinality(A) + Cardinality(Unrun) = Len(rows)
    BY <2>4, <2>5, <2>6, <2>7
  <2> QED BY <2>1, <2>2, <2>6, <2>8 DEF A, UnrunCount
<1>10. /\ completed \in 0..Len(rows) /\ failed \in 0..Len(rows) /\ failed' = failed + UnrunCount
       /\ completed = Successes(result) /\ completed + failed = Cardinality(Indices \ Unrun)
  BY <1>1, <1>2 DEF PoolTypeOK, CountsAreOfRows, Fill
<1>11. completed + failed' = Len(rows) /\ failed' \in 0..Len(rows) /\ failed <= failed'
  BY <1>9, <1>10
<1>12. Successes(result)' = Successes(result)
  <2>1. \A i \in Indices : (result'[i] # None /\ result'[i].says = "ok")
                              <=> (result[i] # None /\ result[i].says = "ok")
    BY <1>4 DEF Unrun
  <2> QED BY <1>1, <2>1 DEF Successes
<1>13. PoolTypeOK'
  BY <1>1, <1>5, <1>11 DEF PoolTypeOK, Answered
<1>14. CountsAreOfRows'
  <2>1. Cardinality(Indices' \ Unrun') = Len(rows)
    BY <1>1, <1>6, <1>9
  <2> QED BY <1>1, <1>10, <1>11, <1>12, <2>1 DEF CountsAreOfRows
<1>15. \A w \in Workers : worker[w].pc \notin {"running", "reporting"}
  BY <1>1 DEF PoolEnded
<1>16. ShownOK'
  <2>1. shown.failed <= failed /\ shown.failed \in Nat
    BY DEF ShownOK, PoolTypeOK, Count
  <2>2. /\ shown' = shown /\ completed' = completed /\ worker' = worker
        /\ shown.completed <= completed
    BY <1>1 DEF ShownOK
  <2>3. shown.failed <= failed'
    BY <1>10, <1>11, <2>1
  <2> QED BY <1>15, <2>2, <2>3 DEF ShownOK
<1>17. WorkOK' /\ AnswerIsOwn'
  BY <1>1, <1>4, <1>15 DEF WorkOK, AnswerIsOwn
<1>18. StartOK' /\ IdleOK' /\ HostOK' /\ QueueOK' /\ CoverOK' /\ LeaveOK' /\ SaysOK'
  BY <1>1, <1>2 DEF StartOK, IdleOK, HostOK, QueueOK, CoverOK, LeaveOK, SaysOK
<1> QED BY <1>8, <1>11, <1>13, <1>14, <1>16, <1>17, <1>18 DEF PoolInv

LEMMA ReturnStep ==
    ASSUME PoolAssumption, PoolInv, Return
    PROVE  PoolInv'
<1> USE DEF PoolInv
<1>1. /\ UNCHANGED <<rows, hosted, running, queue, worker, result, completed, failed>>
      /\ stage = "ended" /\ stage' = "returned" /\ Indices' = Indices /\ Unrun' = Unrun
  BY DEF Return, Indices, Unrun
<1>2. hosted
  BY <1>1 DEF HostOK
<1>3. /\ shown \in Count /\ completed \in Nat /\ failed \in Nat
      /\ shown.completed <= completed /\ shown.failed <= failed
  <2>1. completed \in 0..Len(rows) /\ failed \in 0..Len(rows)
    BY DEF PoolTypeOK
  <2> QED BY <2>1 DEF PoolTypeOK, ShownOK
<1>4. shown' \in Count /\ shown'.completed <= completed /\ shown'.failed <= failed
  <2> DEFINE s == Shown([completed |-> completed, failed |-> failed])
  <2>1. s \in Count /\ s.completed <= completed /\ s.failed <= failed
    BY <1>3 DEF Shown, Count
  <2> QED BY <1>3, <2>1 DEF Return
<1>5. PoolTypeOK' /\ ShownOK'
  BY <1>1, <1>4 DEF PoolTypeOK, ShownOK
<1>6. WorkOK' /\ AnswerIsOwn' /\ CountsAreOfRows' /\ EndOK'
  BY <1>1 DEF WorkOK, AnswerIsOwn, CountsAreOfRows, Successes, EndOK, PoolEnded, Unbroken, NoneStranded
<1>7. StartOK' /\ IdleOK' /\ HostOK' /\ QueueOK' /\ CoverOK' /\ LeaveOK' /\ SaysOK'
  BY <1>1, <1>2 DEF StartOK, IdleOK, HostOK, QueueOK, CoverOK, LeaveOK, SaysOK
<1> QED BY <1>5, <1>6, <1>7 DEF PoolInv

LEMMA QuietStep ==
    ASSUME PoolInv, Shutdown \/ UNCHANGED poolVars
    PROVE  PoolInv'
<1> USE DEF PoolInv
<1>1. /\ UNCHANGED <<rows, hosted, stage, queue, worker, result, completed, failed, shown>>
      /\ Indices' = Indices /\ Unrun' = Unrun
      /\ running' \in BOOLEAN /\ (running' => running)
  <2>1. CASE Shutdown
    BY <2>1 DEF Shutdown, Indices, Unrun
  <2>2. CASE UNCHANGED poolVars
    BY <2>2 DEF poolVars, Indices, Unrun, PoolTypeOK
  <2> QED BY <2>1, <2>2
<1>2. PoolTypeOK' /\ ShownOK'
  BY <1>1 DEF PoolTypeOK, ShownOK
<1>3. WorkOK' /\ AnswerIsOwn' /\ CountsAreOfRows' /\ EndOK'
  BY <1>1 DEF WorkOK, AnswerIsOwn, CountsAreOfRows, Successes, EndOK, PoolEnded, Unbroken, NoneStranded
<1>4. StartOK' /\ IdleOK' /\ HostOK' /\ QueueOK' /\ CoverOK' /\ LeaveOK' /\ SaysOK'
  BY <1>1 DEF StartOK, IdleOK, HostOK, QueueOK, CoverOK, LeaveOK, SaysOK, NoneStranded
<1> QED BY <1>2, <1>3, <1>4 DEF PoolInv

LEMMA NextInv ==
    ASSUME PoolAssumption, PoolInv, [PoolNext]_poolVars
    PROVE  PoolInv'
<1>1. CASE \E w \in Workers : WorkerStep(w)
  BY <1>1, TakeStep, LeaveStep, AnswerStep, ReportStep DEF WorkerStep
<1>2. CASE OwnStep
  BY <1>2, PartitionStep, NoRuntimeStep, FillStep, ReturnStep DEF OwnStep
<1>3. CASE Shutdown \/ UNCHANGED poolVars
  BY <1>3, QuietStep
<1> QED BY <1>1, <1>2, <1>3 DEF PoolNext

THEOREM PoolInvariant == ASSUME PoolAssumption PROVE PoolSpec => []PoolInv
<1>1. PoolInit => PoolInv
  BY PoolInitInv
<1>2. PoolInv /\ [PoolNext]_poolVars => PoolInv'
  BY NextInv
<1> QED BY <1>1, <1>2, PTL DEF PoolSpec

\* For any inputs, tasks and chunks every variable keeps its type
\* (Worker._run_prompts).
THEOREM PoolTypeCorrect == ASSUME PoolAssumption PROVE PoolSpec => []PoolTypeOK
<1>1. PoolInv => PoolTypeOK
  BY DEF PoolInv
<1> QED BY <1>1, PoolInvariant, PTL

\* Nobody gets another row's answer, whatever runtimes answer in whichever order
\* (worker.py:681-693).
THEOREM AnswerAlwaysOwn == ASSUME PoolAssumption PROVE PoolSpec => []AnswerIsOwn
<1>1. PoolInv => AnswerIsOwn
  BY DEF PoolInv
<1> QED BY <1>1, PoolInvariant, PTL

\* The counters are those of the rows, however tasks interleave, break or are
\* stopped: no row is run twice, or run though it was refused (worker.py:722-732).
THEOREM CountsAlwaysOfRows == ASSUME PoolAssumption PROVE PoolSpec => []CountsAreOfRows
<1>1. PoolInv => CountsAreOfRows
  BY DEF PoolInv
<1> QED BY <1>1, PoolInvariant, PTL

\* One output row for every input row, and every row that is not refused put to
\* the runtime unless the pool was stopped or broken (worker.py:523, 792-815).
THEOREM EveryRowAlwaysRun == ASSUME PoolAssumption PROVE PoolSpec => []EveryRowIsRun
<1>1. PoolInv => EveryRowIsRun
  BY DEF PoolInv, EndOK, EveryRowIsRun, Unbroken, NoneStranded, Unrun
<1> QED BY <1>1, PoolInvariant, PTL

\* The counts shown never fall and never run ahead of what is done, in whatever
\* order reports arrive (backend/routers/workers.py:446-449).
THEOREM ShownAlwaysRises == ASSUME PoolAssumption PROVE PoolSpec => ShownOnlyRises
<1> DEFINE Rises == /\ shown.completed <= shown'.completed /\ shown.failed <= shown'.failed
                    /\ shown'.completed <= completed' /\ shown'.failed <= failed'
<1>1. ASSUME PoolInv, [PoolNext]_poolVars
      PROVE  [Rises]_poolVars
  <2>1. PoolInv'
    BY <1>1, NextInv
  <2>2. shown'.completed <= completed' /\ shown'.failed <= failed'
    BY <2>1 DEF PoolInv, ShownOK
  <2>3. shown \in Count
    BY <1>1 DEF PoolInv, PoolTypeOK
  <2>4. shown.completed <= shown'.completed /\ shown.failed <= shown'.failed
    <3>1. ASSUME NEW s \in Count, shown' \in {shown, Shown(s)}
          PROVE  shown.completed <= shown'.completed /\ shown.failed <= shown'.failed
      BY <2>3, <3>1 DEF Shown, Count
    <3>2. CASE \E w \in Workers : Report(w)
      <4>1. PICK w \in Workers : Report(w)
        BY <3>2
      <4>2. worker[w].snap \in Count
        BY <1>1 DEF PoolInv, PoolTypeOK
      <4> QED BY <3>1, <4>1, <4>2 DEF Report
    <3>3. CASE Return
      <4>1. [completed |-> completed, failed |-> failed] \in Count
        BY <1>1 DEF PoolInv, PoolTypeOK, Count
      <4> QED BY <3>1, <3>3, <4>1 DEF Return
    <3>4. CASE shown' = shown
      BY <2>3, <3>4 DEF Count
    <3>5. \/ \E w \in Workers : Report(w)
          \/ Return
          \/ shown' = shown
      BY <1>1 DEF PoolNext, OwnStep, WorkerStep, Partition, NoRuntime, Fill, Shutdown, Take,
                  Leave, Answer, poolVars
    <3> QED BY <3>2, <3>3, <3>4, <3>5
  <2> QED BY <2>2, <2>4
<1> QED BY <1>1, PoolInvariant, PTL DEF PoolSpec, ShownOnlyRises
=============================================================================
