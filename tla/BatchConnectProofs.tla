------------------------- MODULE BatchConnectProofs -------------------------
(***************************************************************************)
(* Theorems about BatchConnect, for any hosts and any limit, and that it   *)
(* implements BatchPromise.                                                *)
(*                                                                         *)
(* The code counts: inflight, startedCount, cancelledCount.  The proofs    *)
(* turn the counts into sets: Counted says that inflight is the number of  *)
(* hosts under way, which needs that a list names no host twice.           *)
(***************************************************************************)
EXTENDS BatchConnect, FiniteSetTheorems, SequenceTheorems, TLAPS

\* Hosts at the places of l after a up to b.
Part(l, a, b) == {l[i] : i \in (a + 1)..b}

\* Hosts of l that were handed out and have no result.
Flying(l, n, rows) == {h \in Part(l, 0, n) : rows[h] = "none"}

\* Hosts of l after the first n have no result.
Unsettled(l, n, rows) == \A i \in (n + 1)..Len(l) : rows[l[i]] = "none"

Counted == inflight = Cardinality(Flying(list, next, results))

\* A slot is idle only when no host waits, and those that wait have no result.
Waits ==
    /\ next < Len(list) => inflight = Cap /\ dropped = 0
    /\ busy => inflight > 0
    /\ Unsettled(list, next, results)

Idle ==
    /\ list = <<>> /\ next = 0 /\ inflight = 0 /\ started = 0 /\ queued = 0
    /\ cancel = FALSE
    /\ told = None \/ told = dropped

Busy ==
    /\ started + dropped = next
    /\ queued = IF cancel THEN 0 ELSE Len(list) - next
    /\ IF cancel THEN told = dropped + Len(list) - next ELSE told = None /\ dropped = 0

BatchInv == IF busy THEN Busy ELSE Idle

IInv == TypeOK /\ Counted /\ Waits /\ BatchInv /\ CardIsCurrent

-----------------------------------------------------------------------------
LEMMA CapFacts == Cap \in Nat /\ Cap >= 1
BY BatchAssumption DEF Cap, ClampBatchLimit

LEMMA ListFacts ==
    ASSUME NEW l \in Lists
    PROVE  /\ Len(l) \in Nat
           /\ l \in [1..Len(l) -> Hosts]
           /\ \A i, j \in 1..Len(l) : l[i] = l[j] => i = j
<1>1. Cardinality(Hosts) \in Nat BY BatchAssumption, FS_CardinalityType
<1>2. PICK n \in 0..Cardinality(Hosts) : l \in [1..n -> Hosts] BY DEF Lists
<1>3. n \in Nat /\ l \in Seq(Hosts) BY <1>1, <1>2, SeqDef
<1>4. Len(l) = n BY <1>2, <1>3, LenProperties
<1>5. \A i, j \in DOMAIN l : l[i] = l[j] => i = j BY DEF Lists
<1> QED BY <1>2, <1>3, <1>4, <1>5

LEMMA EmptyList == <<>> \in Lists /\ Len(<<>>) = 0
<1>1. 0 \in 0..Cardinality(Hosts) BY BatchAssumption, FS_CardinalityType
<1>2. <<>> \in [1..0 -> Hosts] OBVIOUS
<1>3. DOMAIN <<>> = {} OBVIOUS
<1> QED BY <1>1, <1>2, <1>3 DEF Lists

\* A part of a list has as many hosts as places.
LEMMA PartSize ==
    ASSUME NEW l \in Lists, NEW a \in Nat, NEW b \in Nat, a <= b, b <= Len(l)
    PROVE  IsFiniteSet(Part(l, a, b)) /\ Cardinality(Part(l, a, b)) = b - a
<1> DEFINE I == (a + 1)..b
           T == Part(l, a, b)
           f == [i \in I |-> l[i]]
<1>1. \A i, j \in I : l[i] = l[j] => i = j BY ListFacts
<1>2. f \in Bijection(I, T)
  <2>1. f \in [I -> T] BY DEF Part
  <2>2. \A i, j \in I : f[i] = f[j] => i = j BY <1>1
  <2>3. \A h \in T : \E i \in I : f[i] = h BY DEF Part
  <2> HIDE DEF f, I, T
  <2> QED BY <2>1, <2>2, <2>3 DEF Bijection, Injection, Surjection, IsInjective
<1>3. IsFiniteSet(I) /\ Cardinality(I) = b - a
  <2>1. a + 1 \in Int /\ b \in Int OBVIOUS
  <2>2. IsFiniteSet(I) /\ Cardinality(I) = IF a + 1 > b THEN 0 ELSE b - (a + 1) + 1
    BY <2>1, FS_Interval, Zenon
  <2> QED BY <2>2
<1>4. ExistsBijection(I, T) BY <1>2 DEF ExistsBijection
<1> HIDE DEF I, T
<1>5. IsFiniteSet(T) /\ Cardinality(T) = Cardinality(I) BY <1>3, <1>4, FS_Bijection
<1> QED BY <1>3, <1>5 DEF T

LEMMA Parts ==
    ASSUME NEW l \in Lists, NEW n \in 0..Len(l)
    PROVE  /\ \A h \in Part(l, 0, n) : \E i \in 1..n : h = l[i]
           /\ \A i \in 1..n : l[i] \in Part(l, 0, n)
           /\ Part(l, 0, n) \subseteq Hosts
<1>1. Len(l) \in Nat /\ l \in [1..Len(l) -> Hosts] BY ListFacts
<1> QED BY <1>1 DEF Part

\* The hosts under way when those from n to m were handed out too.
LEMMA MoreFlying ==
    ASSUME NEW l \in Lists, NEW n \in Nat, NEW m \in Nat, n <= m, m <= Len(l),
           NEW rows,
           \A i \in (n + 1)..m : rows[l[i]] = "none"
    PROVE  /\ Cardinality(Flying(l, n, rows)) \in Nat
           /\ Cardinality(Flying(l, m, rows)) = Cardinality(Flying(l, n, rows)) + (m - n)
<1> DEFINE old == Flying(l, n, rows)
           fresh == Part(l, n, m)
<1>1. Len(l) \in Nat /\ \A i, j \in 1..Len(l) : l[i] = l[j] => i = j BY ListFacts
<1>2. IsFiniteSet(fresh) /\ Cardinality(fresh) = m - n BY PartSize
<1>3. IsFiniteSet(Part(l, 0, n)) BY <1>1, PartSize
<1>4. IsFiniteSet(old) /\ Cardinality(old) \in Nat
  <2>1. old \in SUBSET Part(l, 0, n) BY DEF Flying
  <2> HIDE DEF old
  <2>2. IsFiniteSet(old) BY <1>3, <2>1, FS_Subset
  <2> QED BY <2>2, FS_CardinalityType
<1>5. old \cap fresh = {} BY <1>1 DEF Flying, Part
<1>6. Flying(l, m, rows) = old \cup fresh
  <2>1. Part(l, 0, m) = Part(l, 0, n) \cup fresh
    <3>1. 1..m = (1..n) \cup ((n + 1)..m) OBVIOUS
    <3> QED BY <3>1 DEF Part
  <2>2. \A h \in fresh : rows[h] = "none" BY DEF Part
  <2> HIDE DEF fresh
  <2> QED BY <2>1, <2>2 DEF Flying
<1> HIDE DEF old, fresh
<1>7. Cardinality(old \cup fresh)
        = Cardinality(old) + Cardinality(fresh) - Cardinality(old \cap fresh)
  BY <1>2, <1>4, FS_Union
<1>8. Cardinality(old \cap fresh) = 0 BY <1>5, FS_EmptySet
<1>9. Cardinality(old \cup fresh) = Cardinality(old) + (m - n) BY <1>2, <1>4, <1>7, <1>8
<1> QED BY <1>4, <1>6, <1>9 DEF old

\* Dropping the rest of a list leaves those under way.
LEMMA SameFlying ==
    ASSUME NEW l \in Lists, NEW n \in 0..Len(l), NEW rows, NEW rest,
           \A i \in (n + 1)..Len(l) : rest[l[i]] # "none",
           \A i \in 1..n : rest[l[i]] = rows[l[i]]
    PROVE  Flying(l, Len(l), rest) = Flying(l, n, rows)
<1>1. Len(l) \in Nat BY ListFacts
<1>2. Flying(l, n, rows) \subseteq Flying(l, Len(l), rest)
  BY <1>1 DEF Flying, Part
<1>3. Flying(l, Len(l), rest) \subseteq Flying(l, n, rows)
  <2> SUFFICES ASSUME NEW i \in 1..Len(l), rest[l[i]] = "none" PROVE l[i] \in Flying(l, n, rows)
    BY DEF Flying, Part
  <2>1. i \in 1..n BY <1>1
  <2> QED BY <2>1 DEF Flying, Part
<1> QED BY <1>2, <1>3

\* A batch after a run of the pump over l, of which n were taken and `gone' dropped.
Pumped(l, n, gone, rows, stop) ==
    /\ list' \in Lists /\ next' \in 0..Len(list') /\ inflight' \in 0..Cap
    /\ started' \in 0..Len(list') /\ dropped' \in Nat /\ queued' \in Nat
    /\ busy' \in BOOLEAN /\ cancel' = (stop /\ busy')
    /\ results' \in [Hosts -> Outcomes \cup {"none", "cancelled"}]
    /\ Counted' /\ Waits'
    /\ dropped' = IF stop THEN gone + (Len(l) - n) ELSE gone
    /\ IF busy'
       THEN /\ list' = l /\ started' + dropped' = next'
            /\ queued' = Len(l) - next'
            /\ stop => next' = Len(l)
       ELSE list' = <<>> /\ next' = 0 /\ inflight' = 0 /\ started' = 0 /\ queued' = 0
    /\ \A h \in Hosts : results'[h] = rows[h]
                        \/ (rows[h] = "none" /\ results'[h] = "cancelled")
    /\ \A h \in Hosts \ Part(l, n, Len(l)) : results'[h] = rows[h]
    /\ \A h \in Part(l, n, Len(l)) : results'[h] = IF stop THEN "cancelled" ELSE rows[h]
    /\ IF busy' THEN n <= next' ELSE (stop \/ n = Len(l)) /\ Flying(l, n, rows) = {}

\* What one run of the pump makes of a batch that is counted right.
LEMMA PumpFacts ==
    ASSUME NEW l \in Lists, NEW n \in 0..Len(l), NEW flying \in 0..Cap,
           NEW begun \in Nat, NEW gone \in Nat, NEW stop \in BOOLEAN,
           NEW rows \in [Hosts -> Outcomes \cup {"none", "cancelled"}],
           begun + gone = n,
           n < Len(l) => gone = 0,
           \A i \in (n + 1)..Len(l) : rows[l[i]] = "none",
           flying = Cardinality(Flying(l, n, rows)),
           Pump(l, n, flying, begun, gone, rows, stop)
    PROVE  Pumped(l, n, gone, rows, stop)
<1> DEFINE k    == Startable(flying, Len(l) - n, stop)
           taken == IF stop THEN Len(l) ELSE n + k
           lost  == IF stop THEN gone + (Len(l) - n - k) ELSE gone
           over  == taken = Len(l) /\ flying + k = 0
           rest  == (n + k + 1)..Len(l)
           res   == [h \in Hosts |-> IF stop /\ \E i \in rest : l[i] = h
                                     THEN "cancelled" ELSE rows[h]]
<1>1. /\ list' = IF over THEN <<>> ELSE l
      /\ next' = IF over THEN 0 ELSE taken
      /\ inflight' = flying + k
      /\ started' = IF over THEN 0 ELSE begun + k
      /\ dropped' = lost
      /\ results' = res
      /\ queued' = IF over THEN 0 ELSE Len(l) - (begun + k) - lost
      /\ busy' = ~over
      /\ cancel' = (stop /\ ~over)
  BY DEF Pump
<1>2. Len(l) \in Nat /\ l \in [1..Len(l) -> Hosts] BY ListFacts
<1>3. n \in Nat /\ n <= Len(l) /\ flying \in Nat /\ flying <= Cap /\ Cap \in Nat /\ Cap >= 1
  BY <1>2, CapFacts
<1>4. /\ k \in 0..(Len(l) - n) /\ flying + k <= Cap
      /\ stop => k = 0
      /\ ~stop /\ n + k < Len(l) => flying + k = Cap
  BY <1>2, <1>3 DEF Startable, Lesser
<1> HIDE DEF k
<1>5. k \in Nat /\ n + k <= Len(l) /\ taken \in Nat /\ taken <= Len(l) /\ lost \in Nat
  <2>1. k \in Nat /\ n + k <= Len(l) BY <1>2, <1>3, <1>4
  <2>2. Len(l) - n - k \in Nat BY <1>2, <1>3, <2>1
  <2>3. CASE stop
    <3>1. taken = Len(l) /\ lost = gone + (Len(l) - n - k) BY <2>3
    <3> HIDE DEF taken, lost
    <3>2. taken \in Nat /\ taken <= Len(l) BY <1>2, <3>1
    <3>3. lost \in Nat BY <2>2, <3>1
    <3> QED BY <2>1, <3>2, <3>3
  <2>4. CASE ~stop BY <1>2, <1>3, <2>1, <2>4
  <2> QED BY <2>3, <2>4
<1>6. /\ begun + k + lost = taken
      /\ taken < Len(l) => ~stop /\ lost = 0 /\ flying + k = Cap
      /\ begun + k <= taken
      /\ lost = IF stop THEN gone + (Len(l) - n) ELSE gone
  BY <1>2, <1>3, <1>4, <1>5
<1>7. res \in [Hosts -> Outcomes \cup {"none", "cancelled"}] OBVIOUS
<1>8. \A i \in (taken + 1)..Len(l) : res[l[i]] = "none"
  <2> SUFFICES ASSUME NEW i \in (taken + 1)..Len(l) PROVE res[l[i]] = "none"
    OBVIOUS
  <2>1. ~stop /\ taken = n + k BY <1>2, <1>5
  <2>2. i \in (n + 1)..Len(l) /\ l[i] \in Hosts BY <1>2, <1>3, <1>5, <2>1
  <2> QED BY <2>1, <2>2
<1>9. flying + k = Cardinality(Flying(l, taken, res))
  <2>1. CASE stop
    <3>1. taken = Len(l) /\ k = 0 /\ rest = (n + 1)..Len(l) BY <2>1, <1>3, <1>4
    <3>2. \A i \in (n + 1)..Len(l) : res[l[i]] # "none"
      <4> SUFFICES ASSUME NEW i \in (n + 1)..Len(l) PROVE res[l[i]] = "cancelled"
        OBVIOUS
      <4>1. l[i] \in Hosts /\ i \in rest BY <3>1, <1>2, <1>3
      <4> QED BY <2>1, <4>1
    <3>3. \A i \in 1..n : l[i] \in Hosts /\ ~\E j \in rest : l[j] = l[i]
      BY <3>1, <1>2, <1>3, ListFacts
    <3>4. \A i \in 1..n : res[l[i]] = rows[l[i]] BY <3>3
    <3> HIDE DEF res, taken, lost, over, rest
    <3>5. Flying(l, Len(l), res) = Flying(l, n, rows) 
      BY ONLY l \in Lists, n \in 0..Len(l), <3>2, <3>4, SameFlying
    <3> QED BY <3>1, <3>5, <1>3
  <2>2. CASE ~stop
    <3>1. taken = n + k /\ res = rows BY <2>2
    <3>2. \A i \in (n + 1)..(n + k) : rows[l[i]] = "none" BY <1>2, <1>3, <1>5
    <3> DEFINE m == n + k
    <3>3. m \in Nat /\ n <= m /\ m <= Len(l) /\ m - n = k BY <1>3, <1>5
    <3>4. \A i \in (n + 1)..m : rows[l[i]] = "none" BY <3>2
    <3>5. taken = m BY <3>1
    <3> HIDE DEF res, taken, lost, over, rest, m
    <3>6. Cardinality(Flying(l, m, rows)) = Cardinality(Flying(l, n, rows)) + (m - n)
      BY ONLY l \in Lists, <1>3, <3>3, <3>4, MoreFlying
    <3> QED BY <3>1, <3>3, <3>5, <3>6
  <2> QED BY <2>1, <2>2
<1>10. \A h \in Hosts : res[h] = rows[h] \/ (rows[h] = "none" /\ res[h] = "cancelled")
  <2> SUFFICES ASSUME NEW h \in Hosts, res[h] # rows[h]
               PROVE  rows[h] = "none" /\ res[h] = "cancelled"
    OBVIOUS
  <2>0. res[h] = IF stop /\ (\E i \in rest : l[i] = h) THEN "cancelled" ELSE rows[h]
    BY Zenon
  <2> HIDE DEF res, rest
  <2>1. (\E i \in rest : l[i] = h) /\ res[h] = "cancelled" BY ONLY <2>0, res[h] # rows[h], Zenon
  <2> USE DEF rest
  <2>2. \A i \in rest : i \in (n + 1)..Len(l) BY <1>2, <1>3, <1>5
  <2> QED BY <2>1, <2>2
<1>13. \A h \in Hosts \ Part(l, n, Len(l)) : res[h] = rows[h]
  <2> SUFFICES ASSUME NEW h \in Hosts, h \notin Part(l, n, Len(l)) PROVE res[h] = rows[h]
    OBVIOUS
  <2>1. \A i \in rest : i \in (n + 1)..Len(l) BY <1>2, <1>3, <1>5
  <2>2. ~\E i \in rest : l[i] = h BY <2>1 DEF Part
  <2> HIDE DEF rest
  <2> QED BY <2>2
<1>14. \A h \in Part(l, n, Len(l)) : res[h] = IF stop THEN "cancelled" ELSE rows[h]
  <2> SUFFICES ASSUME NEW h \in Part(l, n, Len(l))
               PROVE  res[h] = IF stop THEN "cancelled" ELSE rows[h]
    OBVIOUS
  <2>0. PICK i \in (n + 1)..Len(l) : h = l[i] BY DEF Part
  <2>1. l[i] \in Hosts BY <1>2, <1>3
  <2>2. CASE stop
    <3>1. i \in rest BY <2>2, <1>3, <1>4
    <3> HIDE DEF rest
    <3> QED BY <2>0, <2>1, <2>2, <3>1
  <2>3. CASE ~stop BY <2>0, <2>1, <2>3
  <2> QED BY <2>2, <2>3
<1>15. over => (stop \/ n = Len(l)) /\ Flying(l, n, rows) = {}
  <2> SUFFICES ASSUME over PROVE (stop \/ n = Len(l)) /\ Flying(l, n, rows) = {}
    OBVIOUS
  <2>1. flying = 0 /\ k = 0 BY <1>3, <1>5
  <2>2. Flying(l, n, rows) \in SUBSET Part(l, 0, n) BY DEF Flying
  <2>3. IsFiniteSet(Part(l, 0, n)) BY ONLY l \in Lists, <1>2, <1>3, PartSize, 0 \in Nat
  <2>4. IsFiniteSet(Flying(l, n, rows)) BY ONLY <2>2, <2>3, FS_Subset
  <2>5. Flying(l, n, rows) = {}
    BY ONLY <2>1, <2>4, flying = Cardinality(Flying(l, n, rows)), FS_EmptySet
  <2>6. taken = Len(l) OBVIOUS
  <2>7. stop \/ n = Len(l) BY <2>1, <2>6, <1>3
  <2> QED BY <2>5, <2>7
<1>16. n <= taken BY <1>2, <1>3, <1>5
<1>17. ~over => flying + k > 0 BY <1>2, <1>3, <1>5, <1>6
<1> HIDE DEF res, lost, taken, rest
<1>11. CASE over
  <2>1. /\ list' = <<>> /\ next' = 0 /\ inflight' = 0 /\ started' = 0 /\ queued' = 0
        /\ busy' = FALSE /\ cancel' = FALSE /\ dropped' = lost /\ results' = res
    BY ONLY <1>1, <1>11
  <2>2. Flying(list', next', results') = {} BY <2>1 DEF Flying, Part
  <2>3. Counted' BY ONLY <2>1, <2>2, FS_EmptySet DEF Counted
  <2>4. Waits' BY <2>1, EmptyList DEF Waits, Unsettled
  <2>5. started' \in 0..Len(list') /\ inflight' \in 0..Cap /\ next' \in 0..Len(list')
    BY ONLY <2>1, EmptyList, <1>3
  <2>6. list' \in Lists /\ dropped' \in Nat /\ queued' \in Nat BY ONLY <2>1, EmptyList, <1>5
  <2>7. dropped' = IF stop THEN gone + (Len(l) - n) ELSE gone BY ONLY <2>1, <1>6
  <2>8. cancel' = (stop /\ busy') BY <2>1
  <2> QED BY ONLY <2>1, <2>3, <2>4, <2>5, <2>6, <2>7, <2>8, <1>7, <1>10, <1>11, <1>13, <1>14, <1>15
    DEF Pumped
<1>12. CASE ~over
  <2>1. /\ list' = l /\ next' = taken /\ inflight' = flying + k /\ started' = begun + k
        /\ queued' = Len(l) - (begun + k) - lost /\ busy' = TRUE /\ cancel' = stop
        /\ dropped' = lost /\ results' = res
    <3>1. cancel' = stop BY <1>1, <1>12, Zenon
    <3> QED BY ONLY <1>1, <1>12, <3>1
  <2>2. Counted' BY ONLY <2>1, <1>9 DEF Counted
  <2>3. Waits' BY ONLY <2>1, <1>6, <1>8, <1>12, <1>17 DEF Waits, Unsettled
  <2>4. queued' = Len(l) - taken /\ queued' \in Nat
    <3>1. begun + k + lost = taken /\ queued' = Len(l) - (begun + k) - lost BY <1>6, <2>1
    <3>2. Len(l) - (begun + k) - lost = Len(l) - taken
      BY ONLY <3>1, <1>2, begun \in Nat, <1>5
    <3> QED BY ONLY <3>1, <3>2, <1>2, <1>5
  <2>5. stop => taken = Len(l) BY DEF taken
  <2>6. started' + dropped' = taken /\ inflight' \in 0..Cap
    <3>1. started' + dropped' = taken BY ONLY <2>1, <1>6
    <3>2. flying + k \in 0..Cap BY ONLY <1>3, <1>4, <1>5
    <3> QED BY ONLY <2>1, <3>1, <3>2
  <2>7. started' \in 0..Len(l) /\ next' \in 0..Len(l)
    BY ONLY <2>1, <1>2, <1>5, <1>6, begun \in Nat
  <2>8. dropped' = IF stop THEN gone + (Len(l) - n) ELSE gone BY ONLY <2>1, <1>6
  <2>9. cancel' = (stop /\ busy') BY <2>1
  <2> QED BY ONLY l \in Lists, <2>1, <2>2, <2>3, <2>4, <2>5, <2>6, <2>7, <2>8, <2>9,
    <1>5, <1>7, <1>10, <1>13, <1>14, <1>16 DEF Pumped
<1> QED BY <1>11, <1>12

-----------------------------------------------------------------------------
LEMMA UnderWay ==
    ASSUME TypeOK
    PROVE  /\ Connecting = Flying(list, next, results)
           /\ \A h \in Connecting : \E i \in 1..next : h = list[i]
           /\ Connecting \subseteq Hosts
           /\ BatchInv /\ Connecting # {} => busy
<1>1. Len(list) \in Nat /\ list \in [1..Len(list) -> Hosts] BY ListFacts DEF TypeOK
<1>2. next \in Nat /\ next <= Len(list) BY <1>1 DEF TypeOK
<1>3. Connecting = Flying(list, next, results) BY DEF Connecting, Ranks, Flying, Part
<1>4. \A h \in Connecting : \E i \in 1..next : h = list[i] BY DEF Connecting, Ranks
<1>5. Connecting \subseteq Hosts BY <1>1, <1>2, <1>4
<1>6. ASSUME BatchInv, Connecting # {} PROVE busy BY <1>4, <1>6 DEF BatchInv, Idle
<1> QED BY <1>3, <1>4, <1>5, <1>6

LEMMA InitInv == Init => IInv
<1> SUFFICES ASSUME Init PROVE IInv
  OBVIOUS
<1>1. TypeOK
  <2>1. list \in Lists /\ next \in 0..Len(list) /\ started \in 0..Len(list)
    BY EmptyList DEF Init
  <2>2. inflight \in 0..Cap BY CapFacts DEF Init
  <2> QED BY <2>1, <2>2 DEF Init, TypeOK
<1>2. Flying(list, next, results) = {} BY DEF Init, Flying, Part
<1>3. Counted BY <1>2, FS_EmptySet DEF Init, Counted
<1>4. Waits BY EmptyList DEF Init, Waits, Unsettled
<1>5. BatchInv /\ CardIsCurrent BY DEF Init, BatchInv, Idle, CardIsCurrent
<1> QED BY <1>1, <1>3, <1>4, <1>5 DEF IInv

\* The hosts of a batch, and the rows it starts with.
Named(l) == {l[i] : i \in DOMAIN l}
Blank(l) == [h \in Hosts |-> IF h \in Named(l) THEN "none" ELSE results[h]]

LEMMA ConnectManyPumped ==
    ASSUME IInv, NEW l \in Lists, ConnectMany(l)
    PROVE  Pumped(l, 0, 0, Blank(l), FALSE)
<1> DEFINE rows  == Blank(l)
           hosts == Named(l)
<1> USE DEF Blank, Named
<1>1. Pump(l, 0, 0, 0, 0, rows, FALSE) /\ fails' = Cleared(hosts) /\ told' = None
  BY DEF ConnectMany
<1>2. Len(l) \in Nat /\ l \in [1..Len(l) -> Hosts] BY ListFacts
<1>3. rows \in [Hosts -> Outcomes \cup {"none", "cancelled"}] BY DEF IInv, TypeOK
<1>4. \A i \in (0 + 1)..Len(l) : rows[l[i]] = "none" BY <1>2
<1>5. Flying(l, 0, rows) = {} BY DEF Flying, Part
<1>6. 0 = Cardinality(Flying(l, 0, rows)) BY ONLY <1>5, FS_EmptySet
<1>7. 0 \in 0..Len(l) /\ 0 \in 0..Cap /\ 0 \in Nat BY <1>2, CapFacts
<1>8. 0 + 0 = 0 /\ (0 < Len(l) => 0 = 0) /\ FALSE \in BOOLEAN OBVIOUS
<1> HIDE DEF hosts, rows
<1>9. Pumped(l, 0, 0, rows, FALSE)
  BY ONLY l \in Lists, <1>1, <1>3, <1>4, <1>6, <1>7, <1>8, PumpFacts
<1> QED BY ONLY <1>9 DEF rows, Blank, Named

LEMMA ConnectManyInv ==
    ASSUME IInv, NEW l \in Lists, ConnectMany(l)
    PROVE  IInv'
<1> DEFINE rows  == Blank(l)
           hosts == Named(l)
<1>1. fails' = Cleared(hosts) /\ told' = None BY DEF ConnectMany, Named
<1>8. \A h \in Hosts \ hosts : rows[h] = results[h] BY DEF Blank
<1>9. Pumped(l, 0, 0, rows, FALSE) BY ConnectManyPumped
<1> HIDE DEF hosts, rows
<1>10. TypeOK' BY <1>1, <1>9 DEF IInv, TypeOK, Cleared, Pumped
<1>11. BatchInv'
  <2>1. CASE busy' BY ONLY <2>1, <1>1, <1>9 DEF BatchInv, Busy, Pumped
  <2>2. CASE ~busy' BY ONLY <2>2, <1>1, <1>9 DEF BatchInv, Idle, Pumped
  <2> QED BY <2>1, <2>2
<1>12. CardIsCurrent'
  <2> SUFFICES ASSUME NEW h \in fails' PROVE results'[h] = "failed"
    BY DEF CardIsCurrent
  <2>1. h \in fails /\ h \notin hosts /\ h \in Hosts BY <1>1 DEF Cleared, IInv, TypeOK
  <2>2. rows[h] = "failed" BY <2>1, <1>8 DEF IInv, CardIsCurrent
  <2> QED BY <2>1, <2>2, <1>9 DEF Pumped
<1> QED BY <1>9, <1>10, <1>11, <1>12 DEF IInv, Pumped

\* The rows that Settle hands to the pump, and one host less under way.
LEMMA SettleFacts ==
    ASSUME IInv, NEW h, NEW outcome \in Outcomes, h \in Connecting,
           NEW rows, rows = [results EXCEPT ![h] = outcome]
    PROVE  /\ busy /\ h \in Hosts /\ results[h] = "none"
           /\ inflight - 1 \in 0..Cap
           /\ rows \in [Hosts -> Outcomes \cup {"none", "cancelled"}]
           /\ Unsettled(list, next, rows)
           /\ inflight - 1 = Cardinality(Flying(list, next, rows))
           /\ \A g \in Hosts : rows[g] = IF g = h THEN outcome ELSE results[g]
<1> DEFINE old == Flying(list, next, results)
<1>1. /\ Len(list) \in Nat /\ list \in [1..Len(list) -> Hosts]
      /\ \A i, j \in 1..Len(list) : list[i] = list[j] => i = j
  BY ListFacts DEF IInv, TypeOK
<1>2. next \in Nat /\ next <= Len(list) BY <1>1 DEF IInv, TypeOK
<1>3. busy /\ h \in Hosts /\ h \in old BY UnderWay DEF IInv
<1>4. PICK j \in 1..next : h = list[j] BY UnderWay DEF IInv
<1>5. results[h] = "none" BY <1>3 DEF Flying
<1>6. results \in [Hosts -> Outcomes \cup {"none", "cancelled"}] BY DEF IInv, TypeOK
<1>7. \A g \in Hosts : rows[g] = IF g = h THEN outcome ELSE results[g] BY <1>6
<1>8. rows \in [Hosts -> Outcomes \cup {"none", "cancelled"}] BY <1>6
<1>9. Unsettled(list, next, rows)
  <2> SUFFICES ASSUME NEW i \in (next + 1)..Len(list) PROVE rows[list[i]] = "none"
    BY DEF Unsettled
  <2>1. i \in 1..Len(list) /\ i # j /\ j \in 1..Len(list) BY <1>1, <1>2
  <2>2. list[i] \in Hosts /\ list[i] # h BY <1>1, <1>4, <2>1
  <2>3. results[list[i]] = "none" BY DEF IInv, Waits, Unsettled
  <2> QED BY <1>7, <2>2, <2>3
<1>10. Flying(list, next, rows) = old \ {h}
  <2>1. outcome # "none" BY DEF Outcomes
  <2>2. Part(list, 0, next) \subseteq Hosts BY <1>1, <1>2 DEF Part
  <2> QED BY <1>7, <2>1, <2>2 DEF Flying
<1>11. IsFiniteSet(old)
  <2>1. old \in SUBSET Part(list, 0, next) BY DEF Flying
  <2>2. IsFiniteSet(Part(list, 0, next)) BY <1>1, <1>2, PartSize DEF IInv, TypeOK
  <2> HIDE DEF old
  <2> QED BY ONLY <2>1, <2>2, FS_Subset
<1>12. inflight = Cardinality(old) /\ inflight \in 0..Cap BY DEF IInv, TypeOK, Counted
<1> HIDE DEF old
<1>13. Cardinality(old \ {h}) = Cardinality(old) - 1 /\ Cardinality(old \ {h}) \in Nat
  <2>1. IsFiniteSet(old \ {h}) /\ Cardinality(old \ {h}) = Cardinality(old) - 1
    BY ONLY <1>3, <1>11, FS_RemoveElement
  <2>2. Cardinality(old \ {h}) \in Nat BY ONLY <2>1, FS_CardinalityType
  <2> QED BY <2>1, <2>2
<1>14. inflight - 1 \in 0..Cap /\ inflight - 1 = Cardinality(Flying(list, next, rows))
  BY ONLY <1>10, <1>12, <1>13, CapFacts
<1> QED BY <1>3, <1>5, <1>7, <1>8, <1>9, <1>14

LEMMA SettlePumped ==
    ASSUME IInv, NEW h \in Hosts, NEW outcome \in Outcomes, Settle(h, outcome)
    PROVE  LET rows == [results EXCEPT ![h] = outcome]
           IN  /\ Pumped(list, next, dropped, rows, cancel)
               /\ Unsettled(list, next, rows)
               /\ busy /\ h \in Connecting /\ results[h] = "none"
               /\ \A g \in Hosts : rows[g] = IF g = h THEN outcome ELSE results[g]
<1> DEFINE rows == [results EXCEPT ![h] = outcome]
           flying == inflight - 1
<1>1. /\ h \in Connecting
      /\ Pump(list, next, flying, started, dropped, rows, cancel)
  BY DEF Settle, SlotFreed
<1>2. /\ busy /\ results[h] = "none"
      /\ flying \in 0..Cap
      /\ rows \in [Hosts -> Outcomes \cup {"none", "cancelled"}]
      /\ \A i \in (next + 1)..Len(list) : rows[list[i]] = "none"
      /\ flying = Cardinality(Flying(list, next, rows))
      /\ \A g \in Hosts : rows[g] = IF g = h THEN outcome ELSE results[g]
  <2>1. rows = [results EXCEPT ![h] = outcome] OBVIOUS
  <2>2. h \in Connecting /\ IInv /\ outcome \in Outcomes BY <1>1
  <2>3. flying = inflight - 1 OBVIOUS
  <2> HIDE DEF rows, flying
  <2>4. busy /\ results[h] = "none" /\ inflight - 1 \in 0..Cap
    BY ONLY <2>1, <2>2, SettleFacts
  <2>5. rows \in [Hosts -> Outcomes \cup {"none", "cancelled"}] BY ONLY <2>1, <2>2, SettleFacts
  <2>7. Unsettled(list, next, rows) BY ONLY <2>1, <2>2, SettleFacts
  <2>8. inflight - 1 = Cardinality(Flying(list, next, rows)) BY ONLY <2>1, <2>2, SettleFacts
  <2>6. \A g \in Hosts : rows[g] = IF g = h THEN outcome ELSE results[g]
    BY ONLY <2>1, <2>2, SettleFacts
  <2> QED BY ONLY <2>3, <2>4, <2>5, <2>6, <2>7, <2>8 DEF Unsettled
<1>3. Busy BY <1>2 DEF IInv, BatchInv
<1>4. /\ list \in Lists /\ next \in 0..Len(list) /\ started \in Nat /\ dropped \in Nat
      /\ cancel \in BOOLEAN /\ Len(list) \in Nat
  BY ListFacts DEF IInv, TypeOK
<1>5. started + dropped = next /\ (next < Len(list) => dropped = 0)
  BY <1>3 DEF Busy, IInv, Waits
<1> HIDE DEF rows, flying
<1>6. Pumped(list, next, dropped, rows, cancel)
  BY ONLY <1>1, <1>2, <1>4, <1>5, PumpFacts
<1>7. Unsettled(list, next, rows) BY <1>2 DEF Unsettled
<1> QED BY ONLY <1>1, <1>2, <1>6, <1>7 DEF rows

LEMMA SettleInv ==
    ASSUME IInv, NEW h \in Hosts, NEW outcome \in Outcomes, Settle(h, outcome)
    PROVE  IInv'
<1> DEFINE rows == [results EXCEPT ![h] = outcome]
<1>1. /\ fails' = IF outcome = "failed" THEN fails \cup {h}
                  ELSE IF outcome = "ok" THEN Cleared({h}) ELSE fails
      /\ told' = told
  BY DEF Settle
<1>2. /\ busy /\ results[h] = "none"
      /\ \A g \in Hosts : rows[g] = IF g = h THEN outcome ELSE results[g]
  BY SettlePumped
<1>3. Busy BY <1>2 DEF IInv, BatchInv
<1>4. next \in 0..Len(list) /\ dropped \in Nat /\ cancel \in BOOLEAN /\ Len(list) \in Nat
  BY ListFacts DEF IInv, TypeOK
<1>6. Pumped(list, next, dropped, rows, cancel) BY SettlePumped
<1> HIDE DEF rows
<1>7. TypeOK'
  <2>1. fails' \subseteq Hosts BY <1>1 DEF IInv, TypeOK, Cleared
  <2>2. told' \in Nat \cup {None} BY <1>1 DEF IInv, TypeOK
  <2>3. cancel' \in BOOLEAN BY <1>6, <1>4 DEF Pumped
  <2> QED BY ONLY <1>6, <2>1, <2>2, <2>3 DEF TypeOK, Pumped
<1>8. BatchInv'
  <2>1. CASE cancel /\ busy'
    <3>1. told = dropped + Len(list) - next BY <2>1, <1>3 DEF Busy
    <3>2. /\ next' = Len(list) /\ list' = list /\ queued' = Len(list) - next'
          /\ dropped' = dropped + (Len(list) - next) /\ started' + dropped' = next'
      BY ONLY <2>1, <1>6 DEF Pumped
    <3>3. queued' = 0 /\ dropped' = told' BY ONLY <3>1, <3>2, <1>1, <1>4
    <3>4. told' = dropped' + Len(list') - next' BY <3>2, <3>3, <1>4, <1>6 DEF Pumped
    <3> QED BY <2>1, <3>2, <3>3, <3>4, <1>6 DEF Pumped, BatchInv, Busy
  <2>2. CASE cancel /\ ~busy'
    <3>1. told = dropped + Len(list) - next BY <2>2, <1>3 DEF Busy
    <3>2. told' = dropped' BY <2>2, <3>1, <1>1, <1>4, <1>6 DEF Pumped
    <3> QED BY <2>2, <3>2, <1>6 DEF Pumped, BatchInv, Idle
  <2>3. CASE ~cancel /\ busy'
    <3>1. told = None /\ dropped = 0 BY <2>3, <1>3 DEF Busy
    <3> QED BY <2>3, <3>1, <1>1, <1>6 DEF Pumped, BatchInv, Busy
  <2>4. CASE ~cancel /\ ~busy'
    <3>1. told = None BY <2>4, <1>3 DEF Busy
    <3> QED BY <2>4, <3>1, <1>1, <1>6 DEF Pumped, BatchInv, Idle
  <2> QED BY <2>1, <2>2, <2>3, <2>4
<1>9. CardIsCurrent'
  <2> SUFFICES ASSUME NEW g \in fails' PROVE results'[g] = "failed"
    BY DEF CardIsCurrent
  <2>1. g \in Hosts BY <1>1 DEF IInv, TypeOK, Cleared
  <2>2. rows[g] = "failed"
    <3>1. CASE g = h
      <4>1. h \notin fails BY <1>2 DEF IInv, CardIsCurrent
      <4>2. outcome = "failed" BY <4>1, <3>1, <1>1 DEF Cleared
      <4> QED BY <4>2, <3>1, <1>2
    <3>2. CASE g # h
      <4>1. g \in fails BY <3>2, <1>1 DEF Cleared
      <4> QED BY <4>1, <3>2, <2>1, <1>2 DEF IInv, CardIsCurrent
    <3> QED BY <3>1, <3>2
  <2> QED BY <2>1, <2>2, <1>6 DEF Pumped
<1> QED BY <1>6, <1>7, <1>8, <1>9 DEF IInv, Pumped

LEMMA CancelInv ==
    ASSUME IInv, CancelBatchQueue
    PROVE  IInv'
<1> USE DEF CancelBatchQueue
<1>1. busy /\ Busy BY DEF IInv, BatchInv, Idle, Busy
<1>2. Len(list) \in Nat /\ next \in 0..Len(list) BY ListFacts DEF IInv, TypeOK
<1>3. queued = Len(list) - next /\ next < Len(list) /\ dropped = 0
  BY <1>1, <1>2 DEF Busy, IInv, Waits
<1>4. TypeOK' BY <1>3 DEF IInv, TypeOK
<1>5. Counted' /\ Waits' BY DEF IInv, Counted, Waits, Unsettled
<1>6. BatchInv' BY <1>1, <1>2, <1>3 DEF BatchInv, Busy
<1>7. CardIsCurrent' BY DEF IInv, CardIsCurrent
<1> QED BY <1>4, <1>5, <1>6, <1>7 DEF IInv

LEMMA DismissInv ==
    ASSUME IInv, NEW hosts, Dismiss(hosts)
    PROVE  IInv'
<1>1. TypeOK' BY DEF Dismiss, IInv, TypeOK
<1>2. Counted' /\ Waits' BY DEF Dismiss, IInv, Counted, Waits, Unsettled
<1>3. BatchInv' BY DEF Dismiss, IInv, BatchInv, Busy, Idle
<1>4. CardIsCurrent' BY DEF Dismiss, IInv, CardIsCurrent
<1> QED BY <1>1, <1>2, <1>3, <1>4 DEF IInv

LEMMA NextInv == IInv /\ [Next]_vars => IInv'
<1> SUFFICES ASSUME IInv, [Next]_vars PROVE IInv'
  OBVIOUS
<1>1. CASE \E l \in Lists : ConnectMany(l) BY <1>1, ConnectManyInv
<1>2. CASE \E h \in Hosts, outcome \in Outcomes : Settle(h, outcome) BY <1>2, SettleInv
<1>3. CASE CancelBatchQueue BY <1>3, CancelInv
<1>4. CASE (\E h \in Hosts : Dismiss({h})) \/ Dismiss(Hosts) BY <1>4, DismissInv
<1>5. CASE UNCHANGED vars
  BY <1>5 DEF vars, IInv, TypeOK, Counted, Waits, Unsettled, BatchInv, Busy, Idle, CardIsCurrent
<1> QED BY <1>1, <1>2, <1>3, <1>4, <1>5 DEF Next

LEMMA InvHolds == Spec => []IInv
<1> QED BY InitInv, NextInv, PTL DEF Spec

\* The counters and the queue of a batch stay within their bounds: never more than
\* Cap connects, and never fewer than none.
THEOREM TypeCorrect == Spec => []TypeOK
<1>1. IInv => TypeOK BY DEF IInv
<1> QED BY <1>1, InvHolds, PTL

\* The toast of a cancel names as many hosts as are dropped in the end.
THEOREM ToldIsDroppedHolds == Spec => []ToldIsDropped
<1>1. IInv => ToldIsDropped
  <2> SUFFICES ASSUME IInv, told # None, dropped > 0 \/ ~busy PROVE told = dropped
    BY DEF ToldIsDropped
  <2>1. Len(list) \in Nat /\ next \in 0..Len(list) /\ dropped \in Nat
    BY ListFacts DEF IInv, TypeOK
  <2>2. CASE ~busy BY <2>2 DEF IInv, BatchInv, Idle
  <2>3. CASE busy /\ dropped > 0
    <3>1. cancel /\ told = dropped + Len(list) - next BY <2>3 DEF IInv, BatchInv, Busy
    <3>2. next = Len(list) BY <2>1, <2>3 DEF IInv, Waits
    <3> QED BY <2>1, <3>1, <3>2
  <2> QED BY <2>2, <2>3
<1> QED BY <1>1, InvHolds, PTL

\* The card of failures shows no host that did better since.
THEOREM CardIsCurrentHolds == Spec => []CardIsCurrent
<1>1. IInv => CardIsCurrent BY DEF IInv
<1> QED BY <1>1, InvHolds, PTL

-----------------------------------------------------------------------------
(* The refinement                                                          *)

\* What became of a host, by its place in the list.
PlacesTell ==
    /\ \A h \in Part(list, next, Len(list)) : Fate(h) = "queued"
    /\ \A h \in Hosts \ Part(list, next, Len(list)) :
          Fate(h) = IF h \in Flying(list, next, results) THEN "running" ELSE results[h]

LEMMA FateFacts ==
    ASSUME IInv
    PROVE  /\ \A h \in Part(list, next, Len(list)) :
                 h \in Hosts /\ Fate(h) = "queued" /\ results[h] = "none"
           /\ \A h \in Hosts \ Part(list, next, Len(list)) :
                 Fate(h) = IF h \in Flying(list, next, results) THEN "running" ELSE results[h]
           /\ Promise!Waiting = Part(list, next, Len(list))
           /\ Promise!Running = Flying(list, next, results)
<1>1. /\ Len(list) \in Nat /\ list \in [1..Len(list) -> Hosts]
      /\ \A i, j \in 1..Len(list) : list[i] = list[j] => i = j
  BY ListFacts DEF IInv, TypeOK
<1>2. next \in Nat /\ next <= Len(list) BY <1>1 DEF IInv, TypeOK
<1>3. Ranks(next + 1, Len(list)) = Part(list, next, Len(list)) BY DEF Ranks, Part
<1>4. Connecting = Flying(list, next, results) /\ Connecting \subseteq Hosts
  BY UnderWay DEF IInv
<1>5. \A h \in Part(list, next, Len(list)) : h \in Hosts /\ results[h] = "none"
  BY <1>1, <1>2 DEF Part, IInv, Waits, Unsettled
<1>6. \A h \in Part(list, next, Len(list)) : h \notin Part(list, 0, next)
  BY <1>1, <1>2 DEF Part
<1>7. \A h \in Hosts : results[h] \notin {"queued", "running"}
  BY DEF IInv, TypeOK, Outcomes
<1>8. \A h : Fate(h) = IF h \in Part(list, next, Len(list)) THEN "queued"
                       ELSE IF h \in Flying(list, next, results) THEN "running" ELSE results[h]
  BY <1>3, <1>4 DEF Fate
<1>9. Flying(list, next, results) \subseteq Part(list, 0, next) BY DEF Flying
<1>10. Promise!Waiting = Part(list, next, Len(list))
  <2>1. Promise!Waiting = {h \in Hosts : Fate(h) = "queued"} BY DEF Promise!Waiting
  <2> QED BY <1>5, <1>7, <1>8, <2>1
<1>11. Promise!Running = Flying(list, next, results)
  <2>1. Promise!Running = {h \in Hosts : Fate(h) = "running"} BY DEF Promise!Running
  <2> QED BY <1>4, <1>6, <1>7, <1>8, <1>9, <2>1
<1> QED BY <1>5, <1>8, <1>10, <1>11

LEMMA PlacesHold == IInv => PlacesTell
BY FateFacts DEF PlacesTell

\* BatchPromise counts with the Cardinality that this module has.
LEMMA SameSize == \A S : Promise!Cardinality(S) = Cardinality(S)
BY DEF Cardinality, Promise!Cardinality

LEMMA SlotsHold ==
    IInv => /\ Promise!Slots
            /\ Promise!TypeOK
            /\ busy <=> Promise!Waiting \cup Promise!Running # {}
<1> SUFFICES ASSUME IInv
             PROVE  /\ Promise!Slots
                    /\ Promise!TypeOK
                    /\ busy <=> Promise!Waiting \cup Promise!Running # {}
  OBVIOUS
<1>1. Len(list) \in Nat /\ next \in Nat /\ next <= Len(list) /\ inflight \in Nat /\ inflight <= Cap
  BY ListFacts, CapFacts DEF IInv, TypeOK
<1>2. Cardinality(Promise!Running) = inflight BY FateFacts DEF IInv, Counted
<1>3. Promise!Waiting # {} => next < Len(list)
  <2>1. ASSUME ~(next < Len(list)) PROVE Part(list, next, Len(list)) = {}
    BY <1>1, <2>1 DEF Part
  <2>2. Promise!Waiting = Part(list, next, Len(list)) BY FateFacts
  <2> QED BY <2>1, <2>2
<1>4. Promise!Slots BY <1>1, <1>2, <1>3, SameSize DEF Promise!Slots, IInv, Waits
<1>5. Promise!TypeOK
  <2>1. \A h \in Hosts : Fate(h) \in Promise!Settled \cup {"queued", "running"}
    <3>1. \A h \in Hosts : results[h] \in Promise!Settled
      BY DEF IInv, TypeOK, Outcomes, Promise!Settled, Promise!Outcomes
    <3> QED BY <3>1, FateFacts
  <2>2. cancel \in BOOLEAN BY DEF IInv, TypeOK
  <2> QED BY <2>1, <2>2 DEF Promise!TypeOK
<1>6. busy => Promise!Running # {}
  <2>1. busy => Cardinality(Promise!Running) # 0 BY <1>1, <1>2 DEF IInv, Waits
  <2> QED BY <2>1, FS_EmptySet
<1>7. ~busy => Promise!Waiting = {} /\ Promise!Running = {}
  <2>1. ~busy => list = <<>> /\ next = 0 BY DEF IInv, BatchInv, Idle
  <2> QED BY <2>1, FateFacts, EmptyList DEF Part, Flying
<1> QED BY <1>4, <1>5, <1>6, <1>7

\* What a run of the pump makes of every host.
Fated(l, n, rows, stop) ==
    /\ \A h \in Part(l, n, Len(l)) :
          Fate(h)' \in (IF stop THEN {"cancelled"} ELSE {"queued", "running"})
    /\ \A h \in Hosts \ Part(l, n, Len(l)) :
          Fate(h)' = IF h \in Flying(l, n, rows) THEN "running" ELSE rows[h]

LEMMA PumpFates ==
    ASSUME NEW l \in Lists, NEW n \in 0..Len(l), NEW gone \in Nat, NEW stop \in BOOLEAN,
           NEW rows, Pumped(l, n, gone, rows, stop), IInv', Unsettled(l, n, rows)
    PROVE  Fated(l, n, rows, stop)
<1>1. /\ Len(l) \in Nat /\ l \in [1..Len(l) -> Hosts]
      /\ \A i, j \in 1..Len(l) : l[i] = l[j] => i = j
  BY ListFacts
<1> DEFINE wait == Part(l, n, Len(l))
<1>2. PlacesTell' BY PlacesHold, PTL
<1>3. \A h \in wait : h \in Hosts /\ rows[h] = "none" /\ \E i \in (n + 1)..Len(l) : h = l[i]
  BY <1>1 DEF Part, Unsettled
<1>4. /\ \A h \in Hosts \ wait : results'[h] = rows[h]
      /\ \A h \in wait : results'[h] = IF stop THEN "cancelled" ELSE rows[h]
  BY DEF Pumped
<1>5. CASE busy'
  <2>1. /\ list' = l /\ next' \in 0..Len(l) /\ n <= next' /\ (stop => next' = Len(l))
    BY <1>5 DEF Pumped
  <2> DEFINE late == Part(l, next', Len(l))
             fly  == Flying(l, next', results')
  <2>2. /\ \A h \in late : Fate(h)' = "queued"
        /\ \A h \in Hosts \ late : Fate(h)' = IF h \in fly THEN "running" ELSE results'[h]
    <3>1. Part(list, next, Len(list))' = late /\ Flying(list, next, results)' = fly BY <2>1
    <3> HIDE DEF late, fly
    <3> QED BY ONLY <1>2, <3>1 DEF PlacesTell
  <2>3. late \subseteq wait
    <3>1. next' \in Nat /\ n \in Nat /\ n <= next' /\ Len(l) \in Nat BY <1>1, <2>1
    <3>2. (next' + 1)..Len(l) \subseteq (n + 1)..Len(l) BY ONLY <3>1
    <3> QED BY ONLY <3>2 DEF Part, wait, late
  <2>4. ASSUME NEW h \in wait
        PROVE  Fate(h)' \in (IF stop THEN {"cancelled"} ELSE {"queued", "running"})
    <3>1. CASE stop
      <4>1. late = {}
        <5>1. next' = Len(l) BY <3>1, <2>1
        <5>2. (Len(l) + 1)..Len(l) = {} BY <1>1
        <5> QED BY ONLY <5>1, <5>2 DEF Part
      <4>2. results'[h] = "cancelled" /\ h \in Hosts BY <1>3, <1>4, <3>1
      <4>3. h \notin fly BY <4>2 DEF Flying
      <4> HIDE DEF late, fly
      <4> QED BY <2>2, <3>1, <4>1, <4>2, <4>3
    <3>2. CASE ~stop
      <4>1. results'[h] = "none" /\ h \in Hosts BY <1>3, <1>4, <3>2
      <4>2. PICK i \in (n + 1)..Len(l) : h = l[i] BY <1>3
      <4>3. CASE i <= next'
        <5>1. h \in Part(l, 0, next') BY <1>1, <2>1, <4>2, <4>3 DEF Part
        <5>2. h \in fly BY <4>1, <5>1 DEF Flying
        <5>3. h \notin late BY <1>1, <2>1, <4>2, <4>3 DEF Part
        <5> HIDE DEF late, fly
        <5> QED BY <2>2, <3>2, <4>1, <5>2, <5>3
      <4>4. CASE ~(i <= next')
        <5>1. h \in late BY <1>1, <2>1, <4>2, <4>4 DEF Part
        <5> HIDE DEF late, fly
        <5> QED BY <2>2, <3>2, <5>1
      <4> QED BY <4>3, <4>4
    <3> QED BY <3>1, <3>2
  <2>5. ASSUME NEW h \in Hosts, h \notin wait
        PROVE  Fate(h)' = IF h \in Flying(l, n, rows) THEN "running" ELSE rows[h]
    <3>1. results'[h] = rows[h] /\ h \notin late BY <1>4, <2>3, <2>5
    <3>2. h \in Part(l, 0, next') <=> h \in Part(l, 0, n)
      BY <1>1, <2>1, <2>5 DEF Part
    <3>3. h \in fly <=> h \in Flying(l, n, rows) BY <3>1, <3>2 DEF Flying
    <3> HIDE DEF late, fly
    <3> QED BY <2>2, <3>1, <3>3
  <2> QED BY <2>4, <2>5 DEF Fated
<1>6. CASE ~busy'
  <2>1. list' = <<>> /\ next' = 0 /\ (stop \/ n = Len(l)) /\ Flying(l, n, rows) = {}
    BY <1>6 DEF Pumped
  <2>2. Part(list, next, Len(list))' = {} /\ Flying(list, next, results)' = {}
    BY <2>1, EmptyList DEF Part, Flying
  <2>3. \A h \in Hosts : Fate(h)' = results'[h] BY <1>2, <2>2 DEF PlacesTell
  <2>4. n = Len(l) => wait = {} BY <1>1 DEF Part
  <2> HIDE DEF wait
  <2>5. ASSUME NEW h \in wait PROVE stop /\ Fate(h)' = "cancelled"
    <3>1. stop BY <2>1, <2>4
    <3> QED BY <1>3, <1>4, <2>3, <3>1
  <2>6. \A h \in Hosts \ wait : Fate(h)' = rows[h] /\ h \notin Flying(l, n, rows)
    BY <1>4, <2>1, <2>3
  <2> QED BY <2>5, <2>6 DEF wait, Fated
<1> QED BY <1>5, <1>6

LEMMA InitMaps == Init => Promise!Init
<1> SUFFICES ASSUME Init PROVE Promise!Init
  OBVIOUS
<1>1. Part(list, next, Len(list)) = {} /\ Flying(list, next, results) = {}
  BY EmptyList DEF Init, Part, Flying
<1>2. \A h \in Hosts : Fate(h) = "none" BY <1>1, InitInv, FateFacts DEF Init
<1> QED BY <1>2 DEF Promise!Init, Init

LEMMA BeginMaps ==
    ASSUME IInv, IInv', NEW l \in Lists, ConnectMany(l)
    PROVE  Promise!Begin
<1> DEFINE hosts == Named(l)
           rows  == Blank(l)
<1> USE DEF Named, Blank
<1>1. l # <<>> /\ ~busy /\ Pumped(l, 0, 0, rows, FALSE) BY ConnectManyPumped DEF ConnectMany
<1>2. Promise!Waiting \cup Promise!Running = {} BY <1>1, SlotsHold
<1>3. Len(l) \in Nat /\ l \in [1..Len(l) -> Hosts] BY ListFacts
<1>4. hosts = Part(l, 0, Len(l)) BY <1>3 DEF Part
<1>5. Unsettled(l, 0, rows) BY <1>3 DEF Unsettled
<1>6. Flying(l, 0, rows) = {} BY DEF Flying, Part
<1>7. \A h \in Hosts \ hosts : rows[h] = results[h] OBVIOUS
<1>8. Part(list, next, Len(list)) = {} /\ Flying(list, next, results) = {}
  BY <1>2, FateFacts
<1> HIDE DEF hosts, rows
<1>9. 0 \in 0..Len(l) /\ 0 \in Nat /\ FALSE \in BOOLEAN BY <1>3
<1>10. /\ \A h \in hosts : Fate(h)' \in {"queued", "running"}
       /\ \A h \in Hosts \ hosts : Fate(h)' = rows[h]
  <2>1. Fated(l, 0, rows, FALSE)
    BY ONLY l \in Lists, IInv', <1>1, <1>5, <1>9, PumpFates
  <2> QED BY ONLY <1>4, <1>6, <2>1 DEF Fated
<1>11. \A h \in Hosts : Fate(h)' \in {"queued", "running", Fate(h)}
  <2>1. \A h \in Hosts : Fate(h) = results[h] BY <1>8, FateFacts
  <2> QED BY <1>7, <1>10, <2>1
<1>12. cancel' = FALSE BY <1>1 DEF Pumped
<1> QED BY <1>2, <1>11, <1>12 DEF Promise!Begin

LEMMA ProceedMaps ==
    ASSUME IInv, IInv', NEW h \in Hosts, NEW outcome \in Outcomes, Settle(h, outcome)
    PROVE  Promise!Proceed
<1> DEFINE rows == [results EXCEPT ![h] = outcome]
           wait == Part(list, next, Len(list))
<1>1. /\ Pumped(list, next, dropped, rows, cancel) /\ Unsettled(list, next, rows)
      /\ h \in Connecting /\ results[h] = "none"
      /\ \A g \in Hosts : rows[g] = IF g = h THEN outcome ELSE results[g]
  BY SettlePumped
<1>2. list \in Lists /\ next \in 0..Len(list) /\ dropped \in Nat /\ cancel \in BOOLEAN
  BY DEF IInv, TypeOK
<1>3. h \in Flying(list, next, results) BY <1>1, UnderWay DEF IInv
<1> HIDE DEF rows
<1>4. /\ \A g \in Part(list, next, Len(list)) :
            Fate(g)' \in (IF cancel THEN {"cancelled"} ELSE {"queued", "running"})
      /\ \A g \in Hosts \ Part(list, next, Len(list)) :
            Fate(g)' = IF g \in Flying(list, next, rows) THEN "running" ELSE rows[g]
  <2>1. Fated(list, next, rows, cancel) BY ONLY <1>1, <1>2, IInv', PumpFates
  <2> QED BY <2>1 DEF Fated
<1>5. Flying(list, next, rows) = Flying(list, next, results) \ {h}
  <2>1. outcome # "none" BY DEF Outcomes
  <2>2. Part(list, 0, next) \subseteq Hosts BY <1>2, Parts
  <2> QED BY <1>1, <2>1, <2>2 DEF Flying
<1>6. ASSUME NEW g \in Hosts PROVE Fate(g)' \in Promise!After(Fate(g))
  <2> DEFINE f == Fate(g)
  <2>1. CASE g \in wait
    <3>1. Fate(g) = "queued" BY <2>1, FateFacts
    <3>2. Promise!After("queued") = {"queued", IF cancel THEN "cancelled" ELSE "running"}
      BY DEF Promise!After
    <3> QED BY <1>4, <2>1, <3>1, <3>2
  <2>2. CASE g \notin wait /\ g \in Flying(list, next, results)
    <3>1. Fate(g) = "running" BY <2>2, FateFacts
    <3>2. Promise!After("running") = {"running", "ok", "failed", "skipped"}
      BY DEF Promise!After, Promise!Outcomes
    <3>3. CASE g = h BY <1>1, <1>4, <1>5, <2>2, <3>1, <3>2, <3>3 DEF Outcomes
    <3>4. CASE g # h BY <1>4, <1>5, <2>2, <3>1, <3>2, <3>4
    <3> QED BY <3>3, <3>4
  <2>3. CASE g \notin wait /\ g \notin Flying(list, next, results)
    <3>1. Fate(g) = results[g] /\ g # h BY <2>3, <1>3, FateFacts
    <3>2. Fate(g)' = results[g] BY <1>1, <1>4, <1>5, <2>3, <3>1
    <3>3. results[g] # "queued" /\ results[g] # "running" BY DEF IInv, TypeOK, Outcomes
    <3>4. Promise!After(results[g]) = {results[g]} BY <3>3 DEF Promise!After
    <3> QED BY <3>1, <3>2, <3>4
  <2> QED BY <2>1, <2>2, <2>3
<1>7. cancel' = (cancel /\ (Promise!Waiting \cup Promise!Running)' # {})
  <2>1. (busy <=> Promise!Waiting \cup Promise!Running # {})' BY SlotsHold, PTL
  <2>2. cancel' = (cancel /\ busy') BY <1>1 DEF Pumped
  <2> QED BY ONLY <2>1, <2>2, Zenon
<1> QED BY <1>6, <1>7 DEF Promise!Proceed

LEMMA StepMaps == IInv /\ IInv' /\ [Next]_vars => [Promise!Next]_Promise!vars
<1> SUFFICES ASSUME IInv, IInv', [Next]_vars PROVE [Promise!Next]_Promise!vars
  OBVIOUS
<1>1. Promise!Slots' /\ Promise!TypeOK' BY SlotsHold, PTL
<1>2. ASSUME Promise!Begin \/ Promise!Stop \/ Promise!Proceed PROVE Promise!Next
  BY <1>1, <1>2 DEF Promise!Next, Promise!TypeOK
<1>3. CASE \E l \in Lists : ConnectMany(l) BY <1>2, <1>3, BeginMaps
<1>4. CASE \E h \in Hosts, outcome \in Outcomes : Settle(h, outcome) BY <1>2, <1>4, ProceedMaps
<1>5. ASSUME UNCHANGED <<list, next, results>> PROVE \A h \in Hosts : Fate(h)' = Fate(h)
  BY <1>5 DEF Fate, Connecting, Ranks
<1>6. CASE CancelBatchQueue
  <2>1. UNCHANGED <<list, next, results>> /\ ~cancel /\ cancel' = TRUE /\ queued > 0
    BY <1>6 DEF CancelBatchQueue
  <2>2. Promise!Waiting # {}
    <3>1. busy /\ Busy BY <2>1 DEF IInv, BatchInv, Idle
    <3>2. Len(list) \in Nat /\ next \in 0..Len(list) BY ListFacts DEF IInv, TypeOK
    <3>3. next < Len(list) BY <2>1, <3>1, <3>2 DEF Busy
    <3>4. list[next + 1] \in Part(list, next, Len(list)) BY <3>2, <3>3 DEF Part
    <3> QED BY <3>4, FateFacts
  <2> QED BY <1>2, <1>5, <2>1, <2>2 DEF Promise!Stop
<1>7. CASE \/ \E h \in Hosts : Dismiss({h})
           \/ Dismiss(Hosts)
           \/ UNCHANGED vars
  <2>1. UNCHANGED <<list, next, results, cancel>> BY <1>7 DEF Dismiss, vars
  <2> QED BY <1>5, <2>1 DEF Promise!vars
<1> QED BY <1>3, <1>4, <1>6, <1>7 DEF Next

\* The pump with its counters implements the promise of a batch: no idle slot, no
\* host twice, and a cancel that spares what was handed out.
THEOREM PromiseKept == Spec => KeepsPromise
<1> QED BY InitMaps, StepMaps, InvHolds, PTL DEF Spec, KeepsPromise, Promise!Spec
=============================================================================
