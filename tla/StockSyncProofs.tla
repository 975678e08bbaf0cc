--------------------------- MODULE StockSyncProofs ---------------------------
(***************************************************************************)
(* What the run of StockSync checks on a small instance, proved for any    *)
(* SKUs, any finite set of orders, any stock and any number of faults.     *)
(***************************************************************************)
EXTENDS StockSync, FiniteSetTheorems, TLAPS

-----------------------------------------------------------------------------
(* Quantities.                                                             *)

\* math.Round of any number of halves is an integer; it keeps the order, and
\* brings nothing below zero that was not.
LEMMA RoundFacts ==
    /\ \A q \in Int : Round(q) \in Int
    /\ \A p, q \in Int : p <= q => Round(p) <= Round(q)
    /\ \A q \in Int : q >= 0 => Round(q) >= 0 /\ Round(q) <= q
    /\ \A q \in Int : q < 0 => Round(q) < 0
BY DEF Round

\* A whole unit less is one less after rounding, except across zero, where
\* half a unit becomes minus half a unit.
LEMMA RoundLess ==
    \A q \in Int : q # 1 => Round(q - 2) = Round(q) - 1
BY DEF Round

LEMMA RoundOne == Round(1) = 1
BY DEF Round

\* The same for k units.
LEMMA RoundShift ==
    ASSUME NEW q \in Int, NEW k \in Nat
    PROVE  Round(q - 2 * k) >= Round(q) - k \/ Round(q) <= k
BY DEF Round

\* Stock read as q, which has fallen since by a unit for each of i orders that
\* are still reserved and by g units more.  Less the i and n more reservations it
\* exceeds what is left beside n and u units by no more than the g and the u.
\* Without the reservations it exceeds it by those as well.
LEMMA ReadingIsCovered ==
    ASSUME NEW q \in Int, NEW a \in Int, NEW i \in Nat, NEW g \in Nat, NEW n \in Nat,
           NEW u \in Nat, q <= a + 2 * i + 2 * g
    PROVE  /\ AtLeastZero(Round(q) - (n + i)) <= AtLeastZero(Round(a) - (n + u)) + (g + u)
           /\ AtLeastZero(Round(q)) <= AtLeastZero(Round(a) - (n + u)) + (g + u + (n + i))
<1> DEFINE k == i + g
<1>1. k \in Nat
  OBVIOUS
<1>2. Round(q) \in Int /\ Round(a) \in Int /\ Round(q - 2 * k) \in Int
  BY RoundFacts
<1>3. Round(q - 2 * k) <= Round(a)
  BY RoundFacts
<1>4. CASE Round(q) <= k
  BY <1>2, <1>4 DEF AtLeastZero
<1>5. CASE Round(q - 2 * k) >= Round(q) - k
  BY <1>2, <1>3, <1>5 DEF AtLeastZero
<1>. QED
  BY <1>1, <1>4, <1>5, RoundShift

\* A fall of stock by no more than 2 * k halves takes no more than k units.
LEMMA FreeAfterFall ==
    ASSUME NEW a \in Int, NEW b \in Int, NEW k \in Nat, NEW n \in Nat, a <= b + 2 * k
    PROVE  AtLeastZero(Round(a) - n) <= AtLeastZero(Round(b) - n) + k
<1>1. Round(a) \in Int /\ Round(b) \in Int /\ Round(a - 2 * k) \in Int
  BY RoundFacts
<1>2. Round(a - 2 * k) <= Round(b)
  BY RoundFacts
<1>3. CASE Round(a) <= k
  BY <1>1, <1>3 DEF AtLeastZero
<1>4. CASE Round(a - 2 * k) >= Round(a) - k
  BY <1>1, <1>2, <1>4 DEF AtLeastZero
<1>. QED
  BY <1>3, <1>4, RoundShift

\* What is free of a SKU stays so when SYSPRO takes one of its n waiting orders.
LEMMA FreeAfterImport ==
    ASSUME NEW a \in Int, NEW n \in Nat \ {0}
    PROVE  AtLeastZero(Round(a) - n) <= AtLeastZero(Round(a - 2) - (n - 1))
<1>1. Round(a) \in Int /\ Round(a - 2) \in Int
  BY RoundFacts
<1>2. CASE a = 1
  BY <1>1, <1>2, RoundOne DEF AtLeastZero
<1>3. CASE a # 1
  BY <1>1, <1>3, RoundLess DEF AtLeastZero
<1>. QED
  BY <1>2, <1>3

-----------------------------------------------------------------------------
(* Counting orders.                                                        *)

\* The orders of a SKU at some stages are finitely many.
LEMMA OrdersInFinite ==
    ASSUME NEW s, NEW S
    PROVE  /\ OrdersIn(s, S) \subseteq Orders
           /\ IsFiniteSet(OrdersIn(s, S))
           /\ Cardinality(OrdersIn(s, S)) \in Nat
           /\ Cardinality(OrdersIn(s, S)) <= Cardinality(Orders)
<1>1. OrdersIn(s, S) \subseteq Orders
  BY DEF OrdersIn
<1>. QED
  BY <1>1, StockAssumption, FS_Subset, FS_CardinalityType

\* The same after a step.
LEMMA OrdersInFiniteNext ==
    ASSUME NEW s, NEW S
    PROVE  /\ Cardinality(OrdersIn(s, S)') \in Nat
           /\ Cardinality(OrdersIn(s, S)') <= Cardinality(Orders)
<1>1. OrdersIn(s, S)' \subseteq Orders
  BY DEF OrdersIn
<1>. QED
  BY <1>1, StockAssumption, FS_Subset, FS_CardinalityType

\* An order that moves is counted where it comes to and no more where it was.
LEMMA MoveCounts ==
    ASSUME stage \in [Orders -> Stage], NEW o \in Orders,
           NEW from \in Stage, NEW to \in Stage, Move(o, from, to),
           NEW s, NEW S
    PROVE  /\ s # SkuOf[o] => OrdersIn(s, S)' = OrdersIn(s, S)
           /\ (from \in S <=> to \in S) => OrdersIn(s, S)' = OrdersIn(s, S)
           /\ s = SkuOf[o] /\ from \notin S /\ to \in S =>
                 Cardinality(OrdersIn(s, S)') = Cardinality(OrdersIn(s, S)) + 1
           /\ s = SkuOf[o] /\ from \in S /\ to \notin S =>
                 /\ Cardinality(OrdersIn(s, S)') = Cardinality(OrdersIn(s, S)) - 1
                 /\ Cardinality(OrdersIn(s, S)) > 0
<1>1. stage[o] = from /\ stage' = [stage EXCEPT ![o] = to]
  BY DEF Move
<1>2. s # SkuOf[o] => OrdersIn(s, S)' = OrdersIn(s, S)
  BY <1>1 DEF OrdersIn
<1>3. (from \in S <=> to \in S) => OrdersIn(s, S)' = OrdersIn(s, S)
  BY <1>1 DEF OrdersIn
<1>4. ASSUME s = SkuOf[o], from \notin S, to \in S
      PROVE  Cardinality(OrdersIn(s, S)') = Cardinality(OrdersIn(s, S)) + 1
  <2>1. OrdersIn(s, S)' = OrdersIn(s, S) \cup {o} /\ o \notin OrdersIn(s, S)
    BY <1>1, <1>4 DEF OrdersIn
  <2>. QED
    BY <2>1, OrdersInFinite, FS_AddElement
<1>5. ASSUME s = SkuOf[o], from \in S, to \notin S
      PROVE  /\ Cardinality(OrdersIn(s, S)') = Cardinality(OrdersIn(s, S)) - 1
             /\ Cardinality(OrdersIn(s, S)) > 0
  <2>1. OrdersIn(s, S)' = OrdersIn(s, S) \ {o} /\ o \in OrdersIn(s, S)
    BY <1>1, <1>5 DEF OrdersIn
  <2>2. Cardinality(OrdersIn(s, S)') = Cardinality(OrdersIn(s, S)) - 1
    BY <2>1, OrdersInFinite, FS_RemoveElement
  <2>3. Cardinality(OrdersIn(s, S)) # 0
    BY <2>1, OrdersInFinite, FS_EmptySet
  <2>. QED
    BY <2>2, <2>3, OrdersInFinite
<1>. QED
  BY <1>2, <1>3, <1>4, <1>5

\* Orders at the stages of two disjoint sets are those of one and those of the other.
LEMMA OrdersInSplit ==
    ASSUME NEW s, NEW S, NEW T, S \cap T = {}
    PROVE  Cardinality(OrdersIn(s, S \cup T)) =
              Cardinality(OrdersIn(s, S)) + Cardinality(OrdersIn(s, T))
<1> DEFINE A == OrdersIn(s, S)
           B == OrdersIn(s, T)
<1>1. OrdersIn(s, S \cup T) = A \cup B
  BY DEF OrdersIn
<1>2. A \cap B = {}
  BY DEF OrdersIn
<1>3. /\ IsFiniteSet(A) /\ IsFiniteSet(B)
      /\ Cardinality(A) \in Nat /\ Cardinality(B) \in Nat
  BY OrdersInFinite
<1> HIDE DEF A, B
<1>4. Cardinality(A \cup B) = Cardinality(A) + Cardinality(B) - Cardinality(A \cap B)
  BY <1>3, FS_Union
<1>5. Cardinality(A \cap B) = 0
  BY <1>2, FS_EmptySet
<1>6. Cardinality(A \cup B) = Cardinality(A) + Cardinality(B)
  BY <1>3, <1>4, <1>5
<1>. QED
  BY <1>1, <1>6 DEF A, B

-----------------------------------------------------------------------------
(* The inductive invariant.                                                *)

\* The orders of s that SYSPRO has, and whose rows do not say otherwise.
Taken(s) == OrdersIn(s, {"imported", "submitted"})

\* The orders of s SYSPRO has and the rows still reserve.
Imp(s) == OrdersIn(s, {"imported"})

\* The orders of s SYSPRO has not got, as far as the rows know.
Waiting(s) == OrdersIn(s, {"placed", "pending", "processing", "failed"})

\* SYSPRO's stock goes below zero by at most a unit for each order taken, and
\* for all of them once more with every fault.
AvailInv ==
    \A s \in Skus :
       avail[s] >= -(2 * (Cardinality(Orders) * faults + Cardinality(Taken(s))))

\* A quantity is there only if SYSPRO has answered.
AnswerInv ==
    \A s \in Skus :
       /\ stock[s] # NoQty => s \in answered
       /\ cached[s] # NoQty => s \in cachedAnswered
       /\ pc = "push" /\ eff[s] # NoQty => s \in answered

\* Past the queries, the stock in use is the cached one.
CacheInv == pc \in {"reserve", "push"} => stock = cached

\* The most a reading of s can have shown: the stock of now, what SYSPRO has
\* allocated to orders that are still reserved, and the units gone since.
Bound(s) == avail[s] + 2 * Cardinality(Imp(s)) + 2 * gone[s]

\* The readings in use and in the cache are covered.  While the queries run, gone
\* counts from the new reading, which is to replace the cached one.
ReadingInv ==
    \A s \in Skus :
       /\ stock[s] # NoQty => stock[s] <= Bound(s)
       /\ cached[s] # NoQty /\ (pc = "query" => stock[s] = NoQty) => cached[s] <= Bound(s)

SafeInv ==
    /\ TypeOK /\ AvailInv
    /\ AnswerInv /\ CacheInv /\ ReadingInv
    /\ PushIsCovered /\ OfferIsCovered

-----------------------------------------------------------------------------
(* Types and the lower bound of SYSPRO's stock.                            *)

\* The bound AvailInv gives is within Quantity.
LEMMA AvailBound ==
    ASSUME NEW f \in 0..MaxFaults, NEW n \in Nat, n <= Cardinality(Orders),
           NEW q \in Int, q <= MaxHalves, q >= -(2 * (Cardinality(Orders) * f + n))
    PROVE  q \in Quantity
<1> DEFINE N == Cardinality(Orders)
<1>1. N \in Nat /\ MaxFaults \in Nat /\ MaxHalves \in Nat
  BY StockAssumption, FS_CardinalityType
<1> HIDE DEF N
<1>2. N * f <= N * MaxFaults /\ N * f \in Nat /\ N * MaxFaults \in Nat
  BY <1>1
<1>3. N * (1 + MaxFaults) = N + N * MaxFaults
  BY <1>1
<1>. QED
  BY <1>1, <1>2, <1>3 DEF N, Quantity, MaxImports

\* Every quantity is an integer below NoQty.
LEMMA QuantityFacts ==
    /\ Quantity \subseteq Int
    /\ \A q \in Quantity : q <= MaxHalves /\ q # NoQty
    /\ 0..MaxHalves \subseteq Quantity
    /\ NoQty \in Int /\ MaxHalves \in Nat /\ Round(MaxHalves) \in Nat
    /\ \A q \in Quantity : AtLeastZero(Round(q)) \in 0..Round(MaxHalves)
<1> DEFINE N == Cardinality(Orders)
<1>1. N \in Nat /\ MaxFaults \in Nat /\ MaxHalves \in Nat
  BY StockAssumption, FS_CardinalityType
<1> HIDE DEF N
<1>2. N * (1 + MaxFaults) \in Nat
  BY <1>1
<1>3. Quantity = -(2 * (N * (1 + MaxFaults)))..MaxHalves
  BY DEF Quantity, MaxImports, N
<1>4. Round(MaxHalves) \in Nat
  BY <1>1, RoundFacts
<1>5. ASSUME NEW q \in Quantity
      PROVE  q \in Int /\ q <= MaxHalves
  BY <1>1, <1>2, <1>3
<1>6. ASSUME NEW q \in Quantity
      PROVE  AtLeastZero(Round(q)) \in 0..Round(MaxHalves)
  BY <1>1, <1>4, <1>5, RoundFacts DEF AtLeastZero
<1>. QED
  BY <1>1, <1>2, <1>3, <1>4, <1>5, <1>6 DEF NoQty

\* What SYSPRO may have is a quantity.
LEMMA AmountFacts ==
    ASSUME NEW s \in Skus, NEW q \in Amounts[s]
    PROVE  q \in 0..MaxHalves /\ q \in Quantity /\ q \in Nat
<1>1. q \in 0..MaxHalves
  BY StockAssumption
<1>. QED
  BY <1>1, StockAssumption, QuantityFacts

\* Units are added to units.
LEMMA PlusFacts ==
    ASSUME NEW f \in [Skus -> Nat], NEW s \in Skus, NEW n \in Nat
    PROVE  /\ Plus(f, s, n) \in [Skus -> Nat]
           /\ Plus(f, s, n)[s] = f[s] + n
           /\ \A t \in Skus : t # s => Plus(f, s, n)[t] = f[t]
BY DEF Plus

\* What computeEffective makes of the stock in use can be pushed.
LEMMA QuantitiesType ==
    ASSUME TypeOK, NEW r \in [Skus -> Nat]
    PROVE  Quantities(r) \in [Skus -> 0..Round(MaxHalves) \cup {NoQty}]
<1>1. ASSUME NEW s \in Skus, stock[s] # NoQty
      PROVE  AtLeastZero(Round(stock[s]) - r[s]) \in 0..Round(MaxHalves)
  <2>1. stock[s] \in Quantity
    BY <1>1 DEF TypeOK
  <2>2. Round(stock[s]) \in Int /\ r[s] \in Nat /\ Round(MaxHalves) \in Nat
    BY <2>1, QuantityFacts, RoundFacts
  <2>3. /\ stock[s] \in Int /\ MaxHalves \in Int
        /\ stock[s] <= MaxHalves
    <3> DEFINE q == stock[s]
    <3>1. q \in Quantity
      BY <2>1
    <3> HIDE DEF q
    <3>2. q \in Int /\ MaxHalves \in Int
      BY <3>1, QuantityFacts
    <3>3. q <= MaxHalves
      BY <3>1, QuantityFacts
    <3>. QED
      BY <3>2, <3>3 DEF q
  <2>4. Round(stock[s]) <= Round(MaxHalves)
    BY <2>3, RoundFacts
  <2>. QED
    BY <2>2, <2>4 DEF AtLeastZero
<1>. QED
  BY <1>1 DEF Quantities

\* Numbers the bounds below are made of.
LEMMA Numbers ==
    ASSUME TypeOK
    PROVE  /\ Cardinality(Orders) \in Nat
           /\ faults \in Nat
           /\ \A s \in Skus : avail[s] \in Int
<1>1. Cardinality(Orders) \in Nat
  BY StockAssumption, FS_CardinalityType
<1>2. faults \in Nat
  BY StockAssumption DEF TypeOK
<1>3. ASSUME NEW s \in Skus PROVE avail[s] \in Int
  <2>1. avail[s] \in Quantity
    BY DEF TypeOK
  <2>. QED
    BY <2>1, QuantityFacts
<1>. QED
  BY <1>1, <1>2, <1>3

\* A fault pays for all orders being imported once more.
LEMMA FaultBound ==
    ASSUME TypeOK, AvailInv, Fault, UNCHANGED avail
    PROVE  AvailInv'
<1> DEFINE N == Cardinality(Orders)
<1> SUFFICES ASSUME NEW s \in Skus
             PROVE  avail[s] >= -(2 * (N * (faults + 1) + Cardinality(Taken(s)')))
  BY DEF AvailInv, Fault
<1>1. N \in Nat /\ faults \in Nat /\ avail[s] \in Int
  BY Numbers
<1>2. Cardinality(Taken(s)) \in Nat /\ Cardinality(Taken(s)) <= N
  BY OrdersInFinite DEF Taken
<1>3. Cardinality(Taken(s)') \in Nat
  BY OrdersInFiniteNext DEF Taken
<1>4. avail[s] >= -(2 * (N * faults + Cardinality(Taken(s))))
  BY DEF AvailInv
<1> HIDE DEF N
<1>5. N * (faults + 1) = N * faults + N /\ N * faults \in Nat
  BY <1>1
<1>. QED
  BY <1>1, <1>2, <1>3, <1>4, <1>5

\* An order that is moved before SYSPRO has it, or after, is no new import.
LEMMA MoveBound ==
    ASSUME TypeOK, AvailInv, UNCHANGED <<avail, faults>>,
           NEW o \in Orders, NEW from \in Stage, NEW to \in Stage, Move(o, from, to),
           from \in {"imported", "submitted"} <=> to \in {"imported", "submitted"}
    PROVE  AvailInv'
<1>1. stage \in [Orders -> Stage]
  BY DEF TypeOK
<1>2. ASSUME NEW s \in Skus
      PROVE  Taken(s)' = Taken(s)
  BY <1>1, MoveCounts DEF Taken
<1>. QED
  BY <1>2 DEF AvailInv

\* Every step keeps the lower bound of SYSPRO's stock.
LEMMA AvailStep ==
    ASSUME TypeOK, AvailInv, [Next]_vars
    PROVE  AvailInv'
<1>1. CASE UNCHANGED <<avail, stage, faults>>
  BY <1>1 DEF AvailInv, Taken, OrdersIn
<1>2. CASE Fault /\ UNCHANGED avail
  BY <1>2, FaultBound
<1>3. ASSUME NEW o \in Orders, PlaceOrder(o) PROVE AvailInv'
  BY <1>3, MoveBound DEF PlaceOrder, Stage
<1>4. ASSUME NEW o \in Orders, StageOrder(o) PROVE AvailInv'
  BY <1>4, MoveBound DEF StageOrder, Stage
<1>5. ASSUME NEW o \in Orders, MarkOrderProcessing(o) PROVE AvailInv'
  BY <1>5, MoveBound DEF MarkOrderProcessing, Stage
<1>6. ASSUME NEW o \in Orders, SubmissionFails(o) PROVE AvailInv'
  BY <1>6, MoveBound DEF SubmissionFails, Stage
<1>7. ASSUME NEW o \in Orders, RetryOrder(o) PROVE AvailInv'
  BY <1>7, MoveBound DEF RetryOrder, Stage
<1>8. ASSUME NEW o \in Orders, UpdateOrderSubmitted(o) PROVE AvailInv'
  BY <1>8, MoveBound DEF UpdateOrderSubmitted, Stage
<1>9. ASSUME NEW o \in Orders, SysproImports(o) PROVE AvailInv'
  <2> DEFINE N == Cardinality(Orders)
  <2> SUFFICES ASSUME NEW s \in Skus
               PROVE  avail'[s] >= -(2 * (N * faults + Cardinality(Taken(s)')))
    BY <1>9 DEF AvailInv, SysproImports
  <2>1. N \in Nat /\ faults \in Nat /\ avail[s] \in Int
    BY Numbers
  <2>2. stage \in [Orders -> Stage] /\ avail \in [Skus -> Quantity]
    BY DEF TypeOK
  <2>3. avail[s] >= -(2 * (N * faults + Cardinality(Taken(s))))
    BY DEF AvailInv
  <2>4. Cardinality(Taken(s)) \in Nat
    BY OrdersInFinite DEF Taken
  <2>5. avail' = [avail EXCEPT ![SkuOf[o]] = @ - 2] /\ Move(o, "processing", "imported")
    BY <1>9 DEF SysproImports
  <2> HIDE DEF N
  <2>6. N * faults \in Nat
    BY <2>1
  <2>7. CASE s = SkuOf[o]
    <3>1. Cardinality(Taken(s)') = Cardinality(Taken(s)) + 1
      BY <2>2, <2>5, <2>7, MoveCounts DEF Taken, Stage
    <3>2. avail'[s] = avail[s] - 2
      BY <2>2, <2>5, <2>7
    <3>. QED
      BY <3>1, <3>2, <2>1, <2>3, <2>4, <2>6
  <2>8. CASE s # SkuOf[o]
    <3>1. Taken(s)' = Taken(s)
      BY <2>2, <2>5, <2>8, MoveCounts DEF Taken, Stage
    <3>2. avail'[s] = avail[s]
      BY <2>2, <2>5, <2>8
    <3>. QED
      BY <3>1, <3>2, <2>3
  <2>. QED
    BY <2>7, <2>8
<1>10. ASSUME NEW s \in Skus, NEW q \in Amounts[s], StockAdjusted(s, q) PROVE AvailInv'
  <2> DEFINE N == Cardinality(Orders)
  <2> SUFFICES ASSUME NEW t \in Skus
               PROVE  avail'[t] >= -(2 * (N * (faults + 1) + Cardinality(Taken(t))))
    BY <1>10 DEF AvailInv, StockAdjusted, Fault, Taken, OrdersIn
  <2>1. N \in Nat /\ faults \in Nat /\ avail[t] \in Int
    BY Numbers
  <2>2. Cardinality(Taken(t)) \in Nat
    BY OrdersInFinite DEF Taken
  <2>3. avail[t] >= -(2 * (N * faults + Cardinality(Taken(t))))
    BY DEF AvailInv
  <2>4. avail'[t] = IF t = s THEN q ELSE avail[t]
    BY <1>10 DEF StockAdjusted, TypeOK
  <2>5. q \in Nat
    BY AmountFacts
  <2> HIDE DEF N
  <2>6. N * (faults + 1) = N * faults + N /\ N * faults \in Nat
    BY <2>1
  <2>. QED
    BY <2>1, <2>2, <2>3, <2>4, <2>5, <2>6
<1>11. ASSUME NEW o \in Orders, AnswerLost(o) PROVE AvailInv'
  BY <1>11, <1>2 DEF AnswerLost
<1>12. CASE Surroundings
  BY <1>1, <1>3, <1>4, <1>5, <1>6, <1>7, <1>8, <1>9, <1>10, <1>11, <1>12
     DEF Surroundings, BatchBegins, BatchEnds
<1>13. ASSUME NEW skus, StartFullSync(skus) PROVE AvailInv'
  BY <1>13, <1>1, <1>2 DEF StartFullSync
<1>14. CASE StartTriggeredSync
  BY <1>14, <1>1 DEF StartTriggeredSync
<1>15. CASE SyncStep
  BY <1>15, <1>1 DEF SyncStep, QuerySku, QueryEnds, ComputeEffective, SetInventoryLevels,
     LateSyncEnds
<1>16. CASE SyncFault
  BY <1>16, <1>1, <1>2 DEF SyncFault, LogonFails, QuerySkuFails, ReservationsFail,
     ResolveFails, PushFails, DeadlinePasses, Crash
<1>17. CASE UNCHANGED vars
  BY <1>17, <1>1 DEF vars
<1>. QED
  BY <1>12, <1>13, <1>14, <1>15, <1>16, <1>17 DEF Next

\* The type of an order's stage after a move.
LEMMA MoveType ==
    ASSUME TypeOK, NEW o \in Orders, NEW from \in Stage, NEW to \in Stage,
           Move(o, from, to)
    PROVE  stage' \in [Orders -> Stage]
BY DEF TypeOK, Move

\* Levels are set to quantities that may be pushed.
LEMMA SetLevelsType ==
    ASSUME TypeOK, NEW skus \in SUBSET Pushed, SetLevels(skus)
    PROVE  level' \in [Skus -> 0..Round(MaxHalves)] /\ debt' \in [Skus -> Nat]
BY DEF TypeOK, Pushed, SetLevels

\* The end of a sync leaves well-typed variables behind.
LEMMA LeaveSyncType ==
    ASSUME NEW to, LeaveSync(to)
    PROVE  /\ pc' = to /\ todo' = {} /\ answered' = {}
           /\ stock' \in [Skus -> Quantity \cup {NoQty}]
           /\ eff' \in [Skus -> 0..Round(MaxHalves) \cup {NoQty}]
           /\ slip' \in [Skus -> Nat]
BY DEF LeaveSync, NoStock, None

\* Units taken unseen are counted in units.
LEMMA TakenUnseenType ==
    ASSUME TypeOK, NEW s \in Skus, NEW n \in Nat, TakenUnseen(s, n)
    PROVE  gone' \in [Skus -> Nat] /\ slip' \in [Skus -> Nat] /\ debt' \in [Skus -> Nat]
BY PlusFacts DEF TakenUnseen, TypeOK

\* Every step keeps the types.
LEMMA TypeStep ==
    ASSUME TypeOK, AvailInv, [Next]_vars
    PROVE  TypeOK'
<1>1. AvailInv'
  BY AvailStep
<1>2. ASSUME Fault PROVE faults' \in 0..MaxFaults
  BY <1>2, StockAssumption DEF Fault, TypeOK
<1>3. ASSUME NEW o \in Orders, PlaceOrder(o) PROVE TypeOK'
  <2>1. SkuOf[o] \in Skus /\ Round(MaxHalves) \in Nat
    BY StockAssumption, QuantityFacts
  <2>2. level' \in [Skus -> 0..Round(MaxHalves)]
    BY <1>3, <2>1 DEF PlaceOrder, TypeOK
  <2>3. stage' \in [Orders -> Stage]
    BY <1>3, MoveType DEF PlaceOrder, Stage
  <2>4. slip' \in [Skus -> Nat]
    BY <1>3, <2>1, PlusFacts DEF PlaceOrder, TypeOK
  <2>. QED
    BY <1>3, <2>2, <2>3, <2>4 DEF PlaceOrder, TypeOK, syncVars
<1>4. ASSUME NEW o \in Orders, StageOrder(o) PROVE TypeOK'
  <2>1. stage' \in [Orders -> Stage]
    BY <1>4, MoveType DEF StageOrder, Stage
  <2>. QED
    BY <1>4, <2>1 DEF StageOrder, TypeOK, syncVars, historyVars
<1>5. ASSUME NEW o \in Orders, MarkOrderProcessing(o) PROVE TypeOK'
  <2>1. stage' \in [Orders -> Stage]
    BY <1>5, MoveType DEF MarkOrderProcessing, Stage
  <2>. QED
    BY <1>5, <2>1 DEF MarkOrderProcessing, TypeOK, syncVars, historyVars
<1>6. ASSUME NEW o \in Orders, SubmissionFails(o) PROVE TypeOK'
  <2>1. stage' \in [Orders -> Stage]
    BY <1>6, MoveType DEF SubmissionFails, Stage
  <2>. QED
    BY <1>6, <2>1 DEF SubmissionFails, TypeOK, syncVars, historyVars
<1>7. ASSUME NEW o \in Orders, RetryOrder(o) PROVE TypeOK'
  <2>1. stage' \in [Orders -> Stage]
    BY <1>7, MoveType DEF RetryOrder, Stage
  <2>. QED
    BY <1>7, <2>1 DEF RetryOrder, TypeOK, syncVars, historyVars
<1>8. ASSUME NEW o \in Orders, UpdateOrderSubmitted(o) PROVE TypeOK'
  <2>1. stage' \in [Orders -> Stage]
    BY <1>8, MoveType DEF UpdateOrderSubmitted, Stage
  <2>2. gone' \in [Skus -> Nat]
    BY <1>8, StockAssumption, PlusFacts DEF UpdateOrderSubmitted, TypeOK
  <2>. QED
    BY <1>8, <2>1, <2>2 DEF UpdateOrderSubmitted, TypeOK, syncVars
<1>9. ASSUME NEW o \in Orders, SysproImports(o) PROVE TypeOK'
  <2>1. stage' \in [Orders -> Stage]
    BY <1>9, MoveType DEF SysproImports, Stage
  <2>2. avail' = [avail EXCEPT ![SkuOf[o]] = @ - 2] /\ faults' = faults
    BY <1>9 DEF SysproImports
  <2>3. ASSUME NEW s \in Skus PROVE avail'[s] \in Quantity
    <3>1. avail \in [Skus -> Quantity] /\ avail[s] \in Quantity /\ faults \in 0..MaxFaults
      BY DEF TypeOK
    <3>2. avail[s] \in Int /\ avail[s] <= MaxHalves /\ MaxHalves \in Nat
      BY <3>1, QuantityFacts
    <3>3. avail'[s] \in Int /\ avail'[s] <= MaxHalves
      BY <2>2, <3>1, <3>2
    <3>4. Cardinality(Taken(s)') \in Nat /\ Cardinality(Taken(s)') <= Cardinality(Orders)
      BY OrdersInFiniteNext DEF Taken
    <3>5. avail'[s] >= -(2 * (Cardinality(Orders) * faults + Cardinality(Taken(s)')))
      BY <1>1, <2>2 DEF AvailInv
    <3>. QED
      BY <3>1, <3>3, <3>4, <3>5, AvailBound
  <2>4. avail' \in [Skus -> Quantity]
    BY <2>2, <2>3 DEF TypeOK
  <2>. QED
    BY <1>9, <2>1, <2>4 DEF SysproImports, TypeOK, syncVars, historyVars
<1>10. ASSUME NEW s \in Skus, NEW q \in Amounts[s], StockAdjusted(s, q) PROVE TypeOK'
  <2>1. q \in Quantity /\ q \in Int /\ avail[s] \in Int
    BY AmountFacts, Numbers
  <2>2. avail' \in [Skus -> Quantity]
    BY <1>10, <2>1 DEF StockAdjusted, TypeOK
  <2>3. faults' \in 0..MaxFaults
    BY <1>10, <1>2 DEF StockAdjusted
  <2>4. (AtLeastZero(avail[s] - q) + 1) \div 2 \in Nat
    BY <2>1 DEF AtLeastZero
  <2>5. gone' \in [Skus -> Nat] /\ slip' \in [Skus -> Nat] /\ debt' \in [Skus -> Nat]
    BY <1>10, <2>4, TakenUnseenType DEF StockAdjusted
  <2>. QED
    BY <1>10, <2>2, <2>3, <2>5 DEF StockAdjusted, TypeOK, syncVars
<1>11. ASSUME NEW o \in Orders, AnswerLost(o) PROVE TypeOK'
  <2>1. stage' \in [Orders -> Stage]
    BY <1>11, MoveType DEF AnswerLost, Stage
  <2>2. faults' \in 0..MaxFaults
    BY <1>11, <1>2 DEF AnswerLost
  <2>3. gone' \in [Skus -> Nat] /\ slip' \in [Skus -> Nat] /\ debt' \in [Skus -> Nat]
    BY <1>11, StockAssumption, TakenUnseenType DEF AnswerLost
  <2>. QED
    BY <1>11, <2>1, <2>2, <2>3 DEF AnswerLost, TypeOK, syncVars
<1>12. CASE BatchBegins \/ BatchEnds
  BY <1>12 DEF BatchBegins, BatchEnds, TypeOK, syncVars, historyVars
<1>13. ASSUME NEW skus \in {Skus, StaticSkus}, StartFullSync(skus) PROVE TypeOK'
  <2>1. skus \subseteq Skus /\ NoStock \in [Skus -> Quantity \cup {NoQty}]
    BY StockAssumption DEF NoStock
  <2>2. faults' \in 0..MaxFaults
    BY <1>13, <1>2 DEF StartFullSync, TypeOK
  <2>. QED
    BY <1>13, <2>1, <2>2 DEF StartFullSync, TypeOK
<1>14. CASE StartTriggeredSync
  BY <1>14 DEF StartTriggeredSync, TypeOK
<1>15. ASSUME NEW s \in Skus, QuerySku(s) PROVE TypeOK'
  <2>1. stock' \in [Skus -> Quantity \cup {NoQty}]
    BY <1>15 DEF QuerySku, TypeOK
  <2>. QED
    BY <1>15, <2>1 DEF QuerySku, TypeOK
<1>16. CASE QueryEnds
  BY <1>16, LeaveSyncType DEF QueryEnds, EndSync, TypeOK
<1>17. CASE ComputeEffective
  <2>1. [s \in Skus |-> Reserved(s)] \in [Skus -> Nat]
    BY OrdersInFinite DEF Reserved
  <2>2. eff' \in [Skus -> 0..Round(MaxHalves) \cup {NoQty}]
    BY <1>17, <2>1, QuantitiesType DEF ComputeEffective
  <2>3. slip' \in [Skus -> Nat]
    BY <1>17, OrdersInFinite DEF ComputeEffective, Unreserved, TypeOK
  <2>. QED
    BY <1>17, <2>2, <2>3 DEF ComputeEffective, TypeOK
<1>18. CASE SetInventoryLevels
  <2>1. level' \in [Skus -> 0..Round(MaxHalves)] /\ debt' \in [Skus -> Nat]
    BY <1>18, SetLevelsType DEF SetInventoryLevels
  <2>. QED
    BY <1>18, <2>1, LeaveSyncType DEF SetInventoryLevels, EndSync, TypeOK
<1>19. CASE LogonFails
  BY <1>19, <1>2, LeaveSyncType DEF LogonFails, EndSync, TypeOK
<1>20. ASSUME NEW s \in Skus, QuerySkuFails(s) PROVE TypeOK'
  BY <1>20, <1>2 DEF QuerySkuFails, TypeOK, historyVars
<1>21. CASE ReservationsFail
  <2>1. eff' \in [Skus -> 0..Round(MaxHalves) \cup {NoQty}]
    BY <1>21, QuantitiesType DEF ReservationsFail
  <2>2. slip' \in [Skus -> Nat]
    BY <1>21, OrdersInFinite DEF ReservationsFail, Unreserved, Reserved, TypeOK
  <2>. QED
    BY <1>21, <1>2, <2>1, <2>2 DEF ReservationsFail, TypeOK
<1>22. CASE ResolveFails
  <2>1. level' \in [Skus -> 0..Round(MaxHalves)] /\ debt' \in [Skus -> Nat]
    BY <1>22, SetLevelsType DEF ResolveFails
  <2>. QED
    BY <1>22, <1>2, <2>1, LeaveSyncType DEF ResolveFails, EndSync, TypeOK
<1>23. ASSUME PushCutShort
       PROVE  level' \in [Skus -> 0..Round(MaxHalves)] /\ debt' \in [Skus -> Nat]
  BY <1>23, SetLevelsType DEF PushCutShort, TypeOK
<1>24. CASE PushFails
  BY <1>24, <1>2, <1>23, LeaveSyncType DEF PushFails, EndSync, TypeOK
<1>25. CASE DeadlinePasses
  BY <1>25, <1>23, LeaveSyncType DEF DeadlinePasses, TypeOK
<1>26. CASE LateSyncEnds
  BY <1>26 DEF LateSyncEnds, TypeOK, historyVars
<1>27. CASE Crash
  <2>1. NoStock \in [Skus -> Quantity \cup {NoQty}] /\ None \in [Skus -> Nat]
    BY DEF NoStock, None
  <2>2. stage' \in [Orders -> Stage]
    BY <1>27 DEF Crash, TypeOK, Stage
  <2>3. PICK stale \in SUBSET {o \in Orders : stage[o] \in {"processing", "imported"}} :
           debt' = [s \in Skus |->
                      debt[s] + Cardinality(stale \cap OrdersIn(s, {"imported"}))]
    BY <1>27 DEF Crash
  <2>4. ASSUME NEW s PROVE Cardinality(stale \cap OrdersIn(s, {"imported"})) \in Nat
    BY OrdersInFinite, FS_Subset, FS_CardinalityType
  <2>5. debt' \in [Skus -> Nat]
    BY <2>3, <2>4 DEF TypeOK
  <2>. QED
    BY <1>27, <1>2, <2>1, <2>2, <2>5, LeaveSyncType DEF Crash, EndSync, TypeOK
<1>28. CASE UNCHANGED vars
  BY <1>28 DEF vars, syncVars, historyVars, TypeOK
<1>. QED
  BY <1>3, <1>4, <1>5, <1>6, <1>7, <1>8, <1>9, <1>10, <1>11, <1>12, <1>13, <1>14,
     <1>15, <1>16, <1>17, <1>18, <1>19, <1>20, <1>21, <1>22, <1>24, <1>25,
     <1>26, <1>27, <1>28 DEF Next, Surroundings, SyncStep, SyncFault

-----------------------------------------------------------------------------
(* The syncer's quantities and where they come from.                       *)

\* Customers, batches and SYSPRO touch none of the syncer's state.
LEMMA SurroundingsKeepSync ==
    ASSUME Surroundings
    PROVE  UNCHANGED <<syncVars, answered, cachedAnswered>>
BY DEF Surroundings, BatchBegins, BatchEnds, PlaceOrder, StageOrder, MarkOrderProcessing,
   SubmissionFails, RetryOrder, SysproImports, AnswerLost, UpdateOrderSubmitted,
   StockAdjusted, historyVars

\* Every step keeps: a quantity is there only if SYSPRO has answered, and past
\* the queries the stock in use is the cached one.
LEMMA AnswerStep ==
    ASSUME TypeOK, AnswerInv, CacheInv, [Next]_vars
    PROVE  AnswerInv' /\ CacheInv'
<1>1. CASE Surroundings
  BY <1>1, SurroundingsKeepSync DEF AnswerInv, CacheInv, syncVars
<1>2. ASSUME NEW skus, StartFullSync(skus) PROVE AnswerInv' /\ CacheInv'
  BY <1>2 DEF StartFullSync, AnswerInv, CacheInv, NoStock
<1>3. CASE StartTriggeredSync
  BY <1>3 DEF StartTriggeredSync, AnswerInv, CacheInv
<1>4. ASSUME NEW s \in Skus, QuerySku(s) PROVE AnswerInv' /\ CacheInv'
  BY <1>4 DEF QuerySku, AnswerInv, CacheInv, TypeOK
<1>5. CASE QueryEnds
  BY <1>5 DEF QueryEnds, EndSync, LeaveSync, AnswerInv, CacheInv, NoStock
<1>6. CASE ComputeEffective
  BY <1>6 DEF ComputeEffective, Quantities, AnswerInv, CacheInv
<1>7. CASE ReservationsFail
  BY <1>7 DEF ReservationsFail, Quantities, AnswerInv, CacheInv
<1>8. CASE SetInventoryLevels \/ ResolveFails \/ PushFails \/ DeadlinePasses
  BY <1>8 DEF SetInventoryLevels, ResolveFails, PushFails, DeadlinePasses, EndSync,
     LeaveSync, AnswerInv, CacheInv, NoStock
<1>9. CASE LogonFails \/ Crash \/ LateSyncEnds
  BY <1>9 DEF LogonFails, Crash, LateSyncEnds, EndSync, LeaveSync, AnswerInv, CacheInv,
     NoStock, historyVars
<1>10. ASSUME NEW s \in Skus, QuerySkuFails(s) PROVE AnswerInv' /\ CacheInv'
  BY <1>10 DEF QuerySkuFails, AnswerInv, CacheInv, historyVars
<1>11. CASE UNCHANGED vars
  BY <1>11 DEF vars, syncVars, historyVars, AnswerInv, CacheInv
<1>. QED
  BY <1>1, <1>2, <1>3, <1>4, <1>5, <1>6, <1>7, <1>8, <1>9, <1>10, <1>11
     DEF Next, SyncStep, SyncFault

\* The numbers a bound is made of.
LEMMA BoundType ==
    ASSUME TypeOK, NEW s \in Skus
    PROVE  /\ avail[s] \in Int /\ Cardinality(Imp(s)) \in Nat /\ gone[s] \in Nat
           /\ Bound(s) \in Int
<1>1. avail[s] \in Int /\ Cardinality(Imp(s)) \in Nat /\ gone[s] \in Nat
  BY Numbers, OrdersInFinite DEF Imp, TypeOK
<1>. QED
  BY <1>1 DEF Bound

\* The same after a step.
LEMMA BoundTypeNext ==
    ASSUME TypeOK', NEW s \in Skus
    PROVE  /\ avail'[s] \in Int /\ Cardinality(Imp(s)') \in Nat /\ gone'[s] \in Nat
           /\ Bound(s)' \in Int
           /\ Bound(s)' = avail'[s] + 2 * Cardinality(Imp(s)') + 2 * gone'[s]
<1>1. avail'[s] \in Quantity /\ gone'[s] \in Nat
  BY DEF TypeOK
<1>2. avail'[s] \in Int /\ Cardinality(Imp(s)') \in Nat
  BY <1>1, QuantityFacts, OrdersInFiniteNext DEF Imp
<1>. QED
  BY <1>1, <1>2 DEF Bound

\* Whatever takes from SYSPRO's stock, or from the orders it was taken for, is
\* counted: what a reading can have shown never falls below what it has.
LEMMA BoundStep ==
    ASSUME TypeOK, TypeOK', Surroundings, NEW s \in Skus, Read(s)
    PROVE  Bound(s)' >= Bound(s)
<1>1. /\ avail[s] \in Int /\ Cardinality(Imp(s)) \in Nat /\ gone[s] \in Nat
      /\ avail'[s] \in Int /\ Cardinality(Imp(s)') \in Nat /\ gone'[s] \in Nat
  BY BoundType, BoundTypeNext
<1>2. stage \in [Orders -> Stage] /\ avail \in [Skus -> Quantity] /\ gone \in [Skus -> Nat]
  BY DEF TypeOK
<1>3. ASSUME avail'[s] = avail[s], gone'[s] = gone[s], Imp(s)' = Imp(s)
      PROVE  Bound(s)' >= Bound(s)
  BY <1>1, <1>3 DEF Bound
<1>4. ASSUME NEW o \in Orders, NEW from \in Stage, NEW to \in Stage, Move(o, from, to),
             avail'[s] = avail[s], gone'[s] = gone[s],
             (from # "imported" /\ to # "imported") \/ SkuOf[o] # s
      PROVE  Bound(s)' >= Bound(s)
  BY <1>2, <1>3, <1>4, MoveCounts DEF Imp
<1>5. CASE BatchBegins \/ BatchEnds
  BY <1>5, <1>3 DEF BatchBegins, BatchEnds, historyVars, Imp, OrdersIn
<1>6. ASSUME NEW o \in Orders, PlaceOrder(o) PROVE Bound(s)' >= Bound(s)
  BY <1>6, <1>4 DEF PlaceOrder, Stage
<1>7. ASSUME NEW o \in Orders, StageOrder(o) PROVE Bound(s)' >= Bound(s)
  BY <1>7, <1>4 DEF StageOrder, Stage, historyVars
<1>8. ASSUME NEW o \in Orders, MarkOrderProcessing(o) PROVE Bound(s)' >= Bound(s)
  BY <1>8, <1>4 DEF MarkOrderProcessing, Stage, historyVars
<1>9. ASSUME NEW o \in Orders, SubmissionFails(o) PROVE Bound(s)' >= Bound(s)
  BY <1>9, <1>4 DEF SubmissionFails, Stage, historyVars
<1>10. ASSUME NEW o \in Orders, RetryOrder(o) PROVE Bound(s)' >= Bound(s)
  BY <1>10, <1>4 DEF RetryOrder, Stage, historyVars
<1>11. ASSUME NEW o \in Orders, SysproImports(o) PROVE Bound(s)' >= Bound(s)
  <2>1. /\ avail' = [avail EXCEPT ![SkuOf[o]] = @ - 2] /\ gone' = gone
        /\ Move(o, "processing", "imported")
    BY <1>11 DEF SysproImports, historyVars
  <2>2. CASE SkuOf[o] # s
    BY <1>2, <1>4, <2>1, <2>2 DEF Stage
  <2>3. CASE SkuOf[o] = s
    <3>1. Cardinality(Imp(s)') = Cardinality(Imp(s)) + 1
      BY <1>2, <2>1, <2>3, MoveCounts DEF Imp, Stage
    <3>2. avail'[s] = avail[s] - 2
      BY <1>2, <2>1, <2>3
    <3>. QED
      BY <1>1, <2>1, <3>1, <3>2 DEF Bound
  <2>. QED
    BY <2>2, <2>3
<1>12. ASSUME NEW o \in Orders, NEW to \in Stage \ {"imported"}, Move(o, "imported", to),
              avail' = avail,
              gone' = IF Read(SkuOf[o]) THEN Plus(gone, SkuOf[o], 1) ELSE gone
       PROVE  Bound(s)' >= Bound(s)
  <2>1. SkuOf[o] \in Skus
    BY StockAssumption
  <2>2. CASE SkuOf[o] # s
    <3>1. gone'[s] = gone[s]
      BY <1>2, <1>12, <2>1, <2>2, PlusFacts
    <3>. QED
      BY <1>4, <1>12, <2>2, <3>1 DEF Stage
  <2>3. CASE SkuOf[o] = s
    <3>1. Cardinality(Imp(s)') = Cardinality(Imp(s)) - 1
      BY <1>2, <1>12, <2>3, MoveCounts DEF Imp, Stage
    <3>2. gone'[s] = gone[s] + 1
      BY <1>2, <1>12, <2>1, <2>3, PlusFacts
    <3>. QED
      BY <1>1, <1>12, <3>1, <3>2 DEF Bound
  <2>. QED
    BY <2>2, <2>3
<1>13. ASSUME NEW o \in Orders, AnswerLost(o) PROVE Bound(s)' >= Bound(s)
  BY <1>12, <1>13 DEF AnswerLost, TakenUnseen, Stage
<1>14. ASSUME NEW o \in Orders, UpdateOrderSubmitted(o) PROVE Bound(s)' >= Bound(s)
  BY <1>12, <1>14 DEF UpdateOrderSubmitted, Stage
<1>15. ASSUME NEW t \in Skus, NEW q \in Amounts[t], StockAdjusted(t, q)
       PROVE  Bound(s)' >= Bound(s)
  <2> DEFINE n == (AtLeastZero(avail[t] - q) + 1) \div 2
  <2>1. /\ avail' = [avail EXCEPT ![t] = q] /\ stage' = stage
        /\ gone' = IF Read(t) THEN Plus(gone, t, n) ELSE gone
    BY <1>15 DEF StockAdjusted, TakenUnseen
  <2>2. avail[t] \in Int /\ q \in Int
    BY Numbers, AmountFacts
  <2>3. n \in Nat /\ 2 * n >= avail[t] - q
    BY <2>2 DEF AtLeastZero
  <2> HIDE DEF n
  <2>4. Imp(s)' = Imp(s)
    BY <2>1 DEF Imp, OrdersIn
  <2>5. CASE t # s
    <3>1. avail'[s] = avail[s] /\ gone'[s] = gone[s]
      BY <1>2, <2>1, <2>3, <2>5, PlusFacts
    <3>. QED
      BY <1>3, <2>4, <3>1
  <2>6. CASE t = s
    <3>1. avail'[s] = q /\ gone'[s] = gone[s] + n
      BY <1>2, <2>1, <2>3, <2>6, PlusFacts
    <3>. QED
      BY <1>1, <2>2, <2>3, <2>4, <2>6, <3>1 DEF Bound
  <2>. QED
    BY <2>5, <2>6
<1>. QED
  BY <1>5, <1>6, <1>7, <1>8, <1>9, <1>10, <1>11, <1>13, <1>14, <1>15 DEF Surroundings

\* Every step keeps: what was read is covered.
LEMMA ReadingStep ==
    ASSUME TypeOK, TypeOK', CacheInv, ReadingInv, [Next]_vars
    PROVE  ReadingInv'
<1> SUFFICES ASSUME NEW s \in Skus
             PROVE  /\ stock'[s] # NoQty => stock'[s] <= Bound(s)'
                    /\ cached'[s] # NoQty /\ (pc' = "query" => stock'[s] = NoQty) =>
                          cached'[s] <= Bound(s)'
  BY DEF ReadingInv
<1>1. Bound(s) \in Int /\ Bound(s)' \in Int /\ avail[s] \in Int
  BY BoundType, BoundTypeNext
<1>2. /\ stock[s] # NoQty => stock[s] \in Int
      /\ cached[s] # NoQty => cached[s] \in Int
  <2>1. /\ stock[s] # NoQty => stock[s] \in Quantity
        /\ cached[s] # NoQty => cached[s] \in Quantity
    BY DEF TypeOK
  <2>. QED
    BY <2>1, QuantityFacts
<1>3. /\ stock[s] # NoQty => stock[s] <= Bound(s)
      /\ cached[s] # NoQty /\ (pc = "query" => stock[s] = NoQty) => cached[s] <= Bound(s)
  BY DEF ReadingInv
<1>4. ASSUME UNCHANGED <<avail, stage, gone>> PROVE Bound(s)' = Bound(s)
  BY <1>4 DEF Bound, Imp, OrdersIn
<1>5. CASE Surroundings
  <2>1. UNCHANGED <<pc, stock, cached>>
    BY <1>5, SurroundingsKeepSync DEF syncVars
  <2>2. Read(s) => Bound(s)' >= Bound(s)
    BY <1>5, BoundStep
  <2>. QED
    BY <1>1, <1>2, <1>3, <2>1, <2>2 DEF Read
<1>6. ASSUME NEW skus, StartFullSync(skus)
      PROVE  /\ stock'[s] # NoQty => stock'[s] <= Bound(s)'
             /\ cached'[s] # NoQty => cached'[s] <= Bound(s)'
  BY <1>6, <1>3, <1>4 DEF StartFullSync, NoStock
<1>7. CASE StartTriggeredSync
  BY <1>7, <1>3, <1>4 DEF StartTriggeredSync
<1>8. ASSUME NEW t \in Skus, QuerySku(t)
      PROVE  /\ stock'[s] # NoQty => stock'[s] <= Bound(s)'
             /\ cached'[s] # NoQty /\ (pc' = "query" => stock'[s] = NoQty) =>
                   cached'[s] <= Bound(s)'
  <2>1. /\ UNCHANGED <<avail, stage, cached>> /\ pc = "query" /\ pc' = "query"
        /\ stock' = [stock EXCEPT ![t] = avail[t]]
        /\ gone' = [gone EXCEPT ![t] = 0]
    BY <1>8 DEF QuerySku
  <2>2. /\ Imp(s)' = Imp(s)
        /\ Bound(s)' = avail[s] + 2 * Cardinality(Imp(s)) + 2 * gone'[s]
        /\ Cardinality(Imp(s)) \in Nat /\ gone'[s] \in Nat
    BY <2>1, BoundTypeNext, BoundType DEF Imp, OrdersIn
  <2>3. CASE s = t
    <3>1. stock'[s] = avail[s] /\ avail[s] # NoQty
      <4>1. avail[s] \in Quantity
        BY DEF TypeOK
      <4>. QED
        BY <2>1, <2>3, <4>1, QuantityFacts DEF TypeOK
    <3>2. avail[s] <= Bound(s)'
      BY <1>1, <2>2
    <3>. QED
      BY <2>1, <3>1, <3>2
  <2>4. CASE s # t
    <3>1. stock'[s] = stock[s] /\ gone'[s] = gone[s]
      BY <2>1, <2>4 DEF TypeOK
    <3>. QED
      BY <1>3, <2>1, <2>2, <3>1 DEF Bound
  <2>. QED
    BY <2>3, <2>4
<1>9. ASSUME stock' = NoStock, UNCHANGED <<avail, stage, gone>>, pc' # "query",
             \/ cached' = cached /\ (pc # "query" \/ stock = NoStock)
             \/ cached' = stock
      PROVE  /\ stock'[s] # NoQty => stock'[s] <= Bound(s)'
             /\ cached'[s] # NoQty => cached'[s] <= Bound(s)'
  BY <1>3, <1>4, <1>9 DEF NoStock
<1>10. CASE QueryEnds
  <2>1. CASE stock = NoStock
    BY <1>9, <1>10, <2>1 DEF QueryEnds, EndSync, LeaveSync
  <2>2. CASE stock # NoStock
    BY <1>3, <1>4, <1>10, <2>2 DEF QueryEnds
  <2>. QED
    BY <2>1, <2>2
<1>11. CASE ComputeEffective \/ ReservationsFail
  BY <1>11, <1>3, <1>4 DEF ComputeEffective, ReservationsFail
<1>12. CASE SetInventoryLevels \/ ResolveFails \/ PushFails \/ LogonFails
  BY <1>9, <1>12 DEF SetInventoryLevels, ResolveFails, PushFails, LogonFails, EndSync,
     LeaveSync
<1>13. CASE DeadlinePasses
  BY <1>9, <1>13 DEF DeadlinePasses, LeaveSync
<1>14. CASE LateSyncEnds
  BY <1>3, <1>4, <1>14 DEF LateSyncEnds, historyVars
<1>15. CASE Crash
  BY <1>15 DEF Crash, EndSync, LeaveSync, NoStock
<1>16. ASSUME NEW t \in Skus, QuerySkuFails(t)
       PROVE  /\ stock'[s] # NoQty => stock'[s] <= Bound(s)'
              /\ cached'[s] # NoQty /\ (pc' = "query" => stock'[s] = NoQty) =>
                    cached'[s] <= Bound(s)'
  BY <1>16, <1>3, <1>4 DEF QuerySkuFails, historyVars
<1>17. CASE UNCHANGED vars
  BY <1>17, <1>3, <1>4 DEF vars, syncVars, historyVars
<1>. QED
  BY <1>5, <1>6, <1>7, <1>8, <1>10, <1>11, <1>12, <1>13, <1>14, <1>15, <1>16, <1>17
     DEF Next, SyncStep, SyncFault

-----------------------------------------------------------------------------
(* What is free, what is about to be pushed and what is offered.           *)

LEMMA FreeIs ==
    ASSUME TypeOK, NEW s \in Skus
    PROVE  /\ Free(s) = AtLeastZero(Round(avail[s]) - Cardinality(Waiting(s)))
           /\ Round(avail[s]) \in Int /\ Cardinality(Waiting(s)) \in Nat
           /\ Free(s) \in Nat
<1>1. Free(s) = AtLeastZero(Round(avail[s]) - Cardinality(Waiting(s)))
  BY DEF Free, Waiting
<1>2. Round(avail[s]) \in Int
  BY Numbers, RoundFacts
<1>3. Cardinality(Waiting(s)) \in Nat
  BY OrdersInFinite DEF Waiting
<1>. QED
  BY <1>1, <1>2, <1>3 DEF AtLeastZero

\* The same after a step.
LEMMA FreeIsNext ==
    ASSUME TypeOK', NEW s \in Skus
    PROVE  /\ Free(s)' = AtLeastZero(Round(avail'[s]) - Cardinality(Waiting(s)'))
           /\ Round(avail'[s]) \in Int /\ Cardinality(Waiting(s)') \in Nat
           /\ Free(s)' \in Nat
<1>1. Free(s)' = AtLeastZero(Round(avail'[s]) - Cardinality(Waiting(s)'))
  BY DEF Free, Waiting
<1>2. Round(avail'[s]) \in Int
  <2>1. avail'[s] \in Quantity
    BY DEF TypeOK
  <2>. QED
    BY <2>1, QuantityFacts, RoundFacts
<1>3. Cardinality(Waiting(s)') \in Nat
  BY OrdersInFiniteNext DEF Waiting
<1>. QED
  BY <1>1, <1>2, <1>3 DEF AtLeastZero

\* A move takes at most the unit of its order from what is free of its SKU, and
\* that only if the order was not waiting and comes to wait.
LEMMA FreeAfterMove ==
    ASSUME TypeOK, TypeOK', NEW s \in Skus, avail'[s] = avail[s],
           NEW o \in Orders, NEW from \in Stage, NEW to \in Stage, Move(o, from, to)
    PROVE  /\ Free(s)' + 1 >= Free(s)
           /\ \/ SkuOf[o] # s
              \/ to \notin {"placed", "pending", "processing", "failed"}
              \/ from \in {"placed", "pending", "processing", "failed"}
              => Free(s)' >= Free(s)
<1> DEFINE W == {"placed", "pending", "processing", "failed"}
<1>1. stage \in [Orders -> Stage]
  BY DEF TypeOK
<1>2. /\ Free(s) = AtLeastZero(Round(avail[s]) - Cardinality(Waiting(s)))
      /\ Free(s)' = AtLeastZero(Round(avail[s]) - Cardinality(Waiting(s)'))
      /\ Round(avail[s]) \in Int
      /\ Cardinality(Waiting(s)) \in Nat /\ Cardinality(Waiting(s)') \in Nat
  BY FreeIs, FreeIsNext
<1>3. Waiting(s) = OrdersIn(s, W) /\ Waiting(s)' = OrdersIn(s, W)'
  BY DEF Waiting
<1> HIDE DEF W
<1>4. CASE SkuOf[o] # s \/ (from \in W <=> to \in W)
  <2>1. Waiting(s)' = Waiting(s)
    BY <1>1, <1>3, <1>4, MoveCounts
  <2>. QED
    BY <1>2, <2>1 DEF AtLeastZero
<1>5. CASE SkuOf[o] = s /\ from \in W /\ to \notin W
  <2>1. Cardinality(Waiting(s)') = Cardinality(Waiting(s)) - 1
    BY <1>1, <1>3, <1>5, MoveCounts
  <2>. QED
    BY <1>2, <2>1 DEF AtLeastZero
<1>6. CASE SkuOf[o] = s /\ from \notin W /\ to \in W
  <2>1. Cardinality(Waiting(s)') = Cardinality(Waiting(s)) + 1
    BY <1>1, <1>3, <1>6, MoveCounts
  <2>2. Free(s)' + 1 >= Free(s)
    BY <1>2, <2>1 DEF AtLeastZero
  <2>. QED
    BY <1>6, <2>2 DEF W
<1>. QED
  BY <1>4, <1>5, <1>6

\* SYSPRO's taking an order, which lowers its stock, takes nothing from what is free.
LEMMA FreeAfterTaking ==
    ASSUME TypeOK, TypeOK', NEW s \in Skus, NEW o \in Orders, SysproImports(o)
    PROVE  Free(s)' >= Free(s)
<1>1. avail' = [avail EXCEPT ![SkuOf[o]] = @ - 2] /\ Move(o, "processing", "imported")
  BY DEF SysproImports
<1>2. CASE SkuOf[o] # s
  <2>1. avail'[s] = avail[s]
    BY <1>1, <1>2 DEF TypeOK
  <2>. QED
    BY <1>1, <1>2, <2>1, FreeAfterMove DEF Stage
<1>3. CASE SkuOf[o] = s
  <2> DEFINE n == Cardinality(Waiting(s))
  <2>1. stage \in [Orders -> Stage]
    BY DEF TypeOK
  <2>2. Cardinality(Waiting(s)') = n - 1 /\ n > 0
    BY <1>1, <1>3, <2>1, MoveCounts DEF Waiting, Stage
  <2>3. avail'[s] = avail[s] - 2 /\ avail[s] \in Int
    BY <1>1, <1>3, Numbers DEF TypeOK
  <2>4. n \in Nat
    BY FreeIs
  <2>5. Free(s) = AtLeastZero(Round(avail[s]) - n)
        /\ Free(s)' = AtLeastZero(Round(avail[s] - 2) - (n - 1))
    BY <2>2, <2>3, FreeIs, FreeIsNext
  <2> HIDE DEF n
  <2>6. AtLeastZero(Round(avail[s]) - n) <= AtLeastZero(Round(avail[s] - 2) - (n - 1))
    BY <2>2, <2>3, <2>4, FreeAfterImport
  <2>7. Free(s) \in Nat /\ Free(s)' \in Nat
    BY FreeIs, FreeIsNext
  <2>. QED
    BY <2>5, <2>6, <2>7
<1>. QED
  BY <1>2, <1>3

\* What is free of a SKU falls only with an order, a lost answer, a restart or
\* another use of the stock.
LEMMA FreeStep ==
    ASSUME TypeOK, TypeOK', [Next]_vars, NEW s \in Skus, ~Crash,
           \A o \in Orders : SkuOf[o] = s => ~PlaceOrder(o) /\ ~AnswerLost(o),
           \A q \in Amounts[s] : ~StockAdjusted(s, q)
    PROVE  Free(s)' >= Free(s)
<1>0. Free(s) \in Nat
  BY FreeIs
<1>1. CASE UNCHANGED <<avail, stage>>
  <2>1. Free(s)' = Free(s)
    BY <1>1 DEF Free, OrdersIn
  <2>. QED
    BY <1>0, <2>1
<1>2. ASSUME NEW o \in Orders, PlaceOrder(o) \/ AnswerLost(o)
      PROVE  Free(s)' >= Free(s)
  <2>1. SkuOf[o] # s /\ avail' = avail
    BY <1>2 DEF PlaceOrder, AnswerLost
  <2>2. \E from, to \in Stage : Move(o, from, to)
    BY <1>2 DEF PlaceOrder, AnswerLost, Stage
  <2>. QED
    BY <2>1, <2>2, FreeAfterMove
<1>3. ASSUME NEW o \in Orders, StageOrder(o) PROVE Free(s)' >= Free(s)
  BY <1>3, FreeAfterMove DEF StageOrder, Stage
<1>4. ASSUME NEW o \in Orders, MarkOrderProcessing(o) PROVE Free(s)' >= Free(s)
  BY <1>4, FreeAfterMove DEF MarkOrderProcessing, Stage
<1>5. ASSUME NEW o \in Orders, SubmissionFails(o) PROVE Free(s)' >= Free(s)
  BY <1>5, FreeAfterMove DEF SubmissionFails, Stage
<1>6. ASSUME NEW o \in Orders, RetryOrder(o) PROVE Free(s)' >= Free(s)
  BY <1>6, FreeAfterMove DEF RetryOrder, Stage
<1>7. ASSUME NEW o \in Orders, UpdateOrderSubmitted(o) PROVE Free(s)' >= Free(s)
  BY <1>7, FreeAfterMove DEF UpdateOrderSubmitted, Stage
<1>8. ASSUME NEW o \in Orders, SysproImports(o) PROVE Free(s)' >= Free(s)
  BY <1>8, FreeAfterTaking
<1>9. ASSUME NEW t \in Skus, NEW q \in Amounts[t], StockAdjusted(t, q)
      PROVE  Free(s)' >= Free(s)
  <2>1. t # s /\ avail'[s] = avail[s] /\ stage' = stage
    BY <1>9 DEF StockAdjusted, TypeOK
  <2>2. Free(s)' = Free(s)
    BY <2>1 DEF Free, OrdersIn
  <2>. QED
    BY <1>0, <2>2
<1>10. CASE Surroundings
  BY <1>1, <1>2, <1>3, <1>4, <1>5, <1>6, <1>7, <1>8, <1>9, <1>10
     DEF Surroundings, BatchBegins, BatchEnds
<1>11. ASSUME NEW skus, StartFullSync(skus) PROVE Free(s)' >= Free(s)
  BY <1>11, <1>1 DEF StartFullSync
<1>12. CASE StartTriggeredSync \/ SyncStep
  BY <1>12, <1>1 DEF StartTriggeredSync, SyncStep, QuerySku, QueryEnds, ComputeEffective,
     SetInventoryLevels, LateSyncEnds
<1>13. CASE SyncFault
  BY <1>13, <1>1 DEF SyncFault, LogonFails, QuerySkuFails, ReservationsFail, ResolveFails,
     PushFails, DeadlinePasses
<1>14. CASE UNCHANGED vars
  BY <1>14, <1>1 DEF vars
<1>. QED
  BY <1>10, <1>11, <1>12, <1>13, <1>14 DEF Next

\* Another use of n units of the stock takes no more than these from what is free.
LEMMA FreeAfterUse ==
    ASSUME TypeOK, TypeOK', NEW s \in Skus, NEW q \in Amounts[s], StockAdjusted(s, q)
    PROVE  /\ (AtLeastZero(avail[s] - q) + 1) \div 2 \in Nat
           /\ Free(s) <= Free(s)' + (AtLeastZero(avail[s] - q) + 1) \div 2
<1> DEFINE n == (AtLeastZero(avail[s] - q) + 1) \div 2
<1>1. avail'[s] = q /\ stage' = stage
  BY DEF StockAdjusted, TypeOK
<1>2. avail[s] \in Int /\ q \in Int
  BY Numbers, AmountFacts
<1>3. n \in Nat /\ avail[s] <= q + 2 * n
  BY <1>2 DEF AtLeastZero
<1> HIDE DEF n
<1>4. Waiting(s)' = Waiting(s)
  BY <1>1 DEF Waiting, OrdersIn
<1>5. Cardinality(Waiting(s)) \in Nat
  BY FreeIs
<1>6. AtLeastZero(Round(avail[s]) - Cardinality(Waiting(s)))
         <= AtLeastZero(Round(q) - Cardinality(Waiting(s))) + n
  BY <1>2, <1>3, <1>5, FreeAfterFall
<1>7. Free(s) <= Free(s)' + n
  BY <1>1, <1>4, <1>6, FreeIs, FreeIsNext
<1>. QED
  BY <1>3, <1>7 DEF n

\* What computeEffective makes of a covered reading is covered, and so it is
\* without the reservations.
LEMMA ComputedIsCovered ==
    ASSUME TypeOK, CacheInv, ReadingInv, NEW s \in Skus, pc = "reserve", stock[s] # NoQty
    PROVE  /\ AtLeastZero(Round(stock[s]) - Reserved(s)) <= Free(s) + (gone[s] + Unreserved(s))
           /\ AtLeastZero(Round(stock[s]))
                 <= Free(s) + (gone[s] + Unreserved(s) + Reserved(s))
<1> DEFINE n == Cardinality(OrdersIn(s, {"pending", "processing"}))
           u == Cardinality(OrdersIn(s, {"placed", "failed"}))
           i == Cardinality(Imp(s))
<1>1. n \in Nat /\ u \in Nat /\ i \in Nat
  BY OrdersInFinite DEF Imp
<1>2. Reserved(s) = n + i
  <2>1. {"pending", "processing"} \cup {"imported"} = {"pending", "processing", "imported"}
        /\ {"pending", "processing"} \cap {"imported"} = {}
    OBVIOUS
  <2>. QED
    BY <2>1, OrdersInSplit DEF Reserved, Imp
<1>3. Cardinality(Waiting(s)) = n + u
  <2>1. {"pending", "processing"} \cup {"placed", "failed"}
           = {"placed", "pending", "processing", "failed"}
        /\ {"pending", "processing"} \cap {"placed", "failed"} = {}
    OBVIOUS
  <2>. QED
    BY <2>1, OrdersInSplit DEF Waiting
<1>4. Unreserved(s) = u
  BY DEF Unreserved
<1>5. stock[s] \in Int /\ avail[s] \in Int /\ gone[s] \in Nat
  <2>1. stock[s] \in Quantity
    BY DEF TypeOK
  <2>. QED
    BY <2>1, QuantityFacts, BoundType
<1>6. stock[s] <= avail[s] + 2 * i + 2 * gone[s]
  BY DEF ReadingInv, Bound
<1>7. Free(s) = AtLeastZero(Round(avail[s]) - (n + u))
  BY <1>3, FreeIs
<1> HIDE DEF n, u, i
<1>8. /\ AtLeastZero(Round(stock[s]) - (n + i))
            <= AtLeastZero(Round(avail[s]) - (n + u)) + (gone[s] + u)
      /\ AtLeastZero(Round(stock[s]))
            <= AtLeastZero(Round(avail[s]) - (n + u)) + (gone[s] + u + (n + i))
  BY <1>1, <1>5, <1>6, ReadingIsCovered
<1>. QED
  BY <1>2, <1>4, <1>7, <1>8

\* Every step keeps: what is about to be pushed is covered.
LEMMA PushStep ==
    ASSUME TypeOK, TypeOK', CacheInv, ReadingInv, PushIsCovered, [Next]_vars
    PROVE  PushIsCovered'
<1> SUFFICES ASSUME pc' = "push", NEW s \in Skus, eff'[s] # NoQty
             PROVE  eff'[s] <= Free(s)' + slip'[s]
  BY DEF PushIsCovered, Pushed
<1>1. /\ Free(s) \in Nat /\ Free(s)' \in Nat
      /\ slip[s] \in Nat /\ slip'[s] \in Nat /\ slip \in [Skus -> Nat]
  BY FreeIs, FreeIsNext DEF TypeOK
<1>2. CASE ComputeEffective \/ ReservationsFail
  <2>1. pc = "reserve" /\ UNCHANGED <<avail, stage, stock>>
    BY <1>2 DEF ComputeEffective, ReservationsFail
  <2>2. Free(s)' = Free(s)
    BY <2>1 DEF Free, OrdersIn
  <2>3. CASE ComputeEffective
    <3>1. /\ eff'[s] = IF stock[s] = NoQty
                         THEN NoQty ELSE AtLeastZero(Round(stock[s]) - Reserved(s))
          /\ slip'[s] = gone[s] + Unreserved(s)
      BY <2>3 DEF ComputeEffective, Quantities
    <3>2. stock[s] # NoQty
      BY <3>1
    <3>. QED
      BY <2>1, <2>2, <3>1, <3>2, ComputedIsCovered
  <2>4. CASE ReservationsFail
    <3>1. /\ eff'[s] = IF stock[s] = NoQty
                         THEN NoQty ELSE AtLeastZero(Round(stock[s]) - 0)
          /\ slip'[s] = gone[s] + Unreserved(s) + Reserved(s)
      BY <2>4 DEF ReservationsFail, Quantities
    <3>2. stock[s] # NoQty
      BY <3>1
    <3>3. Round(stock[s]) \in Int
      <4>1. stock[s] \in Quantity
        BY <3>2 DEF TypeOK
      <4>. QED
        BY <4>1, QuantityFacts, RoundFacts
    <3>4. eff'[s] = AtLeastZero(Round(stock[s]))
      BY <3>1, <3>2, <3>3
    <3>. QED
      BY <2>1, <2>2, <3>1, <3>2, <3>4, ComputedIsCovered
  <2>. QED
    BY <1>2, <2>3, <2>4
<1>3. ASSUME pc = "push", eff' = eff, NEW n \in Nat, slip'[s] = slip[s] + n,
             Free(s) <= Free(s)' + n
      PROVE  eff'[s] <= Free(s)' + slip'[s]
  <2>1. eff[s] <= Free(s) + slip[s]
    BY <1>3 DEF PushIsCovered, Pushed
  <2>2. eff[s] \in Int
    BY <1>3, QuantityFacts DEF TypeOK
  <2>. QED
    BY <1>1, <1>3, <2>1, <2>2
<1>4. CASE Surroundings
  <2>1. pc = "push" /\ eff' = eff
    BY <1>4, SurroundingsKeepSync DEF syncVars
  <2>2. ASSUME NEW o \in Orders, SkuOf[o] = s, PlaceOrder(o) \/ AnswerLost(o)
        PROVE  eff'[s] <= Free(s)' + slip'[s]
    <3>1. avail' = avail /\ slip' = Plus(slip, s, 1)
      BY <2>1, <2>2 DEF PlaceOrder, AnswerLost, TakenUnseen
    <3>2. slip'[s] = slip[s] + 1
      BY <1>1, <3>1, PlusFacts
    <3>3. \E from, to \in Stage : Move(o, from, to)
      BY <2>2 DEF PlaceOrder, AnswerLost, Stage
    <3>4. Free(s) <= Free(s)' + 1
      BY <1>1, <3>1, <3>3, FreeAfterMove
    <3>. QED
      BY <1>3, <2>1, <3>2, <3>4
  <2>3. ASSUME NEW q \in Amounts[s], StockAdjusted(s, q)
        PROVE  eff'[s] <= Free(s)' + slip'[s]
    <3> DEFINE n == (AtLeastZero(avail[s] - q) + 1) \div 2
    <3>1. n \in Nat /\ Free(s) <= Free(s)' + n
      BY <2>3, FreeAfterUse
    <3>2. slip' = Plus(slip, s, n)
      BY <2>1, <2>3 DEF StockAdjusted, TakenUnseen
    <3> HIDE DEF n
    <3>3. slip'[s] = slip[s] + n
      BY <1>1, <3>1, <3>2, PlusFacts
    <3>. QED
      BY <1>3, <2>1, <3>1, <3>3
  <2>4. ASSUME \A o \in Orders : SkuOf[o] = s => ~PlaceOrder(o) /\ ~AnswerLost(o),
               \A q \in Amounts[s] : ~StockAdjusted(s, q)
        PROVE  eff'[s] <= Free(s)' + slip'[s]
    <3>1. ~Crash
      BY <2>1 DEF Crash, EndSync, LeaveSync
    <3>2. Free(s) <= Free(s)' + 0
      BY <1>1, <2>4, <3>1, FreeStep
    <3>3. ASSUME NEW t \in Skus, t # s, NEW n \in Nat, slip' = Plus(slip, t, n)
          PROVE  slip'[s] = slip[s]
      BY <1>1, <3>3, PlusFacts
    <3>4. ASSUME NEW o \in Orders, PlaceOrder(o) \/ AnswerLost(o) PROVE slip'[s] = slip[s]
      <4>1. SkuOf[o] # s /\ SkuOf[o] \in Skus
        BY <2>4, <3>4, StockAssumption
      <4>2. slip' = Plus(slip, SkuOf[o], 1)
        BY <2>1, <3>4 DEF PlaceOrder, AnswerLost, TakenUnseen
      <4>. QED
        BY <3>3, <4>1, <4>2
    <3>5. ASSUME NEW t \in Skus, NEW q \in Amounts[t], StockAdjusted(t, q)
          PROVE  slip'[s] = slip[s]
      <4> DEFINE n == (AtLeastZero(avail[t] - q) + 1) \div 2
      <4>1. t # s
        BY <2>4, <3>5
      <4>2. n \in Nat
        BY <3>5, FreeAfterUse
      <4>3. slip' = Plus(slip, t, n)
        BY <2>1, <3>5 DEF StockAdjusted, TakenUnseen
      <4> HIDE DEF n
      <4>. QED
        BY <3>3, <4>1, <4>2, <4>3
    <3>6. slip'[s] = slip[s]
      BY <1>4, <3>4, <3>5 DEF Surroundings, BatchBegins, BatchEnds, StageOrder,
         MarkOrderProcessing, SubmissionFails, RetryOrder, SysproImports,
         UpdateOrderSubmitted, historyVars
    <3>7. slip'[s] = slip[s] + 0
      BY <1>1, <3>6
    <3>. QED
      BY <1>3, <2>1, <3>2, <3>7
  <2>. QED
    BY <2>2, <2>3, <2>4
<1>5. CASE UNCHANGED vars
  <2>1. pc = "push" /\ eff' = eff /\ slip' = slip /\ UNCHANGED <<avail, stage>>
    BY <1>5 DEF vars, syncVars, historyVars
  <2>2. Free(s)' = Free(s)
    BY <2>1 DEF Free, OrdersIn
  <2>. QED
    BY <1>1, <1>3, <2>1, <2>2
<1>6. ASSUME NEW skus, StartFullSync(skus) PROVE FALSE
  BY <1>6 DEF StartFullSync
<1>7. ~StartTriggeredSync
  BY DEF StartTriggeredSync
<1>8. ASSUME NEW t, QuerySku(t) \/ QuerySkuFails(t) PROVE FALSE
  BY <1>8 DEF QuerySku, QuerySkuFails
<1>9. ~QueryEnds
  BY DEF QueryEnds, EndSync, LeaveSync
<1>10. /\ ~LogonFails /\ ~SetInventoryLevels /\ ~ResolveFails
       /\ ~PushFails /\ ~DeadlinePasses /\ ~LateSyncEnds /\ ~Crash
  BY DEF LogonFails, SetInventoryLevels, ResolveFails, PushFails, DeadlinePasses,
     LateSyncEnds, Crash, EndSync, LeaveSync
<1>. QED
  BY <1>2, <1>4, <1>5, <1>6, <1>7, <1>8, <1>9, <1>10 DEF Next, SyncStep, SyncFault

\* Every step keeps: what is offered is covered.
LEMMA OfferStep ==
    ASSUME TypeOK, TypeOK', PushIsCovered, OfferIsCovered, [Next]_vars
    PROVE  OfferIsCovered'
<1> SUFFICES ASSUME NEW s \in Skus
             PROVE  level'[s] <= Free(s)' + debt'[s]
  BY DEF OfferIsCovered
<1>1. /\ Free(s) \in Nat /\ Free(s)' \in Nat /\ level[s] \in Int
      /\ debt[s] \in Nat /\ debt'[s] \in Nat /\ debt \in [Skus -> Nat]
  BY FreeIs, FreeIsNext, QuantityFacts DEF TypeOK
<1>2. level[s] <= Free(s) + debt[s]
  BY DEF OfferIsCovered
<1>3. ASSUME NEW n \in Nat, level'[s] = level[s], debt'[s] = debt[s] + n,
             Free(s) <= Free(s)' + n
      PROVE  level'[s] <= Free(s)' + debt'[s]
  BY <1>1, <1>2, <1>3
<1>4. ASSUME UNCHANGED <<avail, stage>> PROVE Free(s)' = Free(s)
  BY <1>4 DEF Free, OrdersIn
<1>5. ASSUME UNCHANGED <<avail, stage, level, debt>>
      PROVE  level'[s] <= Free(s)' + debt'[s]
  BY <1>2, <1>4, <1>5
<1>6. ASSUME NEW skus \in SUBSET Pushed, SetLevels(skus), pc = "push",
             UNCHANGED <<avail, stage>>
      PROVE  level'[s] <= Free(s)' + debt'[s]
  <2>1. CASE s \in skus
    <3>1. level'[s] = eff[s] /\ debt'[s] = slip[s]
      BY <1>6, <2>1 DEF SetLevels
    <3>2. eff[s] <= Free(s) + slip[s]
      BY <1>6, <2>1 DEF PushIsCovered
    <3>. QED
      BY <1>4, <1>6, <3>1, <3>2
  <2>2. CASE s \notin skus
    <3>1. level'[s] = level[s] /\ debt'[s] = debt[s]
      BY <1>6, <2>2 DEF SetLevels
    <3>. QED
      BY <1>2, <1>4, <1>6, <3>1
  <2>. QED
    BY <2>1, <2>2
<1>7. ASSUME NEW o \in Orders, PlaceOrder(o) PROVE level'[s] <= Free(s)' + debt'[s]
  <2>1. /\ Move(o, "none", "placed") /\ avail' = avail /\ debt' = debt
        /\ level' = [level EXCEPT ![SkuOf[o]] = @ - 1]
    BY <1>7 DEF PlaceOrder
  <2>2. CASE SkuOf[o] # s
    <3>1. level'[s] = level[s]
      BY <2>1, <2>2 DEF TypeOK
    <3>2. Free(s)' >= Free(s)
      BY <2>1, <2>2, FreeAfterMove DEF Stage
    <3>. QED
      BY <1>1, <1>2, <2>1, <3>1, <3>2
  <2>3. CASE SkuOf[o] = s
    <3>1. level'[s] = level[s] - 1
      BY <2>1, <2>3 DEF TypeOK
    <3>2. Free(s)' + 1 >= Free(s)
      BY <2>1, FreeAfterMove DEF Stage
    <3>. QED
      BY <1>1, <1>2, <2>1, <3>1, <3>2
  <2>. QED
    BY <2>2, <2>3
<1>8. ASSUME NEW t \in Skus, t # s, NEW n \in Nat, debt' = Plus(debt, t, n)
      PROVE  debt'[s] = debt[s]
  BY <1>1, <1>8, PlusFacts
<1>9. ASSUME NEW o \in Orders, AnswerLost(o) PROVE level'[s] <= Free(s)' + debt'[s]
  <2>1. level' = level /\ avail' = avail /\ debt' = Plus(debt, SkuOf[o], 1)
        /\ SkuOf[o] \in Skus
    BY <1>9, StockAssumption DEF AnswerLost, TakenUnseen
  <2>2. PICK to \in {"pending", "failed"} : Move(o, "imported", to)
    BY <1>9 DEF AnswerLost
  <2>3. CASE SkuOf[o] # s
    <3>1. debt'[s] = debt[s]
      BY <1>8, <2>1, <2>3
    <3>2. Free(s)' >= Free(s)
      BY <2>1, <2>2, <2>3, FreeAfterMove DEF Stage
    <3>. QED
      BY <1>1, <1>2, <2>1, <3>1, <3>2
  <2>4. CASE SkuOf[o] = s
    <3>1. debt'[s] = debt[s] + 1
      BY <1>1, <2>1, <2>4, PlusFacts
    <3>2. Free(s)' + 1 >= Free(s)
      BY <2>1, <2>2, FreeAfterMove DEF Stage
    <3>. QED
      BY <1>1, <1>3, <2>1, <3>1, <3>2
  <2>. QED
    BY <2>3, <2>4
<1>10. ASSUME NEW t \in Skus, NEW q \in Amounts[t], StockAdjusted(t, q)
       PROVE  level'[s] <= Free(s)' + debt'[s]
  <2> DEFINE n == (AtLeastZero(avail[t] - q) + 1) \div 2
  <2>1. /\ level' = level /\ stage' = stage /\ debt' = Plus(debt, t, n)
        /\ avail' = [avail EXCEPT ![t] = q]
    BY <1>10 DEF StockAdjusted, TakenUnseen
  <2>2. n \in Nat /\ Free(t) <= Free(t)' + n
    BY <1>10, FreeAfterUse
  <2> HIDE DEF n
  <2>3. CASE t # s
    <3>1. debt'[s] = debt[s] /\ avail'[s] = avail[s]
      BY <1>8, <2>1, <2>2, <2>3 DEF TypeOK
    <3>2. Free(s)' = Free(s)
      BY <2>1, <3>1 DEF Free, OrdersIn
    <3>. QED
      BY <1>2, <2>1, <3>1, <3>2
  <2>4. CASE t = s
    <3>1. debt'[s] = debt[s] + n
      BY <1>1, <2>1, <2>2, <2>4, PlusFacts
    <3>. QED
      BY <1>3, <2>1, <2>2, <2>4, <3>1
  <2>. QED
    BY <2>3, <2>4
<1>11. ASSUME NEW o \in Orders,
              StageOrder(o) \/ MarkOrderProcessing(o) \/ SubmissionFails(o)
                 \/ RetryOrder(o) \/ SysproImports(o) \/ UpdateOrderSubmitted(o)
       PROVE  level'[s] <= Free(s)' + debt'[s]
  <2>1. level' = level /\ debt' = debt
    BY <1>11 DEF StageOrder, MarkOrderProcessing, SubmissionFails, RetryOrder,
       SysproImports, UpdateOrderSubmitted, historyVars
  <2>2. CASE SysproImports(o)
    BY <1>1, <1>2, <2>1, <2>2, FreeAfterTaking
  <2>3. CASE ~SysproImports(o)
    <3>1. avail' = avail
      BY <1>11, <2>3 DEF StageOrder, MarkOrderProcessing, SubmissionFails, RetryOrder,
         UpdateOrderSubmitted
    <3>2. PICK from, to \in Stage :
             /\ Move(o, from, to)
             /\ \/ to \notin {"placed", "pending", "processing", "failed"}
                \/ from \in {"placed", "pending", "processing", "failed"}
      BY <1>11, <2>3 DEF StageOrder, MarkOrderProcessing, SubmissionFails, RetryOrder,
         UpdateOrderSubmitted, Stage
    <3>3. Free(s)' >= Free(s)
      BY <3>1, <3>2, FreeAfterMove
    <3>. QED
      BY <1>1, <1>2, <2>1, <3>3
  <2>. QED
    BY <2>2, <2>3
<1>12. CASE Crash
  <2>1. PICK stale \in SUBSET {o \in Orders : stage[o] \in {"processing", "imported"}} :
           /\ stage' = [o \in Orders |-> IF o \in stale THEN "pending" ELSE stage[o]]
           /\ debt' = [t \in Skus |->
                         debt[t] + Cardinality(stale \cap OrdersIn(t, {"imported"}))]
    BY <1>12 DEF Crash
  <2> DEFINE A == Waiting(s)
             B == stale \cap OrdersIn(s, {"imported"})
  <2>2. Waiting(s)' = A \cup B
    BY <2>1 DEF Waiting, OrdersIn
  <2>3. A \cap B = {}
    BY DEF Waiting, OrdersIn
  <2>4. IsFiniteSet(A) /\ IsFiniteSet(B) /\ Cardinality(A) \in Nat /\ Cardinality(B) \in Nat
    BY OrdersInFinite, FS_Subset, FS_CardinalityType DEF Waiting
  <2>5. debt'[s] = debt[s] + Cardinality(B) /\ level' = level /\ avail' = avail
    BY <1>12, <2>1 DEF Crash
  <2>6. /\ Free(s) = AtLeastZero(Round(avail[s]) - Cardinality(A))
        /\ Free(s)' = AtLeastZero(Round(avail[s]) - Cardinality(A \cup B))
        /\ Round(avail[s]) \in Int
    BY <2>2, <2>5, FreeIs, FreeIsNext
  <2> HIDE DEF A, B
  <2>7. Cardinality(A \cup B) = Cardinality(A) + Cardinality(B)
    <3>1. Cardinality(A \cup B) = Cardinality(A) + Cardinality(B) - Cardinality(A \cap B)
      BY <2>4, FS_Union
    <3>2. Cardinality(A \cap B) = 0
      BY <2>3, FS_EmptySet
    <3>. QED
      BY <2>4, <3>1, <3>2
  <2>8. Free(s) <= Free(s)' + Cardinality(B)
    BY <2>4, <2>6, <2>7 DEF AtLeastZero
  <2>. QED
    BY <1>3, <2>4, <2>5, <2>8
<1>13. ASSUME NEW skus, StartFullSync(skus) PROVE level'[s] <= Free(s)' + debt'[s]
  BY <1>5, <1>13 DEF StartFullSync
<1>14. CASE StartTriggeredSync \/ BatchBegins \/ BatchEnds \/ LateSyncEnds
  BY <1>5, <1>14 DEF StartTriggeredSync, BatchBegins, BatchEnds, LateSyncEnds, historyVars
<1>15. ASSUME NEW t \in Skus, QuerySku(t) \/ QuerySkuFails(t)
       PROVE  level'[s] <= Free(s)' + debt'[s]
  BY <1>5, <1>15 DEF QuerySku, QuerySkuFails, historyVars
<1>16. CASE QueryEnds \/ ComputeEffective \/ LogonFails \/ ReservationsFail
  BY <1>5, <1>16 DEF QueryEnds, ComputeEffective, LogonFails, ReservationsFail
<1>17. CASE SetInventoryLevels
  BY <1>6, <1>17 DEF SetInventoryLevels
<1>18. CASE ResolveFails
  BY <1>6, <1>18 DEF ResolveFails
<1>19. CASE PushFails \/ DeadlinePasses
  BY <1>5, <1>6, <1>19 DEF PushFails, DeadlinePasses, PushCutShort
<1>20. CASE UNCHANGED vars
  BY <1>5, <1>20 DEF vars, historyVars
<1>. QED
  BY <1>7, <1>9, <1>10, <1>11, <1>12, <1>13, <1>14, <1>15, <1>16, <1>17, <1>18, <1>19,
     <1>20 DEF Next, Surroundings, SyncStep, SyncFault

-----------------------------------------------------------------------------
(* The theorems.                                                           *)

\* The invariant holds at the start: the levels are what SYSPRO has.
LEMMA SafeInit == Init => SafeInv
<1> SUFFICES ASSUME Init PROVE SafeInv
  OBVIOUS
<1>1. TypeOK
  <2>1. ASSUME NEW s \in Skus PROVE avail[s] \in Quantity /\ Round(avail[s]) \in 0..Round(MaxHalves)
    <3>1. avail[s] \in 0..MaxHalves /\ MaxHalves \in Nat /\ Round(MaxHalves) \in Nat
      BY QuantityFacts DEF Init
    <3>2. Round(avail[s]) <= Round(MaxHalves) /\ Round(avail[s]) >= 0 /\ Round(avail[s]) \in Int
      BY <3>1, RoundFacts
    <3>. QED
      BY <3>1, <3>2, QuantityFacts
  <2>2. avail \in [Skus -> Quantity] /\ level \in [Skus -> 0..Round(MaxHalves)]
    BY <2>1 DEF Init
  <2>3. NoStock \in [Skus -> Quantity \cup {NoQty}]
        /\ NoStock \in [Skus -> 0..Round(MaxHalves) \cup {NoQty}]
    BY DEF NoStock
  <2>4. faults \in 0..MaxFaults
    BY StockAssumption DEF Init
  <2>. QED
    BY <2>2, <2>3, <2>4 DEF Init, TypeOK, Stage, None
<1>2. ASSUME NEW s \in Skus, NEW S, "none" \notin S PROVE OrdersIn(s, S) = {}
  BY <1>2 DEF Init, OrdersIn
<1>3. AvailInv
  <2> SUFFICES ASSUME NEW s \in Skus
               PROVE  avail[s] >= -(2 * (Cardinality(Orders) * 0 + 0))
    BY <1>2, FS_EmptySet DEF AvailInv, Taken, Init
  <2>1. avail[s] \in Nat
    BY StockAssumption DEF Init
  <2>. QED
    BY <1>1, <2>1, Numbers
<1>4. AnswerInv /\ CacheInv /\ ReadingInv /\ PushIsCovered
  BY DEF Init, AnswerInv, CacheInv, ReadingInv, PushIsCovered, NoStock
<1>5. OfferIsCovered
  <2> SUFFICES ASSUME NEW s \in Skus PROVE level[s] <= Free(s) + debt[s]
    BY DEF OfferIsCovered
  <2>1. Cardinality(Waiting(s)) = 0 /\ debt[s] = 0
    BY <1>2, FS_EmptySet DEF Waiting, Init, None
  <2>2. level[s] = Round(avail[s])
    BY DEF Init
  <2>. QED
    BY <1>1, <2>1, <2>2, FreeIs DEF AtLeastZero
<1>. QED
  BY <1>1, <1>3, <1>4, <1>5 DEF SafeInv

\* The invariant is inductive.
LEMMA SafeStep == SafeInv /\ [Next]_vars => SafeInv'
<1> SUFFICES ASSUME SafeInv, [Next]_vars PROVE SafeInv'
  OBVIOUS
<1> USE DEF SafeInv
<1>1. AvailInv'
  BY AvailStep
<1>2. TypeOK'
  BY TypeStep
<1>3. AnswerInv' /\ CacheInv'
  BY AnswerStep
<1>4. ReadingInv'
  BY <1>2, ReadingStep
<1>5. PushIsCovered'
  BY <1>2, PushStep
<1>6. OfferIsCovered'
  BY <1>2, OfferStep
<1>. QED
  BY <1>1, <1>2, <1>3, <1>4, <1>5, <1>6

LEMMA SafeAlways == Spec => []SafeInv
BY SafeInit, SafeStep, PTL DEF Spec

\* Every variable of the stock sync keeps its type: no level below zero or above
\* what the warehouse can hold is ever computed or set, however often an order
\* is imported twice and however far SYSPRO's own figure falls below zero.
THEOREM StockTypeCorrect == Spec => []TypeOK
BY SafeAlways, PTL DEF SafeInv

\* Every push is accounted for: whatever the batch submits between the reading of
\* SYSPRO's stock, fresh or cached, and that of the rows, and whether or not the
\* rows could be read, a quantity exceeds what can still be sold by no more than
\* the units that left both readings, that neither can show, or that were not
\* subtracted ("using zero").  SYSPRO's own allocations and the rounding of half
\* units add nothing.
THEOREM PushesAreCovered == Spec => []PushIsCovered
BY SafeAlways, PTL DEF SafeInv

\* Shopify never offers more of a SKU than can still be delivered, but for the
\* units its last push did not know of and those taken unseen since: purchases,
\* submissions, retries and syncs that fail or run out of time add none.
THEOREM OffersAreCovered == Spec => []OfferIsCovered
BY SafeAlways, PTL DEF SafeInv

\* A push changes only the levels of SKUs SYSPRO has answered for: an outage or
\* an unreadable answer leaves the last level, and never a zero.
THEOREM UnansweredLevelsStay == Spec => UnansweredKeepsLevel
<1> DEFINE Act == pc = "push" => \A s \in Skus : level'[s] # level[s] =>
          s \in answered \/ \E o \in Orders : SkuOf[o] = s /\ stage'[o] # stage[o]
<1>1. SafeInv /\ [Next]_vars => [Act]_vars
  <2> SUFFICES ASSUME SafeInv, Next, pc = "push", NEW s \in Skus, level'[s] # level[s]
               PROVE  s \in answered \/ \E o \in Orders : SkuOf[o] = s /\ stage'[o] # stage[o]
    OBVIOUS
  <2>1. ASSUME NEW skus \in SUBSET Pushed, SetLevels(skus) PROVE s \in answered
    BY <2>1 DEF SetLevels, Pushed, SafeInv, AnswerInv
  <2>2. ASSUME NEW o \in Orders, PlaceOrder(o)
        PROVE  SkuOf[o] = s /\ stage'[o] # stage[o]
    BY <2>2 DEF PlaceOrder, Move, SafeInv, TypeOK
  <2>3. CASE Surroundings
    BY <2>2, <2>3 DEF Surroundings, BatchBegins, BatchEnds, StageOrder,
       MarkOrderProcessing, SubmissionFails, RetryOrder, SysproImports, AnswerLost,
       UpdateOrderSubmitted, StockAdjusted
  <2>4. CASE SetInventoryLevels \/ ResolveFails \/ PushFails \/ DeadlinePasses
    BY <2>1, <2>4 DEF SetInventoryLevels, ResolveFails, PushFails, DeadlinePasses,
       PushCutShort
  <2>5. ASSUME NEW skus PROVE ~StartFullSync(skus)
    BY DEF StartFullSync
  <2>6. ASSUME NEW t PROVE ~QuerySku(t) /\ ~QuerySkuFails(t)
    BY DEF QuerySku, QuerySkuFails
  <2>7. /\ ~StartTriggeredSync /\ ~QueryEnds /\ ~ComputeEffective
        /\ ~LogonFails /\ ~ReservationsFail /\ ~Crash /\ ~LateSyncEnds
    BY DEF StartTriggeredSync, QueryEnds, ComputeEffective, LogonFails, ReservationsFail,
       Crash, LateSyncEnds
  <2>. QED
    BY <2>3, <2>4, <2>5, <2>6, <2>7 DEF Next, SyncStep, SyncFault
<1>2. UnansweredKeepsLevel <=> [][Act]_vars
  BY DEF UnansweredKeepsLevel
<1>. QED
  BY <1>1, <1>2, SafeAlways, PTL DEF Spec

=============================================================================
