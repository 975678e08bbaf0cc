------------------------------ MODULE StockSync ------------------------------
(***************************************************************************)
(* Stock sync: SYSPRO's available quantities, less what orders on their    *)
(* way to SYSPRO will take, are set as Shopify's inventory levels          *)
(* (internal/inventory, internal/syspro/inventory.go,                      *)
(* FetchReservedQuantities of internal/store/order.go).                    *)
(*                                                                         *)
(* A full sync asks SYSPRO about each SKU, remembers the answers, reads    *)
(* the reservations and pushes.  A sync triggered by a webhook order does  *)
(* the same with the remembered answers.  Meanwhile customers buy, orders  *)
(* are staged and submitted, and SYSPRO's stock changes for other reasons. *)
(* A sync has three minutes; what is left to do then fails.                *)
(*                                                                         *)
(* An order is for one unit of one SKU.  SYSPRO keeps stock in fractions,  *)
(* here in halves of a unit.  A SKU the warehouse does not stock is one    *)
(* with nothing available: QueryStock reports zero for both.               *)
(***************************************************************************)
EXTENDS Integers, FiniteSets

CONSTANTS
    Skus,
    StaticSkus,   \* SYSPRO_SKUS: the list used when discovery fails
    Orders,
    SkuOf,        \* SkuOf[o]: the SKU of order o
    MaxHalves,    \* bound: stock of a SKU, in halves of a unit
    Amounts,      \* bound: Amounts[s], the stock of s at the start and after
                  \* a change that is not the service's orders
    MaxFaults     \* bound: calls that fail, restarts of the service, and
                  \* changes of stock that are not the service's orders

ASSUME StockAssumption ==
    /\ StaticSkus \subseteq Skus
    /\ IsFiniteSet(Orders)
    /\ SkuOf \in [Orders -> Skus]
    /\ MaxHalves \in Nat
    /\ Amounts \in [Skus -> SUBSET (0..MaxHalves)]
    /\ MaxFaults \in Nat

VARIABLES
    avail,      \* avail[s]: AvailableQty in SYSPRO, in halves
    stage,      \* stage[o]: how far the order is
    level,      \* level[s]: what Shopify offers
    holder,     \* who holds sessionMu
    \* The syncer.
    trigger,    \* a triggered sync is asked for
    pc,
    todo,       \* SKUs SYSPRO is still to be asked about
    stock,      \* the answers of this sync; NoQty where there is none
    cached,     \* cachedStock
    eff,        \* the quantities to push; NoQty where there is none
    \* History, for the properties only.
    answered,   \* SKUs SYSPRO has answered for, in the stock in use
    cachedAnswered, \* the same for the cache
    gone,       \* gone[s]: units that have left both the reservations and the
                \* stock since the stock of s was read
    slip,       \* slip[s]: units the quantity to push does not take into account
    debt,       \* debt[s]: units the level does not take into account
    \* Bound.
    faults

syncVars == <<pc, todo, stock, cached, eff>>
historyVars == <<answered, cachedAnswered, gone, slip, debt>>
vars == <<avail, stage, level, holder, trigger, syncVars, historyVars, faults>>

Stage == {"none", "placed", "pending", "processing", "imported", "submitted",
          "failed"}

\* No answer for a SKU: more than there ever is.
NoQty == MaxHalves + 1
NoStock == [s \in Skus |-> NoQty]

\* A reading of the stock of s is in use, or may be used by a later sync.
Read(s) == stock[s] # NoQty \/ cached[s] # NoQty

\* No units of any SKU, and n units more of one of them.
None == [s \in Skus |-> 0]
Plus(units, s, n) == [units EXCEPT ![s] = @ + n]

\* math.Round of a number of halves: half a unit is rounded away from zero.
Round(q) == IF q >= 0 THEN (q + 1) \div 2 ELSE -((1 - q) \div 2)

AtLeastZero(n) == IF n < 0 THEN 0 ELSE n

OrdersIn(s, stages) == {o \in Orders : SkuOf[o] = s /\ stage[o] \in stages}

\* Mutant of Reserved: rows being submitted are forgotten.
ReservedPending(s) == Cardinality(OrdersIn(s, {"pending"}))

\* FetchReservedQuantities: rows that are 'pending' or 'processing'.  A row stays
\* 'processing' from the claim to the recorded answer: "imported" is one that
\* SYSPRO already has.
Reserved(s) == Cardinality(OrdersIn(s, {"pending", "processing", "imported"}))

Init ==
    /\ avail \in {q \in [Skus -> 0..MaxHalves] : \A s \in Skus : q[s] \in Amounts[s]}
    /\ stage = [o \in Orders |-> "none"]
    /\ level = [s \in Skus |-> Round(avail[s])]
    /\ holder = "none"
    /\ trigger = FALSE
    /\ pc = "idle"
    /\ todo = {}
    /\ stock = NoStock /\ cached = NoStock /\ eff = NoStock
    /\ answered = {} /\ cachedAnswered = {}
    /\ gone = None /\ slip = None /\ debt = None
    /\ faults = 0

-----------------------------------------------------------------------------
(* Customers, the pipeline and SYSPRO.  The batch processor claims rows,   *)
(* submits them and records the answers while it holds the session; rows   *)
(* may be left 'processing' when it lets go.                               *)

Fault ==
    /\ faults < MaxFaults
    /\ faults' = faults + 1

Move(o, from, to) ==
    /\ stage[o] = from
    /\ stage' = [stage EXCEPT ![o] = to]

\* A customer buys what Shopify offers, and Shopify lowers its level.
PlaceOrder(o) ==
    /\ level[SkuOf[o]] > 0
    /\ Move(o, "none", "placed")
    /\ level' = [level EXCEPT ![SkuOf[o]] = @ - 1]
    /\ slip' = IF pc = "push" THEN Plus(slip, SkuOf[o], 1) ELSE slip
    /\ UNCHANGED <<holder, avail, trigger, syncVars, answered, cachedAnswered,
                   gone, debt, faults>>

\* The order is staged; the webhook handler wakes the syncer, the sweep does not.
StageOrder(o) ==
    /\ Move(o, "placed", "pending")
    /\ trigger' \in {trigger, TRUE}
    /\ UNCHANGED <<holder, avail, level, syncVars, historyVars, faults>>

BatchBegins ==
    /\ holder = "none"
    /\ holder' = "batch"
    /\ UNCHANGED <<avail, stage, level, trigger, syncVars, historyVars,
                   faults>>

BatchEnds ==
    /\ holder = "batch"
    /\ holder' = "none"
    /\ UNCHANGED <<avail, stage, level, trigger, syncVars, historyVars,
                   faults>>

MarkOrderProcessing(o) ==
    /\ holder = "batch"
    /\ Move(o, "pending", "processing")
    /\ UNCHANGED <<holder, avail, level, trigger, syncVars, historyVars,
                   faults>>

\* The submission fails: for now, or ('failed' and 'dead_letter' rows) until an
\* operator asks for another attempt.
SubmissionFails(o) ==
    /\ holder = "batch"
    /\ \E to \in {"pending", "failed"} : Move(o, "processing", to)
    /\ UNCHANGED <<holder, avail, level, trigger, syncVars, historyVars,
                   faults>>

RetryOrder(o) ==
    /\ Move(o, "failed", "pending")
    /\ UNCHANGED <<holder, avail, level, trigger, syncVars, historyVars, faults>>

\* SYSPRO takes the order and allocates its unit.
SysproImports(o) ==
    /\ holder = "batch"
    /\ Move(o, "processing", "imported")
    /\ avail' = [avail EXCEPT ![SkuOf[o]] = @ - 2]
    /\ UNCHANGED <<holder, level, trigger, syncVars, historyVars, faults>>

\* Units that no reading of the reservations will show any more, and none before
\* has: n of s are taken by an order or a use the service does not know of.
TakenUnseen(s, n) ==
    /\ gone' = IF Read(s) THEN Plus(gone, s, n) ELSE gone
    /\ slip' = IF pc = "push" THEN Plus(slip, s, n) ELSE slip
    /\ debt' = Plus(debt, s, n)

\* SYSPRO takes the order but its answer is lost, as if the submission had failed.
AnswerLost(o) ==
    /\ holder = "batch"
    /\ Fault
    /\ \E to \in {"pending", "failed"} : Move(o, "imported", to)
    /\ TakenUnseen(SkuOf[o], 1)
    /\ UNCHANGED <<holder, avail, level, trigger, syncVars, answered,
                   cachedAnswered>>

\* The row is 'submitted': the order leaves the reservations.
UpdateOrderSubmitted(o) ==
    /\ holder = "batch"
    /\ Move(o, "imported", "submitted")
    /\ gone' = IF Read(SkuOf[o]) THEN Plus(gone, SkuOf[o], 1) ELSE gone
    /\ UNCHANGED <<holder, avail, level, trigger, syncVars, answered,
                   cachedAnswered, slip, debt, faults>>

\* Goods are received, counted or sold elsewhere, or SYSPRO imports an order
\* whose submission was given up.
StockAdjusted(s, q) ==
    /\ Fault
    /\ avail' = [avail EXCEPT ![s] = q]
    /\ TakenUnseen(s, (AtLeastZero(avail[s] - q) + 1) \div 2)
    /\ UNCHANGED <<holder, stage, level, trigger, syncVars, answered,
                   cachedAnswered>>

-----------------------------------------------------------------------------
(* The syncer.  Run is one goroutine: a sync is over before the next.      *)

\* Mutant of StartFullSync: once there are answers they are never asked for again.
StartFullSyncFromCache(skus) ==
    /\ pc = "idle"
    /\ \/ skus = Skus /\ UNCHANGED faults
       \/ skus = StaticSkus /\ Fault
    /\ skus # {}
    /\ holder = "none"
    /\ IF cached = NoStock
         THEN /\ holder' = "stock" /\ pc' = "query" /\ todo' = skus
              /\ stock' = NoStock /\ answered' = {}
         ELSE /\ pc' = "reserve"
              /\ stock' = cached /\ answered' = cachedAnswered
              /\ UNCHANGED <<holder, todo>>
    /\ UNCHANGED <<avail, stage, level, trigger, cached, eff,
                   cachedAnswered, gone, slip, debt>>

\* The lists resolveSKUs may come to: the discovered one, or the static one when
\* discovery fails or finds nothing.  QueryStock then waits for the session and
\* keeps it until it has asked about every SKU.
StartFullSync(skus) ==
    /\ pc = "idle"
    /\ \/ skus = Skus /\ UNCHANGED faults
       \/ skus = StaticSkus /\ Fault
    /\ skus # {}
    /\ holder = "none" /\ holder' = "stock"
    /\ pc' = "query"
    /\ todo' = skus
    /\ stock' = NoStock
    /\ answered' = {}
    /\ UNCHANGED <<avail, stage, level, trigger, cached, eff,
                   cachedAnswered, gone, slip, debt>>

\* What the sync has read and computed is forgotten.
LeaveSync(to) ==
    /\ pc' = to
    /\ todo' = {}
    /\ stock' = NoStock /\ eff' = NoStock
    /\ answered' = {} /\ slip' = None

\* Back to Run's select.
EndSync == LeaveSync("idle")

\* The logon fails; the levels in Shopify stay, and so does the cache.
LogonFails ==
    /\ pc = "query"
    /\ stock = NoStock
    /\ Fault
    /\ holder' = "none"
    /\ EndSync
    /\ UNCHANGED <<avail, stage, level, trigger, cached,
                   cachedAnswered, gone, debt>>

\* INVQRY for one SKU.
QuerySku(s) ==
    /\ pc = "query"
    /\ s \in todo
    /\ todo' = todo \ {s}
    /\ stock' = [stock EXCEPT ![s] = avail[s]]
    /\ answered' = answered \cup {s}
    /\ gone' = [gone EXCEPT ![s] = 0]
    /\ UNCHANGED <<holder, avail, stage, level, trigger, pc, cached, eff,
                   cachedAnswered, slip, debt, faults>>

\* Mutant of QuerySkuFails: a failed query counts as no stock.
QuerySkuFailsToZero(s) ==
    /\ pc = "query"
    /\ s \in todo
    /\ Fault
    /\ todo' = todo \ {s}
    /\ stock' = [stock EXCEPT ![s] = 0]
    /\ UNCHANGED <<holder, avail, stage, level, trigger, pc, cached, eff,
                   historyVars>>

\* The query fails or its answer cannot be read: the SKU is left out.
QuerySkuFails(s) ==
    /\ pc = "query"
    /\ s \in todo
    /\ Fault
    /\ todo' = todo \ {s}
    /\ UNCHANGED <<holder, avail, stage, level, trigger, pc, stock,
                   cached, eff, historyVars>>

\* All answers are in.  Without any, the sync ends and the cache stays.
QueryEnds ==
    /\ pc = "query"
    /\ todo = {}
    /\ holder' = "none"
    /\ IF stock = NoStock
         THEN /\ EndSync
              /\ UNCHANGED <<cached, cachedAnswered>>
         ELSE /\ cached' = stock /\ cachedAnswered' = answered
              /\ pc' = "reserve"
              /\ UNCHANGED <<todo, stock, eff, answered, slip>>
    /\ UNCHANGED <<avail, stage, level, trigger, gone, debt, faults>>

\* A triggered sync starts from the cache; without one there is nothing to do.
StartTriggeredSync ==
    /\ pc = "idle"
    /\ trigger
    /\ trigger' = FALSE
    /\ IF cached = NoStock
         THEN UNCHANGED <<pc, stock, answered>>
         ELSE /\ pc' = "reserve"
              /\ stock' = cached /\ answered' = cachedAnswered
    /\ UNCHANGED <<holder, avail, stage, level, todo, cached, eff,
                   cachedAnswered, gone, slip, debt, faults>>

\* The loop of computeEffective.
Quantities(reserved) ==
    [s \in Skus |-> IF stock[s] = NoQty
                      THEN NoQty ELSE AtLeastZero(Round(stock[s]) - reserved[s])]

\* Orders that will take a unit and are no reservation: not staged yet, or failed
\* and waiting for an operator.
Unreserved(s) == Cardinality(OrdersIn(s, {"placed", "failed"}))

\* computeEffective, with the reservations of this moment.
ComputeEffective ==
    /\ pc = "reserve"
    /\ eff' = Quantities([s \in Skus |-> Reserved(s)])
    /\ slip' = [s \in Skus |-> gone[s] + Unreserved(s)]
    /\ pc' = "push"
    /\ UNCHANGED <<holder, avail, stage, level, trigger, todo, stock,
                   cached, answered, cachedAnswered, gone, debt, faults>>

\* The reservations cannot be read: "using zero".
ReservationsFail ==
    /\ pc = "reserve"
    /\ Fault
    /\ eff' = Quantities([s \in Skus |-> 0])
    /\ slip' = [s \in Skus |-> gone[s] + Unreserved(s) + Reserved(s)]
    /\ pc' = "push"
    /\ UNCHANGED <<holder, avail, stage, level, trigger, todo, stock,
                   cached, answered, cachedAnswered, gone, debt>>

Pushed == {s \in Skus : eff[s] # NoQty}

\* Mutant of SetLevels: SYSPRO's stock is pushed, not the computed quantities.
SetLevelsToStock(skus) ==
    /\ level' = [s \in Skus |-> IF s \in skus THEN AtLeastZero(Round(stock[s]))
                                             ELSE level[s]]
    /\ debt' = [s \in Skus |-> IF s \in skus THEN slip[s] ELSE debt[s]]

\* inventorySetQuantities: the levels are overwritten, whatever they are.
SetLevels(skus) ==
    /\ level' = [s \in Skus |-> IF s \in skus THEN eff[s] ELSE level[s]]
    /\ debt' = [s \in Skus |-> IF s \in skus THEN slip[s] ELSE debt[s]]

\* SetInventoryLevels, with the inventory item ids in skuMap or found now.
SetInventoryLevels ==
    /\ pc = "push"
    /\ SetLevels(Pushed)
    /\ EndSync
    /\ UNCHANGED <<holder, avail, stage, trigger, cached, cachedAnswered,
                   gone, faults>>

\* resolveInventoryItems fails at one of its pages: only SKUs found by then, or in
\* skuMap since an earlier sync, are pushed; which those are is left open.
ResolveFails ==
    /\ pc = "push"
    /\ Fault
    /\ \E found \in SUBSET Pushed : SetLevels(found)
    /\ EndSync
    /\ UNCHANGED <<holder, avail, stage, trigger, cached, cachedAnswered,
                   gone>>

\* The push is carried out, or it is not.
PushCutShort == UNCHANGED <<level, debt>> \/ SetLevels(Pushed)

\* The location is not found, or the mutation is refused, or its answer is lost.
PushFails ==
    /\ pc = "push"
    /\ Fault
    /\ PushCutShort
    /\ EndSync
    /\ UNCHANGED <<holder, avail, stage, trigger, cached, cachedAnswered,
                   gone>>

\* The three minutes of a sync are over, with the wait for the session counted
\* in: the logon, the queries, the reservations or the push that is left fails.
\* Answers that are in are remembered, but what is computed from them is not
\* pushed any more.  A push under way may be carried out.
DeadlinePasses ==
    /\ \/ /\ pc = "query"
          /\ holder' = "none"
          /\ IF stock = NoStock
               THEN UNCHANGED <<cached, cachedAnswered>>
               ELSE cached' = stock /\ cachedAnswered' = answered
          /\ UNCHANGED <<level, debt>>
       \/ /\ pc = "reserve"
          /\ UNCHANGED <<holder, cached, cachedAnswered, level, debt>>
       \/ /\ pc = "push"
          /\ PushCutShort
          /\ UNCHANGED <<holder, cached, cachedAnswered>>
    /\ LeaveSync("late")
    /\ UNCHANGED <<avail, stage, trigger, gone, faults>>

LateSyncEnds ==
    /\ pc = "late"
    /\ pc' = "idle"
    /\ UNCHANGED <<avail, stage, level, holder, trigger, todo, stock, cached, eff,
                   historyVars, faults>>

\* A restart: the cache and the trigger are lost, and rows
\* that have been 'processing' for long are 'pending' again.
Crash ==
    /\ Fault
    /\ holder' = "none"
    /\ EndSync
    /\ trigger' = FALSE
    /\ cached' = NoStock
    /\ cachedAnswered' = {} /\ gone' = None
    /\ \E stale \in SUBSET {o \in Orders : stage[o] \in {"processing", "imported"}} :
          /\ stage' = [o \in Orders |-> IF o \in stale THEN "pending" ELSE stage[o]]
          /\ debt' = [s \in Skus |->
                debt[s] + Cardinality(stale \cap OrdersIn(s, {"imported"}))]
    /\ UNCHANGED <<avail, level>>

-----------------------------------------------------------------------------
Surroundings ==
    \/ BatchBegins
    \/ BatchEnds
    \/ \E o \in Orders :
          \/ PlaceOrder(o)
          \/ StageOrder(o)
          \/ MarkOrderProcessing(o)
          \/ SubmissionFails(o)
          \/ RetryOrder(o)
          \/ SysproImports(o)
          \/ AnswerLost(o)
          \/ UpdateOrderSubmitted(o)
    \/ \E s \in Skus : \E q \in Amounts[s] : StockAdjusted(s, q)

\* The steps of a sync once it is under way.
SyncStep ==
    \/ \E s \in Skus : QuerySku(s)
    \/ QueryEnds
    \/ ComputeEffective
    \/ SetInventoryLevels
    \/ LateSyncEnds

SyncFault ==
    \/ LogonFails
    \/ \E s \in Skus : QuerySkuFails(s)
    \/ ReservationsFail
    \/ ResolveFails
    \/ PushFails
    \/ DeadlinePasses
    \/ Crash

Next ==
    \/ Surroundings
    \/ \E skus \in {Skus, StaticSkus} : StartFullSync(skus)
    \/ StartTriggeredSync
    \/ SyncStep
    \/ SyncFault

Spec == Init /\ [][Next]_vars

\* Calls return, a batch ends, and the ticker gets its turn in Run's select, and
\* at the session, as often as others do.  Nothing is assumed of the orders or of
\* SYSPRO's stock.
FairSpec ==
    /\ Spec
    /\ WF_vars(SyncStep)
    /\ WF_vars(BatchEnds)
    /\ WF_vars(StartTriggeredSync)
    /\ SF_vars(StartFullSync(Skus))

-----------------------------------------------------------------------------
(* Properties.                                                             *)

\* An order may be imported again after a restart or a lost answer.
MaxImports == Cardinality(Orders) * (1 + MaxFaults)
Quantity == -(2 * MaxImports)..MaxHalves

\* Every variable has its type; in particular no negative level is ever set.
TypeOK ==
    /\ avail \in [Skus -> Quantity]
    /\ stage \in [Orders -> Stage]
    /\ level \in [Skus -> 0..Round(MaxHalves)]
    /\ holder \in {"none", "batch", "stock"}
    /\ trigger \in BOOLEAN
    /\ pc \in {"idle", "query", "reserve", "push", "late"}
    /\ todo \subseteq Skus
    /\ stock \in [Skus -> Quantity \cup {NoQty}]
    /\ cached \in [Skus -> Quantity \cup {NoQty}]
    /\ eff \in [Skus -> 0..Round(MaxHalves) \cup {NoQty}]
    /\ answered \subseteq Skus /\ cachedAnswered \subseteq Skus
    /\ gone \in [Skus -> Nat] /\ slip \in [Skus -> Nat] /\ debt \in [Skus -> Nat]
    /\ faults \in 0..MaxFaults

\* What can still be sold of s: SYSPRO's stock less the orders that will take a
\* unit of it and have not.
Free(s) ==
    AtLeastZero(Round(avail[s])
        - Cardinality(OrdersIn(s, {"placed", "pending", "processing", "failed"})))

\* What is about to be pushed exceeds what is free by no more units than there
\* are that the two readings could not show: units whose order was recorded as
\* submitted, whose answer was lost or that were used elsewhere since the stock
\* was read, orders that were placed and not staged or have failed, orders
\* placed since, and the reservations themselves where they could not be read
\* ("using zero").  An order SYSPRO takes between the readings is counted once or
\* twice, never missed.
PushIsCovered ==
    pc = "push" => \A s \in Pushed : eff[s] <= Free(s) + slip[s]

\* Shopify never offers more of a SKU than can still be delivered, but for the
\* units the push of its level did not know of and those a lost answer, a restart
\* in the middle of a submission or another use of the stock has taken since.
\* What customers buy, batches submit, operators retry and syncs leave undone
\* adds nothing to them.
OfferIsCovered == \A s \in Skus : level[s] <= Free(s) + debt[s]

\* Only an answer of SYSPRO changes a level: when SYSPRO cannot be reached, or
\* one of its answers cannot be read, the last level stays.
UnansweredKeepsLevel ==
    [][pc = "push" => \A s \in Skus : level'[s] # level[s] =>
          s \in answered \/ \E o \in Orders : SkuOf[o] = s /\ stage'[o] # stage[o]]_vars

\* Once orders and stock are quiet the levels become what SYSPRO's stock and the
\* rows say, and stay so, whatever was cached, lost or pushed before, provided
\* the syncs come to end within their three minutes.
LevelsSettle ==
    <>[][UNCHANGED <<stage, avail>>]_vars /\ <>[](pc # "late") =>
       \A s \in Skus :
          <>[](level[s] = AtLeastZero(Round(avail[s]) - Reserved(s)))
=============================================================================
