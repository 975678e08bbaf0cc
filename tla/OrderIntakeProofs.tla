-------------------------- MODULE OrderIntakeProofs --------------------------
(***************************************************************************)
(* What OrderIntake's runs check on small instances, proved for any set of *)
(* orders, webhook ids and concurrent requests, and any number of failures *)
(* and restarts.                                                           *)
(***************************************************************************)
EXTENDS OrderIntake, FiniteSetTheorems, TLAPS

WasPaid(o) == fin[o] \in {"paid", "refunded"}

\* A webhook that was made tells of a placed order, and of a paid one if it
\* says so.
HookInv ==
    \A w \in Hooks :
       delivery[w] # "unsent" =>
          /\ hook[w].order \in Orders
          /\ hook[w].paid => WasPaid(hook[w].order)

\* A request past the gate has a paid order in hand, staged once it says so.
RequestInv ==
    \A h \in Handlers :
       /\ pc[h] # "idle" =>
             /\ req[h] \in Hooks
             /\ delivery[req[h]] # "unsent"
             /\ hook[req[h]].paid
       /\ pc[h] = "staged" => Staged(hook[req[h]].order)

\* A webhook id is remembered only together with its order: a delivery turned
\* away as a duplicate is one whose order is staged.
EventInv ==
    \A w \in events : delivery[w] # "unsent" /\ Staged(hook[w].order)

\* What the sweep takes for paid was paid.
ListInv == \A o \in listedPaid : WasPaid(o)

SafeInv ==
    TypeOK /\ HookInv /\ RequestInv /\ EventInv /\ ListInv
    /\ AckedPaidIsStaged /\ StagedWasPaid

(***************************************************************************)
(* For the lookback: PaidBefore(o) says that o was paid before the present *)
(* interval began, so that any sweep of this interval sees it paid.        *)
(***************************************************************************)
PaidBefore(o) == fin[o] = "paid" /\ paidAt[o] < age[o] /\ age[o] <= Lookback

AgeInv ==
    \A o \in Orders :
       /\ paidAt[o] <= age[o]
       /\ fin[o] = "none" => age[o] = 0

\* Only a running service sweeps.  The sweep under way has such an order still
\* before it, unless it is staged or its staging failed; what it holds for
\* existing is.
SweepInv ==
    /\ ~up => sweep = "idle"
    /\ \A o \in existing : Staged(o)
    /\ sweep # "idle" =>
          \A o \in Orders :
             PaidBefore(o) => \/ Staged(o)
                              \/ o \in failed
                              \/ o \in listed \cap listedPaid

\* Served orders are staged.
ServedInv == \A o \in served : PaidBefore(o) => Staged(o)

\* An order that is paid and not staged has been missed in every interval since
\* it was paid, the one of the payment and the present one aside.
MissedInv ==
    \A o \in Orders :
       fin[o] = "paid" /\ ~Staged(o) => age[o] <= paidAt[o] + missed[o] + 1

WindowInv == AgeInv /\ SweepInv /\ ServedInv /\ MissedInv

\* The stock cache is the running process's own.
WakeInv == NoWakeupLost /\ (cached => up)
-----------------------------------------------------------------------------
(* Safety of the two paths.                                                *)

\* The initial state satisfies the invariant.
LEMMA SafeInit == Init => SafeInv
<1> SUFFICES ASSUME Init
             PROVE  SafeInv
  OBVIOUS
<1>1. TypeOK
  <2>1. up \in BOOLEAN /\ trigger \in BOOLEAN /\ armed \in BOOLEAN
        /\ cached \in BOOLEAN /\ due \in BOOLEAN
    BY Zenon DEF Init
  <2>2. /\ fin \in [Orders -> Fin]
        /\ lines \in [Orders -> Lines]
        /\ delivery \in [Hooks -> Delivery]
        /\ hook \in [Hooks -> [order : Orders, paid : BOOLEAN] \cup {NoHook}]
    BY DEF Init, Fin, Lines, Delivery
  <2>. QED
    BY <2>1, <2>2, IntakeAssumption DEF Init, TypeOK, NoRow, NoRequest
<1>2. HookInv /\ RequestInv /\ EventInv /\ ListInv
  BY DEF Init, HookInv, RequestInv, EventInv, ListInv
<1>3. AckedPaidIsStaged /\ StagedWasPaid
  BY DEF Init, AckedPaidIsStaged, StagedWasPaid, Staged
<1>. QED
  BY <1>1, <1>2, <1>3 DEF SafeInv

\* Every action keeps it.
LEMMA SafeStep == SafeInv /\ [Next]_vars => SafeInv'
<1> SUFFICES ASSUME SafeInv, [Next]_vars
             PROVE  SafeInv'
  OBVIOUS
<1> USE NamesAssumption, IntakeAssumption
    DEF SafeInv, TypeOK, HookInv, RequestInv, EventInv, ListInv,
        AckedPaidIsStaged, StagedWasPaid, Staged, WasPaid, NoRow, NoRequest,
        Reconciled, Fin, Lines, Delivery, IsPaid, vars, shopVars,
        hookVars, dbVars, handlerVars, stockVars, sweepVars, timeVars, boundVars
<1>1. ASSUME NEW o \in Orders, NEW w \in Hooks, PlaceOrder(o, w)
      PROVE  SafeInv'
  <2>1. PICK status \in {"unpaid", "paid"}, l \in LineKinds :
           /\ fin' = [fin EXCEPT ![o] = status]
           /\ lines' = [lines EXCEPT ![o] = l]
           /\ Announce(w, o, status)
    BY <1>1 DEF PlaceOrder
  <2>2. hook' \in [Hooks -> [order : Orders, paid : BOOLEAN] \cup {NoHook}]
    BY <2>1 DEF Announce
  <2>3. TypeOK'
    BY <1>1, <2>1, <2>2 DEF PlaceOrder, Announce
  <2>4. /\ hook'[w].order = o
        /\ hook'[w].paid => WasPaid(o)'
        /\ \A v \in Hooks \ {w} : hook'[v] = hook[v] /\ delivery'[v] = delivery[v]
        /\ delivery'[w] = "sending" /\ delivery[w] = "unsent"
    <3>1. hook'[w] = [order |-> o, paid |-> IsPaid(status)]
      BY <2>1 DEF Announce
    <3>2. hook'[w].order = o /\ hook'[w].paid = IsPaid(status)
      BY <3>1
    <3>3. hook'[w].paid => WasPaid(o)'
      BY <2>1, <3>2
    <3>. QED
      BY <2>1, <3>2, <3>3 DEF Announce
  <2>5. HookInv'
    <3>1. \A p \in Orders : WasPaid(p) => WasPaid(p)'
      BY <1>1, <2>1 DEF PlaceOrder
    <3>. QED
      BY <2>4, <3>1
  <2>6. RequestInv' /\ EventInv'
    BY <1>1, <2>4 DEF PlaceOrder
  <2>7. ListInv' /\ AckedPaidIsStaged' /\ StagedWasPaid'
    BY <1>1, <2>1 DEF PlaceOrder, Announce
  <2>. QED
    BY <2>3, <2>5, <2>6, <2>7
<1>2. ASSUME NEW o \in Orders, NEW w \in Hooks, AnnounceAgain(o, w)
      PROVE  SafeInv'
  <2>1. hook' \in [Hooks -> [order : Orders, paid : BOOLEAN] \cup {NoHook}]
    BY <1>2 DEF AnnounceAgain, Announce
  <2>2. TypeOK'
    BY <1>2, <2>1 DEF AnnounceAgain, Announce
  <2>3. /\ hook'[w].order = o
        /\ hook'[w].paid => WasPaid(o)'
        /\ \A v \in Hooks \ {w} : hook'[v] = hook[v] /\ delivery'[v] = delivery[v]
        /\ delivery'[w] = "sending" /\ delivery[w] = "unsent"
    <3>1. hook'[w] = [order |-> o, paid |-> IsPaid(fin[o])]
      BY <1>2 DEF AnnounceAgain, Announce
    <3>2. hook'[w].order = o /\ hook'[w].paid = IsPaid(fin[o])
      BY <3>1
    <3>3. hook'[w].paid => WasPaid(o)'
      BY <1>2, <3>2 DEF AnnounceAgain
    <3>. QED
      BY <1>2, <3>2, <3>3 DEF AnnounceAgain, Announce
  <2>4. HookInv'
    BY <1>2, <2>3 DEF AnnounceAgain
  <2>5. RequestInv' /\ EventInv'
    BY <1>2, <2>3 DEF AnnounceAgain
  <2>6. ListInv' /\ AckedPaidIsStaged' /\ StagedWasPaid'
    BY <1>2, <2>3 DEF AnnounceAgain
  <2>. QED
    BY <2>2, <2>4, <2>5, <2>6
<1>3. ASSUME NEW o \in Orders, PayOrder(o)
      PROVE  SafeInv'
  BY <1>3 DEF PayOrder
<1>4. ASSUME NEW o \in Orders, RefundOrder(o)
      PROVE  SafeInv'
  BY <1>4 DEF RefundOrder
<1>5. ASSUME NEW w \in Hooks, DropWebhook(w)
      PROVE  SafeInv'
  BY <1>5 DEF DropWebhook
<1>6. ASSUME NEW w \in Hooks, DuplicateWebhook(w)
      PROVE  SafeInv'
  BY <1>6 DEF DuplicateWebhook, Respond200
<1>7. ASSUME NEW w \in Hooks, SkipUnpaid(w)
      PROVE  SafeInv'
  BY <1>7 DEF SkipUnpaid, Respond200
<1>8. ASSUME NEW h \in Handlers, NEW w \in Hooks, Receive(h, w)
      PROVE  SafeInv'
  BY <1>8 DEF Receive
<1>9. ASSUME NEW h \in Handlers, CreateOrder(h)
      PROVE  SafeInv'
  BY <1>9 DEF CreateOrder, Conflict, Insert
<1>10. ASSUME NEW h \in Handlers, CreateOrderDuplicate(h)
      PROVE  SafeInv'
  BY <1>10 DEF CreateOrderDuplicate, Conflict, Respond200, Finish
<1>11. ASSUME NEW h \in Handlers, CreateOrderFails(h)
      PROVE  SafeInv'
  BY <1>11 DEF CreateOrderFails, Conflict, Insert, Finish
<1>12. ASSUME NEW h \in Handlers, Acknowledge(h)
      PROVE  SafeInv'
  BY <1>12 DEF Acknowledge, Notify, Respond200, Finish
<1>13. ASSUME ListOrders
      PROVE  SafeInv'
  BY <1>13 DEF ListOrders, Pages, Recent
<1>14. ASSUME CheckExisting
      PROVE  SafeInv'
  BY <1>14 DEF CheckExisting
<1>15. ASSUME SweepFails
      PROVE  SafeInv'
  <2>1. due' \in BOOLEAN
    BY <1>15, Zenon DEF SweepFails
  <2>2. TypeOK'
    BY <1>15, <2>1 DEF SweepFails
  <2>. QED
    BY <1>15, <2>2 DEF SweepFails
<1>16. ASSUME SweepEnds
      PROVE  SafeInv'
  BY <1>16 DEF SweepEnds
<1>17. ASSUME NEW o \in Orders, PassOver(o)
      PROVE  SafeInv'
  BY <1>17 DEF PassOver
<1>18. ASSUME NEW o \in Orders, StageOrder(o)
      PROVE  SafeInv'
  BY <1>18 DEF StageOrder, Conflict, Insert
<1>19. ASSUME NEW o \in Orders, StageOrderFails(o)
      PROVE  SafeInv'
  BY <1>19 DEF StageOrderFails, Conflict, Insert
<1>20. ASSUME ArmDebounce
      PROVE  SafeInv'
  BY <1>20 DEF ArmDebounce
<1>21. ASSUME TriggeredTick
      PROVE  SafeInv'
  <2>1. armed' \in BOOLEAN
    BY <1>21, Zenon DEF TriggeredTick
  <2>2. CASE cached
    BY <1>21, <2>1, <2>2 DEF TriggeredTick, FetchReservedQuantities
  <2>3. CASE ~cached
    BY <1>21, <2>1, <2>3 DEF TriggeredTick
  <2>. QED
    BY <2>2, <2>3
<1>22. ASSUME Crash
      PROVE  SafeInv'
  <2>1. up' \in BOOLEAN /\ trigger' \in BOOLEAN /\ armed' \in BOOLEAN
        /\ cached' \in BOOLEAN /\ due' \in BOOLEAN
    BY <1>22, Zenon DEF Crash
  <2>2. TypeOK'
    BY <1>22, <2>1 DEF Crash
  <2>. QED
    BY <1>22, <2>2 DEF Crash
<1>23. ASSUME Boot
      PROVE  SafeInv'
  BY <1>23 DEF Boot
<1>24. ASSUME TimePasses
      PROVE  SafeInv'
  BY <1>24 DEF TimePasses
<1>25. ASSUME FullTick
      PROVE  SafeInv'
  BY <1>25 DEF FullTick, FetchReservedQuantities
<1>26. CASE UNCHANGED vars
  BY <1>26
<1>. QED
  BY <1>1, <1>2, <1>3, <1>4, <1>5, <1>6, <1>7, <1>8, <1>9, <1>10, <1>11, <1>12, <1>13, <1>14, <1>15, <1>16, <1>17, <1>18, <1>19, <1>20, <1>21, <1>22, <1>23, <1>24, <1>25,
     <1>26
  DEF Next, Shopify, Handle, Sweep

-----------------------------------------------------------------------------
(* The lookback.  One page of the listing must hold all the orders.        *)

\* One page that holds all the recent orders is the listing.
LEMMA WholePage ==
    ASSUME IsFiniteSet(Orders), Cardinality(Orders) <= SweepLimit
    PROVE  Pages \subseteq {Recent}
<1>1. IsFiniteSet(Recent) /\ Cardinality(Recent) <= Cardinality(Orders)
  BY FS_Subset DEF Recent
<1>2. Cardinality(Recent) \in Nat /\ Cardinality(Orders) \in Nat
  BY <1>1, FS_CardinalityType
<1>3. Cardinality(Recent) <= SweepLimit
  BY <1>1, <1>2, IntakeAssumption
<1>. QED
  BY <1>3 DEF Pages

\* The initial state satisfies the invariant.
LEMMA WindowInit == Init => WindowInv
BY DEF Init, WindowInv, AgeInv, SweepInv, ServedInv, MissedInv, PaidBefore

\* Every action keeps it.
LEMMA WindowStep ==
    ASSUME IsFiniteSet(Orders), Cardinality(Orders) <= SweepLimit
    PROVE  SafeInv /\ WindowInv /\ [Next]_vars => WindowInv'
<1> SUFFICES ASSUME SafeInv, WindowInv, [Next]_vars
             PROVE  WindowInv'
  OBVIOUS
<1>0. TypeOK
  BY DEF SafeInv
<1> USE <1>0, NamesAssumption, IntakeAssumption
    DEF WindowInv, AgeInv, SweepInv, ServedInv, MissedInv, PaidBefore, TypeOK,
        Staged, IsPaid, NoRow, Reconciled, vars, shopVars, hookVars, dbVars,
        handlerVars, stockVars, sweepVars, timeVars, boundVars
<1>1. ASSUME NEW o \in Orders, NEW w \in Hooks, PlaceOrder(o, w)
      PROVE  WindowInv'
  BY <1>1 DEF PlaceOrder, Announce
<1>2. ASSUME NEW o \in Orders, NEW w \in Hooks, AnnounceAgain(o, w)
      PROVE  WindowInv'
  BY <1>2 DEF AnnounceAgain, Announce
<1>3. ASSUME NEW o \in Orders, PayOrder(o)
      PROVE  WindowInv'
  BY <1>3 DEF PayOrder
<1>4. ASSUME NEW o \in Orders, RefundOrder(o)
      PROVE  WindowInv'
  BY <1>4 DEF RefundOrder
<1>5. ASSUME NEW w \in Hooks, DropWebhook(w)
      PROVE  WindowInv'
  BY <1>5 DEF DropWebhook
<1>6. ASSUME NEW w \in Hooks, DuplicateWebhook(w)
      PROVE  WindowInv'
  BY <1>6 DEF DuplicateWebhook, Respond200
<1>7. ASSUME NEW w \in Hooks, SkipUnpaid(w)
      PROVE  WindowInv'
  BY <1>7 DEF SkipUnpaid, Respond200
<1>8. ASSUME NEW h \in Handlers, NEW w \in Hooks, Receive(h, w)
      PROVE  WindowInv'
  BY <1>8 DEF Receive
<1>9. ASSUME NEW h \in Handlers, CreateOrder(h)
      PROVE  WindowInv'
  BY <1>9 DEF CreateOrder, Conflict, Insert
<1>10. ASSUME NEW h \in Handlers, CreateOrderDuplicate(h)
      PROVE  WindowInv'
  BY <1>10 DEF CreateOrderDuplicate, Conflict, Respond200, Finish
<1>11. ASSUME NEW h \in Handlers, CreateOrderFails(h)
      PROVE  WindowInv'
  BY <1>11 DEF CreateOrderFails, Conflict, Insert, Finish
<1>12. ASSUME NEW h \in Handlers, Acknowledge(h)
      PROVE  WindowInv'
  BY <1>12 DEF Acknowledge, Notify, Respond200, Finish
<1>13. ASSUME ListOrders
      PROVE  WindowInv'
  <2>1. listed' = Recent
    BY <1>13, WholePage DEF ListOrders
  <2>. QED
    BY <1>13, <2>1 DEF ListOrders, Recent
<1>14. ASSUME CheckExisting
      PROVE  WindowInv'
  BY <1>14 DEF CheckExisting
<1>15. ASSUME SweepFails
      PROVE  WindowInv'
  BY <1>15 DEF SweepFails
<1>16. ASSUME SweepEnds
      PROVE  WindowInv'
  BY <1>16 DEF SweepEnds
<1>17. ASSUME NEW o \in Orders, PassOver(o)
      PROVE  WindowInv'
  BY <1>17 DEF PassOver
<1>18. ASSUME NEW o \in Orders, StageOrder(o)
      PROVE  WindowInv'
  BY <1>18 DEF StageOrder, Conflict, Insert
<1>19. ASSUME NEW o \in Orders, StageOrderFails(o)
      PROVE  WindowInv'
  BY <1>19 DEF StageOrderFails, Conflict, Insert
<1>20. ASSUME ArmDebounce
      PROVE  WindowInv'
  BY <1>20 DEF ArmDebounce
<1>21. ASSUME TriggeredTick
      PROVE  WindowInv'
  BY <1>21 DEF TriggeredTick, FetchReservedQuantities
<1>22. ASSUME Crash
      PROVE  WindowInv'
  BY <1>22 DEF Crash
<1>23. ASSUME Boot
      PROVE  WindowInv'
  BY <1>23 DEF Boot
<1>24. ASSUME TimePasses
      PROVE  WindowInv'
  <2>1. sweep = "idle" /\ SweepInv'
    BY <1>24 DEF TimePasses
  <2>2. AgeInv' /\ ServedInv'
    BY <1>24 DEF TimePasses
  <2>3. ASSUME NEW o \in Orders, fin'[o] = "paid", ~Staged(o)'
        PROVE  age'[o] <= paidAt'[o] + missed'[o] + 1
    <3>1. fin[o] = "paid" /\ ~Staged(o) /\ paidAt'[o] = paidAt[o]
      BY <1>24, <2>3 DEF TimePasses
    <3>2. CASE age[o] > Lookback
      BY <1>24, <3>1, <3>2 DEF TimePasses
    <3>3. CASE age[o] <= Lookback /\ o \notin served
      BY <1>24, <3>1, <3>3 DEF TimePasses
    <3>4. CASE age[o] <= Lookback /\ o \in served
      <4>1. paidAt[o] = age[o]
        <5>1. age[o] \in Nat /\ paidAt[o] \in Nat
          OBVIOUS
        <5>2. paidAt[o] <= age[o]
          OBVIOUS
        <5>3. ~PaidBefore(o)
          BY <3>1, <3>4
        <5>. QED
          BY ONLY <3>1, <3>4, <5>1, <5>2, <5>3, IntakeAssumption
      <4>. QED
        BY <1>24, <3>1, <3>4, <4>1 DEF TimePasses
    <3>. QED
      BY <3>2, <3>3, <3>4
  <2>. QED
    BY <2>1, <2>2, <2>3
<1>25. ASSUME FullTick
      PROVE  WindowInv'
  BY <1>25 DEF FullTick, FetchReservedQuantities
<1>26. CASE UNCHANGED vars
  BY <1>26
<1>. QED
  BY <1>1, <1>2, <1>3, <1>4, <1>5, <1>6, <1>7, <1>8, <1>9,
     <1>10, <1>11, <1>12, <1>13, <1>14, <1>15, <1>16, <1>17, <1>18,
     <1>19, <1>20, <1>21, <1>22, <1>23, <1>24, <1>25,
     <1>26
  DEF Next, Shopify, Handle, Sweep

-----------------------------------------------------------------------------
(* Rows are written once; wake-ups are not lost.                           *)

\* Every action leaves a written row alone.
LEMMA OnceStep ==
    SafeInv /\ [Next]_vars => \A p \in Orders : Staged(p) => row'[p] = row[p]
<1> SUFFICES ASSUME SafeInv, [Next]_vars, NEW p \in Orders, Staged(p)
             PROVE  row'[p] = row[p]
  OBVIOUS
<1>0. TypeOK
  BY DEF SafeInv
<1> USE <1>0
    DEF TypeOK, Staged, vars, shopVars, hookVars, dbVars, handlerVars,
        stockVars, sweepVars, timeVars, boundVars
<1>1. ASSUME NEW o \in Orders, NEW w \in Hooks, PlaceOrder(o, w)
      PROVE  row'[p] = row[p]
  BY <1>1 DEF PlaceOrder, Announce
<1>2. ASSUME NEW o \in Orders, NEW w \in Hooks, AnnounceAgain(o, w)
      PROVE  row'[p] = row[p]
  BY <1>2 DEF AnnounceAgain, Announce
<1>3. ASSUME NEW o \in Orders, PayOrder(o)
      PROVE  row'[p] = row[p]
  BY <1>3 DEF PayOrder
<1>4. ASSUME NEW o \in Orders, RefundOrder(o)
      PROVE  row'[p] = row[p]
  BY <1>4 DEF RefundOrder
<1>5. ASSUME NEW w \in Hooks, DropWebhook(w)
      PROVE  row'[p] = row[p]
  BY <1>5 DEF DropWebhook
<1>6. ASSUME NEW w \in Hooks, DuplicateWebhook(w)
      PROVE  row'[p] = row[p]
  BY <1>6 DEF DuplicateWebhook, Respond200
<1>7. ASSUME NEW w \in Hooks, SkipUnpaid(w)
      PROVE  row'[p] = row[p]
  BY <1>7 DEF SkipUnpaid, Respond200
<1>8. ASSUME NEW h \in Handlers, NEW w \in Hooks, Receive(h, w)
      PROVE  row'[p] = row[p]
  BY <1>8 DEF Receive
<1>9. ASSUME NEW h \in Handlers, CreateOrder(h)
      PROVE  row'[p] = row[p]
  BY <1>9 DEF CreateOrder, Conflict, Insert
<1>10. ASSUME NEW h \in Handlers, CreateOrderDuplicate(h)
      PROVE  row'[p] = row[p]
  BY <1>10 DEF CreateOrderDuplicate, Conflict, Respond200, Finish
<1>11. ASSUME NEW h \in Handlers, CreateOrderFails(h)
      PROVE  row'[p] = row[p]
  BY <1>11 DEF CreateOrderFails, Conflict, Insert, Finish
<1>12. ASSUME NEW h \in Handlers, Acknowledge(h)
      PROVE  row'[p] = row[p]
  BY <1>12 DEF Acknowledge, Notify, Respond200, Finish
<1>13. ASSUME ListOrders
      PROVE  row'[p] = row[p]
  BY <1>13 DEF ListOrders, Pages, Recent
<1>14. ASSUME CheckExisting
      PROVE  row'[p] = row[p]
  BY <1>14 DEF CheckExisting
<1>15. ASSUME SweepFails
      PROVE  row'[p] = row[p]
  BY <1>15 DEF SweepFails
<1>16. ASSUME SweepEnds
      PROVE  row'[p] = row[p]
  BY <1>16 DEF SweepEnds
<1>17. ASSUME NEW o \in Orders, PassOver(o)
      PROVE  row'[p] = row[p]
  BY <1>17 DEF PassOver
<1>18. ASSUME NEW o \in Orders, StageOrder(o)
      PROVE  row'[p] = row[p]
  BY <1>18 DEF StageOrder, Conflict, Insert
<1>19. ASSUME NEW o \in Orders, StageOrderFails(o)
      PROVE  row'[p] = row[p]
  BY <1>19 DEF StageOrderFails, Conflict, Insert
<1>20. ASSUME ArmDebounce
      PROVE  row'[p] = row[p]
  BY <1>20 DEF ArmDebounce
<1>21. ASSUME TriggeredTick
      PROVE  row'[p] = row[p]
  BY <1>21 DEF TriggeredTick, FetchReservedQuantities
<1>22. ASSUME Crash
      PROVE  row'[p] = row[p]
  BY <1>22 DEF Crash
<1>23. ASSUME Boot
      PROVE  row'[p] = row[p]
  BY <1>23 DEF Boot
<1>24. ASSUME TimePasses
      PROVE  row'[p] = row[p]
  BY <1>24 DEF TimePasses
<1>25. ASSUME FullTick
      PROVE  row'[p] = row[p]
  BY <1>25 DEF FullTick, FetchReservedQuantities
<1>26. CASE UNCHANGED vars
  BY <1>26
<1>. QED
  BY <1>1, <1>2, <1>3, <1>4, <1>5, <1>6, <1>7, <1>8, <1>9,
     <1>10, <1>11, <1>12, <1>13, <1>14, <1>15, <1>16, <1>17, <1>18,
     <1>19, <1>20, <1>21, <1>22, <1>23, <1>24, <1>25,
     <1>26
  DEF Next, Shopify, Handle, Sweep

\* Every action keeps the stock syncer's wake-up.
LEMMA WakeupStep == SafeInv /\ WakeInv /\ [Next]_vars => WakeInv'
<1> SUFFICES ASSUME SafeInv, WakeInv, [Next]_vars
             PROVE  WakeInv'
  OBVIOUS
<1>0. TypeOK
  BY DEF SafeInv
<1> USE <1>0
    DEF TypeOK, WakeInv, NoWakeupLost, vars, shopVars, hookVars, dbVars, handlerVars,
        stockVars, sweepVars, timeVars, boundVars
<1>1. ASSUME NEW o \in Orders, NEW w \in Hooks, PlaceOrder(o, w)
      PROVE  WakeInv'
  BY <1>1 DEF PlaceOrder, Announce
<1>2. ASSUME NEW o \in Orders, NEW w \in Hooks, AnnounceAgain(o, w)
      PROVE  WakeInv'
  BY <1>2 DEF AnnounceAgain, Announce
<1>3. ASSUME NEW o \in Orders, PayOrder(o)
      PROVE  WakeInv'
  BY <1>3 DEF PayOrder
<1>4. ASSUME NEW o \in Orders, RefundOrder(o)
      PROVE  WakeInv'
  BY <1>4 DEF RefundOrder
<1>5. ASSUME NEW w \in Hooks, DropWebhook(w)
      PROVE  WakeInv'
  BY <1>5 DEF DropWebhook
<1>6. ASSUME NEW w \in Hooks, DuplicateWebhook(w)
      PROVE  WakeInv'
  BY <1>6 DEF DuplicateWebhook, Respond200
<1>7. ASSUME NEW w \in Hooks, SkipUnpaid(w)
      PROVE  WakeInv'
  BY <1>7 DEF SkipUnpaid, Respond200
<1>8. ASSUME NEW h \in Handlers, NEW w \in Hooks, Receive(h, w)
      PROVE  WakeInv'
  BY <1>8 DEF Receive
<1>9. ASSUME NEW h \in Handlers, CreateOrder(h)
      PROVE  WakeInv'
  BY <1>9 DEF CreateOrder, Conflict, Insert
<1>10. ASSUME NEW h \in Handlers, CreateOrderDuplicate(h)
      PROVE  WakeInv'
  BY <1>10 DEF CreateOrderDuplicate, Conflict, Respond200, Finish
<1>11. ASSUME NEW h \in Handlers, CreateOrderFails(h)
      PROVE  WakeInv'
  BY <1>11 DEF CreateOrderFails, Conflict, Insert, Finish
<1>12. ASSUME NEW h \in Handlers, Acknowledge(h)
      PROVE  WakeInv'
  BY <1>12 DEF Acknowledge, Notify, Respond200, Finish
<1>13. ASSUME ListOrders
      PROVE  WakeInv'
  BY <1>13 DEF ListOrders, Pages, Recent
<1>14. ASSUME CheckExisting
      PROVE  WakeInv'
  BY <1>14 DEF CheckExisting
<1>15. ASSUME SweepFails
      PROVE  WakeInv'
  BY <1>15 DEF SweepFails
<1>16. ASSUME SweepEnds
      PROVE  WakeInv'
  BY <1>16 DEF SweepEnds
<1>17. ASSUME NEW o \in Orders, PassOver(o)
      PROVE  WakeInv'
  BY <1>17 DEF PassOver
<1>18. ASSUME NEW o \in Orders, StageOrder(o)
      PROVE  WakeInv'
  BY <1>18 DEF StageOrder, Conflict, Insert
<1>19. ASSUME NEW o \in Orders, StageOrderFails(o)
      PROVE  WakeInv'
  BY <1>19 DEF StageOrderFails, Conflict, Insert
<1>20. ASSUME ArmDebounce
      PROVE  WakeInv'
  BY <1>20 DEF ArmDebounce
<1>21. ASSUME TriggeredTick
      PROVE  WakeInv'
  BY <1>21 DEF TriggeredTick, FetchReservedQuantities
<1>22. ASSUME Crash
      PROVE  WakeInv'
  BY <1>22 DEF Crash
<1>23. ASSUME Boot
      PROVE  WakeInv'
  BY <1>23 DEF Boot
<1>24. ASSUME TimePasses
      PROVE  WakeInv'
  BY <1>24 DEF TimePasses
<1>25. ASSUME FullTick
      PROVE  WakeInv'
  BY <1>25 DEF FullTick, FetchReservedQuantities
<1>26. CASE UNCHANGED vars
  BY <1>26
<1>. QED
  BY <1>1, <1>2, <1>3, <1>4, <1>5, <1>6, <1>7, <1>8, <1>9,
     <1>10, <1>11, <1>12, <1>13, <1>14, <1>15, <1>16, <1>17, <1>18,
     <1>19, <1>20, <1>21, <1>22, <1>23, <1>24, <1>25,
     <1>26
  DEF Next, Shopify, Handle, Sweep

-----------------------------------------------------------------------------
(* The theorems.                                                           *)

\* The invariant of the two paths holds throughout.
THEOREM IntakeInductive == Spec => []SafeInv
BY SafeInit, SafeStep, PTL DEF Spec

\* Types: every variable of the intake keeps to its type.
THEOREM IntakeTypeCorrect == Spec => []TypeOK
<1>1. SafeInv => TypeOK
  BY DEF SafeInv
<1>. QED
  BY <1>1, IntakeInductive, PTL

\* handleOrderCreate: a 200 for a paid order means that its row is committed,
\* however many requests, sweeps, failures and restarts there are.
THEOREM AcknowledgedIsStaged == Spec => []AckedPaidIsStaged
<1>1. SafeInv => AckedPaidIsStaged
  BY DEF SafeInv
<1>. QED
  BY <1>1, IntakeInductive, PTL

\* The financial-status gates of handler and sweep: only paid orders are staged.
THEOREM OnlyPaidIsStaged == Spec => []StagedWasPaid
<1>1. SafeInv => StagedWasPaid
  BY DEF SafeInv
<1>. QED
  BY <1>1, IntakeInductive, PTL

\* CreateOrder's unique constraints: a row is never written a second time.
THEOREM RowsAreWrittenOnce == Spec => StagedOnce
<1>1. SafeInv /\ [Next]_vars
         => [\A o \in Orders : Staged(o) => row'[o] = row[o]]_vars
  BY OnceStep
<1>. QED
  BY <1>1, IntakeInductive, PTL DEF Spec, StagedOnce

\* The non-blocking send and the debounce: whatever handlers send at once and
\* whenever the timer is started anew, an order staged by webhook keeps its
\* wake-up until a sync with stock has read the reservations.  Excepted are the
\* orders of unwoken: their commit was not acknowledged, or that reading failed.
THEOREM WakeupsAreKept == Spec => []NoWakeupLost
<1>1. Init => WakeInv
  BY DEF Init, WakeInv, NoWakeupLost
<1>2. WakeInv => NoWakeupLost
  BY DEF WakeInv
<1>. QED
  BY <1>1, <1>2, WakeupStep, IntakeInductive, PTL DEF Spec

\* The sweep: if one page holds all the orders, a paid order is staged before it
\* leaves the lookback, provided it is missed in fewer intervals than it had
\* left when it was paid.
THEOREM SweepCatchesUp ==
    ASSUME IsFiniteSet(Orders), Cardinality(Orders) <= SweepLimit
    PROVE  Spec => []PaidInWindowIsStaged
<1>1. SafeInv /\ WindowInv => PaidInWindowIsStaged
  BY IntakeAssumption
     DEF SafeInv, TypeOK, WindowInv, MissedInv, PaidInWindowIsStaged
<1>2. SafeInv /\ WindowInv /\ [Next]_vars => WindowInv'
  BY WindowStep
<1>. QED
  BY <1>1, <1>2, WindowInit, IntakeInductive, PTL DEF Spec
=============================================================================
