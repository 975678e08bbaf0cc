------------------------ MODULE FulfilmentSyncProofs ------------------------
(***************************************************************************)
(* What the runs of FulfilmentSync check on small instances, proved for    *)
(* any orders, any number of fulfilment orders, processes and faults.      *)
(***************************************************************************)
EXTENDS FulfilmentSync, TLAPS

\* What a cycle remembers of SYSPRO stays true: a completed order stays so.
SeenInv == \A i \in Instances : \A o \in seen[i] : sor[o] = "complete"

\* A cycle that is about to create a fulfilment has a fulfilment order for it.
PickInv == \A i \in Instances : pc[i] = "create" => pick[i] \in Parts

SafeInv == TypeOK /\ SeenInv /\ PickInv /\ NoticeFollowsDispatch

\* A cycle that is about to update a row has seen a fulfilment of its order (the
\* one it made, or the one Shopify refused a second one for) or a blank answer.
UpdateInv ==
    \A i \in Instances, o \in Orders :
       pc[i] = "update" /\ IsFirst(o, seen[i]) =>
          o \in blank \/ \E p \in Parts : fo[o][p] = "closed"

InHand(i) == ask[i] \cup seen[i]

\* An idle process has nothing in hand, and SYSPRO is asked before anything else.
CycleInv ==
    \A i \in Instances :
       /\ pc[i] = "idle" => seen[i] = {}
       /\ pc[i] # "query" => ask[i] = {}

\* Of the orders that are not unrecorded: one process at most has the order in
\* hand, none if the row is 'fulfilled', and a fulfilment that was made is in
\* the row or about to be written there.
HandInv ==
    \A o \in Orders \ unrecorded :
       /\ \A i, j \in Instances : o \in InHand(i) /\ o \in InHand(j) => i = j
       /\ \A i \in Instances : o \in InHand(i) => status[o] # "fulfilled"

MadeInv ==
    \A o \in Orders \ unrecorded :
       made[o] # {} => status[o] = "fulfilled" \/ \E i \in Instances : o \in Unwritten(i)

NoticeInv == CycleInv /\ HandInv /\ MadeInv /\ SecondNoticeIsExplained
-----------------------------------------------------------------------------
\* The initial state satisfies the invariant.
LEMMA SafeInit == Init => SafeInv
BY FulfilmentAssumption
   DEF Init, SafeInv, TypeOK, SeenInv, PickInv, NoticeFollowsDispatch, Status,
       Sor, FoStatus

\* Every action keeps it.
LEMMA SafeStep == SafeInv /\ [Next]_vars => SafeInv'
<1> SUFFICES ASSUME SafeInv, [Next]_vars
             PROVE  SafeInv'
  OBVIOUS
<1> USE FulfilmentAssumption
    DEF SafeInv, TypeOK, SeenInv, PickInv, NoticeFollowsDispatch, Status, Sor,
        FoStatus, IsFirst, vars, rowVars, shopVars, cycleVars, histVars
<1>1. ASSUME NEW o \in Orders,
             OrderSubmitted(o)
      PROVE  SafeInv'
  BY <1>1 DEF OrderSubmitted
<1>2. ASSUME NEW o \in Orders, NEW s,
             SysproCloses(o, s)
      PROVE  SafeInv'
  BY <1>2 DEF SysproCloses
<1>3. ASSUME NEW o \in Orders, NEW p \in Parts, NEW s,
             StaffSets(o, p, s)
      PROVE  SafeInv'
  BY <1>3 DEF StaffSets
<1>4. ASSUME NEW o \in Orders,
             ShopifyCancels(o)
      PROVE  SafeInv'
  BY <1>4 DEF ShopifyCancels
<1>5. ASSUME NEW i \in Instances,
             FetchSubmittedOrders(i)
      PROVE  SafeInv'
  BY <1>5 DEF FetchSubmittedOrders, Submitted
<1>6. ASSUME NEW i \in Instances,
             QueryEnds(i)
      PROVE  SafeInv'
  BY <1>6 DEF QueryEnds
<1>7. ASSUME NEW i \in Instances,
             CycleEnds(i)
      PROVE  SafeInv'
  BY <1>7 DEF CycleEnds
<1>8. ASSUME NEW i \in Instances, NEW o \in Orders,
             QueryOrder(i, o)
      PROVE  SafeInv'
  BY <1>8 DEF QueryOrder, Dispatched
<1>9. ASSUME NEW i \in Instances, NEW o \in Orders, NEW p \in Parts,
             GetFulfillmentOrderID(i, o, p)
      PROVE  SafeInv'
  BY <1>9 DEF GetFulfillmentOrderID, Live
<1>10. ASSUME NEW i \in Instances, NEW o \in Orders,
             NoFulfillmentOrder(i, o)
      PROVE  SafeInv'
  BY <1>10 DEF NoFulfillmentOrder, Continue
<1>11. ASSUME NEW i \in Instances, NEW o \in Orders,
             CreateFulfillment(i, o)
      PROVE  SafeInv'
  <2>1. o \in seen[i] /\ pick[i] \in Parts /\ sor[o] = "complete"
    BY <1>11 DEF CreateFulfillment
  <2>2. /\ fo' \in [Orders -> [Parts -> FoStatus]]
        /\ made' \in [Orders -> SUBSET Parts]
        /\ \A q \in Orders : made'[q] # {} => made[q] # {} \/ q = o
    BY <1>11, <2>1 DEF CreateFulfillment, ShopifyFulfils
  <2>3. /\ UNCHANGED <<status, gid, sor, ask, blank>>
        /\ unrecorded' \subseteq Orders
        /\ pc' \in [Instances -> {"idle", "query", "lookup", "create", "update"}]
        /\ seen' \in [Instances -> SUBSET Orders]
        /\ pick' \in [Instances -> Parts \cup {0}]
        /\ faults' \in 0..MaxFaults
    BY <1>11, <2>1 DEF CreateFulfillment, ShopifyFulfils
  <2>4. TypeOK' /\ NoticeFollowsDispatch'
    BY <2>1, <2>2, <2>3
  <2>5. \A j \in Instances : seen'[j] \subseteq seen[j]
    BY <1>11 DEF CreateFulfillment, ShopifyFulfils
  <2>6. \A j \in Instances : pc'[j] = "create" => pc[j] = "create" /\ pick'[j] = pick[j]
    BY <1>11 DEF CreateFulfillment, ShopifyFulfils
  <2>. QED
    BY <2>3, <2>4, <2>5, <2>6
<1>12. ASSUME NEW i \in Instances, NEW o \in Orders,
             CreateAnswerBlank(i, o)
      PROVE  SafeInv'
  BY <1>12 DEF CreateAnswerBlank
<1>13. ASSUME NEW i \in Instances, NEW o \in Orders,
             CreateRejected(i, o)
      PROVE  SafeInv'
  BY <1>13 DEF CreateRejected, Continue
<1>14. ASSUME NEW i \in Instances, NEW o \in Orders,
             UpdateOrderFulfilled(i, o)
      PROVE  SafeInv'
  BY <1>14 DEF UpdateOrderFulfilled, Continue
<1>15. ASSUME NEW i \in Instances,
             LogonFails(i)
      PROVE  SafeInv'
  BY <1>15 DEF LogonFails, Fault
<1>16. ASSUME NEW i \in Instances,
             Crash(i)
      PROVE  SafeInv'
  <2>1. Unwritten(i) \subseteq Orders
    BY DEF Unwritten
  <2>2. /\ unrecorded' \subseteq Orders
        /\ faults' \in 0..MaxFaults
        /\ UNCHANGED <<rowVars, sor, shopVars>>
    <3>1. /\ unrecorded' = unrecorded \cup Unwritten(i)
          /\ faults' = faults + 1 /\ faults < MaxFaults
          /\ UNCHANGED <<rowVars, sor, shopVars>>
      BY <1>16 DEF Crash, Fault
    <3>2. unrecorded' \subseteq Orders
      BY <2>1, <3>1
    <3>3. faults' \in 0..MaxFaults
      BY <3>1
    <3>. QED
      BY <3>1, <3>2, <3>3
  <2>3. /\ pc' = [pc EXCEPT ![i] = "idle"]
        /\ ask' = [ask EXCEPT ![i] = {}]
        /\ seen' = [seen EXCEPT ![i] = {}]
        /\ pick' = [pick EXCEPT ![i] = 0]
    BY <1>16 DEF Crash, Forget
  <2>. QED
    BY <2>2, <2>3
<1>17. ASSUME NEW i \in Instances, NEW o \in Orders,
             QueryOrderFails(i, o)
      PROVE  SafeInv'
  BY <1>17 DEF QueryOrderFails, Fault
<1>18. ASSUME NEW i \in Instances, NEW o \in Orders,
             LookupFails(i, o)
      PROVE  SafeInv'
  BY <1>18 DEF LookupFails, Fault, Continue
<1>19. ASSUME NEW i \in Instances, NEW o \in Orders,
             CreateFails(i, o)
      PROVE  SafeInv'
  <2>1. o \in seen[i] /\ pick[i] \in Parts /\ sor[o] = "complete"
    BY <1>19 DEF CreateFails
  <2>2. /\ fo' \in [Orders -> [Parts -> FoStatus]]
        /\ made' \in [Orders -> SUBSET Parts]
        /\ \A q \in Orders : made'[q] # {} => made[q] # {} \/ q = o
    BY <1>19, <2>1 DEF CreateFails, ShopifyFulfils
  <2>0. /\ UNCHANGED <<status, gid, sor, ask, blank>>
        /\ unrecorded' = unrecorded \/ unrecorded' = unrecorded \cup {o}
        /\ pc' = [pc EXCEPT ![i] = "lookup"]
        /\ seen' = [seen EXCEPT ![i] = @ \ {o}]
        /\ pick' = [pick EXCEPT ![i] = 0]
        /\ faults' = faults + 1 /\ faults < MaxFaults
    BY <1>19 DEF CreateFails, Fault, Continue, ShopifyFulfils
  <2>3. /\ UNCHANGED <<status, gid, sor, ask, blank>>
        /\ unrecorded' \subseteq Orders
        /\ pc' \in [Instances -> {"idle", "query", "lookup", "create", "update"}]
        /\ seen' \in [Instances -> SUBSET Orders]
        /\ pick' \in [Instances -> Parts \cup {0}]
        /\ faults' \in 0..MaxFaults
    <3>1. unrecorded' \subseteq Orders
      BY <2>0
    <3>2. faults' \in 0..MaxFaults
      BY <2>0
    <3>3. /\ pc' \in [Instances -> {"idle", "query", "lookup", "create", "update"}]
          /\ seen' \in [Instances -> SUBSET Orders]
          /\ pick' \in [Instances -> Parts \cup {0}]
      BY <2>0
    <3>. QED
      BY <2>0, <3>1, <3>2, <3>3
  <2>4. TypeOK' /\ NoticeFollowsDispatch'
    BY <2>1, <2>2, <2>3
  <2>5. \A j \in Instances : seen'[j] \subseteq seen[j]
    BY <1>19 DEF CreateFails, Fault, Continue, ShopifyFulfils
  <2>6. \A j \in Instances : pc'[j] = "create" => pc[j] = "create" /\ pick'[j] = pick[j]
    BY <1>19 DEF CreateFails, Fault, Continue, ShopifyFulfils
  <2>. QED
    BY <2>3, <2>4, <2>5, <2>6
<1>20. ASSUME NEW i \in Instances, NEW o \in Orders,
             UpdateFails(i, o)
      PROVE  SafeInv'
  BY <1>20 DEF UpdateFails, Fault, Continue
<1>21. CASE UNCHANGED vars
  BY <1>21
<1>22. ASSUME NEW i \in Instances,
             DeadlinePasses(i)
      PROVE  SafeInv'
  <2>1. Unwritten(i) \subseteq Orders
    BY DEF Unwritten
  <2>2. CASE UNCHANGED shopVars /\ unrecorded' = unrecorded \cup Unwritten(i)
    BY <1>22, <2>1, <2>2 DEF DeadlinePasses, Forget
  <2>3. ASSUME NEW o \in Orders, pc[i] = "create", IsFirst(o, seen[i]),
               ShopifyFulfils(o, pick[i]), unrecorded' = unrecorded \cup {o}
        PROVE  SafeInv'
    <3>1. o \in seen[i] /\ pick[i] \in Parts /\ sor[o] = "complete"
      BY <2>3
    <3>2. /\ fo' \in [Orders -> [Parts -> FoStatus]]
          /\ made' \in [Orders -> SUBSET Parts]
          /\ \A q \in Orders : made'[q] # {} => made[q] # {} \/ q = o
          /\ blank' = blank
      BY <2>3, <3>1 DEF ShopifyFulfils
    <3>3. TypeOK' /\ NoticeFollowsDispatch'
      BY <1>22, <2>3, <3>1, <3>2 DEF DeadlinePasses, Forget
    <3>. QED
      BY <1>22, <3>3 DEF DeadlinePasses, Forget
  <2>. QED
    BY <1>22, <2>2, <2>3 DEF DeadlinePasses
<1>. QED
    BY <1>1, <1>2, <1>3, <1>4, <1>5, <1>6, <1>7, <1>8, <1>9, <1>10, <1>11,
     <1>12, <1>13, <1>14, <1>15, <1>16, <1>17, <1>18, <1>19, <1>20, <1>21, <1>22
     DEF Next, CycleStep, CycleFault, Surroundings


\* The inductive invariant holds of every behaviour.
THEOREM FulfilmentInductive == Spec => []SafeInv
<1>. QED
  BY SafeInit, SafeStep, PTL DEF Spec

\* Every variable keeps its type (the rows, SYSPRO's and Shopify's statuses, and
\* what processOrders holds).
THEOREM FulfilmentTypeCorrect == Spec => []TypeOK
<1>1. SafeInv => TypeOK
  BY DEF SafeInv
<1>. QED
  BY <1>1, FulfilmentInductive, PTL

\* No shipping notice goes out before SYSPRO has completed the order, although
\* CreateFulfillment acts on a status that was read at the start of the cycle.
THEOREM NoticesFollowDispatch == Spec => []NoticeFollowsDispatch
<1>1. SafeInv => NoticeFollowsDispatch
  BY DEF SafeInv
<1>. QED
  BY <1>1, FulfilmentInductive, PTL

-----------------------------------------------------------------------------
(* The row tells the truth, unless an answer of Shopify is blank.          *)

\* No row is fulfilled at the start.
LEMMA ShippedInit == Init => UpdateInv /\ FulfilledIsShipped
BY DEF Init, UpdateInv, FulfilledIsShipped

\* Every action keeps the truth of the rows, and of those about to be written.
LEMMA ShippedStep ==
    SafeInv /\ UpdateInv /\ FulfilledIsShipped /\ [Next]_vars
       => UpdateInv' /\ FulfilledIsShipped'
<1> SUFFICES ASSUME SafeInv, UpdateInv, FulfilledIsShipped, [Next]_vars
             PROVE  UpdateInv' /\ FulfilledIsShipped'
  OBVIOUS
<1> USE FulfilmentAssumption
    DEF SafeInv, TypeOK, SeenInv, PickInv, UpdateInv, FulfilledIsShipped, Status,
        Sor, FoStatus, IsFirst, vars, rowVars, shopVars, cycleVars, histVars
<1>1. ASSUME NEW o \in Orders,
             OrderSubmitted(o)
      PROVE  UpdateInv' /\ FulfilledIsShipped'
  BY <1>1 DEF OrderSubmitted
<1>2. ASSUME NEW o \in Orders, NEW s,
             SysproCloses(o, s)
      PROVE  UpdateInv' /\ FulfilledIsShipped'
  BY <1>2 DEF SysproCloses
<1>3. ASSUME NEW o \in Orders, NEW p \in Parts, NEW s,
             StaffSets(o, p, s)
      PROVE  UpdateInv' /\ FulfilledIsShipped'
  BY <1>3 DEF StaffSets
<1>4. ASSUME NEW o \in Orders,
             ShopifyCancels(o)
      PROVE  UpdateInv' /\ FulfilledIsShipped'
  BY <1>4 DEF ShopifyCancels
<1>5. ASSUME NEW i \in Instances,
             FetchSubmittedOrders(i)
      PROVE  UpdateInv' /\ FulfilledIsShipped'
  BY <1>5 DEF FetchSubmittedOrders, Submitted
<1>6. ASSUME NEW i \in Instances,
             QueryEnds(i)
      PROVE  UpdateInv' /\ FulfilledIsShipped'
  BY <1>6 DEF QueryEnds
<1>7. ASSUME NEW i \in Instances,
             CycleEnds(i)
      PROVE  UpdateInv' /\ FulfilledIsShipped'
  BY <1>7 DEF CycleEnds
<1>8. ASSUME NEW i \in Instances, NEW o \in Orders,
             QueryOrder(i, o)
      PROVE  UpdateInv' /\ FulfilledIsShipped'
  BY <1>8 DEF QueryOrder, Dispatched
<1>9. ASSUME NEW i \in Instances, NEW o \in Orders, NEW p \in Parts,
             GetFulfillmentOrderID(i, o, p)
      PROVE  UpdateInv' /\ FulfilledIsShipped'
  BY <1>9 DEF GetFulfillmentOrderID, Live
<1>10. ASSUME NEW i \in Instances, NEW o \in Orders,
             NoFulfillmentOrder(i, o)
      PROVE  UpdateInv' /\ FulfilledIsShipped'
  BY <1>10 DEF NoFulfillmentOrder, Continue
<1>11. ASSUME NEW i \in Instances, NEW o \in Orders,
             CreateFulfillment(i, o)
      PROVE  UpdateInv' /\ FulfilledIsShipped'
  <2>1. o \in seen[i] /\ pick[i] \in Parts /\ seen' = seen
        /\ pc' = [pc EXCEPT ![i] = "update"] /\ status' = status /\ sor' = sor
        /\ blank' = blank
    BY <1>11 DEF CreateFulfillment, ShopifyFulfils
  <2>2. \A q \in Orders, p \in Parts :
           fo[q][p] = "closed" => fo'[q][p] = "closed"
    BY <1>11, <2>1 DEF CreateFulfillment, ShopifyFulfils
  <2>3. fo'[o][pick[i]] = "closed"
    BY <1>11, <2>1 DEF CreateFulfillment, ShopifyFulfils
  <2>4. FulfilledIsShipped'
    BY <2>1, <2>2
  <2>5. UpdateInv'
    <3> SUFFICES ASSUME NEW j \in Instances, NEW q \in Orders,
                        pc'[j] = "update", IsFirst(q, seen'[j])
                 PROVE  q \in blank' \/ \E p \in Parts : fo'[q][p] = "closed"
      OBVIOUS
    <3>1. CASE j = i
      <4>1. q = o
        BY <2>1, <3>1, <1>11 DEF CreateFulfillment
      <4>. QED
        BY <2>1, <2>3, <4>1
    <3>2. CASE j # i
      BY <2>1, <2>2, <3>2
    <3>. QED
      BY <3>1, <3>2
  <2>. QED
    BY <2>4, <2>5
<1>12. ASSUME NEW i \in Instances, NEW o \in Orders,
             CreateAnswerBlank(i, o)
      PROVE  UpdateInv' /\ FulfilledIsShipped'
  BY <1>12 DEF CreateAnswerBlank
<1>13. ASSUME NEW i \in Instances, NEW o \in Orders,
             CreateRejected(i, o)
      PROVE  UpdateInv' /\ FulfilledIsShipped'
  BY <1>13 DEF CreateRejected, Continue
<1>14. ASSUME NEW i \in Instances, NEW o \in Orders,
             UpdateOrderFulfilled(i, o)
      PROVE  UpdateInv' /\ FulfilledIsShipped'
  BY <1>14 DEF UpdateOrderFulfilled, Continue
<1>15. ASSUME NEW i \in Instances,
             LogonFails(i)
      PROVE  UpdateInv' /\ FulfilledIsShipped'
  BY <1>15 DEF LogonFails, Fault
<1>16. ASSUME NEW i \in Instances,
             Crash(i)
      PROVE  UpdateInv' /\ FulfilledIsShipped'
  BY <1>16 DEF Crash, Fault, Forget, Unwritten
<1>17. ASSUME NEW i \in Instances, NEW o \in Orders,
             QueryOrderFails(i, o)
      PROVE  UpdateInv' /\ FulfilledIsShipped'
  BY <1>17 DEF QueryOrderFails, Fault
<1>18. ASSUME NEW i \in Instances, NEW o \in Orders,
             LookupFails(i, o)
      PROVE  UpdateInv' /\ FulfilledIsShipped'
  BY <1>18 DEF LookupFails, Fault, Continue
<1>19. ASSUME NEW i \in Instances, NEW o \in Orders,
             CreateFails(i, o)
      PROVE  UpdateInv' /\ FulfilledIsShipped'
  BY <1>19 DEF CreateFails, Fault, Continue, ShopifyFulfils
<1>20. ASSUME NEW i \in Instances, NEW o \in Orders,
             UpdateFails(i, o)
      PROVE  UpdateInv' /\ FulfilledIsShipped'
  BY <1>20 DEF UpdateFails, Fault, Continue
<1>21. CASE UNCHANGED vars
  BY <1>21
<1>22. ASSUME NEW i \in Instances,
             DeadlinePasses(i)
      PROVE  UpdateInv' /\ FulfilledIsShipped'
  BY <1>22 DEF DeadlinePasses, Forget, Unwritten, ShopifyFulfils
<1>. QED
    BY <1>1, <1>2, <1>3, <1>4, <1>5, <1>6, <1>7, <1>8, <1>9, <1>10, <1>11,
     <1>12, <1>13, <1>14, <1>15, <1>16, <1>17, <1>18, <1>19, <1>20, <1>21, <1>22
     DEF Next, CycleStep, CycleFault, Surroundings


\* A row that UpdateOrderFulfilled has marked is the row of an order that SYSPRO
\* has completed and Shopify has fulfilled, or answered for with neither a
\* fulfilment nor an error; with any number of processes.
THEOREM FulfilledRowsAreShipped == Spec => []FulfilledIsShipped
<1>. QED
  BY FulfilmentInductive, ShippedInit, ShippedStep, PTL DEF Spec

-----------------------------------------------------------------------------
(* One shipping notice, unless the row could not tell of the first.        *)

\* Nothing is made and nothing in hand at the start.
LEMMA NoticeInit == Init => NoticeInv
BY DEF Init, NoticeInv, CycleInv, HandInv, MadeInv, SecondNoticeIsExplained, InHand

\* Every action keeps a made fulfilment in the row or on its way there.
LEMMA NoticeStep == SafeInv /\ NoticeInv /\ [Next]_vars => NoticeInv'
<1> SUFFICES ASSUME SafeInv, NoticeInv, [Next]_vars
             PROVE  NoticeInv'
  OBVIOUS
<1> USE FulfilmentAssumption
    DEF SafeInv, TypeOK, PickInv, NoticeInv, CycleInv, HandInv, MadeInv,
        SecondNoticeIsExplained, InHand, Unwritten, Status, IsFirst, vars,
        rowVars, shopVars, cycleVars, histVars
<1>1. ASSUME NEW o \in Orders,
             OrderSubmitted(o)
      PROVE  NoticeInv'
  BY <1>1 DEF OrderSubmitted
<1>2. ASSUME NEW o \in Orders, NEW s,
             SysproCloses(o, s)
      PROVE  NoticeInv'
  BY <1>2 DEF SysproCloses
<1>3. ASSUME NEW o \in Orders, NEW p \in Parts, NEW s,
             StaffSets(o, p, s)
      PROVE  NoticeInv'
  BY <1>3 DEF StaffSets
<1>4. ASSUME NEW o \in Orders,
             ShopifyCancels(o)
      PROVE  NoticeInv'
  BY <1>4 DEF ShopifyCancels
<1>5. ASSUME NEW i \in Instances,
             FetchSubmittedOrders(i)
      PROVE  NoticeInv'
  BY <1>5 DEF FetchSubmittedOrders, Submitted
<1>6. ASSUME NEW i \in Instances,
             QueryEnds(i)
      PROVE  NoticeInv'
  BY <1>6 DEF QueryEnds
<1>7. ASSUME NEW i \in Instances,
             CycleEnds(i)
      PROVE  NoticeInv'
  BY <1>7 DEF CycleEnds
<1>8. ASSUME NEW i \in Instances, NEW o \in Orders,
             QueryOrder(i, o)
      PROVE  NoticeInv'
  BY <1>8 DEF QueryOrder
<1>9. ASSUME NEW i \in Instances, NEW o \in Orders, NEW p \in Parts,
             GetFulfillmentOrderID(i, o, p)
      PROVE  NoticeInv'
  BY <1>9 DEF GetFulfillmentOrderID
<1>10. ASSUME NEW i \in Instances, NEW o \in Orders,
             NoFulfillmentOrder(i, o)
      PROVE  NoticeInv'
  BY <1>10 DEF NoFulfillmentOrder, Continue
<1>11. ASSUME NEW i \in Instances, NEW o \in Orders,
             CreateFulfillment(i, o)
      PROVE  NoticeInv'
  <2>1. /\ o \in InHand(i) /\ pc[i] = "create" /\ pick[i] \in Parts
        /\ UNCHANGED <<status, ask, seen, unrecorded>>
        /\ pc' = [pc EXCEPT ![i] = "update"]
    BY <1>11 DEF CreateFulfillment
  <2>2. \/ made' = made
        \/ made' = [made EXCEPT ![o] = @ \cup {pick[i]}]
    BY <1>11, <2>1 DEF CreateFulfillment, ShopifyFulfils
  <2>3. o \in Unwritten(i)' /\ \A j \in Instances : Unwritten(j) \subseteq Unwritten(j)'
    BY <1>11, <2>1 DEF CreateFulfillment
  <2>4. o \notin unrecorded => made[o] = {}
    BY <2>1
  <2>5. CycleInv' /\ HandInv'
    BY <2>1
  <2>6. MadeInv'
    <3> SUFFICES ASSUME NEW q \in Orders \ unrecorded', made'[q] # {}
                 PROVE  status'[q] = "fulfilled"
                        \/ \E j \in Instances : q \in Unwritten(j)'
      BY DEF MadeInv
    <3>1. CASE q = o
      BY <2>3, <3>1
    <3>2. CASE q # o
      <4>1. made[q] # {} /\ q \notin unrecorded
        BY <2>1, <2>2, <3>2
      <4>2. status[q] = "fulfilled" \/ \E j \in Instances : q \in Unwritten(j)
        BY <4>1
      <4>. QED
        BY <2>1, <2>3, <4>2
    <3>. QED
      BY <3>1, <3>2
  <2>7. SecondNoticeIsExplained'
    <3> SUFFICES ASSUME NEW q \in Orders, NEW a \in made'[q], NEW b \in made'[q],
                        a # b
                 PROVE  q \in unrecorded'
      BY DEF SecondNoticeIsExplained
    <3>1. CASE made' = made
      BY <2>1, <3>1
    <3>2. CASE made' = [made EXCEPT ![o] = @ \cup {pick[i]}]
      BY <2>1, <2>4, <3>2
    <3>. QED
      BY <2>2, <3>1, <3>2
  <2>. QED
    BY <2>5, <2>6, <2>7
<1>12. ASSUME NEW i \in Instances, NEW o \in Orders,
             CreateAnswerBlank(i, o)
      PROVE  NoticeInv'
  BY <1>12 DEF CreateAnswerBlank
<1>13. ASSUME NEW i \in Instances, NEW o \in Orders,
             CreateRejected(i, o)
      PROVE  NoticeInv'
  BY <1>13 DEF CreateRejected, Continue
<1>14. ASSUME NEW i \in Instances, NEW o \in Orders,
             UpdateOrderFulfilled(i, o)
      PROVE  NoticeInv'
  BY <1>14 DEF UpdateOrderFulfilled, Continue
<1>15. ASSUME NEW i \in Instances,
             LogonFails(i)
      PROVE  NoticeInv'
  BY <1>15 DEF LogonFails
<1>16. ASSUME NEW i \in Instances,
             Crash(i)
      PROVE  NoticeInv'
  BY <1>16 DEF Crash, Forget
<1>17. ASSUME NEW i \in Instances, NEW o \in Orders,
             QueryOrderFails(i, o)
      PROVE  NoticeInv'
  BY <1>17 DEF QueryOrderFails
<1>18. ASSUME NEW i \in Instances, NEW o \in Orders,
             LookupFails(i, o)
      PROVE  NoticeInv'
  BY <1>18 DEF LookupFails, Continue
<1>19. ASSUME NEW i \in Instances, NEW o \in Orders,
             CreateFails(i, o)
      PROVE  NoticeInv'
  <2>1. /\ pc[i] = "create" /\ pick[i] \in Parts
        /\ UNCHANGED <<status, ask>>
        /\ seen' = [seen EXCEPT ![i] = @ \ {o}]
        /\ pc' = [pc EXCEPT ![i] = "lookup"]
    BY <1>19 DEF CreateFails, Continue
  <2>2. \/ made' = made /\ unrecorded' = unrecorded
        \/ /\ made' = [made EXCEPT ![o] = @ \cup {pick[i]}]
           /\ unrecorded' = unrecorded \cup {o}
    BY <1>19, <2>1 DEF CreateFails, ShopifyFulfils
  <2>3. \A j \in Instances : Unwritten(j) \subseteq Unwritten(j)'
    BY <2>1
  <2>4. CycleInv' /\ HandInv'
    BY <2>1, <2>2
  <2>5. MadeInv'
    <3> SUFFICES ASSUME NEW q \in Orders \ unrecorded', made'[q] # {}
                 PROVE  status'[q] = "fulfilled"
                        \/ \E j \in Instances : q \in Unwritten(j)'
      BY DEF MadeInv
    <3>1. made[q] # {} /\ q \notin unrecorded
      BY <2>2
    <3>2. status[q] = "fulfilled" \/ \E j \in Instances : q \in Unwritten(j)
      BY <3>1
    <3>. QED
      BY <2>1, <2>3, <3>2
  <2>6. SecondNoticeIsExplained'
    <3> SUFFICES ASSUME NEW q \in Orders, NEW a \in made'[q], NEW b \in made'[q],
                        a # b
                 PROVE  q \in unrecorded'
      BY DEF SecondNoticeIsExplained
    <3>1. CASE made' = made /\ unrecorded' = unrecorded
      BY <3>1
    <3>2. CASE /\ made' = [made EXCEPT ![o] = @ \cup {pick[i]}]
               /\ unrecorded' = unrecorded \cup {o}
      BY <3>2
    <3>. QED
      BY <2>2, <3>1, <3>2
  <2>. QED
    BY <2>4, <2>5, <2>6
<1>20. ASSUME NEW i \in Instances, NEW o \in Orders,
             UpdateFails(i, o)
      PROVE  NoticeInv'
  BY <1>20 DEF UpdateFails, Continue
<1>21. CASE UNCHANGED vars
  BY <1>21
<1>22. ASSUME NEW i \in Instances,
             DeadlinePasses(i)
      PROVE  NoticeInv'
  <2>1. UNCHANGED status /\ Forget(i)
    BY <1>22 DEF DeadlinePasses
  <2>2. CASE UNCHANGED shopVars /\ unrecorded' = unrecorded \cup Unwritten(i)
    BY <2>1, <2>2 DEF Forget
  <2>3. ASSUME NEW o \in Orders, pc[i] = "create", IsFirst(o, seen[i]),
               ShopifyFulfils(o, pick[i]), unrecorded' = unrecorded \cup {o}
        PROVE  NoticeInv'
    <3>1. /\ pick[i] \in Parts
          /\ made' = [made EXCEPT ![o] = @ \cup {pick[i]}]
      BY <2>3 DEF ShopifyFulfils
    <3>2. \A j \in Instances : Unwritten(j) \subseteq Unwritten(j)'
      BY <2>1, <2>3 DEF Forget
    <3>3. CycleInv' /\ HandInv'
      BY <2>1, <2>3 DEF Forget
    <3>4. MadeInv'
      <4> SUFFICES ASSUME NEW q \in Orders \ unrecorded', made'[q] # {}
                   PROVE  status'[q] = "fulfilled"
                          \/ \E j \in Instances : q \in Unwritten(j)'
        BY DEF MadeInv
      <4>1. made[q] # {} /\ q \notin unrecorded
        BY <2>3, <3>1
      <4>2. status[q] = "fulfilled" \/ \E j \in Instances : q \in Unwritten(j)
        BY <4>1
      <4>. QED
        BY <2>1, <3>2, <4>2
    <3>5. SecondNoticeIsExplained'
      BY <2>3, <3>1
    <3>. QED
      BY <3>3, <3>4, <3>5
  <2>. QED
    BY <1>22, <2>2, <2>3 DEF DeadlinePasses
<1>. QED
    BY <1>1, <1>2, <1>3, <1>4, <1>5, <1>6, <1>7, <1>8, <1>9, <1>10, <1>11,
     <1>12, <1>13, <1>14, <1>15, <1>16, <1>17, <1>18, <1>19, <1>20, <1>21, <1>22
     DEF Next, CycleStep, CycleFault, Surroundings

\* The status filter of FetchSubmittedOrders and the update at the end of the
\* loop's body: a second shipping notice goes out only for an order whose first
\* one was not recorded, or that two processes had in hand; with any number of
\* processes, parts, failed calls and cycles cut short by the deadline.
THEOREM SecondNoticesAreExplained == Spec => []SecondNoticeIsExplained
<1>1. NoticeInv => SecondNoticeIsExplained
  BY DEF NoticeInv
<1>. QED
  BY <1>1, FulfilmentInductive, NoticeInit, NoticeStep, PTL DEF Spec
=============================================================================
