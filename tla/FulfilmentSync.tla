--------------------------- MODULE FulfilmentSync ---------------------------
(***************************************************************************)
(* Fulfilment sync: how a dispatch in SYSPRO becomes a fulfilment in       *)
(* Shopify and a 'fulfilled' row (internal/fulfilment/syncer.go,           *)
(* internal/fulfilment/shopify.go, internal/syspro/sorqry.go).             *)
(*                                                                         *)
(* A cycle fetches the submitted rows, asks SYSPRO for the status of each, *)
(* and for each order SYSPRO calls complete looks up a fulfilment order of *)
(* Shopify, creates a fulfilment for it and updates the row.  Each of      *)
(* these calls may fail; the cycle then goes on with the next order.  When  *)
(* its three minutes are over every call that is left fails.               *)
(*                                                                         *)
(* Shopify and SYSPRO are modelled from how they are used.  A Shopify      *)
(* order is split into fulfilment orders (parts), listed in a fixed order. *)
(* A part is "open" (OPEN, IN_PROGRESS), "held" (ON_HOLD, SCHEDULED:       *)
(* Shopify refuses to fulfil it for now), "closed" by a fulfilment or      *)
(* "cancelled".                                                            *)
(***************************************************************************)
EXTENDS Integers, FiniteSets

CONSTANTS
    Instances,    \* processes of the service: two while one replaces the other
    Orders,       \* order rows; their numbers are the order of created_at
    Parts,        \* places in the list of fulfilment orders of an order
    ListLimit,    \* how many of them Shopify is asked for (10 in the code)
    MaxFaults     \* bound: calls of the cycle that fail or whose answer is lost,
                  \* and processes stopped in a cycle

ASSUME FulfilmentAssumption ==
    /\ Orders \subseteq Nat
    /\ Parts \subseteq Nat \ {0}
    /\ ListLimit \in Nat
    /\ MaxFaults \in Nat

VARIABLES
    \* The database.
    status,     \* status[o]: the row's status, "none" before it is submitted
    gid,        \* gid[o]: shopify_fulfillment_id, as a part; 0 for ''
    \* SYSPRO and Shopify.
    sor,        \* sor[o]: OrderStatus in SYSPRO
    fo,         \* fo[o][p]: status of a fulfilment order
    \* The cycle of each instance.
    pc,
    ask,        \* orders SYSPRO is still to be asked about
    seen,       \* orders SYSPRO called complete, still to be fulfilled
    pick,       \* the fulfilment order of the first of them; 0 for ''
    \* History, for the properties only.
    made,       \* made[o]: parts fulfilled by the service
    blank,      \* orders for which Shopify's answer was taken for a fulfilment
                \* although it had none
    unrecorded, \* orders whose row may not tell of a fulfilment in time: the
                \* answer or the update was lost, or two processes had the
                \* order in hand at once
    \* Bound.
    faults

rowVars == <<status, gid>>
shopVars == <<fo, made, blank>>
histVars == <<unrecorded, faults>>
cycleVars == <<pc, ask, seen, pick>>
vars == <<rowVars, sor, shopVars, cycleVars, histVars>>

Status == {"none", "submitted", "fulfilled"}
Sor == {"open", "complete", "cancelled"}
FoStatus == {"open", "held", "closed", "cancelled"}

\* The first of a set of numbers: what a loop in ascending order takes.
IsFirst(n, S) == n \in S /\ \A m \in S : n <= m

Init ==
    /\ status = [o \in Orders |-> "none"]
    /\ gid = [o \in Orders |-> 0]
    /\ sor = [o \in Orders |-> "open"]
    /\ fo \in [Orders -> [Parts -> {"open", "held", "cancelled"}]]
    /\ pc = [i \in Instances |-> "idle"]
    /\ ask = [i \in Instances |-> {}]
    /\ seen = [i \in Instances |-> {}]
    /\ pick = [i \in Instances |-> 0]
    /\ made = [o \in Orders |-> {}]
    /\ blank = {} /\ unrecorded = {}
    /\ faults = 0

-----------------------------------------------------------------------------
(* The surroundings.                                                       *)

\* The batch processor records SYSPRO's order number (UpdateOrderSubmitted).
OrderSubmitted(o) ==
    /\ status[o] = "none"
    /\ status' = [status EXCEPT ![o] = "submitted"]
    /\ UNCHANGED <<gid, sor, shopVars, cycleVars, histVars>>

\* SYSPRO completes the order (status 9), or it is cancelled there.
SysproCloses(o, s) ==
    /\ sor[o] = "open"
    /\ s \in {"complete", "cancelled"}
    /\ sor' = [sor EXCEPT ![o] = s]
    /\ UNCHANGED <<rowVars, shopVars, cycleVars, histVars>>

\* Shopify's staff hold a part, release it, or fulfil it by hand.
StaffSets(o, p, s) ==
    /\ fo[o][p] \in {"open", "held"}
    /\ s \in {"open", "held", "closed"} \ {fo[o][p]}
    /\ fo' = [fo EXCEPT ![o][p] = s]
    /\ UNCHANGED <<made, blank, rowVars, sor, cycleVars, histVars>>

\* The order is cancelled in Shopify, with the parts that are not fulfilled.
ShopifyCancels(o) ==
    /\ \E p \in Parts : fo[o][p] \in {"open", "held"}
    /\ fo' = [fo EXCEPT ![o] = [p \in Parts |->
                IF fo[o][p] = "closed" THEN "closed" ELSE "cancelled"]]
    /\ UNCHANGED <<made, blank, rowVars, sor, cycleVars, histVars>>

-----------------------------------------------------------------------------
(* The cycle: tick and processOrders.  TryLock never fails: Run is the     *)
(* only caller and waits for each cycle.                                   *)

Fault ==
    /\ faults < MaxFaults
    /\ faults' = faults + 1

\* Mutant of Submitted: fetch the fulfilled rows too.
EverSubmitted == {o \in Orders : status[o] # "none"}

\* The rows FetchSubmittedOrders returns.
Submitted == {o \in Orders : status[o] = "submitted"}

\* A cycle that fetches nothing, or fails to fetch, changes nothing.
FetchSubmittedOrders(i) ==
    /\ pc[i] = "idle"
    /\ Submitted # {}
    /\ ask' = [ask EXCEPT ![i] = Submitted]
    /\ pc' = [pc EXCEPT ![i] = "query"]
    /\ unrecorded' = unrecorded \cup
          (Submitted \cap UNION {ask[j] \cup seen[j] : j \in Instances})
    /\ UNCHANGED <<seen, pick, rowVars, sor, shopVars, faults>>

\* The logon fails: QueryDispatchedOrders returns the error, the cycle is over.
LogonFails(i) ==
    /\ pc[i] = "query"
    /\ seen[i] = {}
    /\ Fault
    /\ pc' = [pc EXCEPT ![i] = "idle"]
    /\ ask' = [ask EXCEPT ![i] = {}]
    /\ UNCHANGED <<seen, pick, rowVars, sor, shopVars, unrecorded>>

\* Mutant of Dispatched: a cancelled order is taken for a dispatched one.
NoLongerOpen(o) == sor[o] # "open"

\* OrderStatus "9".
Dispatched(o) == sor[o] = "complete"

\* SORQRY for one order.  Orders that are not complete are passed over by
\* processOrders, so only the complete ones are kept.
QueryOrder(i, o) ==
    /\ pc[i] = "query"
    /\ IsFirst(o, ask[i])
    /\ seen' = [seen EXCEPT ![i] = IF Dispatched(o) THEN @ \cup {o} ELSE @]
    /\ ask' = [ask EXCEPT ![i] = @ \ {o}]
    /\ UNCHANGED <<pc, pick, rowVars, sor, shopVars, histVars>>

\* SORQRY fails or cannot be parsed: the order is missing from the result.
QueryOrderFails(i, o) ==
    /\ pc[i] = "query"
    /\ IsFirst(o, ask[i])
    /\ Fault
    /\ ask' = [ask EXCEPT ![i] = @ \ {o}]
    /\ UNCHANGED <<pc, seen, pick, rowVars, sor, shopVars, unrecorded>>

QueryEnds(i) ==
    /\ pc[i] = "query"
    /\ ask[i] = {}
    /\ pc' = [pc EXCEPT ![i] = "lookup"]
    /\ UNCHANGED <<ask, seen, pick, rowVars, sor, shopVars, histVars>>

\* The fulfilment orders GetFulfillmentOrderID sees and does not pass over.
Live(o) == {p \in Parts : p <= ListLimit /\ fo[o][p] \notin {"closed", "cancelled"}}

GetFulfillmentOrderID(i, o, p) ==
    /\ pc[i] = "lookup"
    /\ IsFirst(o, seen[i])
    /\ IsFirst(p, Live(o))
    /\ pick' = [pick EXCEPT ![i] = p]
    /\ pc' = [pc EXCEPT ![i] = "create"]
    /\ UNCHANGED <<ask, seen, rowVars, sor, shopVars, histVars>>

\* Mutant of Continue: one order's failure ends the cycle.
GiveUp(i, o) ==
    /\ seen' = [seen EXCEPT ![i] = {}]
    /\ pick' = [pick EXCEPT ![i] = 0]
    /\ pc' = [pc EXCEPT ![i] = "lookup"]
    /\ UNCHANGED ask

\* On to the next order of the loop.
Continue(i, o) ==
    /\ seen' = [seen EXCEPT ![i] = @ \ {o}]
    /\ pick' = [pick EXCEPT ![i] = 0]
    /\ pc' = [pc EXCEPT ![i] = "lookup"]
    /\ UNCHANGED ask

\* "no open fulfillment orders found".
NoFulfillmentOrder(i, o) ==
    /\ pc[i] = "lookup"
    /\ IsFirst(o, seen[i])
    /\ Live(o) = {}
    /\ Continue(i, o)
    /\ UNCHANGED <<rowVars, sor, shopVars, histVars>>

LookupFails(i, o) ==
    /\ pc[i] = "lookup"
    /\ IsFirst(o, seen[i])
    /\ Fault
    /\ Continue(i, o)
    /\ UNCHANGED <<rowVars, sor, shopVars, unrecorded>>

\* Shopify carries fulfillmentCreate out: the part is closed, the customer is
\* notified.
ShopifyFulfils(o, p) ==
    /\ fo[o][p] = "open"
    /\ fo' = [fo EXCEPT ![o][p] = "closed"]
    /\ made' = [made EXCEPT ![o] = @ \cup {p}]
    /\ UNCHANGED blank

\* CreateFulfillment returns the new fulfilment's id, or '' when the part is
\* already fulfilled.
CreateFulfillment(i, o) ==
    /\ pc[i] = "create"
    /\ IsFirst(o, seen[i])
    /\ \/ /\ ShopifyFulfils(o, pick[i])
          /\ UNCHANGED pick
       \/ /\ fo[o][pick[i]] = "closed"
          /\ pick' = [pick EXCEPT ![i] = 0]
          /\ UNCHANGED shopVars
    /\ pc' = [pc EXCEPT ![i] = "update"]
    /\ UNCHANGED <<ask, seen, rowVars, sor, histVars>>

\* Shopify answers with neither a fulfilment nor an error, which is taken for
\* success.
CreateAnswerBlank(i, o) ==
    /\ pc[i] = "create"
    /\ IsFirst(o, seen[i])
    /\ fo[o][pick[i]] = "open"
    /\ blank' = blank \cup {o}
    /\ pick' = [pick EXCEPT ![i] = 0]
    /\ pc' = [pc EXCEPT ![i] = "update"]
    /\ UNCHANGED <<ask, seen, rowVars, sor, fo, made, histVars>>

\* Mutant of CreateRejected: the user errors are not looked at.
CreateRejectionIgnored(i, o) ==
    /\ pc[i] = "create"
    /\ IsFirst(o, seen[i])
    /\ fo[o][pick[i]] \in {"held", "cancelled"}
    /\ pick' = [pick EXCEPT ![i] = 0]
    /\ pc' = [pc EXCEPT ![i] = "update"]
    /\ UNCHANGED <<ask, seen, rowVars, sor, shopVars, histVars>>

\* A user error of another kind: the part is held or was cancelled meanwhile.
CreateRejected(i, o) ==
    /\ pc[i] = "create"
    /\ IsFirst(o, seen[i])
    /\ fo[o][pick[i]] \in {"held", "cancelled"}
    /\ Continue(i, o)
    /\ UNCHANGED <<rowVars, sor, shopVars, histVars>>

\* The call fails, before Shopify acted on it or after.
CreateFails(i, o) ==
    /\ pc[i] = "create"
    /\ IsFirst(o, seen[i])
    /\ Fault
    /\ \/ UNCHANGED <<shopVars, unrecorded>>
       \/ /\ ShopifyFulfils(o, pick[i])
          /\ unrecorded' = unrecorded \cup {o}
    /\ Continue(i, o)
    /\ UNCHANGED <<rowVars, sor>>

\* The statement names the row by its id alone: no status is required.
UpdateOrderFulfilled(i, o) ==
    /\ pc[i] = "update"
    /\ IsFirst(o, seen[i])
    /\ status' = [status EXCEPT ![o] = "fulfilled"]
    /\ gid' = [gid EXCEPT ![o] = pick[i]]
    /\ Continue(i, o)
    /\ UNCHANGED <<sor, shopVars, histVars>>

UpdateFails(i, o) ==
    /\ pc[i] = "update"
    /\ IsFirst(o, seen[i])
    /\ Fault
    /\ unrecorded' = unrecorded \cup {o}
    /\ Continue(i, o)
    /\ UNCHANGED <<rowVars, sor, shopVars>>

CycleEnds(i) ==
    /\ pc[i] = "lookup"
    /\ seen[i] = {}
    /\ pc' = [pc EXCEPT ![i] = "idle"]
    /\ UNCHANGED <<ask, seen, pick, rowVars, sor, shopVars, histVars>>

Forget(i) ==
    /\ pc' = [pc EXCEPT ![i] = "idle"]
    /\ ask' = [ask EXCEPT ![i] = {}]
    /\ seen' = [seen EXCEPT ![i] = {}]
    /\ pick' = [pick EXCEPT ![i] = 0]

\* The order of which a fulfilment was made, but not yet recorded.
Unwritten(i) == {o \in seen[i] : pc[i] = "update" /\ IsFirst(o, seen[i])}

\* The process stops in the middle of a cycle; a new one starts a new cycle.
Crash(i) ==
    /\ pc[i] # "idle"
    /\ Fault
    /\ unrecorded' = unrecorded \cup Unwritten(i)
    /\ Forget(i)
    /\ UNCHANGED <<rowVars, sor, shopVars>>

\* The three minutes are over before the orders are, as often as it happens: the
\* calls that are left fail.  A fulfillmentCreate under way may be carried out.
DeadlinePasses(i) ==
    /\ ask[i] \cup seen[i] # {}
    /\ \/ /\ unrecorded' = unrecorded \cup Unwritten(i)
          /\ UNCHANGED shopVars
       \/ \E o \in Orders :
             /\ pc[i] = "create"
             /\ IsFirst(o, seen[i])
             /\ ShopifyFulfils(o, pick[i])
             /\ unrecorded' = unrecorded \cup {o}
    /\ Forget(i)
    /\ UNCHANGED <<rowVars, sor, faults>>

-----------------------------------------------------------------------------
\* The steps a running cycle takes when no call fails.
CycleStep(i) ==
    \/ FetchSubmittedOrders(i)
    \/ QueryEnds(i)
    \/ CycleEnds(i)
    \/ \E o \in Orders :
          \/ QueryOrder(i, o)
          \/ \E p \in Parts : GetFulfillmentOrderID(i, o, p)
          \/ NoFulfillmentOrder(i, o)
          \/ CreateFulfillment(i, o)
          \/ CreateAnswerBlank(i, o)
          \/ CreateRejected(i, o)
          \/ UpdateOrderFulfilled(i, o)

CycleFault(i) ==
    \/ LogonFails(i)
    \/ Crash(i)
    \/ DeadlinePasses(i)
    \/ \E o \in Orders :
          \/ QueryOrderFails(i, o)
          \/ LookupFails(i, o)
          \/ CreateFails(i, o)
          \/ UpdateFails(i, o)

Surroundings ==
    \E o \in Orders :
       \/ OrderSubmitted(o)
       \/ \E s \in Sor : SysproCloses(o, s)
       \/ \E p \in Parts, s \in FoStatus : StaffSets(o, p, s)
       \/ ShopifyCancels(o)

Next == Surroundings \/ \E i \in Instances : CycleStep(i) \/ CycleFault(i)

Spec == Init /\ [][Next]_vars

\* The ticker fires, and calls return.  Faults come to an end by their bound;
\* nothing is assumed of the surroundings, nor of the deadline.
FairSpec == Spec /\ \A i \in Instances : WF_vars(CycleStep(i))

-----------------------------------------------------------------------------
(* Properties.                                                             *)

\* Every variable has its type.
TypeOK ==
    /\ status \in [Orders -> Status]
    /\ gid \in [Orders -> Parts \cup {0}]
    /\ sor \in [Orders -> Sor]
    /\ fo \in [Orders -> [Parts -> FoStatus]]
    /\ pc \in [Instances -> {"idle", "query", "lookup", "create", "update"}]
    /\ ask \in [Instances -> SUBSET Orders]
    /\ seen \in [Instances -> SUBSET Orders]
    /\ pick \in [Instances -> Parts \cup {0}]
    /\ made \in [Orders -> SUBSET Parts]
    /\ blank \subseteq Orders /\ unrecorded \subseteq Orders
    /\ faults \in 0..MaxFaults

\* A row is 'fulfilled' only when SYSPRO has completed the order and Shopify has
\* a fulfilment of it, although the row is written two calls after SYSPRO was
\* asked and whatever staff do in between.  The one exception is an answer of
\* Shopify with neither a fulfilment nor an error.
FulfilledIsShipped ==
    \A o \in Orders : status[o] = "fulfilled" =>
        /\ sor[o] = "complete"
        /\ o \in blank \/ \E p \in Parts : fo[o][p] = "closed"

\* The service sends no customer a shipping notice for an order that SYSPRO has
\* not completed, whatever happens to the row afterwards.
NoticeFollowsDispatch ==
    \A o \in Orders : made[o] # {} => sor[o] = "complete"

\* A customer gets one shipping notice, although an order may have several parts
\* and a row that is not yet 'fulfilled' is taken up again every cycle.  There is
\* a second one, for another part, only if the row could not tell of the first:
\* the answer or the update was lost (a failed call, a crash, the deadline), or
\* two processes had the order in hand at once.
SecondNoticeIsExplained ==
    \A o \in Orders :
       (\E p, q \in made[o] : p # q) => o \in unrecorded

\* The order could be fulfilled by the next cycle.
Ready(o) ==
    /\ status[o] = "submitted"
    /\ sor[o] = "complete"
    /\ \E p \in Parts : fo[o][p] = "open" /\ IsFirst(p, Live(o))

\* A dispatched order whose first part that is listed and neither closed nor
\* cancelled is open is fulfilled in Shopify, unless somebody holds, fulfils or
\* cancels it or Shopify's answer is blank: orders that Shopify refuses again and
\* again do not keep the loop from those behind them.  This takes cycles that
\* get to their end; slow calls for the orders in front may use up the three
\* minutes in every cycle.  An open part behind a held one is never looked at.
DispatchReachesShopify ==
    (\A i \in Instances : []<><<CycleEnds(i)>>_vars) =>
       \A o \in Orders : Ready(o) ~> (made[o] # {} \/ ~Ready(o))

\* An order the service has fulfilled in Shopify gets a 'fulfilled' row.
\* Violated when the answer of CreateFulfillment or the update of the row is
\* lost: every later cycle finds the parts closed and passes the order over.
ShippedRowIsFulfilled ==
    \A o \in Orders : made[o] # {} ~> status[o] = "fulfilled"
=============================================================================
