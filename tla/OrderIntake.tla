----------------------------- MODULE OrderIntake -----------------------------
(***************************************************************************)
(* Order intake: how a Shopify order becomes a row of the orders table.    *)
(*                                                                         *)
(* Two paths write rows: the orders/create webhook handler, any number of  *)
(* requests at a time (internal/webhook/handler.go), and the               *)
(* reconciliation sweep, which lists recent Shopify orders and stages what *)
(* is missing (internal/reconcile/sweeper.go).  Both end in one            *)
(* transaction that inserts the webhook event and the order under unique   *)
(* constraints (internal/store/order.go).  A staged webhook order wakes    *)
(* the stock syncer through a channel of capacity one.                     *)
(*                                                                         *)
(* Shopify is modelled from how it is used: it delivers a webhook until it *)
(* gets a 200 or gives up, repeats itself, and may announce an order again *)
(* under a new webhook id.  A payload is a snapshot: it says what the      *)
(* financial status was when the event was made.                           *)
(*                                                                         *)
(* A unit of time is one sweep interval (15 minutes, more than the ten     *)
(* minutes a sweep may take).                                              *)
(***************************************************************************)
EXTENDS Integers, FiniteSets

CONSTANTS
    Orders,       \* Shopify orders
    Hooks,        \* webhook ids
    Handlers,     \* concurrent requests of the webhook endpoint
    LineKinds,    \* how fit for the webhook handler line items can be
    Lookback,     \* the sweep's lookback, in sweep intervals (48 h in the code)
    SweepLimit,   \* orders Shopify lists in one page (250 in the code)
    MaxFaults,    \* bound: failures of the database or of a listing
    MaxOutages    \* bound: crashes or restarts of the service

\* Without line items there is nothing to stage; bad ones fail the validation.
Lines == {"good", "bad", "none"}

ASSUME IntakeAssumption ==
    /\ LineKinds \subseteq Lines
    /\ Lookback \in Nat
    /\ SweepLimit \in Nat
    /\ MaxFaults \in Nat
    /\ MaxOutages \in Nat

VARIABLES
    \* Shopify.
    fin,        \* fin[o]: financial status, "none" before the order is placed
    lines,      \* lines[o]: are the line items fit for the webhook handler?
    age,        \* age[o]: time since the order was placed
    paidAt,     \* paidAt[o]: the age at which the order was paid
    hook,       \* hook[w]: the payload of webhook w
    delivery,   \* delivery[w]: what Shopify still does about w
    \* The database.
    events,     \* webhook_events: the webhook ids of committed transactions
    row,        \* row[o]: who staged o
    \* The service.
    up,
    pc, req,    \* the requests being handled
    trigger,    \* triggerCh holds a token
    armed,      \* the stock syncer's debounce timer is running
    cached,     \* a full sync has filled cachedStock since the start
    sweep,      \* where the sweep is
    listed,     \* orders of the listing still to be looked at
    listedPaid, \* those of them that were paid when listed
    existing,   \* ids found in the database before the loop
    due,        \* the ticker (or the start of Run) has asked for a sweep
    \* History, for the properties only.
    unseen,     \* orders staged by webhook that no stock sync has taken in yet
    unwoken,    \* those a failure has cost their wake-up
    failed,     \* orders the sweep under way could not stage
    served,     \* orders a sweep of this interval went through without failing
    missed,     \* missed[o]: intervals o was paid and not served
    \* Bounds.
    faults, outages

shopVars == <<fin, lines, age, paidAt>>
hookVars == <<hook, delivery>>
dbVars == <<events, row>>
handlerVars == <<pc, req>>
stockVars == <<trigger, armed, cached, unseen, unwoken>>
sweepVars == <<sweep, listed, listedPaid, existing, due, failed>>
timeVars == <<served, missed>>
boundVars == <<faults, outages>>
vars == <<shopVars, hookVars, dbVars, up, handlerVars, stockVars, sweepVars,
          timeVars, boundVars>>

NoHook == [order |-> "none", paid |-> FALSE]
NoRow == "none"
NoRequest == "none"
Reconciled == "reconcile"

\* Webhook ids are none of the words used where there is no webhook.
ASSUME NamesAssumption == Hooks \cap {NoRow, Reconciled} = {}

Fin == {"none", "unpaid", "paid", "refunded"}
Delivery == {"unsent", "sending", "acked", "dropped"}

Staged(o) == row[o] # NoRow

\* Mutant of IsPaid: every placed order passes the gate.
EveryStatusIsPaid(status) == status # "none"

\* isPaidStatus, in the handler and in the sweeper.
IsPaid(status) == status = "paid"

Init ==
    /\ fin = [o \in Orders |-> "none"]
    /\ lines = [o \in Orders |-> "good"]
    /\ age = [o \in Orders |-> 0]
    /\ paidAt = [o \in Orders |-> 0]
    /\ hook = [w \in Hooks |-> NoHook]
    /\ delivery = [w \in Hooks |-> "unsent"]
    /\ events = {}
    /\ row = [o \in Orders |-> NoRow]
    /\ up = TRUE
    /\ pc = [h \in Handlers |-> "idle"]
    /\ req = [h \in Handlers |-> NoRequest]
    /\ trigger = FALSE /\ armed = FALSE /\ cached = FALSE
    /\ unseen = {} /\ unwoken = {}
    /\ sweep = "idle"
    /\ listed = {} /\ listedPaid = {} /\ existing = {}
    /\ due = TRUE
    /\ failed = {} /\ served = {}
    /\ missed = [o \in Orders |-> 0]
    /\ faults = 0 /\ outages = 0

-----------------------------------------------------------------------------
(* Shopify.                                                                *)

\* A webhook about order o, with the financial status of the moment.
Announce(w, o, status) ==
    /\ delivery[w] = "unsent"
    /\ hook' = [hook EXCEPT ![w] = [order |-> o, paid |-> IsPaid(status)]]
    /\ delivery' = [delivery EXCEPT ![w] = "sending"]

\* A customer places an order, paid or not, with line items of any quality.
PlaceOrder(o, w) ==
    /\ fin[o] = "none"
    /\ \E status \in {"unpaid", "paid"}, l \in LineKinds :
          /\ fin' = [fin EXCEPT ![o] = status]
          /\ lines' = [lines EXCEPT ![o] = l]
          /\ Announce(w, o, status)
    /\ UNCHANGED <<age, paidAt, dbVars, up, handlerVars, stockVars, sweepVars,
                   timeVars, boundVars>>

\* The payment arrives, or is given back.  orders/create is not sent again.
PayOrder(o) ==
    /\ fin[o] = "unpaid"
    /\ fin' = [fin EXCEPT ![o] = "paid"]
    /\ paidAt' = [paidAt EXCEPT ![o] = age[o]]
    /\ UNCHANGED <<lines, age, hookVars, dbVars, up, handlerVars, stockVars,
                   sweepVars, timeVars, boundVars>>

RefundOrder(o) ==
    /\ fin[o] = "paid"
    /\ fin' = [fin EXCEPT ![o] = "refunded"]
    /\ UNCHANGED <<lines, age, paidAt, hookVars, dbVars, up, handlerVars,
                   stockVars, sweepVars, timeVars, boundVars>>

\* The order is announced once more under another webhook id.
AnnounceAgain(o, w) ==
    /\ fin[o] # "none"
    /\ Announce(w, o, fin[o])
    /\ UNCHANGED <<shopVars, dbVars, up, handlerVars, stockVars, sweepVars,
                   timeVars, boundVars>>

\* Shopify stops delivering: its retries are used up, or the webhook is lost.
DropWebhook(w) ==
    /\ delivery[w] = "sending"
    /\ delivery' = [delivery EXCEPT ![w] = "dropped"]
    /\ UNCHANGED <<hook, shopVars, dbVars, up, handlerVars, stockVars,
                   sweepVars, timeVars, boundVars>>

-----------------------------------------------------------------------------
(* handleOrderCreate.  A 4xx or 5xx changes nothing but Shopify's patience,*)
(* so only the answers that matter are steps: 200 stops the deliveries     *)
(* (unless Shopify no longer waits for it).                                *)

Respond200(w) ==
    delivery' \in {delivery, [delivery EXCEPT ![w] = IF @ = "sending"
                                                       THEN "acked" ELSE @]}

\* A delivery whose webhook id is known: WebhookExists says yes.
DuplicateWebhook(w) ==
    /\ up
    /\ delivery[w] = "sending"
    /\ w \in events
    /\ Respond200(w)
    /\ UNCHANGED <<shopVars, hook, dbVars, up, handlerVars, stockVars,
                   sweepVars, timeVars, boundVars>>

\* The financial-status gate: an unpaid order with line items is acknowledged
\* and nothing is stored.
SkipUnpaid(w) ==
    /\ up
    /\ delivery[w] = "sending"
    /\ w \notin events
    /\ lines[hook[w].order] # "none"
    /\ ~hook[w].paid
    /\ Respond200(w)
    /\ UNCHANGED <<shopVars, hook, dbVars, up, handlerVars, stockVars,
                   sweepVars, timeVars, boundVars>>

\* The request passes WebhookExists, the gate and the validation of its lines.
\* Shopify may send w again while this request is being handled.
Receive(h, w) ==
    /\ up
    /\ pc[h] = "idle"
    /\ delivery[w] = "sending"
    /\ w \notin events
    /\ hook[w].paid
    /\ lines[hook[w].order] = "good"
    /\ pc' = [pc EXCEPT ![h] = "creating"]
    /\ req' = [req EXCEPT ![h] = w]
    /\ UNCHANGED <<shopVars, hookVars, dbVars, up, stockVars, sweepVars,
                   timeVars, boundVars>>

Finish(h) ==
    /\ pc' = [pc EXCEPT ![h] = "idle"]
    /\ req' = [req EXCEPT ![h] = NoRequest]

\* Mutant of Conflict: only webhook_id is unique.
ConflictOnWebhookOnly(o, by) == by \in events

\* A unique constraint of the transaction fails: ErrDuplicateWebhook or
\* ErrDuplicateOrder.
Conflict(o, by) == by \in events \/ Staged(o)

\* Mutant of Insert: the webhook event is committed on its own, before the order.
InsertEventFirst(o, by) ==
    /\ events' = IF by \in Hooks THEN events \cup {by} ELSE events
    /\ row' \in {row, [row EXCEPT ![o] = by]}

\* The event and the order become visible together, at the commit.  The sweep's
\* own event ids (reconcile-<id>-<time>) are never looked up.
Insert(o, by) ==
    /\ events' = IF by \in Hooks THEN events \cup {by} ELSE events
    /\ row' = [row EXCEPT ![o] = by]

CreateOrder(h) ==
    /\ pc[h] = "creating"
    /\ ~Conflict(hook[req[h]].order, req[h])
    /\ Insert(hook[req[h]].order, req[h])
    /\ unseen' = unseen \cup {hook[req[h]].order}
    /\ pc' = [pc EXCEPT ![h] = "staged"]
    /\ UNCHANGED <<shopVars, hookVars, up, req, trigger, armed, cached, unwoken,
                   sweepVars, timeVars, boundVars>>

\* Somebody else was faster: the transaction is rolled back and the webhook
\* acknowledged.
CreateOrderDuplicate(h) ==
    /\ pc[h] = "creating"
    /\ Conflict(hook[req[h]].order, req[h])
    /\ Respond200(req[h])
    /\ Finish(h)
    /\ UNCHANGED <<shopVars, hook, dbVars, up, stockVars, sweepVars, timeVars,
                   boundVars>>

\* The transaction fails, or commits and its acknowledgement is lost: 500.  The
\* stock syncer is not woken, then or when the redelivery meets its own row.
CreateOrderFails(h) ==
    /\ pc[h] = "creating"
    /\ faults < MaxFaults
    /\ faults' = faults + 1
    /\ \/ UNCHANGED <<dbVars, unseen, unwoken>>
       \/ /\ ~Conflict(hook[req[h]].order, req[h])
          /\ Insert(hook[req[h]].order, req[h])
          /\ unseen' = unseen \cup {hook[req[h]].order}
          /\ unwoken' = unwoken \cup {hook[req[h]].order}
    /\ Finish(h)
    /\ UNCHANGED <<shopVars, hookVars, up, trigger, armed, cached, sweepVars,
                   timeVars, outages>>

\* The non-blocking send: the token is there afterwards, new or old.
Notify == trigger' = TRUE

\* The rest of the handler: wake the stock syncer, answer 200.
Acknowledge(h) ==
    /\ pc[h] = "staged"
    /\ Notify
    /\ Respond200(req[h])
    /\ Finish(h)
    /\ UNCHANGED <<shopVars, hook, dbVars, up, armed, cached, unseen, unwoken,
                   sweepVars, timeVars, boundVars>>

\* Mutant of ArmDebounce: a running timer is stopped and not started again.
StopDebounce ==
    /\ up
    /\ trigger
    /\ trigger' = FALSE
    /\ armed' = ~armed
    /\ UNCHANGED <<shopVars, hookVars, dbVars, up, handlerVars, cached, unseen,
                   unwoken, sweepVars, timeVars, boundVars>>

\* The stock syncer takes the token and starts its debounce timer anew.
ArmDebounce ==
    /\ up
    /\ trigger
    /\ trigger' = FALSE
    /\ armed' = TRUE
    /\ UNCHANGED <<shopVars, hookVars, dbVars, up, handlerVars, cached, unseen,
                   unwoken, sweepVars, timeVars, boundVars>>

\* The sync reads the reserved quantities of all rows, or cannot, and then the
\* orders of cost have nothing left that will make it look again.
FetchReservedQuantities(cost) ==
    \/ unseen' = {} /\ unwoken' = {} /\ UNCHANGED faults
    \/ /\ faults < MaxFaults
       /\ faults' = faults + 1
       /\ unwoken' = unwoken \cup cost
       /\ UNCHANGED unseen

\* The timer fires.  Without stock from a full sync nothing is read.
TriggeredTick ==
    /\ up
    /\ armed
    /\ armed' = FALSE
    /\ IF cached THEN FetchReservedQuantities(unseen)
                 ELSE UNCHANGED <<unseen, unwoken, faults>>
    /\ UNCHANGED <<shopVars, hookVars, dbVars, up, handlerVars, trigger, cached,
                   sweepVars, timeVars, outages>>

\* The ticker fires, or Run starts, and SYSPRO answers; otherwise the sync
\* changes nothing here.  The first one also stands in for the triggered syncs
\* before it, which had no stock to work with.
FullTick ==
    /\ up
    /\ cached' = TRUE
    /\ FetchReservedQuantities(IF cached THEN {} ELSE unseen)
    /\ UNCHANGED <<shopVars, hookVars, dbVars, up, handlerVars, trigger, armed,
                   sweepVars, timeVars, outages>>

-----------------------------------------------------------------------------
(* The sweep.                                                              *)

\* Mutant of Recent: created_at_min is exclusive, or one interval late.
RecentExclusive == {o \in Orders : fin[o] # "none" /\ age[o] < Lookback}

\* Orders placed within the lookback, created_at_min included.
Recent == {o \in Orders : fin[o] # "none" /\ age[o] <= Lookback}

\* The newest orders come first and one page is all that is asked for.
Pages ==
    {P \in SUBSET Recent :
        IF Cardinality(Recent) <= SweepLimit
          THEN P = Recent
          ELSE /\ Cardinality(P) = SweepLimit
               /\ \A o \in P, q \in Recent \ P : age[o] <= age[q]}

\* listOrders answers.
ListOrders ==
    /\ up /\ due /\ sweep = "idle"
    /\ sweep' = "listed"
    /\ due' = FALSE
    /\ listed' \in Pages
    /\ listedPaid' = {o \in listed' : IsPaid(fin[o])}
    /\ UNCHANGED <<existing, failed, shopVars, hookVars, dbVars, up, handlerVars,
                   stockVars, timeVars, boundVars>>

\* ShopifyOrdersExist, asked once, before the loop.
CheckExisting ==
    /\ sweep = "listed"
    /\ sweep' = "staging"
    /\ existing' = {o \in listed : Staged(o)}
    /\ UNCHANGED <<listed, listedPaid, due, failed, shopVars, hookVars, dbVars,
                   up, handlerVars, stockVars, timeVars, boundVars>>

\* The listing or the existence check fails, and the sweep with it.
SweepFails ==
    /\ up
    /\ \/ sweep = "idle" /\ due
       \/ sweep = "listed"
    /\ faults < MaxFaults
    /\ faults' = faults + 1
    /\ sweep' = "idle"
    /\ due' = FALSE
    /\ listed' = {} /\ listedPaid' = {} /\ existing' = {}
    /\ UNCHANGED <<failed, shopVars, hookVars, dbVars, up, handlerVars,
                   stockVars, timeVars, outages>>

\* An order of the listing that was there before, or was not paid.
PassOver(o) ==
    /\ sweep = "staging"
    /\ o \in listed
    /\ o \in existing \/ o \notin listedPaid
    /\ listed' = listed \ {o}
    /\ UNCHANGED <<sweep, listedPaid, existing, due, failed, shopVars, hookVars,
                   dbVars, up, handlerVars, stockVars, timeVars, boundVars>>

\* stageOrder: staged now, or staged by a webhook since the check.  The lines
\* are not validated and the stock syncer is not woken.
StageOrder(o) ==
    /\ sweep = "staging"
    /\ o \in listed \cap listedPaid
    /\ o \notin existing
    /\ IF Conflict(o, Reconciled) THEN UNCHANGED dbVars ELSE Insert(o, Reconciled)
    /\ listed' = listed \ {o}
    /\ UNCHANGED <<sweep, listedPaid, existing, due, failed, shopVars, hookVars,
                   up, handlerVars, stockVars, timeVars, boundVars>>

\* Mutant of StageOrderFails: the first failure ends the loop.
StageOrderAborts(o) ==
    /\ sweep = "staging"
    /\ o \in listed \cap listedPaid
    /\ o \notin existing
    /\ faults < MaxFaults
    /\ faults' = faults + 1
    /\ listed' = {}
    /\ failed' = failed \cup {o}
    /\ UNCHANGED <<sweep, listedPaid, existing, due, shopVars, hookVars, dbVars,
                   up, handlerVars, stockVars, timeVars, outages>>

\* The transaction fails, or commits unacknowledged: log it and go on.
StageOrderFails(o) ==
    /\ sweep = "staging"
    /\ o \in listed \cap listedPaid
    /\ o \notin existing
    /\ faults < MaxFaults
    /\ faults' = faults + 1
    /\ \/ UNCHANGED dbVars
       \/ ~Conflict(o, Reconciled) /\ Insert(o, Reconciled)
    /\ listed' = listed \ {o}
    /\ failed' = failed \cup {o}
    /\ UNCHANGED <<sweep, listedPaid, existing, due, shopVars, hookVars, up,
                   handlerVars, stockVars, timeVars, outages>>

SweepEnds ==
    /\ sweep = "staging"
    /\ listed = {}
    /\ sweep' = "idle"
    /\ listedPaid' = {} /\ existing' = {}
    /\ served' = served \cup (Orders \ failed)
    /\ failed' = {}
    /\ UNCHANGED <<listed, due, missed, shopVars, hookVars, dbVars, up,
                   handlerVars, stockVars, boundVars>>

-----------------------------------------------------------------------------
(* The process and time.                                                   *)

Crash ==
    /\ up
    /\ outages < MaxOutages
    /\ outages' = outages + 1
    /\ up' = FALSE
    /\ pc' = [h \in Handlers |-> "idle"]
    /\ req' = [h \in Handlers |-> NoRequest]
    /\ trigger' = FALSE /\ armed' = FALSE /\ cached' = FALSE
    /\ sweep' = "idle" /\ due' = FALSE
    /\ listed' = {} /\ listedPaid' = {} /\ existing' = {} /\ failed' = {}
    /\ UNCHANGED <<shopVars, hookVars, dbVars, unseen, unwoken, timeVars,
                   faults>>

\* The service starts: the first sweep does not wait for the ticker.
Boot ==
    /\ ~up
    /\ up' = TRUE
    /\ due' = TRUE
    /\ UNCHANGED <<sweep, listed, listedPaid, existing, failed, shopVars,
                   hookVars, dbVars, handlerVars, stockVars, timeVars, boundVars>>

\* One interval passes; the ticker asks for the next sweep.  The sweep of the
\* interval is over by then: it may take ten minutes of the fifteen.
TimePasses ==
    /\ up => ~due /\ sweep = "idle"
    /\ due' = up
    /\ age' = [o \in Orders |-> IF fin[o] # "none" /\ age[o] <= Lookback
                                 THEN age[o] + 1 ELSE age[o]]
    /\ missed' = [o \in Orders |->
                     IF fin[o] = "paid" /\ age[o] <= Lookback /\ o \notin served
                       THEN missed[o] + 1 ELSE missed[o]]
    /\ served' = {}
    /\ UNCHANGED <<fin, lines, paidAt, hookVars, dbVars, up, handlerVars,
                   stockVars, sweep, listed, listedPaid, existing, failed,
                   boundVars>>

-----------------------------------------------------------------------------

Shopify ==
    \/ \E o \in Orders : PayOrder(o) \/ RefundOrder(o)
    \/ \E o \in Orders, w \in Hooks : PlaceOrder(o, w) \/ AnnounceAgain(o, w)
    \/ \E w \in Hooks : DropWebhook(w)

Handle ==
    \/ \E w \in Hooks : DuplicateWebhook(w) \/ SkipUnpaid(w)
    \/ \E h \in Handlers, w \in Hooks : Receive(h, w)
    \/ \E h \in Handlers :
          \/ CreateOrder(h) \/ CreateOrderDuplicate(h) \/ CreateOrderFails(h)
          \/ Acknowledge(h)

Sweep ==
    \/ ListOrders \/ CheckExisting \/ SweepFails \/ SweepEnds
    \/ \E o \in Orders : PassOver(o) \/ StageOrder(o) \/ StageOrderFails(o)

Next ==
    \/ Shopify \/ Handle \/ Sweep
    \/ ArmDebounce \/ TriggeredTick \/ FullTick
    \/ Crash \/ Boot \/ TimePasses

Spec == Init /\ [][Next]_vars

-----------------------------------------------------------------------------
(* Properties.                                                             *)

\* Every column, request and set of the sweep holds what the code keeps in it,
\* and a request has a webhook in hand exactly while it is handled.
TypeOK ==
    /\ fin \in [Orders -> Fin]
    /\ lines \in [Orders -> Lines]
    /\ age \in [Orders -> 0 .. Lookback + 1]
    /\ paidAt \in [Orders -> 0 .. Lookback + 1]
    /\ hook \in [Hooks -> [order : Orders, paid : BOOLEAN] \cup {NoHook}]
    /\ delivery \in [Hooks -> Delivery]
    /\ events \subseteq Hooks
    /\ row \in [Orders -> Hooks \cup {Reconciled, NoRow}]
    /\ up \in BOOLEAN
    /\ pc \in [Handlers -> {"idle", "creating", "staged"}]
    /\ req \in [Handlers -> Hooks \cup {NoRequest}]
    /\ \A h \in Handlers : pc[h] = "idle" <=> req[h] = NoRequest
    /\ trigger \in BOOLEAN /\ armed \in BOOLEAN /\ cached \in BOOLEAN
    /\ unseen \subseteq Orders /\ unwoken \subseteq Orders
    /\ sweep \in {"idle", "listed", "staging"}
    /\ listed \subseteq Orders /\ listedPaid \subseteq Orders
    /\ existing \subseteq Orders
    /\ due \in BOOLEAN
    /\ failed \subseteq Orders /\ served \subseteq Orders
    /\ missed \in [Orders -> Nat]
    /\ faults \in 0 .. MaxFaults /\ outages \in 0 .. MaxOutages

\* Once Shopify has its 200 for a paid order it never sends it again: by then
\* the order is in the database, whichever of the racing requests and sweeps
\* put it there and whatever failed in between.
AckedPaidIsStaged ==
    \A w \in Hooks :
       delivery[w] = "acked" /\ hook[w].paid => Staged(hook[w].order)

\* A staged order was paid for at some time, although payloads and listings are
\* snapshots.
StagedWasPaid == \A o \in Orders : Staged(o) => fin[o] \in {"paid", "refunded"}

\* A row is written once: no request and no sweep overwrites or repeats it.
StagedOnce == [][\A o \in Orders : Staged(o) => row'[o] = row[o]]_vars

\* No wake-up is lost in the channel of capacity one or in the debounce: while
\* an order staged by webhook is unknown to a stock syncer that has stock to work
\* with, a token, a running timer or a handler about to send will make it look.
\* Two failures do cost an order its wake-up: a commit whose acknowledgement is
\* lost, after which no token is ever sent, and reservations that cannot be read.
NoWakeupLost ==
    up /\ cached /\ unseen \ unwoken # {} =>
       trigger \/ armed \/ \E h \in Handlers : pc[h] = "staged"

\* handover.md: a sweep "re-stages anything that exists in Shopify but not in
\* our DB".  An order that is paid with more intervals of the lookback left than
\* there are intervals in which no sweep ran through or its staging failed is
\* staged before it leaves the window, even if no webhook ever arrives; the
\* failure of one order does not cost another.
PaidInWindowIsStaged ==
    \A o \in Orders :
       fin[o] = "paid" /\ age[o] > Lookback /\ Lookback - paidAt[o] > missed[o]
          => Staged(o)
=============================================================================
