# Verification of the Rectella Shopify service

The service carries orders from a Shopify shop into SYSPRO (an ERP system) and
stock, dispatch and payment data back. It is a Go process with a PostgreSQL
database; everything hard about it comes from the fact that neither Shopify nor
SYSPRO takes part in its transactions. This directory holds TLA+ models of its
core, TLC configurations that check them on small instances, and proofs
that TLAPS checks for every instance.

Paths below are relative to the repository root.

## 1. Inventory

| Component | State | Operations | Talks to |
|---|---|---|---|
| Webhook handler `internal/webhook/handler.go` | none of its own; writes `webhook_events`, `orders`, `order_lines` | `POST /webhooks/orders/create` | database, stock syncer (channel of capacity 1) |
| Reconciliation sweep `internal/reconcile/sweeper.go` | a mutex; a listing and a set of known ids per sweep | `Run`, `Sweep` every 15 min and at boot | Shopify REST, database |
| Order store `internal/store/order.go` | `orders`: status, attempts, syspro_order_number, updated_at | `CreateOrder`, `FetchPendingOrders`, `MarkOrderProcessing`, `UpdateOrderStatus`, `UpdateOrderSubmitted`, `ResetStaleProcessing`, `RetryOrder`, `UpdateOrderFulfilled` | PostgreSQL |
| Batch processor `internal/batch/processor.go` | a mutex; the fetched batch, the order in hand | `Run`, `ProcessBatch`, `submitOrder` | store, SYSPRO |
| SYSPRO client `internal/syspro` | session mutex, session GUID | `OpenSession`, `QueryStock`, `QueryDispatchedOrders`, `PostCashReceipt`: logon, SORTOI, SORQRY, INVQRY, ARSTPY, logoff | SYSPRO e.net over HTTP |
| Cancellation gate `internal/webhook/cancel_handler.go`, `internal/cancellation` | `order_cancellations` | `POST /webhooks/orders/cancelled`, `Classify` | store, SYSPRO |
| Fulfilment sync `internal/fulfilment` | `orders.status = fulfilled`, fulfilment id | `processOrders` | store, SYSPRO, Shopify GraphQL |
| Stock sync `internal/inventory` | cached stock, failure counter, debounce timer | `fullSync`, `triggeredSync` | SYSPRO, store, Shopify |
| Payments sync `internal/payments/syncer.go` | `payment_postings` | `cycle` | store, SYSPRO |
| Daily reports `internal/payments/daily_report.go`, `intake.go` | last-sent date in memory and on disk, the mailer's cached token, dead-letter and archive files | `check`, `SendForDate`, `SendForRange`, `Send` | Shopify, Microsoft Graph, disk |
| Server `cmd/server/main.go` | cancel functions | boot sweep, retry endpoint, shutdown | all of the above |
| Tools `cmd/resubmit-order`, `cmd/send-report`, ... | a session and a mailer of their own | resubmit one row, mail one day or a range of days | database, SYSPRO, mail |

How they interact: the intake paths (webhook, sweep) insert `pending` rows; the
batch processor takes them through `processing` to `submitted`, `failed` or
`dead_letter`; the fulfilment sync takes `submitted` rows to `fulfilled`; the
stock sync subtracts what rows reserve; the cancellation gate reads rows; the
operator moves `failed` and `dead_letter` rows back to `pending`. All SYSPRO
callers of the service share one mutex, since SYSPRO allows one session per
operator; the resubmit tool logs on as the same operator without it.

What is hard: calls that succeed while their answer is lost; contexts that
expire between a call and the statement that records it; a process that stops
anywhere; two processes during a deployment; webhooks that are lost, repeated or
stale; snapshots (fetched attempts, listings, cached stock) used later. The list
with its lines is `hazards` in `PROJECT.json`.

What makes each component correct:

- intake: a paid order is staged exactly once, and not lost once Shopify has
  been told 200 or while the sweep can still see it; an unpaid one never is;
- batch processor: a row is worked on by one batch at a time, its status tells
  the truth about SYSPRO, a second SYSPRO order only follows a lost answer, no
  order blocks those behind it;
- SYSPRO client: one session at a time, nobody waits for ever;
- cancellation: a recorded disposition is true of the order;
- fulfilment: each dispatched order is fulfilled in Shopify, its row becomes
  `fulfilled`, and the customer gets one notice;
- stock: what is offered exceeds stock less reservations only by what the
  readings could not show;
- payments: a receipt is posted once;
- reports: one report a day, sent as soon as nothing fails, about its day and
  no other.

## 2. Plan

| Order | Module | Of | State |
|---|---|---|---|
| 1 | `OrderLifecycle`, `BatchProcessor`, `MCBatchProcessor`, `BatchProcessorProofs` | abstract order lifecycle, batch processor, their proofs | done |
| 2 | `OrderIntake`, `MCOrderIntake`, `OrderIntakeProofs` | webhook, sweep, staging transaction, their proofs | done |
| 3 | `CancelGate`, `MCCancelGate`, `CancelGateProofs` | cancellation webhook against the batch processor, its proofs | done |
| 4 | `FulfilmentSync`, `MCFulfilmentSync`, `FulfilmentSyncProofs` | dispatch to fulfilment, lost updates, its proofs | done |
| 5 | `StockSync`, `MCStockSync`, `StockSyncProofs` | full and triggered sync, reservations, caching, its proofs | done |
| 6 | `SysproSession`, `MCSysproSession`, `SysproSessionProofs` | session mutex, logon, logoff, eviction by the resubmit tool, its proofs | done |
| 7 | `PaymentsSync`, `MCPaymentsSync`, `PaymentsSyncProofs` | cash receipts across processes and crashes, its proofs | done |
| 8 | `DailyReport`, `MCDailyReport`, `DailyReportProofs` | schedulers, mailer, dead letters, restarts, `send-report`, its proofs | done |
| 9 | `OrderPipeline` | intake, batch, fulfilment and resubmission over one orders table | left |

The abstract specification is `OrderLifecycle`, refined by `BatchProcessor`.
Left to do: `OrderPipeline`, as a second refinement of `OrderLifecycle`. The modules meet at
the orders table, and each already has the other parts' steps on the rows it
reads (the batch in `CancelGate` and `StockSync`, the resubmit tool in
`SysproSession`), so the composition would mainly repeat them.

## 3. Modules and the code

### BatchProcessor

The state is the orders table (`status`, `attempts`, `number`, `age` for
`updated_at`), the batch of each instance (`pc`, `todo`, `snap`, `cur`, `reply`,
`elapsed`, `cancelled`), what SYSPRO was sent and made (`posted`, `created`) and
two history variables (`lost`, `sends`) that only properties read.

`submitOrder` is split wherever something can come between: the claim
(`MarkOrderProcessing`, `SkipOrder`, `MarkOrderProcessingFails`), the post
(`PostSORTOI`, `PostSORTOIFails`), SYSPRO's work (`SysproAccepts`,
`SysproRejects`), the reply (`ReceiveReply`, `LoseReply`, `AbandonCall`) and the
statement that records it (`RecordInfraError`, `RecordRejection`,
`RecordSuccess`, `RecordFails`). A statement that runs although its
acknowledgement is lost leaves the same state as one that succeeds, except for
the claim, where the batch stops; `MarkOrderProcessingFails` has both outcomes.
An abandoned request (`posted`) may still be imported, at any later time.

`snap` is the attempts column as it was fetched: the code writes
`order.Attempts + 1`, not `attempts + 1`. Replies are records of the three
elements `parseSORTOIResponse` looks at, and `Success` is its three cases.

Time passes in units; a batch has `BatchTimeout` of them (five minutes), a row is
stale after `StaleAfter` (ten). Once its context is done a batch has no waiting
call left, so it lets go of its order within the unit (`Hurried`).

`BatchCancel` and `Exit` are the shutdown: `srv.Shutdown` returns as soon as no
request is being served, `batchCancel` follows, and `main` returns without
waiting for the batch goroutine, so the ten second grace period is a maximum and
not a minimum.

### OrderLifecycle

What the pipeline promises for a row: a SORTOI is sent only for a claimed row,
SYSPRO makes orders only out of what was sent, `submitted` is only written when
SYSPRO has the order and is final. `BatchProcessor` implements it with
`sent` = the abandoned calls plus the one an instance waits for.

### OrderIntake

Shopify's side is external: orders are placed paid or unpaid, paid later,
refunded; a webhook is sent until it is acknowledged or dropped, and an order may
be announced again under a new id. `Receive` is the handler up to the
transaction (a 4xx or 5xx changes nothing and is no step), `CreateOrder`,
`CreateOrderDuplicate` and `CreateOrderFails` are the transaction under its two
unique constraints, `Acknowledge` is the non-blocking send and the 200.
`ListOrders`, `CheckExisting`, `PassOver`, `StageOrder`, `StageOrderFails`,
`SweepFails` and `SweepEnds` are a sweep. A unit of time is one sweep interval;
the sweep of an interval is over before the next begins, since its context
expires after ten of the fifteen minutes. `ArmDebounce`, `TriggeredTick` and
`FullTick` are the receiving end of the trigger channel: a triggered sync reads
the reservations only when an earlier full one has left stock to work with
(`cached`), and either reading may fail. A transaction whose commit is not
acknowledged is answered 500 without a token, and its redelivery as a duplicate;
`unwoken` remembers the orders this, or a failed reading, has cost their wake-up.

### FulfilmentSync

The state is the part of the orders table the sync reads and writes (`status`,
`gid` for `shopify_fulfillment_id`), SYSPRO's status of each order (`sor`),
Shopify's fulfilment orders (`fo`) and the cycle of each process (`pc`, `ask`,
`seen`, `pick`). `processOrders` is split at its calls: `FetchSubmittedOrders`,
`QueryOrder` for each row, `GetFulfillmentOrderID`, `CreateFulfillment`,
`UpdateOrderFulfilled`, each with what happens when it fails. A failed create is
carried out by Shopify or not. Shopify's staff and SYSPRO act in between. Only
rows with a SYSPRO order number are in the model, as in the query of
`FetchSubmittedOrders`. `CreateAnswerBlank` is an answer with neither a
fulfilment nor an error, which `CreateFulfillment` takes for success.
`DeadlinePasses` is the end of the cycle's three minutes: the call under way fails,
a create being carried out or not, and every later one at once. The lookup sees
`ListLimit` parts of an order (`first: 10`). `unrecorded` is history: the orders
whose fulfilment may not be in the row, because an answer or an update was lost
or two processes had the order in hand. Tracking data is left out: no property is
about it.

### CancelGate

The handler is split at its statements: `Receive` (after `CancellationExists`),
`GetOrderByShopifyID`, `QueryOrder` or `QueryFails`, `CreateCancellation`;
`RequestFails` is a 500 or the end of the process, `InsertAnswerLost` an insert
whose outcome the handler does not learn. Query and INSERT run on the context of
the request, which ends when Shopify hangs up: `HangUp` may come at any point,
and the handler does nothing more (`CutOff`), though it may stay in a query or
wait for the session for some time (pc `cut`). `Classify` is the table of
`gate.go`. `during` collects the statuses the order had in SYSPRO while a
request was under way: a verdict can only be true of one of those, since SYSPRO
goes on after it was asked. Of the batch processor there is what the gate can
see: the row in flight (`taken` once SYSPRO has imported it), the success that is
recorded with a number or, after a clean import, without one (`untraced`, which
`ResubmitOrder` gives the number of a second import), and an answer that is lost
(`AnswerLost`), after which the row waits again although SYSPRO has the order or
still imports it (`late`). `seen` and `lost` are history: the row as the request
read it, and the orders whose import the row may not know of. `EntryCodes` are the
statuses SYSPRO may give an order it imports; the repository does not say which,
and the proofs hold for any.

### StockSync

`stage[o]` says how far an order is: with the customer, in the table
(`pending`, `processing`), in SYSPRO but not yet recorded (`imported`, for the
table still `processing`), recorded, or failed. `avail` is SYSPRO's stock in
halves of a unit, so that `math.Round` matters, and `level` is what Shopify
offers. A full sync is `StartFullSync`, `QuerySku` for each SKU, `QueryEnds`,
`ComputeEffective` and `SetInventoryLevels`; a triggered one starts at
`ComputeEffective` with `cached`. `holder` is the session mutex: no batch runs
while SYSPRO is asked for stock, but one may run between the last answer and the
reading of the reservations (see the last part of section 4).
A SKU without an answer has `NoQty`. `DeadlinePasses` is the end of the three
minutes, which the wait for the session counts against too: what was answered is
cached, a push is carried out or not, and nothing else of the sync succeeds;
`late` is the time until it has run through its remaining calls.

`gone`, `slip` and `debt` are history and count units per SKU that nobody could
have known of: `gone` those that left SYSPRO's stock or the reservations since the
stock was read (the submission was recorded, its answer was lost, or the stock was
used elsewhere); `slip` those and the orders the reservations do not hold (placed
and not staged, failed, placed since), with all of the reservations when they
could not be read; `debt` what the last push of the level had of them and what has
been taken unseen since. No path is exempt: a push with reservations of zero is
counted, not left out. The table of inventory items a push may be missing
(`skuMap`) is reduced to a push of any part of the SKUs when its lookup fails.

### SysproSession

A caller of the service (`Batches`, which use `OpenSession`; `Queries`, which log
on, ask and log off in one call) is at `lock`, `logon`, `open` or `close`, holds
`sessionMu` from `Lock` to `Close`, and has a context that may be done at any
point. `session` is the operator's live session in SYSPRO, named by whoever
logged it on; a session nobody has the GUID of is an `orphan`, and a logon whose
caller has gone may still be performed (`late`). `Expire` shows what the mutex
does not see: `Lock` waits on although the context is done, and the call then
fails at its logon. A batch logs off on a context of its own, the others on the
context of the call, so their logoff may not be sent.

The tool's run goes from `Load` (the row must be `submitted` without a number)
through `ToolLogon`, `ToolSend`, the operator's confirmation and `ToolUpdate`,
whose WHERE clause repeats the condition of `Load`, to the deferred logoff. It
takes no mutex: its logon ends the session of whoever is at work, which
`intruded` remembers. What requests carry is the matter of the other modules.

### PaymentsSync

The state is `payment_postings` (`status`, `attempts`, `age` for the order of
insertion), the receipts in SYSPRO and the cycle of each process (`pc`, `batch`,
`cur`, `ctx`). `Fetch` reads the oldest pending rows and claims nothing; a post
is `PostCashReceipt`, `PostRefused` or `PostUnanswered` (posted, answer lost);
`Record` writes the outcome by id alone, `RecordFails` leaves the row as it was,
always so once the three minutes of the cycle are over. `unrecorded` and
`overlapped` are history: receipts whose posting was not written down, rows two
processes had in hand together. `CreatePayment` and `RequeuePayment` are store
operations that nothing in the repository calls yet; the syncer is written
against them and is disabled in the first phase.

### DailyReport

A day is cut into slots of 15 minutes, the schedulers' interval, so that one that
is up and not busy looks at the clock once a slot (`Check`); the slots far from
the send hours are left out. Reports cover whole days in UTC, so a time is known
by its day. Both schedulers and the operator's `send-report` are runners of one
job: `Fetch`, an attempt of `Send` (`SendMail`, `SendUnanswered`,
`Unauthorised`, `SendFails`), then `Record` for a scheduler, or `DeadLetter`.
`token` is the token the server's mailer has cached, `stale` once Microsoft has
revoked it: `Send` then gets a 401 and tries once more with a new one.
`AlertHangs` and `PingHangs` are the pushes to ntfy and the heartbeat, made with
a client without time limit on a context without deadline. The state directory is
taken to be configured, as in production. `dead` holds the dead letters, which
nothing in the code reads back. `mark` and `hour` are history: whether the present
slot, and one before it in today's send hour, went undisturbed. Amounts,
fees and the columns of the CSV are left out: a report is the set of orders in
it.

## 4. Runs

| Run | Instance | Shows |
|---|---|---|
| `batch_two_instances` | 2 instances, 1 order, 1 drain, 1 retry, all faults | `ClaimIsExclusive`, `DuplicateNeedsLostAnswer`, `UnsubmittedIsNotInSyspro`, `SubmittedIsInSyspro`, `SubmittedIsFinal`, `ImplementsLifecycle` |
| `batch_progress` | 1 instance, 2 orders, 1 crash, all faults, fairness | `AttemptsCountSends`, `PendingIsTakenUp` |
| `batch_crash_duplicate` | 1 order, 1 crash | violates `NoDuplicateInSyspro` |
| `intake_races` | 1 order, 2 webhook ids, 2 requests, 1 failure, 1 outage | `AckedPaidIsStaged`, `StagedWasPaid`, `PaidInWindowIsStaged`, `StagedOnce` |
| `intake_sweep` | 2 orders, 2 webhook ids, 1 request, 1 failure, well-formed lines | `PaidInWindowIsStaged`, `NoWakeupLost` |
| `cancel_races` | 1 order, 1 webhook, 2 requests, 1 move in SYSPRO, 1 fault or lost answer, any hang-ups, fairness | `VerdictWasTrue`, `PreSysproIsExplained`, `AckedIsRecorded`, `VerdictIsFinal`, `CancellationIsRecorded` |
| `fulfilment` | 1 instance, 2 orders, 2 parts, 1 fault or crash, any expired cycles, fairness | `FulfilledIsShipped`, `NoticeFollowsDispatch`, `SecondNoticeIsExplained`, `DispatchReachesShopify` |
| `fulfilment_lost_update` | 1 order, 1 fault, fairness | violates `ShippedRowIsFulfilled` |
| `stock` | 2 SKUs (1 in the static list), 2 orders of one, of which there are 1 to 3 halves, 1 fault, restart or change of stock, any expired syncs, fairness | `PushIsCovered`, `OfferIsCovered`, `UnansweredKeepsLevel`, `LevelsSettle` |
| `session` | 1 batch, 1 query, 2 runs of the tool on 1 order, 2 requests a logon, any number of faults, fairness | `SessionIsOwn`, `OkMeansRecorded`, `LockIsNotLeaked`, `EveryCallReturns` |
| `payments` | 2 payments, 2 processes, a batch of 2, 2 attempts, 2 faults, 1 requeue, fairness | `PostedIsInSyspro`, `DoubleIsExplained`, `DeadLetterNeedsOverlap`, `PendingIsSettled` |
| `report` | 1 order, the cash scheduler, 3 slots a day of which 2 are the send hour, 2 days, 2 faults, 1 run of `send-report` | `SentTwiceIsExplained`, `CleanSlotReports`, `DayIsWholeAndOwn` |

The violated properties are sentences of the repository; `findings` in
`PROJECT.json` quotes them and says what the code does.

Bounds. Two instances and one row are enough for every race on a row, since a
row's statements name only that row; two rows show what a batch does to the rows
behind a failing one. One crash and one drain each reach the state in which an
answer is lost; `MaxAttempts` 2 lets a row be retried and dead-lettered. `BatchTimeout` and `StaleAfter` are the smallest values that keep
their order and let a batch expire and a row become stale. Two requests and two
webhook ids give both kinds of duplicate; a lookback of one or two intervals
lets an order be paid, missed, served and leave the window. Two parts are the
least with which the first may be held and the second open, and with which there
can be a second notice; the cap of the listing is not reached in the run
(`ListLimit` is the number of parts), and the run has one process, which with two
orders is what fits: there `SecondNoticeIsExplained` is about lost records, while
its theorem holds for any number of processes, parts and any cap. With two
processes and one order (13,628 states) TLC agrees. Orders with
lines the handler refuses are in `intake_races`; `intake_sweep` leaves them out to
keep two orders. All of SYSPRO's
codes are in `CancelGate`, and two requests for one webhook with one move of
SYSPRO between them give two different verdicts; an order enters with code 1 and
the move takes it to any other. Two orders of one SKU can be on
both sides of the recording of a submission, and with one unit in stock the second
is sold only because a push restored the level; from half a unit to one and a
half, with two halves for an order, `avail` comes to every rounding case and below
zero (`Amounts` bounds what the stock starts with and is set to, not what orders
make of it); two SKUs, one of them outside the
static list, are the least with which an answer is partial. One caller of each
kind is enough for every race on the mutex, since callers of one kind take the
same steps; two runs of the tool on one row race for its number, and two
requests show what a session's end does to the rest of a loop. Two payments and
two processes give overlapping batches and a refused row before another; a
`MaxAttempts` of 2 (3 in the code) lets a row become `failed` and, when two
processes have it, `dead_letter`. Two slots in the send hour are the least with
which a failed attempt is followed by another; two faults are a failed mail and
a crash; two days are the least that have a yesterday with payments in it, and
let a day end during an operator's run (a scheduler's job ends long before
midnight). The two schedulers
share no state but the token, which may change at any time, so one is enabled;
`send-report` makes reports of both kinds. The bounds on
crashes, drains, retries, faults and outages are in the guards and have names.

Deadlock is not checked in the runs of `CancelGate`, `FulfilmentSync`,
`StockSync` and `DailyReport`: once every webhook is answered, or every order dispatched, or
the last day is over, and the bounds are used up, nothing is left to do.

Fairness of the batch (`FairSpec`, for `PendingIsTakenUp`). The goroutine's own steps
are weakly fair: the ticker fires, statements return, a call ends with a reply
or the HTTP timeout. A logon and a claim that are tried again and again are
strongly fair: an outage of SYSPRO or of the database ends some time. Nothing is
assumed of a SORTOI call: it may fail every time.

Fairness of the others. `FulfilmentSync`: a cycle takes its next step (ticker,
calls with timeouts); faults are bounded, the deadline is not:
`DispatchReachesShopify` has the premise that cycles get to their end again and
again, which nothing in the code ensures when there are many slow orders.
`CancelGate`: Shopify repeats a delivery, and a request runs to its end; queries to
SYSPRO may all fail. `CancellationIsRecorded` has the premise that Shopify stops
hanging up (`HangUpsEnd`). `LevelsSettle` has the premise that from some time on no
sync runs out of its three minutes. `StockSync`: a sync and a batch come to their end (both have a timeout), and the
ticker, which competes with the trigger in a `select` and with the batch for a
mutex, gets its turn (strong fairness: Go's `select` chooses at random and its
mutex hands over to a waiter that starves). `SysproSession`: a request ends within
the client's 30 seconds, answered or not, and a waiter for the mutex gets it in
the end for the same reason (strong fairness of `Lock`); that nobody forgets to
release it is what `EveryCallReturns` checks. `PaymentsSync`: the ticker fires
and every step of a cycle ends, SYSPRO's calls by their timeout and the rest by
the cycle's; faults are bounded. Nothing is assumed of customers, staff or SYSPRO.

### What else the models show

These behaviours show in the models without a run of their own; where
the repository says otherwise, the place is named.

Orders:

- The sweep asks Shopify for one page of 250 orders (`reconcile/sweeper.go`), so
  that an order beyond it is not recovered; `docs/handover.md` promises every
  paid order of the window. `PaidInWindowIsStaged` is proved under the
  assumption that one page holds them all.
- `cancel_handler.go`, line 130, records a cancellation as
  `cancellable_pre_syspro` when the row has no SYSPRO order number ("Local row
  exists but never reached SYSPRO."). SYSPRO may have the order all the same:
  while the submission is under way, after a clean import, which leaves no number,
  and after a submission whose answer was lost. `PreSysproIsExplained` says that
  these are the only cases.
- `docs/handover.md`, line 144, says that "every order also fires a 2-second
  debounced sync". An order whose commit is not acknowledged fires none: the
  handler answers 500 before the token is sent, and answers the redelivery as a
  duplicate (`webhook/handler.go`, lines 82 and 167). Nor does an order the sweep
  stages, and a sync that is fired while no stock is cached does nothing
  (`inventory/syncer.go`, line 221). `NoWakeupLost` is about the other orders.
- `docs/handover.md`, line 140, says that the orders in transit are subtracted "so
  the same unit isn't oversold". A push computed after an order left the
  reservations for SYSPRO, from stock read or cached before, offers its unit again
  (`inventory/syncer.go`, lines 204 and 219); so does one whose reservations could
  not be read, "using zero" (line 236), and one that overwrites the level of an
  order not yet staged. `PushIsCovered` counts these units and says that there are
  no others.
- `cancel_handler.go`, line 138: a failed query of SYSPRO is recorded as a
  disposition for review, where the comment says it answers 500. The query may
  take 20 seconds, and the wait for the session any time, while the comment names a
  window of five to ten: when Shopify has hung up the INSERT fails with the request's
  context, and with SYSPRO hanging this can happen to every delivery.
- A cycle of the fulfilment sync has three minutes for all submitted orders, each
  with calls of up to 30 seconds, oldest first: slow ones in front can use up every
  cycle (`fulfilment/syncer.go`, line 84).
- A shutdown in the middle of a call leaves a row `processing` until a restart
  at least ten minutes later.
- A Shopify order whose first fulfilment order is held is refused in every cycle
  although a later one is open: `GetFulfillmentOrderID` takes the first that is
  neither closed nor cancelled, where its comment (`fulfilment/shopify.go`, line
  91) says "the first OPEN fulfillment order". It sees ten of them.
- Two processes that both have an order in hand both fulfil it, if it has two
  parts, and the second writes over the first one's fulfilment id, since
  `UpdateOrderFulfilled` names no status. `SecondNoticeIsExplained` names this case.
- A triggered sync sets levels from the stock of the last full sync, so it does
  not correct a level that is wrong because SYSPRO's stock has changed.
- Two runs of `resubmit-order` for one row may both import it; only the first to
  be confirmed is recorded, and the other reports the failure.

Payments:

- A receipt whose answer is lost, or whose row two processes have in hand, may be
  posted twice: nothing in the posting depends on the transaction id that
  `docs/handover.md` (line 47) says receipts are deduplicated on.
- `payment_postings.go`, line 130, says "After 3 attempts the row is moved to
  dead_letter". One process never gets there: a failed row is not fetched again,
  and the requeue sets its attempts to zero. Only processes that overlap count a
  row more than once, and they also post and rewrite a row that one of them has
  marked failed (`DeadLetterNeedsOverlap`).
- `cash_receipt.go`, line 232, says the syncer retries a receipt when the period is
  closed; it marks the row failed like any other, and nothing takes it up again but
  an operator's requeue.

Reports:

- The cash report lists orders placed in the window and paid when it is made: an
  order refunded before, captured on a later day than it was placed, or whose
  transactions could not be read, is in no report (`docs/handover.md`, line 160:
  "prior day's settled transactions").
- `docs/handover.md`, line 489, sends the operator to look for the dead letter of
  a report that was not sent ("it should be there"). There is none after a failed
  fetch, a crash, or a failed mail on a full disk (`payments/daily_report.go`, line
  305: the write's error is only logged), nor when the service was down.
- The pushes and heartbeats have no time limit: one that gets no answer stops its
  scheduler for good, although they are meant as best effort.
- A send hour that passes while the service is down is not made up for; only
  `send-report` can.

## 5. Proofs

`BatchProcessorProofs` proves, for any instances, orders and limits:
`TypeCorrect`, `ExclusiveClaim`, `DuplicatesAreAccountedFor`,
`UnsubmittedIsAbsent`, `SubmittedIsPresent` and `SubmittedStays`. The inductive
invariant `IndInv` is

- `TypeOK`;
- `ClaimInv`: the order in hand is `processing`, in one batch only, and no older
  than the batch's own clock, which the timeout bounds. The age is needed to see
  that another process's boot sweep cannot take it: that is where
  `BatchTimeout <= StaleAfter` (five minutes, ten minutes) is used;
- `ReplyInv`: when a batch has a reply;
- `CountInv`: SYSPRO orders, made or still possible, exceed the lost answers by
  at most one, and by none unless a success is recorded or about to be;
- `NumberInv`: what is written, or about to be, about SYSPRO is true.

`ClaimIsExclusive` alone is not inductive (it does not know why a row cannot
become stale), nor are the counting properties (a success on its way to the row
is neither recorded nor lost).

`AttemptsAreCounted` is for one instance (`OneInstance`). It rests on `SnapInv`
(what the batch fetched about an order is still true when it is used) and
`SendInv` (a row is at most one post ahead of its attempts, and only while it is
`processing`). With two instances `SnapInv` fails: the one that comes second
writes back attempts it fetched before the other's failure.

`ProcessorImplementsLifecycle` is `Spec => ImplementsLifecycle`, by cases on the
actions: each maps to a lifecycle step or a stutter, given `IndInv`. The case of
`PostSORTOI` uses the exclusive claim: were two instances to call for one row,
`Outstanding` would not count both.

The assumptions are those of the constants (`OrdersAssumption`,
`LimitsAssumption`, `TimeAssumption`, `FaultAssumption`).

`OrderIntakeProofs` proves, for any orders, webhook ids and requests:
`IntakeTypeCorrect`, `AcknowledgedIsStaged`, `OnlyPaidIsStaged`,
`RowsAreWrittenOnce`, `WakeupsAreKept` and `SweepCatchesUp`. `SafeInv` adds to the
properties what a webhook, a request past the gate, a remembered webhook id and a
listing say of their orders; without the last but one (a webhook id is remembered
only together with its order) a duplicate could be acknowledged for nothing.
`SweepCatchesUp` rests on `WindowInv`: an order paid before the present interval
is, during a sweep, staged, failed or still before the sweep; a served one is
staged; and an order that is paid and not staged was missed in every interval
since, so that `age <= paidAt + missed + 1`. `WakeupsAreKept` rests on `WakeInv`,
which adds only that a process that is down has nothing cached: a token, a timer or
a handler past its commit carries the wake-up, and a sync that finds the cache
empty leaves it to the full one that fills it. The theorem assumes that one page
holds all the orders, without which an order beyond the page stays unseen. The other
assumptions are `IntakeAssumption` and `NamesAssumption` (webhook ids differ from
the words that stand for no webhook).

`FulfilmentSyncProofs` proves, for any processes, orders and parts,
`FulfilmentTypeCorrect`, `NoticesFollowDispatch`, `FulfilledRowsAreShipped` and
`SecondNoticesAreExplained`. `SafeInv` says that an order past the query is complete
in SYSPRO (a status that does not change again) and that the part in hand is one
of the order's; `UpdateInv` that a row about to be written has a closed part or
had a blank answer. For the second notice `HandInv` says of an order that is not
`unrecorded` that one process at most has it in hand, and none once its row is
`fulfilled`; `MadeInv` that a fulfilment of it is in the row or about to be
written by the one that has it. Without the latter a first notice that is on its
way to the row could not be told from a lost one.

`CancelGateProofs` proves `GateTypeCorrect`, `VerdictsWereTrue`,
`PreSysproVerdictsAreExplained`, `AckedAreRecorded` and `VerdictsAreFinal` for any
orders, webhooks, requests and entry codes (`GateAssumption`).
`SafeInv` adds to the properties that a request is about a webhook that names an
order (`HookInv`), that its order's present status is in `during`
(`RequestInv`), and that what it has decided fits what it saw (`DispositionInv`).
`PreSysproIsExplained` needs three more: a row that does not say `submitted` is
right about SYSPRO unless its import is under way or its answer lost (`RowInv`);
a request about to record the verdict has its explanation (`PreSysproInv`), which
stands since `during` and `lost` only grow; and the webhook of a verdict is about
the same order for good (`RecordInv`).

`StockSyncProofs` proves `StockTypeCorrect`, `PushesAreCovered`, `OffersAreCovered`
and `UnansweredLevelsStay` for any SKUs, static list, finite set of orders and
bounds (`StockAssumption`). The orders of a SKU are counted by stage, and the
argument is about what a step does to the counts. `SafeInv` is

- `TypeOK` with `AvailInv`, how far below zero the imports can take SYSPRO's stock
  (without it `avail` has no least value);
- `AnswerInv` and `CacheInv`: where a quantity comes from and that a triggered
  sync uses the last one read. `UnansweredLevelsStay` is read off `AnswerInv`;
- `ReadingInv`: stock that was read, or cached, is no more than what there is now
  with a unit for each order imported and not recorded and for each unit in `gone`
  (`Bound`). `PushIsCovered` alone does not say what the reading of the
  reservations starts from;
- `PushIsCovered` and `OfferIsCovered`.

An order that SYSPRO imports takes two halves off `avail` and stays reserved until
it is recorded, so that it is in `Bound` as long as it is in the reservations: a
push made in between counts it twice, and one made from stock read before counts it
once, never not at all (`ReadingIsCovered`, `FreeAfterImport`). Recording it moves
it from the reservations to `gone`.

Quantities are in halves, and `math.Round` rounds halves away from zero, so that
it commutes with taking off a unit except across zero (`RoundShift`); there both
sides are cut off at zero and the inequality stands.

`SysproSessionProofs` proves `SessionTypeCorrect`, `SessionOwned`,
`SuccessIsRecorded` and `LockIsGivenBack` for any callers, runs, orders and number of requests, under
`SessionAssumption` (the names of callers and runs are different). `SessionIsOwn`
needs `LockIsNotLeaked`, that a caller past `Lock` is the holder of the mutex: another's logon would
else end its session without an intruder. `OkMeansRecorded` needs that a run
about to be confirmed has an order in SYSPRO, and the WHERE clause of the update.

`PaymentsSyncProofs` proves `PaymentsTypeCorrect`, `PostedReachedSyspro`,
`DoublePostIsExplained` and `DeadLettersNeedOverlap` for any payments, processes,
batch size and bounds (`PaymentsAssumption`, `NoPaymentAssumption`). The
invariant says of a row that never was in two hands that it is pending while a
process has it, and that only one does (`HeldIsPending`, `HeldOnce`); of a row in
hand that its receipt is in SYSPRO (`PostedInHand`); and of a receipt whose
record was not missed that it is the only one, and that the row says `posted` or
is about to (`ReceiptIsRecorded`). Without the last, a second post could not be
told from a first. `CountedOnce` says that such a row has no attempt while it is
pending and one at most afterwards; it needs `HeldIsPending`, since the update that
counts names no status.

`DailyReportProofs` proves `ReportTypeCorrect`, `DoubleMailIsExplained`,
`CleanSlotIsEnough` and `ReportsPartitionDays` for any
orders, send hours, number of slots, days and faults (`ReportAssumption`).
`SafeInv` is `TypeOK` with `KindInv`, for each scheduler, and `DayInv`, for the
rows. `KindInv` has what a job is about (`JobInv`: yesterday, as long as the slot
it began in lasts), what memory, disk and mails say of each other (`SentInv`:
without an excuse a mailed day is one that disk and memory know of), and why a
slot that ends clean has a mail (`SlotInv`). `DayInv` adds to `DayIsWholeAndOwn`
what the rows of a job in hand hold (`RowsInv`): a report read after a day's end
has all of the day, which no later payment changes.

Only model-checked: the liveness properties `PendingIsTakenUp`,
`DispatchReachesShopify`, `CancellationIsRecorded`, `LevelsSettle`,
`EveryCallReturns` and `PendingIsSettled`, since fairness is out of the prover's
reach. Every safety property of a passing run has a theorem.

## 6. Not modelled

- The SORTOI document (prices, tax, freight, stock codes) is a pure function of
  an order. Its arithmetic is on decimals and its result a text; the tests beside
  it compare whole documents.
- Amounts, fees and currencies in the reports, the columns of the CSV, the text
  of mails and pushes: a report is the set of its orders.
- The verification of a webhook's HMAC: a forged webhook is a request that ends
  with 401 and changes nothing.
- Migrations, configuration, routing, the health and status pages: no state that
  a property here is about. The retry endpoint is in `BatchProcessor`.
- All parts over one orders table, as said in section 2.
