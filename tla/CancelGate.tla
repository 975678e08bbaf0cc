----------------------------- MODULE CancelGate -----------------------------
(***************************************************************************)
(* The cancellation gate: orders/cancelled webhooks are classified by how  *)
(* far SYSPRO has got with the order, and the verdict is recorded          *)
(* (internal/webhook/cancel_handler.go, internal/cancellation/gate.go,     *)
(* internal/store/order_cancellations.go).                                 *)
(*                                                                         *)
(* A request reads the order's row, asks SYSPRO if the row has a SYSPRO    *)
(* order number, and inserts the verdict under a unique webhook id.        *)
(* Meanwhile the batch processor may submit the order, SYSPRO's warehouse  *)
(* moves it on, and Shopify may deliver the same webhook again.            *)
(*                                                                         *)
(* Of the batch processor only what the gate can see is here: a row in     *)
(* flight whose order SYSPRO may already have, the number written later or *)
(* not at all (a clean import has none), a lost answer after which the row *)
(* waits again although SYSPRO has the order, and the operator's resubmit  *)
(* of a row without a number.  Where SYSPRO has several orders for a row   *)
(* the model follows the one whose number the row gets.                    *)
(***************************************************************************)
EXTENDS Integers

CONSTANTS
    Orders,       \* Shopify orders
    Hooks,        \* webhook ids of cancellations
    Handlers,     \* concurrent requests of the endpoint
    EntryCodes,   \* statuses SYSPRO may give an order it imports
    MaxMoves,     \* bound: status changes in SYSPRO
    MaxFaults     \* bound: statements that fail, stops of the process

\* SYSPRO's order statuses, as the table in gate.go lists them.
CancelledCodes == {"*", "\\"}
Codes == {"0", "1", "2", "3", "4", "6", "7", "8", "9", "F", "S"} \cup CancelledCodes

ASSUME GateAssumption ==
    EntryCodes \subseteq Codes /\ MaxMoves \in Nat /\ MaxFaults \in Nat

VARIABLES
    row,        \* row[o]: the orders row; only a "numbered" one has a number
    sor,        \* sor[o]: OrderStatus in SYSPRO, "none" if it has no such order
    taken,      \* orders SYSPRO has imported in the submission under way
    late,       \* orders with a call that was given up and that SYSPRO has not
                \* worked on
    hook,       \* hook[w]: the order w is about
    delivery,   \* delivery[w]: what Shopify still does about w
    rec,        \* rec[w]: the row of order_cancellations
    pc, req,    \* the requests being handled
    disp,       \* disp[h]: the disposition a request has arrived at
    \* History, for the properties only.
    during,     \* during[h]: the statuses the order had in SYSPRO in the request
    seen,       \* seen[h]: the row as the request has read it
    lost,       \* orders of which an import may be unknown to the row
    \* Bounds.
    moves, faults

orderVars == <<row, sor, taken, late, lost, moves>>
hookVars == <<hook, delivery>>
requestVars == <<pc, req, disp, seen>>
vars == <<orderVars, hookVars, rec, requestVars, during, faults>>

\* "queued" is any row that waits, failed or is dead-lettered, "untraced" one
\* that is submitted without a number.
Row == {"absent", "queued", "processing", "untraced", "numbered"}
Delivery == {"unsent", "sending", "acked", "dropped"}
Disposition == {"CancellablePreSYSPRO", "CancellableInSYSPRO", "ReviewAllocated",
                "TooLatePicked", "TooLateInvoiced", "AlreadyCancelled"}

\* A request that is being handled for someone: of one that is "cut" nothing comes.
InHand(h) == pc[h] \notin {"idle", "cut"}

NoOrder == "none"
NoRequest == "none"
NoDisposition == "none"
NotRead == "none"
NoRecord == [disposition |-> NoDisposition, during |-> {}, seen |-> NotRead]

Init ==
    /\ row = [o \in Orders |-> "absent"]
    /\ sor = [o \in Orders |-> "none"]
    /\ taken = {} /\ late = {} /\ lost = {}
    /\ hook = [w \in Hooks |-> NoOrder]
    /\ delivery = [w \in Hooks |-> "unsent"]
    /\ rec = [w \in Hooks |-> NoRecord]
    /\ pc = [h \in Handlers |-> "idle"]
    /\ req = [h \in Handlers |-> NoRequest]
    /\ disp = [h \in Handlers |-> NoDisposition]
    /\ during = [h \in Handlers |-> {}]
    /\ seen = [h \in Handlers |-> NotRead]
    /\ moves = 0 /\ faults = 0

-----------------------------------------------------------------------------
(* The order on its way through SYSPRO.                                    *)

Fault ==
    /\ faults < MaxFaults
    /\ faults' = faults + 1

\* Intake stages the order.
StageOrder(o) ==
    /\ row[o] = "absent"
    /\ row' = [row EXCEPT ![o] = "queued"]
    /\ UNCHANGED <<sor, taken, late, lost, moves, hookVars, rec, requestVars, during,
                   faults>>

\* The batch processor claims the row.
MarkOrderProcessing(o) ==
    /\ row[o] = "queued"
    /\ row' = [row EXCEPT ![o] = "processing"]
    /\ UNCHANGED <<sor, taken, late, lost, moves, hookVars, rec, requestVars, during,
                   faults>>

\* The submission fails, for now or for good: the row has no number.
SubmissionFails(o) ==
    /\ row[o] = "processing"
    /\ o \notin taken
    /\ row' = [row EXCEPT ![o] = "queued"]
    /\ UNCHANGED <<sor, taken, late, lost, moves, hookVars, rec, requestVars, during,
                   faults>>

\* SYSPRO's order takes a status; the requests under way may see it.
SetStatus(o, c) ==
    /\ sor' = [sor EXCEPT ![o] = c]
    /\ during' = [h \in Handlers |->
          IF InHand(h) /\ hook[req[h]] = o THEN during[h] \cup {c}
                                                ELSE during[h]]

\* SYSPRO imports the order, and the batch processor waits for its answer.
SysproImports(o, c) ==
    /\ row[o] = "processing"
    /\ o \notin taken
    /\ c \in EntryCodes
    /\ taken' = taken \cup {o}
    /\ SetStatus(o, c)
    /\ UNCHANGED <<row, late, lost, moves, hookVars, rec, requestVars, faults>>

\* No answer reaches the row: SYSPRO has the order or may still import it, the
\* call is given up, the update fails or the process stops, and the row is
\* queued again at once or by the boot sweep.
AnswerLost(o) ==
    /\ row[o] = "processing"
    /\ Fault
    /\ row' = [row EXCEPT ![o] = "queued"]
    /\ taken' = taken \ {o}
    /\ late' = IF o \in taken THEN late ELSE late \cup {o}
    /\ lost' = lost \cup {o}
    /\ UNCHANGED <<sor, moves, hookVars, rec, requestVars, during>>

\* SYSPRO imports an order nobody waits for.  A row that has another order in
\* SYSPRO is followed there.
SysproImportsLate(o, c) ==
    /\ o \in late
    /\ sor[o] = "none"
    /\ c \in EntryCodes
    /\ late' = late \ {o}
    /\ SetStatus(o, c)
    /\ UNCHANGED <<row, taken, lost, moves, hookVars, rec, requestVars, faults>>

\* The batch processor records the success, with the number if SYSPRO gave one.
UpdateOrderSubmitted(o) ==
    /\ o \in taken
    /\ \E r \in {"numbered", "untraced"} : row' = [row EXCEPT ![o] = r]
    /\ taken' = taken \ {o}
    /\ UNCHANGED <<sor, late, lost, moves, hookVars, rec, requestVars, during,
                   faults>>

\* resubmit-order: a row without a number is imported again, and gets the number
\* of the new order.
ResubmitOrder(o, c) ==
    /\ row[o] = "untraced"
    /\ c \in EntryCodes
    /\ row' = [row EXCEPT ![o] = "numbered"]
    /\ SetStatus(o, c)
    /\ UNCHANGED <<taken, late, lost, moves, hookVars, rec, requestVars, faults>>

\* The warehouse, the back office or a hold changes the status.
SysproMoves(o, c) ==
    /\ sor[o] \notin {"none", c} \cup CancelledCodes
    /\ moves < MaxMoves
    /\ moves' = moves + 1
    /\ SetStatus(o, c)
    /\ UNCHANGED <<row, taken, late, lost, hookVars, rec, requestVars, faults>>

-----------------------------------------------------------------------------
(* Shopify.                                                                *)

CancelOrder(o, w) ==
    /\ delivery[w] = "unsent"
    /\ hook' = [hook EXCEPT ![w] = o]
    /\ delivery' = [delivery EXCEPT ![w] = "sending"]
    /\ UNCHANGED <<orderVars, rec, requestVars, during, faults>>

\* Shopify's retries are used up.
DropWebhook(w) ==
    /\ delivery[w] = "sending"
    /\ delivery' = [delivery EXCEPT ![w] = "dropped"]
    /\ UNCHANGED <<hook, orderVars, rec, requestVars, during, faults>>

-----------------------------------------------------------------------------
(* The handler.  An answer other than 200 leaves Shopify sending.          *)

\* The 200 stops the deliveries, if it arrives.
Respond200(w) ==
    delivery' \in {delivery, [delivery EXCEPT ![w] = IF @ = "sending"
                                                       THEN "acked" ELSE @]}

\* The request has no webhook in hand any more.
Leave(h, state) ==
    /\ pc' = [pc EXCEPT ![h] = state]
    /\ req' = [req EXCEPT ![h] = NoRequest]
    /\ disp' = [disp EXCEPT ![h] = NoDisposition]
    /\ during' = [during EXCEPT ![h] = {}]
    /\ seen' = [seen EXCEPT ![h] = NotRead]

EndRequest(h) == Leave(h, "idle")

\* CancellationExists says yes.
DuplicateWebhook(w) ==
    /\ delivery[w] = "sending"
    /\ rec[w] # NoRecord
    /\ Respond200(w)
    /\ UNCHANGED <<hook, orderVars, rec, requestVars, during, faults>>

\* CancellationExists says no, and the payload names an order.
Receive(h, w) ==
    /\ pc[h] = "idle"
    /\ delivery[w] = "sending"
    /\ rec[w] = NoRecord
    /\ pc' = [pc EXCEPT ![h] = "lookup"]
    /\ req' = [req EXCEPT ![h] = w]
    /\ during' = [during EXCEPT ![h] = {sor[hook[w]]}]
    /\ UNCHANGED <<disp, seen, orderVars, hookVars, rec, faults>>

\* GetOrderByShopifyID: without a row, or with one that has no number, there is
\* nothing to ask SYSPRO about.
GetOrderByShopifyID(h) ==
    /\ pc[h] = "lookup"
    /\ IF row[hook[req[h]]] = "numbered"
         THEN /\ pc' = [pc EXCEPT ![h] = "sorqry"]
              /\ UNCHANGED disp
         ELSE /\ pc' = [pc EXCEPT ![h] = "insert"]
              /\ disp' = [disp EXCEPT ![h] = "CancellablePreSYSPRO"]
    /\ seen' = [seen EXCEPT ![h] = row[hook[req[h]]]]
    /\ UNCHANGED <<req, orderVars, hookVars, rec, during, faults>>

\* Mutant of Classify: what is not known to be under way can be cancelled.
ClassifyDefaultsToSafe(c) ==
    CASE c \in CancelledCodes -> "AlreadyCancelled"
      [] c = "4" -> "ReviewAllocated"
      [] c \in {"6", "7"} -> "TooLatePicked"
      [] c \in {"8", "9"} -> "TooLateInvoiced"
      [] OTHER -> "CancellableInSYSPRO"

\* Mutant of Classify: no answer is read as no order.
ClassifyUnknownAsAbsent(c) ==
    CASE c = "nil" -> "CancellablePreSYSPRO"
      [] c \in CancelledCodes -> "AlreadyCancelled"
      [] c \in {"0", "1", "2", "3"} -> "CancellableInSYSPRO"
      [] c \in {"6", "7"} -> "TooLatePicked"
      [] c \in {"8", "9"} -> "TooLateInvoiced"
      [] OTHER -> "ReviewAllocated"

\* Classify, for an order that has a number; "nil" stands for no result.
Classify(c) ==
    CASE c \in CancelledCodes -> "AlreadyCancelled"
      [] c \in {"0", "1", "2", "3"} -> "CancellableInSYSPRO"
      [] c \in {"6", "7"} -> "TooLatePicked"
      [] c \in {"8", "9"} -> "TooLateInvoiced"
      [] OTHER -> "ReviewAllocated"

\* QueryDispatchedOrders answers, without its order or with it.
QueryOrder(h) ==
    /\ pc[h] = "sorqry"
    /\ disp' = [disp EXCEPT ![h] = Classify(sor[hook[req[h]]])]
    /\ pc' = [pc EXCEPT ![h] = "insert"]
    /\ UNCHANGED <<req, seen, orderVars, hookVars, rec, during, faults>>

\* Mutant of QueryFails: answer 500 when SYSPRO cannot be asked.
QueryFailureIsFatal(h) ==
    /\ pc[h] = "sorqry"
    /\ EndRequest(h)
    /\ UNCHANGED <<orderVars, hookVars, rec, faults>>

\* No session, no answer within 20 s, or an answer without the order.
QueryFails(h) ==
    /\ pc[h] = "sorqry"
    /\ disp' = [disp EXCEPT ![h] = Classify("nil")]
    /\ pc' = [pc EXCEPT ![h] = "insert"]
    /\ UNCHANGED <<req, seen, orderVars, hookVars, rec, during, faults>>

Verdict(h) == [disposition |-> disp[h], during |-> during[h], seen |-> seen[h]]

\* Mutant of InsertRow: the last verdict replaces the first.
UpsertRow(h) == rec' = [rec EXCEPT ![req[h]] = Verdict(h)]

\* The INSERT, under the unique constraint on webhook_id: a second row for the
\* same webhook is refused, which the handler takes for a duplicate.
InsertRow(h) ==
    rec' = IF rec[req[h]] = NoRecord
             THEN [rec EXCEPT ![req[h]] = Verdict(h)]
             ELSE rec

CreateCancellation(h) ==
    /\ pc[h] = "insert"
    /\ InsertRow(h)
    /\ Respond200(req[h])
    /\ EndRequest(h)
    /\ UNCHANGED <<hook, orderVars, faults>>

\* Mutant of RequestFails: 200 although nothing was stored.
RequestFailsQuietly(h) ==
    /\ InHand(h)
    /\ Fault
    /\ Respond200(req[h])
    /\ EndRequest(h)
    /\ UNCHANGED <<hook, orderVars, rec>>

\* A statement fails and the handler answers 500, or the process stops.
RequestFails(h) ==
    /\ InHand(h)
    /\ Fault
    /\ EndRequest(h)
    /\ UNCHANGED <<orderVars, hookVars, rec>>

\* The INSERT is carried out, but the handler does not learn of it.
InsertAnswerLost(h) ==
    /\ pc[h] = "insert"
    /\ Fault
    /\ InsertRow(h)
    /\ EndRequest(h)
    /\ UNCHANGED <<orderVars, hookVars>>

\* Shopify hangs up, as often as it likes: it waits for less than the 20 s of the
\* query and than the session lock, which ignores the context.  Every statement
\* runs on the context of the request, so that nothing is stored any more: a
\* query that fails is no reason to stop, but the INSERT after it fails too.
HangUp(h) ==
    /\ InHand(h)
    /\ Leave(h, "cut")
    /\ UNCHANGED <<orderVars, hookVars, rec, faults>>

\* The request runs into its end.
CutOff(h) ==
    /\ pc[h] = "cut"
    /\ pc' = [pc EXCEPT ![h] = "idle"]
    /\ UNCHANGED <<req, disp, seen, orderVars, hookVars, rec, during, faults>>

-----------------------------------------------------------------------------
OrderStep ==
    \E o \in Orders :
       \/ StageOrder(o)
       \/ MarkOrderProcessing(o)
       \/ SubmissionFails(o)
       \/ UpdateOrderSubmitted(o)
       \/ AnswerLost(o)
       \/ \E c \in Codes :
             \/ SysproImports(o, c) \/ SysproImportsLate(o, c)
             \/ SysproMoves(o, c) \/ ResubmitOrder(o, c)

ShopifyStep ==
    \E w \in Hooks : DropWebhook(w) \/ \E o \in Orders : CancelOrder(o, w)

Answer(h) ==
    \/ GetOrderByShopifyID(h) \/ QueryOrder(h) \/ QueryFails(h)
    \/ CreateCancellation(h) \/ CutOff(h)

HandlerStep ==
    \/ \E w \in Hooks : DuplicateWebhook(w) \/ \E h \in Handlers : Receive(h, w)
    \/ \E h \in Handlers : Answer(h) \/ RequestFails(h) \/ InsertAnswerLost(h) \/ HangUp(h)

Next == OrderStep \/ ShopifyStep \/ HandlerStep

Spec == Init /\ [][Next]_vars

\* Shopify repeats a delivery that was not acknowledged, and a request that was
\* received is answered.  Nothing is assumed of SYSPRO: every query may fail.
FairSpec ==
    /\ Spec
    /\ \A w \in Hooks : WF_vars(\E h \in Handlers : Receive(h, w))
    /\ \A h \in Handlers : WF_vars(Answer(h))

-----------------------------------------------------------------------------
(* Properties.                                                             *)

\* Every variable has its type.
TypeOK ==
    /\ row \in [Orders -> Row]
    /\ sor \in [Orders -> Codes \cup {"none"}]
    /\ taken \subseteq Orders /\ late \subseteq Orders /\ lost \subseteq Orders
    /\ hook \in [Hooks -> Orders \cup {NoOrder}]
    /\ delivery \in [Hooks -> Delivery]
    /\ rec \in [Hooks -> [disposition : Disposition \cup {NoDisposition},
                          during : SUBSET (Codes \cup {"none"}),
                          seen : Row \cup {NotRead}]]
    /\ pc \in [Handlers -> {"idle", "lookup", "sorqry", "insert", "cut"}]
    /\ req \in [Handlers -> Hooks \cup {NoRequest}]
    /\ disp \in [Handlers -> Disposition \cup {NoDisposition}]
    /\ during \in [Handlers -> SUBSET (Codes \cup {"none"})]
    /\ seen \in [Handlers -> Row \cup {NotRead}]
    /\ moves \in 0..MaxMoves
    /\ faults \in 0..MaxFaults

\* Does a disposition fit one of the statuses the order had?  The meanings are
\* those of the comments on the Disposition constants.
FitsOneOf(d, cs) ==
    CASE d = "CancellableInSYSPRO" -> cs \cap {"0", "1", "2", "3"} # {}
      [] d = "TooLatePicked" -> cs \cap {"6", "7"} # {}
      [] d = "TooLateInvoiced" -> cs \cap {"8", "9"} # {}
      [] d = "AlreadyCancelled" -> cs \cap CancelledCodes # {}
      [] OTHER -> TRUE

\* A recorded verdict about an order in SYSPRO was true at some moment of the
\* request that recorded it: it is never made up of an unknown or failed query,
\* nor of what an earlier request saw.
VerdictWasTrue == \A w \in Hooks : FitsOneOf(rec[w].disposition, rec[w].during)

\* An order recorded as never submitted was not in SYSPRO at some moment of the
\* request, unless the row did not say so: it was read while the submission was
\* under way, or after a clean import, which leaves no number, or no answer to
\* an earlier submission had come.
PreSysproIsExplained ==
    \A w \in Hooks : rec[w].disposition = "CancellablePreSYSPRO" =>
       \/ "none" \in rec[w].during
       \/ rec[w].seen \in {"processing", "untraced"}
       \/ hook[w] \in lost

\* A webhook that was acknowledged has its verdict in the table.
AckedIsRecorded == \A w \in Hooks : delivery[w] = "acked" => rec[w] # NoRecord

\* A verdict is final: the deliveries and requests that overlap with or follow
\* the one that recorded it do not change it, though SYSPRO has moved on.
VerdictIsFinal ==
    [][\A w \in Hooks : rec[w] # NoRecord => rec'[w] = rec[w]]_vars

\* Shopify comes to wait for the answers.
HangUpsEnd == <>[](\A h \in Handlers : pc[h] # "cut")

\* Every cancellation Shopify goes on sending is recorded, also when every query
\* of SYSPRO fails, provided Shopify comes to wait for the answers.  Without
\* that it need not be: with SYSPRO hanging, each delivery may be given up while
\* its query runs, and its INSERT with it.
CancellationIsRecorded ==
    HangUpsEnd =>
       \A w \in Hooks :
          delivery[w] = "sending" ~> (rec[w] # NoRecord \/ delivery[w] = "dropped")
=============================================================================
