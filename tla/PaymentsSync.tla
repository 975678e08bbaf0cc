---------------------------- MODULE PaymentsSync ----------------------------
(***************************************************************************)
(* The payments syncer: rows of payment_postings become cash receipts in   *)
(* SYSPRO (internal/payments/syncer.go, internal/store/payment_postings.go *)
(* and PostCashReceipt in internal/syspro/cash_receipt.go).                *)
(*                                                                         *)
(* Every interval a process reads the oldest pending rows and posts one    *)
(* after the other.  Unlike the batch processor it claims nothing: the row *)
(* stays 'pending' until the outcome is written, so a second process, as   *)
(* when a deployment overlaps, may read the same rows.  All updates name   *)
(* the row by its id alone.                                                *)
(*                                                                         *)
(* Nothing in this repository calls CreatePayment or RequeuePayment yet;   *)
(* they are actions because the syncer is written against them.            *)
(***************************************************************************)
EXTENDS Integers, FiniteSets

CONSTANTS
    Payments,     \* Shopify transactions, one row each
    Procs,        \* processes that run the syncer
    BatchSize,    \* rows read in one cycle (50 in the code)
    MaxAttempts,  \* maxAttempts of MarkPaymentFailed (3 in the code)
    MaxFaults,    \* bound: crashes, expired cycles, lost answers, failed updates
    MaxRequeues   \* bound: requeues by an operator

ASSUME PaymentsAssumption ==
    /\ IsFiniteSet(Payments)
    /\ BatchSize \in Nat \ {0}
    /\ MaxAttempts \in Nat \ {0}
    /\ MaxFaults \in Nat
    /\ MaxRequeues \in Nat

VARIABLES
    \* The table.
    status,     \* status[p], "absent" before the row exists
    attempts,   \* attempts[p]
    age,        \* age[p]: the order of created_at
    \* SYSPRO.
    receipts,   \* receipts[p]: cash receipts posted for p
    \* The processes.
    pc, batch, cur, ctx,
    \* History, for the properties only.
    unrecorded, \* payments SYSPRO took without the row becoming 'posted'
    overlapped, \* payments two processes had in hand at once
    \* Bounds.
    faults, requeues

tableVars == <<status, attempts, age>>
procVars == <<pc, batch, cur, ctx>>
historyVars == <<unrecorded, overlapped>>
boundVars == <<faults, requeues>>
vars == <<tableVars, receipts, procVars, historyVars, boundVars>>

NoPayment == "none"

\* No payment is called like the absence of one.
ASSUME NoPaymentAssumption == NoPayment \notin Payments

Status == {"absent", "pending", "posted", "failed", "dead_letter"}
Pcs == {"idle", "loop", "posted", "failed"}

Init ==
    /\ status = [p \in Payments |-> "absent"]
    /\ attempts = [p \in Payments |-> 0]
    /\ age = [p \in Payments |-> 0]
    /\ receipts = [p \in Payments |-> 0]
    /\ pc = [i \in Procs |-> "idle"]
    /\ batch = [i \in Procs |-> {}]
    /\ cur = [i \in Procs |-> NoPayment]
    /\ ctx = [i \in Procs |-> "live"]
    /\ unrecorded = {} /\ overlapped = {}
    /\ faults = 0 /\ requeues = 0

Fault == faults < MaxFaults /\ faults' = faults + 1 /\ UNCHANGED requeues

-----------------------------------------------------------------------------
(* The table.                                                              *)

\* A row is inserted once per Shopify transaction; a duplicate changes nothing.
CreatePayment(p) ==
    /\ status[p] = "absent"
    /\ status' = [status EXCEPT ![p] = "pending"]
    /\ age' = [age EXCEPT ![p] =
                  Cardinality({q \in Payments : status[q] # "absent"}) + 1]
    /\ UNCHANGED <<attempts, receipts, procVars, historyVars, boundVars>>

\* Mutant of RequeuePayment: the attempts made so far still count.
RequeueKeepsAttempts(p) ==
    /\ status[p] \in {"failed", "dead_letter"}
    /\ requeues < MaxRequeues /\ requeues' = requeues + 1
    /\ status' = [status EXCEPT ![p] = "pending"]
    /\ UNCHANGED <<attempts, age, receipts, procVars, historyVars, faults>>

\* An operator puts a failed row back in the queue.
RequeuePayment(p) ==
    /\ status[p] \in {"failed", "dead_letter"}
    /\ requeues < MaxRequeues /\ requeues' = requeues + 1
    /\ status' = [status EXCEPT ![p] = "pending"]
    /\ attempts' = [attempts EXCEPT ![p] = 0]
    /\ UNCHANGED <<age, receipts, procVars, historyVars, faults>>

\* Mutant of Fetchable: the WHERE clause is lost.
FetchableAll(p) == status[p] # "absent"

\* The WHERE clause of FetchUnpostedPayments.
Fetchable(p) == status[p] = "pending"

\* The rows one query returns: the oldest, BatchSize at most.
FetchUnpostedPayments(rows) ==
    LET pending == {p \in Payments : Fetchable(p)}
    IN  /\ rows \in SUBSET pending
        /\ Cardinality(rows) <= BatchSize
        /\ rows = pending \/ Cardinality(rows) = BatchSize
        /\ \A p \in rows, q \in pending \ rows : age[p] < age[q]

\* MarkPaymentPosted.
MarkPaymentPosted(p) ==
    /\ status' = [status EXCEPT ![p] = "posted"]
    /\ UNCHANGED <<attempts, age>>

\* Mutant of MarkPaymentFailed: attempts are not counted, so the row stays queued.
MarkPaymentFailedPending(p) ==
    /\ attempts' = attempts
    /\ status' = [status EXCEPT ![p] =
                     IF attempts[p] + 1 >= MaxAttempts THEN "dead_letter"
                                                       ELSE "pending"]
    /\ UNCHANGED age

\* MarkPaymentFailed.
MarkPaymentFailed(p) ==
    /\ attempts' = [attempts EXCEPT ![p] = @ + 1]
    /\ status' = [status EXCEPT ![p] =
                     IF attempts[p] + 1 >= MaxAttempts THEN "dead_letter"
                                                       ELSE "failed"]
    /\ UNCHANGED age

-----------------------------------------------------------------------------
(* A cycle of process i.                                                   *)

\* tick: the cycle reads its rows, under a context of three minutes.  With
\* none to post it is over at once, as it is when the query fails.
Fetch(i) ==
    /\ pc[i] = "idle"
    /\ \E rows \in SUBSET Payments :
          /\ FetchUnpostedPayments(rows)
          /\ batch' = [batch EXCEPT ![i] = rows]
          /\ overlapped' = overlapped \cup
                {p \in rows : \E j \in Procs \ {i} : p \in batch[j]}
          /\ pc' = [pc EXCEPT ![i] = IF rows = {} THEN "idle" ELSE "loop"]
    /\ UNCHANGED <<tableVars, receipts, cur, ctx, unrecorded, boundVars>>

\* The cycle's deadline passes or the process is told to stop.
Expire(i) ==
    /\ pc[i] # "idle" /\ ctx[i] = "live"
    /\ Fault
    /\ ctx' = [ctx EXCEPT ![i] = "done"]
    /\ UNCHANGED <<tableVars, receipts, pc, batch, cur, historyVars>>

\* The oldest row of the batch is next.
Current(i, p) ==
    /\ p \in batch[i]
    /\ \A q \in batch[i] : age[p] <= age[q]

\* Mutant of PostCashReceipt: a refusal is read as success.
PostRefusalIgnored(i, p) ==
    /\ pc[i] = "loop" /\ ctx[i] = "live" /\ Current(i, p)
    /\ receipts' \in {receipts, [receipts EXCEPT ![p] = @ + 1]}
    /\ cur' = [cur EXCEPT ![i] = p]
    /\ pc' = [pc EXCEPT ![i] = "posted"]
    /\ UNCHANGED <<tableVars, batch, ctx, historyVars, boundVars>>

\* PostCashReceipt succeeds: SYSPRO has the receipt and says so.
PostCashReceipt(i, p) ==
    /\ pc[i] = "loop" /\ ctx[i] = "live" /\ Current(i, p)
    /\ receipts' = [receipts EXCEPT ![p] = @ + 1]
    /\ cur' = [cur EXCEPT ![i] = p]
    /\ pc' = [pc EXCEPT ![i] = "posted"]
    /\ UNCHANGED <<tableVars, batch, ctx, historyVars, boundVars>>

\* It fails with nothing posted: an invalid receipt, no logon, a refusal.
PostRefused(i, p) ==
    /\ pc[i] = "loop" /\ ctx[i] = "live" /\ Current(i, p)
    /\ cur' = [cur EXCEPT ![i] = p]
    /\ pc' = [pc EXCEPT ![i] = "failed"]
    /\ UNCHANGED <<tableVars, receipts, batch, ctx, historyVars, boundVars>>

\* It fails although SYSPRO posted the receipt: the answer is lost, comes
\* after the timeout, or cannot be read.
PostUnanswered(i, p) ==
    /\ pc[i] = "loop" /\ ctx[i] = "live" /\ Current(i, p)
    /\ Fault
    /\ receipts' = [receipts EXCEPT ![p] = @ + 1]
    /\ unrecorded' = unrecorded \cup {p}
    /\ cur' = [cur EXCEPT ![i] = p]
    /\ pc' = [pc EXCEPT ![i] = "failed"]
    /\ UNCHANGED <<tableVars, batch, ctx, overlapped>>

\* The row in hand is done with; the loop goes on, or the cycle is over.
NextRow(i) ==
    /\ batch' = [batch EXCEPT ![i] = @ \ {cur[i]}]
    /\ pc' = [pc EXCEPT ![i] = IF batch[i] = {cur[i]} THEN "idle" ELSE "loop"]
    /\ cur' = [cur EXCEPT ![i] = NoPayment]
    /\ ctx' = [ctx EXCEPT ![i] = IF batch[i] = {cur[i]} THEN "live" ELSE @]

\* The outcome is written to the row.
Record(i) ==
    /\ ctx[i] = "live"
    /\ \/ pc[i] = "posted" /\ MarkPaymentPosted(cur[i])
       \/ pc[i] = "failed" /\ MarkPaymentFailed(cur[i])
    /\ NextRow(i)
    /\ UNCHANGED <<receipts, historyVars, boundVars>>

\* The update fails, always so on a context that is done.  It is logged and
\* the row stays as it was.
RecordFails(i) ==
    /\ pc[i] \in {"posted", "failed"}
    /\ ctx[i] = "live" => faults < MaxFaults
    /\ faults' = IF ctx[i] = "live" THEN faults + 1 ELSE faults
    /\ unrecorded' = IF pc[i] = "posted" THEN unrecorded \cup {cur[i]}
                                         ELSE unrecorded
    /\ NextRow(i)
    /\ UNCHANGED <<tableVars, receipts, overlapped, requeues>>

\* The cycle ends, as the check of its context before each row has it.
Aborted(i) ==
    /\ batch' = [batch EXCEPT ![i] = {}]
    /\ pc' = [pc EXCEPT ![i] = "idle"]
    /\ cur' = [cur EXCEPT ![i] = NoPayment]
    /\ ctx' = [ctx EXCEPT ![i] = "live"]

Abort(i) ==
    /\ pc[i] = "loop" /\ ctx[i] = "done"
    /\ Aborted(i)
    /\ UNCHANGED <<tableVars, receipts, historyVars, boundVars>>

\* The process dies, and is started again.
Crash(i) ==
    /\ pc[i] # "idle"
    /\ Fault
    /\ unrecorded' = IF pc[i] = "posted" THEN unrecorded \cup {cur[i]}
                                         ELSE unrecorded
    /\ Aborted(i)
    /\ UNCHANGED <<tableVars, receipts, overlapped>>

-----------------------------------------------------------------------------
Cycle(i) ==
    \/ Fetch(i)
    \/ \E p \in Payments :
          PostCashReceipt(i, p) \/ PostRefused(i, p) \/ PostUnanswered(i, p)
    \/ Record(i) \/ RecordFails(i) \/ Abort(i)

Next ==
    \/ \E p \in Payments : CreatePayment(p) \/ RequeuePayment(p)
    \/ \E i \in Procs : Cycle(i) \/ Expire(i) \/ Crash(i)

\* A running process ticks for ever, and each step of a cycle ends: SYSPRO's
\* calls by their timeout, the others by the cycle's.
Fairness == \A i \in Procs : WF_vars(Cycle(i))

Spec == Init /\ [][Next]_vars /\ Fairness

-----------------------------------------------------------------------------
(* Properties.                                                             *)

\* Every variable keeps its type.
TypeOK ==
    /\ status \in [Payments -> Status]
    /\ attempts \in [Payments -> Nat]
    /\ age \in [Payments -> Nat]
    /\ receipts \in [Payments -> Nat]
    /\ pc \in [Procs -> Pcs]
    /\ batch \in [Procs -> SUBSET Payments]
    /\ cur \in [Procs -> Payments \cup {NoPayment}]
    /\ ctx \in [Procs -> {"live", "done"}]
    /\ unrecorded \in SUBSET Payments
    /\ overlapped \in SUBSET Payments
    /\ faults \in 0..MaxFaults
    /\ requeues \in 0..MaxRequeues

\* A row that says 'posted' has its receipt in SYSPRO, whichever process wrote
\* it and after whatever retries: a payment is never written off unposted.
PostedIsInSyspro ==
    \A p \in Payments : status[p] = "posted" => receipts[p] > 0

\* SYSPRO gets a second receipt for a payment only after an earlier one went
\* unrecorded, or when two processes had the row in hand together.  Nothing
\* else may post money twice.
DoubleIsExplained ==
    \A p \in Payments :
        receipts[p] > 1 => p \in unrecorded \/ p \in overlapped

\* One process alone never counts a second attempt, so it never moves a row to
\* 'dead_letter': a failed row is not fetched again, an operator's requeue starts
\* the count anew, and an update that fails counts nothing.  Only a row that two
\* processes had in hand together gets there.  "After 3 attempts the row is moved
\* to dead_letter" (MarkPaymentFailed) is no more than that.
DeadLetterNeedsOverlap ==
    \A p \in Payments \ overlapped :
        attempts[p] <= 1 /\ (MaxAttempts > 1 => status[p] # "dead_letter")

\* A pending row is settled in the end: it is posted, or it fails and waits
\* for an operator.  A row SYSPRO refuses does not hold up those behind it.
PendingIsSettled ==
    \A p \in Payments : status[p] = "pending" ~> status[p] # "pending"
=============================================================================
