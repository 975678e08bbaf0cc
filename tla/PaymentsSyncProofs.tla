------------------------- MODULE PaymentsSyncProofs -------------------------
(***************************************************************************)
(* What the payments syncer guarantees for any number of payments,         *)
(* processes, faults and requeues.  The argument is about who holds a row: *)
(* a payment that never was in two hands at once is still 'pending' while  *)
(* it is in one, so a receipt that was recorded is never posted again.     *)
(***************************************************************************)
EXTENDS PaymentsSync, FiniteSetTheorems, TLAPS

USE DEF Pcs, Status

\* The row in hand belongs to the batch.
CurInBatch ==
    \A i \in Procs : pc[i] \in {"posted", "failed"} => cur[i] \in batch[i]

\* A row that never was in two hands is pending while it is in one.
HeldIsPending ==
    \A i \in Procs : \A p \in batch[i] :
        p \notin overlapped => status[p] = "pending"

\* A row that never was in two hands is not in two hands.
HeldOnce ==
    \A i, j \in Procs : \A p \in batch[i] \cap batch[j] :
        p \notin overlapped => i = j

\* The receipt a process is about to record is in SYSPRO.
PostedInHand ==
    \A i \in Procs : pc[i] = "posted" => receipts[cur[i]] > 0

\* A receipt whose record was not missed is the only one, and its row says so
\* or is about to.
ReceiptIsRecorded ==
    \A p \in Payments \ (unrecorded \cup overlapped) :
        receipts[p] > 0 =>
            /\ receipts[p] = 1
            /\ \/ status[p] = "posted"
               \/ \E i \in Procs : pc[i] = "posted" /\ cur[i] = p

\* A row that never was in two hands has counted one attempt at most, and none
\* while it waits for one.
CountedOnce ==
    \A p \in Payments \ overlapped :
        /\ attempts[p] <= 1
        /\ status[p] \in {"absent", "pending"} => attempts[p] = 0
        /\ MaxAttempts > 1 => status[p] # "dead_letter"

SafeInv ==
    /\ TypeOK
    /\ CurInBatch
    /\ HeldIsPending
    /\ HeldOnce
    /\ PostedInHand
    /\ PostedIsInSyspro
    /\ ReceiptIsRecorded
    /\ CountedOnce

-----------------------------------------------------------------------------
LEMMA InitSafe == Init => SafeInv
BY PaymentsAssumption
   DEF Init, SafeInv, TypeOK, CurInBatch, HeldIsPending, HeldOnce,
       PostedInHand, PostedIsInSyspro, ReceiptIsRecorded, CountedOnce, NoPayment

\* Creating or requeueing a row keeps the invariant.
LEMMA TableStep ==
    ASSUME NEW p \in Payments, SafeInv,
           CreatePayment(p) \/ RequeuePayment(p)
    PROVE  SafeInv'
<1> USE DEF procVars, historyVars, boundVars
<1>1. TypeOK'
  <2>1. CASE CreatePayment(p)
    <3>1. Cardinality({q \in Payments : status[q] # "absent"}) \in Nat
      BY PaymentsAssumption, FS_CardinalityType, FS_Subset
    <3> QED BY <2>1, <3>1 DEF SafeInv, TypeOK, CreatePayment
  <2>2. CASE RequeuePayment(p)
    BY <2>2, PaymentsAssumption DEF SafeInv, TypeOK, RequeuePayment
  <2> QED BY <2>1, <2>2
<1>2. /\ UNCHANGED <<pc, batch, cur, receipts, unrecorded, overlapped>>
      /\ status[p] # "posted"
      /\ status' = [status EXCEPT ![p] = "pending"]
      /\ status \in [Payments -> Status]
  BY DEF CreatePayment, RequeuePayment, SafeInv, TypeOK
<1>3. (CurInBatch /\ HeldOnce /\ PostedInHand)'
  BY <1>2 DEF SafeInv, CurInBatch, HeldOnce, PostedInHand
<1>4. HeldIsPending'
  BY <1>2 DEF SafeInv, TypeOK, HeldIsPending
<1>5. PostedIsInSyspro'
  BY <1>2 DEF SafeInv, PostedIsInSyspro
<1>6. ReceiptIsRecorded'
  BY <1>2 DEF SafeInv, ReceiptIsRecorded
<1>7. CountedOnce'
  BY <1>2 DEF SafeInv, TypeOK, CountedOnce, CreatePayment, RequeuePayment
<1> QED BY <1>1, <1>3, <1>4, <1>5, <1>6, <1>7 DEF SafeInv

\* Reading the rows of a cycle keeps the invariant.
LEMMA FetchStep ==
    ASSUME NEW i \in Procs, SafeInv, Fetch(i)
    PROVE  SafeInv'
<1> PICK rows \in SUBSET Payments :
        /\ FetchUnpostedPayments(rows)
        /\ batch' = [batch EXCEPT ![i] = rows]
        /\ overlapped' = overlapped \cup
              {p \in rows : \E j \in Procs \ {i} : p \in batch[j]}
        /\ pc' = [pc EXCEPT ![i] = IF rows = {} THEN "idle" ELSE "loop"]
  BY DEF Fetch
<1>1. /\ UNCHANGED <<status, attempts, age, receipts, cur, ctx, unrecorded,
                     faults, requeues>>
      /\ pc[i] = "idle"
      /\ \A p \in rows : status[p] = "pending"
  BY DEF Fetch, tableVars, boundVars, FetchUnpostedPayments, Fetchable
<1>2. TypeOK'
  BY <1>1 DEF SafeInv, TypeOK
<1>3. CurInBatch' /\ PostedInHand'
  BY <1>1 DEF SafeInv, TypeOK, CurInBatch, PostedInHand
<1>4. HeldIsPending'
  BY <1>1 DEF SafeInv, TypeOK, HeldIsPending
<1>5. HeldOnce'
  BY DEF SafeInv, TypeOK, HeldOnce
<1>6. PostedIsInSyspro'
  BY <1>1 DEF SafeInv, PostedIsInSyspro
<1>7. ReceiptIsRecorded'
  BY <1>1 DEF SafeInv, TypeOK, ReceiptIsRecorded
<1>8. CountedOnce'
  BY <1>1 DEF SafeInv, CountedOnce
<1> QED BY <1>2, <1>3, <1>4, <1>5, <1>6, <1>7, <1>8 DEF SafeInv

\* A payment that is in hand, was never in two hands and whose receipts all
\* were recorded has no receipt, unless it is the one just posted.
LEMMA HeldIsUnposted ==
    ASSUME NEW i \in Procs, NEW p \in batch[i], SafeInv,
           p \notin unrecorded \cup overlapped,
           ~(pc[i] = "posted" /\ cur[i] = p)
    PROVE  receipts[p] = 0
<1>1. p \in Payments /\ receipts[p] \in Nat /\ status[p] = "pending"
  BY DEF SafeInv, TypeOK, HeldIsPending
<1>2. ASSUME NEW j \in Procs, pc[j] = "posted", cur[j] = p
      PROVE  FALSE
  <2>1. p \in batch[j]
    BY <1>2 DEF SafeInv, CurInBatch
  <2>2. i = j
    BY <2>1 DEF SafeInv, HeldOnce
  <2> QED BY <1>2, <2>2
<1> QED BY <1>1, <1>2 DEF SafeInv, ReceiptIsRecorded

\* The answer of PostCashReceipt, whatever it is, keeps the invariant.
LEMMA PostStep ==
    ASSUME NEW i \in Procs, NEW p \in Payments, SafeInv,
           \/ PostCashReceipt(i, p)
           \/ PostRefused(i, p)
           \/ PostUnanswered(i, p)
    PROVE  SafeInv'
<1> USE DEF tableVars, historyVars, boundVars, Current
<1>1. /\ UNCHANGED <<status, attempts, age, batch, ctx, overlapped>>
      /\ p \in batch[i]
      /\ pc[i] = "loop"
      /\ cur' = [cur EXCEPT ![i] = p]
      /\ pc' \in {[pc EXCEPT ![i] = "posted"], [pc EXCEPT ![i] = "failed"]}
      /\ receipts' \in {receipts, [receipts EXCEPT ![p] = @ + 1]}
  BY DEF PostCashReceipt, PostRefused, PostUnanswered
<1>2. TypeOK'
  BY PaymentsAssumption
     DEF SafeInv, TypeOK, PostCashReceipt, PostRefused, PostUnanswered, Fault
<1>3. CurInBatch'
  BY <1>1 DEF SafeInv, TypeOK, CurInBatch
<1>4. HeldIsPending' /\ HeldOnce'
  BY <1>1 DEF SafeInv, HeldIsPending, HeldOnce
<1>5. PostedInHand'
  BY <1>1 DEF SafeInv, TypeOK, PostedInHand, CurInBatch,
              PostCashReceipt, PostRefused, PostUnanswered
<1>6. PostedIsInSyspro'
  BY <1>1 DEF SafeInv, TypeOK, PostedIsInSyspro
<1>7. ReceiptIsRecorded'
  <2>1. CASE PostCashReceipt(i, p)
    <3>1. p \notin unrecorded \cup overlapped => receipts[p] = 0
      BY <1>1, HeldIsUnposted
    <3> QED BY <1>1, <2>1, <3>1 DEF SafeInv, TypeOK, ReceiptIsRecorded, PostCashReceipt
  <2>2. CASE PostRefused(i, p)
    BY <1>1, <2>2 DEF SafeInv, TypeOK, ReceiptIsRecorded, PostRefused
  <2>3. CASE PostUnanswered(i, p)
    BY <1>1, <2>3 DEF SafeInv, TypeOK, ReceiptIsRecorded, PostUnanswered
  <2> QED BY <2>1, <2>2, <2>3
<1>8. CountedOnce'
  BY <1>1 DEF SafeInv, CountedOnce
<1> QED BY <1>2, <1>3, <1>4, <1>5, <1>6, <1>7, <1>8 DEF SafeInv

\* Writing the outcome of a row keeps the invariant.
LEMMA RecordStep ==
    ASSUME NEW i \in Procs, SafeInv, Record(i)
    PROVE  SafeInv'
<1> DEFINE c == cur[i]
<1> USE DEF historyVars, boundVars, NextRow
<1>1. /\ UNCHANGED <<receipts, unrecorded, overlapped, faults, requeues, age>>
      /\ pc[i] \in {"posted", "failed"}
      /\ c \in batch[i] /\ c \in Payments
      /\ batch' = [batch EXCEPT ![i] = @ \ {c}]
      /\ cur' = [cur EXCEPT ![i] = NoPayment]
      /\ pc' \in {[pc EXCEPT ![i] = "idle"], [pc EXCEPT ![i] = "loop"]}
      /\ \E s \in Status : status' = [status EXCEPT ![c] = s]
      /\ pc[i] = "posted" => status' = [status EXCEPT ![c] = "posted"]
      /\ pc[i] = "failed" => status'[c] # "posted"
  BY DEF Record, MarkPaymentPosted, MarkPaymentFailed, SafeInv, TypeOK, CurInBatch
<1>2. TypeOK'
  BY <1>1 DEF SafeInv, TypeOK, Record, MarkPaymentPosted, MarkPaymentFailed
<1>3. CurInBatch' /\ PostedInHand'
  BY <1>1 DEF SafeInv, TypeOK, CurInBatch, PostedInHand
<1>4. HeldOnce'
  BY <1>1 DEF SafeInv, TypeOK, HeldOnce
<1>5. HeldIsPending'
  BY <1>1 DEF SafeInv, TypeOK, HeldIsPending, HeldOnce
<1>6. PostedIsInSyspro'
  BY <1>1 DEF SafeInv, TypeOK, PostedIsInSyspro, PostedInHand
<1>7. ReceiptIsRecorded'
  <2>1. CASE pc[i] = "posted"
    BY <1>1, <2>1 DEF SafeInv, TypeOK, ReceiptIsRecorded
  <2>2. CASE pc[i] = "failed"
    <3>1. c \notin unrecorded \cup overlapped => receipts[c] = 0
      BY <1>1, <2>2, HeldIsUnposted
    <3> QED BY <1>1, <2>2, <3>1 DEF SafeInv, TypeOK, ReceiptIsRecorded
  <2> QED BY <1>1, <2>1, <2>2
<1>8. CountedOnce'
  <2>1. c \notin overlapped => status[c] = "pending"
    BY <1>1 DEF SafeInv, HeldIsPending
  <2>2. c \notin overlapped => attempts[c] = 0
    BY <1>1, <2>1 DEF SafeInv, CountedOnce
  <2>3. CASE pc[i] = "posted" /\ MarkPaymentPosted(c)
    BY <1>1, <2>1, <2>2, <2>3 DEF SafeInv, TypeOK, CountedOnce, MarkPaymentPosted
  <2>4. CASE pc[i] = "failed" /\ MarkPaymentFailed(c)
    BY <1>1, <2>1, <2>2, <2>4, PaymentsAssumption
       DEF SafeInv, TypeOK, CountedOnce, MarkPaymentFailed
  <2> QED BY <2>3, <2>4 DEF Record
<1> QED BY <1>2, <1>3, <1>4, <1>5, <1>6, <1>7, <1>8 DEF SafeInv

\* An update that fails, an aborted cycle and a crash keep the invariant.
LEMMA DropStep ==
    ASSUME NEW i \in Procs, SafeInv,
           RecordFails(i) \/ Abort(i) \/ Crash(i)
    PROVE  SafeInv'
<1> USE DEF tableVars, historyVars, boundVars, NextRow, Aborted
<1>1. /\ UNCHANGED <<status, attempts, age, receipts, overlapped, requeues>>
      /\ cur' = [cur EXCEPT ![i] = NoPayment]
      /\ pc' \in {[pc EXCEPT ![i] = "idle"], [pc EXCEPT ![i] = "loop"]}
      /\ batch' \in {[batch EXCEPT ![i] = {}],
                     [batch EXCEPT ![i] = batch[i] \ {cur[i]}]}
      /\ unrecorded \subseteq unrecorded'
      /\ pc[i] = "posted" => cur[i] \in unrecorded'
  BY DEF RecordFails, Abort, Crash, Fault
<1>2. TypeOK'
  BY PaymentsAssumption
     DEF SafeInv, TypeOK, CurInBatch, RecordFails, Abort, Crash, Fault
<1>3. CurInBatch' /\ PostedInHand'
  BY <1>1 DEF SafeInv, TypeOK, CurInBatch, PostedInHand
<1>4. HeldOnce' /\ HeldIsPending'
  BY <1>1 DEF SafeInv, TypeOK, HeldOnce, HeldIsPending
<1>5. PostedIsInSyspro'
  BY <1>1 DEF SafeInv, PostedIsInSyspro
<1>6. ReceiptIsRecorded'
  BY <1>1 DEF SafeInv, TypeOK, ReceiptIsRecorded
<1>7. CountedOnce'
  BY <1>1 DEF SafeInv, CountedOnce
<1> QED BY <1>2, <1>3, <1>4, <1>5, <1>6, <1>7 DEF SafeInv

LEMMA ExpireStep ==
    ASSUME NEW i \in Procs, SafeInv, Expire(i)
    PROVE  SafeInv'
BY PaymentsAssumption
   DEF Expire, Fault, tableVars, historyVars, SafeInv, TypeOK, CurInBatch,
       HeldIsPending, HeldOnce, PostedInHand, PostedIsInSyspro, ReceiptIsRecorded,
       CountedOnce

\* The invariant is inductive.
LEMMA NextSafe == SafeInv /\ [Next]_vars => SafeInv'
<1> SUFFICES ASSUME SafeInv, [Next]_vars PROVE SafeInv'
  OBVIOUS
<1>1. CASE Next
  BY <1>1, TableStep, FetchStep, PostStep, RecordStep, DropStep, ExpireStep
     DEF Next, Cycle
<1>2. CASE UNCHANGED vars
  BY <1>2 DEF vars, tableVars, procVars, historyVars, boundVars, SafeInv,
       TypeOK, CurInBatch, HeldIsPending, HeldOnce, PostedInHand,
       PostedIsInSyspro, ReceiptIsRecorded, CountedOnce
<1> QED BY <1>1, <1>2

LEMMA PaymentsInductive == Spec => []SafeInv
BY InitSafe, NextSafe, PTL DEF Spec

-----------------------------------------------------------------------------
\* The type invariant of the payments syncer holds in every reachable state.
THEOREM PaymentsTypeCorrect == Spec => []TypeOK
<1>1. SafeInv => TypeOK
  BY DEF SafeInv
<1> QED BY <1>1, PaymentsInductive, PTL

\* MarkPaymentPosted is only ever reached with the receipt in SYSPRO.
THEOREM PostedReachedSyspro == Spec => []PostedIsInSyspro
<1>1. SafeInv => PostedIsInSyspro
  BY DEF SafeInv
<1> QED BY <1>1, PaymentsInductive, PTL

\* A payment is posted twice only after a receipt whose outcome was not
\* recorded, or with the row in two cycles at once.
THEOREM DoublePostIsExplained == Spec => []DoubleIsExplained
<1>1. SafeInv => DoubleIsExplained
  BY DEF SafeInv, TypeOK, ReceiptIsRecorded, DoubleIsExplained
<1> QED BY <1>1, PaymentsInductive, PTL

\* MarkPaymentFailed reaches its third attempt, and 'dead_letter', only on rows
\* that two processes worked on at once.
THEOREM DeadLettersNeedOverlap == Spec => []DeadLetterNeedsOverlap
<1>1. SafeInv => DeadLetterNeedsOverlap
  BY DEF SafeInv, CountedOnce, DeadLetterNeedsOverlap
<1> QED BY <1>1, PaymentsInductive, PTL
=============================================================================
