------------------------ MODULE BatchProcessorProofs ------------------------
(***************************************************************************)
(* What BatchProcessor's runs check on small instances, proved for every   *)
(* set of instances and orders, every limit and any finite number of       *)
(* faults.                                                                 *)
(***************************************************************************)
EXTENDS BatchProcessor, TLAPS

(***************************************************************************)
(* The inductive invariant.                                                *)
(***************************************************************************)

\* The order in hand is 'processing', and no older than the batch, whose
\* context bounds it.
ClaimInv ==
    \A i \in Instances :
       InFlight(i) =>
          /\ status[cur[i]] = "processing"
          /\ age[cur[i]] <= elapsed[i]
          /\ elapsed[i] <= BatchTimeout
          /\ \A j \in Instances : InFlight(j) /\ cur[j] = cur[i] => j = i

\* A reply is there from SYSPRO's answer until the outcome is recorded.
ReplyInv ==
    \A i \in Instances :
       /\ pc[i] \notin {"answered", "deciding"} => reply[i] = NoReply
       /\ pc[i] = "answered" => reply[i] # NoReply

\* Instance i knows, or is about to be told, that SYSPRO took its order.
Accepted(i) == InFlight(i) /\ reply[i] # NoReply /\ Success(reply[i])

\* A success that is recorded, or about to be.
Known(o) ==
    \/ status[o] = "submitted"
    \/ \E i \in Instances : Accepted(i) /\ cur[i] = o

\* SYSPRO orders, made or still possible, without a lost answer: at most the
\* known one.
CountInv ==
    \A o \in Orders :
       /\ created[o] + posted[o] <= lost[o] + 1
       /\ ~Known(o) => created[o] + posted[o] <= lost[o]

\* What is written or about to be written about SYSPRO is true.
NumberInv ==
    /\ \A o \in Orders :
          /\ status[o] = "submitted" => created[o] > 0
          /\ number[o] # 0 => status[o] = "submitted"
          /\ number[o] <= created[o]
    /\ \A i \in Instances : 
          Accepted(i) => created[cur[i]] > 0 /\ reply[i].so <= created[cur[i]]

IndInv == TypeOK /\ ClaimInv /\ ReplyInv /\ CountInv /\ NumberInv
-----------------------------------------------------------------------------
(* Types.                                                                  *)

\* Init gives every variable a value of its type.
LEMMA TypeInit == Init => TypeOK
BY OrdersAssumption DEF Init, TypeOK, Status, PC, NoSnap, NoOrder, InFlight

\* An order in hand is a row, and its attempts were fetched.
LEMMA InHand ==
    ASSUME TypeOK, NEW i \in Instances, InFlight(i)
    PROVE  cur[i] \in Orders /\ snap[i][cur[i]] \in Nat
<1>1. cur[i] \in Orders \cup {NoOrder} /\ cur[i] # NoOrder
  BY DEF TypeOK
<1>2. cur[i] \in Orders
  BY <1>1
<1>. QED
  BY <1>2 DEF TypeOK

\* What SYSPRO answers is a reply, and says what SYSPRO did.
LEMMA Replies ==
    /\ \A n \in Nat \ {0} : \A r \in AcceptReplies(n) :
          r \in Reply /\ r # NoReply /\ Success(r) /\ r.so \in {0, n}
    /\ \A r \in RejectReplies : r \in Reply /\ r # NoReply /\ ~Success(r)
<1>1. ASSUME NEW n \in Nat \ {0}, NEW r \in AcceptReplies(n)
      PROVE  r \in Reply /\ r # NoReply /\ Success(r) /\ r.so \in {0, n}
  <2>1. CASE r = [so |-> n, po |-> TRUE, items |-> "some"]
    BY <2>1 DEF Reply, NoReply, Success
  <2>2. CASE r = [so |-> 0, po |-> FALSE, items |-> "some"]
    BY <2>2 DEF Reply, NoReply, Success
  <2>. QED
    BY <2>1, <2>2 DEF AcceptReplies
<1>2. ASSUME NEW r \in RejectReplies
      PROVE  r \in Reply /\ r # NoReply /\ ~Success(r)
  <2>1. CASE r = [so |-> 0, po |-> TRUE, items |-> "000000"]
    BY <2>1 DEF Reply, NoReply, Success
  <2>2. CASE r = [so |-> 0, po |-> FALSE, items |-> "000000"]
    BY <2>2 DEF Reply, NoReply, Success
  <2>3. CASE r = [so |-> 0, po |-> FALSE, items |-> ""]
    BY <2>3 DEF Reply, NoReply, Success
  <2>. QED
    BY <1>2, <2>1, <2>2, <2>3 DEF RejectReplies
<1>. QED
  BY <1>1, <1>2

\* Counters of rows stay counters.
LEMMA Counting ==
    ASSUME NEW f \in [Orders -> Nat], NEW o \in Orders
    PROVE  [f EXCEPT ![o] = @ + 1] \in [Orders -> Nat]
OBVIOUS

\* A process that stops leaves well-typed state behind.
LEMMA GoDownTypes ==
    ASSUME TypeOK, NEW i \in Instances, GoDown(i),
           crashes' \in Nat, drains' \in Nat
    PROVE  TypeOK'
<1> USE OrdersAssumption
    DEF TypeOK, InFlight, PC, NoSnap, NoOrder, rowVars
<1>1. posted' \in [Orders -> Nat]
  <2>1. CASE pc[i] = "calling"
    <3>1. cur[i] \in Orders
      BY <2>1, InHand
    <3>. QED
      BY <2>1, <3>1, Counting DEF GoDown
  <2>. QED
    BY <2>1 DEF GoDown
<1>2. lost' \in [Orders -> Nat]
  <2>1. CASE Unrecorded(i)
    <3>1. cur[i] \in Orders
      BY <2>1, InHand DEF Unrecorded
    <3>. QED
      BY <2>1, <3>1, Counting DEF GoDown
  <2>. QED
    BY <2>1 DEF GoDown
<1>. QED
  BY <1>1, <1>2 DEF GoDown

\* Every action keeps the types.
LEMMA TypeStep == TypeOK /\ [Next]_vars => TypeOK'
<1> SUFFICES ASSUME TypeOK, [Next]_vars
             PROVE  TypeOK'
  OBVIOUS
<1> USE OrdersAssumption, LimitsAssumption
    DEF TypeOK, InFlight, Status, PC, NoSnap, NoOrder, vars,
        rowVars, batchVars, sysproVars, historyVars, boundVars
<1>1. ASSUME NEW o \in Orders, CreateOrder(o)
      PROVE  TypeOK'
  BY <1>1 DEF CreateOrder
<1>2. ASSUME NEW o \in Orders, RetryOrder(o)
      PROVE  TypeOK'
  BY <1>2 DEF RetryOrder
<1>3. ASSUME NEW o \in Orders, SysproFinishesAbandoned(o)
      PROVE  TypeOK'
  <2>1. posted' \in [Orders -> Nat]
    BY <1>3 DEF SysproFinishesAbandoned
  <2>2. created' \in [Orders -> Nat]
    BY <1>3, Counting DEF SysproFinishesAbandoned
  <2>. QED
    BY <1>3, <2>1, <2>2 DEF SysproFinishesAbandoned
<1>4. ASSUME NEW i \in Instances, FetchPendingOrders(i)
      PROVE  TypeOK'
  BY <1>4 DEF FetchPendingOrders, Oldest, Pending
<1>5. ASSUME NEW i \in Instances, OpenSession(i)
      PROVE  TypeOK'
  BY <1>5 DEF OpenSession
<1>6. ASSUME NEW i \in Instances, OpenSessionFails(i)
      PROVE  TypeOK'
  BY <1>6 DEF OpenSessionFails, EndBatch
<1>7. ASSUME NEW i \in Instances, FinishBatch(i)
      PROVE  TypeOK'
  BY <1>7 DEF FinishBatch, EndBatch
<1>8. ASSUME NEW i \in Instances, PostSORTOI(i)
      PROVE  TypeOK'
  <2>1. cur[i] \in Orders /\ snap[i][cur[i]] \in Nat
    BY <1>8, InHand DEF PostSORTOI
  <2>2. sends' \in [Orders -> Nat]
    BY <1>8, <2>1, Counting DEF PostSORTOI
  <2>. QED
    BY <1>8, <2>1, <2>2 DEF PostSORTOI
<1>9. ASSUME NEW i \in Instances, PostSORTOIFails(i)
      PROVE  TypeOK'
  BY <1>9 DEF PostSORTOIFails
<1>10. ASSUME NEW i \in Instances, SysproAccepts(i)
      PROVE  TypeOK'
  <2>1. cur[i] \in Orders /\ snap[i][cur[i]] \in Nat
    BY <1>10, InHand DEF SysproAccepts
  <2>2. created' \in [Orders -> Nat]
    BY <1>10, <2>1, Counting DEF SysproAccepts
  <2>3. \E r \in Reply : reply' = [reply EXCEPT ![i] = r]
    <3>0. created[cur[i]] \in Nat
      BY <2>1
    <3>1. created[cur[i]] + 1 \in Nat \ {0}
      BY <3>0
    <3>. QED
      BY <1>10, <3>1, Replies DEF SysproAccepts
  <2>. QED
    BY <1>10, <2>1, <2>2, <2>3 DEF SysproAccepts
<1>11. ASSUME NEW i \in Instances, SysproRejects(i)
      PROVE  TypeOK'
  BY <1>11, Replies DEF SysproRejects
<1>12. ASSUME NEW i \in Instances, ReceiveReply(i)
      PROVE  TypeOK'
  BY <1>12 DEF ReceiveReply
<1>13. ASSUME NEW i \in Instances, LoseReply(i)
      PROVE  TypeOK'
  <2>1. cur[i] \in Orders /\ snap[i][cur[i]] \in Nat
    BY <1>13, InHand DEF LoseReply
  <2>2. lost' \in [Orders -> Nat]
    BY <1>13, <2>1, Counting DEF LoseReply
  <2>. QED
    BY <1>13, <2>1, <2>2 DEF LoseReply
<1>14. ASSUME NEW i \in Instances, AbandonCall(i)
      PROVE  TypeOK'
  <2>1. cur[i] \in Orders /\ snap[i][cur[i]] \in Nat
    BY <1>14, InHand DEF AbandonCall
  <2>2. lost' \in [Orders -> Nat]
    BY <1>14, <2>1, Counting DEF AbandonCall
  <2>3. posted' \in [Orders -> Nat]
    BY <1>14, <2>1, Counting DEF AbandonCall
  <2>. QED
    BY <1>14, <2>1, <2>2, <2>3 DEF AbandonCall
<1>15. ASSUME NEW i \in Instances, RecordInfraError(i)
      PROVE  TypeOK'
  <2>1. cur[i] \in Orders /\ snap[i][cur[i]] \in Nat
    BY <1>15, InHand DEF RecordInfraError
  <2>. QED
    BY <1>15, <2>1 DEF RecordInfraError, EndBatch, NewAttempts, StatusAfterInfra
<1>16. ASSUME NEW i \in Instances, RecordRejection(i)
      PROVE  TypeOK'
  <2>1. cur[i] \in Orders /\ snap[i][cur[i]] \in Nat
    BY <1>16, InHand DEF RecordRejection
  <2>. QED
    BY <1>16, <2>1 DEF RecordRejection, NextOrder
<1>17. ASSUME NEW i \in Instances, RecordSuccess(i)
      PROVE  TypeOK'
  <2>1. cur[i] \in Orders /\ snap[i][cur[i]] \in Nat
    BY <1>17, InHand DEF RecordSuccess
  <2>2. reply[i].so \in Nat
    BY <1>17 DEF RecordSuccess, Reply
  <2>. QED
    BY <1>17, <2>1, <2>2 DEF RecordSuccess, NextOrder, NewAttempts
<1>18. ASSUME NEW i \in Instances, RecordFails(i)
      PROVE  TypeOK'
  <2>1. cur[i] \in Orders /\ snap[i][cur[i]] \in Nat
    BY <1>18, InHand DEF RecordFails
  <2>2. lost' \in [Orders -> Nat]
    BY <1>18, <2>1, Counting DEF RecordFails
  <2>3. CASE reply[i] = NoReply
    <3>1. EndBatch(i)
      BY <1>18, <2>3 DEF RecordFails
    <3>. QED
      BY <1>18, <2>2, <3>1 DEF RecordFails, EndBatch
  <2>4. CASE reply[i] # NoReply
    <3>1. NextOrder(i)
      BY <1>18, <2>4 DEF RecordFails
    <3>. QED
      BY <1>18, <2>2, <3>1 DEF RecordFails, NextOrder
  <2>. QED
    BY <2>3, <2>4
<1>19. ASSUME NEW i \in Instances, Crash(i)
      PROVE  TypeOK'
  <2>1. GoDown(i)
    BY <1>19 DEF Crash
  <2>2. crashes' \in Nat /\ drains' \in Nat
    BY <1>19 DEF Crash
  <2>. QED
    BY <2>1, <2>2, GoDownTypes
<1>20. ASSUME NEW i \in Instances, BatchCancel(i)
      PROVE  TypeOK'
  BY <1>20 DEF BatchCancel
<1>21. ASSUME NEW i \in Instances, Exit(i)
      PROVE  TypeOK'
  <2>1. GoDown(i)
    BY <1>21 DEF Exit
  <2>2. crashes' \in Nat /\ drains' \in Nat
    BY <1>21 DEF Exit
  <2>. QED
    BY <2>1, <2>2, GoDownTypes
<1>22. ASSUME NEW i \in Instances, Boot(i)
      PROVE  TypeOK'
  BY <1>22 DEF Boot, ResetStaleProcessing, Stale
<1>23. ASSUME NEW i \in Instances, NEW o \in Orders, MarkOrderProcessing(i, o)
      PROVE  TypeOK'
  BY <1>23 DEF MarkOrderProcessing, SetProcessing
<1>24. ASSUME NEW i \in Instances, NEW o \in Orders, SkipOrder(i, o)
      PROVE  TypeOK'
  BY <1>24 DEF SkipOrder
<1>25. ASSUME NEW i \in Instances, NEW o \in Orders, MarkOrderProcessingFails(i, o)
      PROVE  TypeOK'
  <2>1. status' \in [Orders -> Status] /\ age' \in [Orders -> Nat]
    <3>1. CASE UNCHANGED <<status, age>>
      BY <3>1
    <3>2. CASE SetProcessing(o)
      BY <3>2 DEF SetProcessing
    <3>. QED
      BY <1>25, <3>1, <3>2 DEF MarkOrderProcessingFails
  <2>. QED
    BY <1>25, <2>1 DEF MarkOrderProcessingFails, EndBatch
<1>26. ASSUME TimePasses
      PROVE  TypeOK'
  BY <1>26 DEF TimePasses
<1>27. CASE UNCHANGED vars
  BY <1>27 DEF vars
<1>. QED
  BY <1>1, <1>2, <1>3, <1>4, <1>5, <1>6, <1>7, <1>8, <1>9, <1>10, 
     <1>11, <1>12, <1>13, <1>14, <1>15, <1>16, <1>17, <1>18, <1>19, 
     <1>20, <1>21, <1>22, <1>23, <1>24, <1>25, <1>26, <1>27
  DEF Next, Claim, Submit, Record

\* Type correctness of the processor, for all constants.
THEOREM TypeCorrect == Spec => []TypeOK
BY TypeInit, TypeStep, PTL DEF Spec

-----------------------------------------------------------------------------
(* The claim.                                                              *)

\* No batch has an order in hand at the start.
LEMMA ClaimInit == Init => ClaimInv
BY DEF Init, ClaimInv, InFlight

\* Claims stay exclusive: a claim takes a row nobody holds, a holder's update is
\* the only one that moves it, the boot sweep finds it too young, and time
\* stands still for a holder whose context is done.
LEMMA ClaimStep == TypeOK /\ ClaimInv /\ [Next]_vars => ClaimInv'
<1> SUFFICES ASSUME TypeOK, ClaimInv, [Next]_vars
             PROVE  ClaimInv'
  OBVIOUS
<1>a. /\ status \in [Orders -> Status] /\ age \in [Orders -> Nat]
      /\ pc \in [Instances -> PC] /\ elapsed \in [Instances -> Nat]
      /\ cur \in [Instances -> Orders \cup {NoOrder}]
      /\ \A i \in Instances : InFlight(i) => cur[i] \in Orders
  BY InHand DEF TypeOK
<1> USE <1>a, OrdersAssumption, TimeAssumption
    DEF ClaimInv, InFlight, Status, PC, NoOrder, vars,
        rowVars, batchVars, sysproVars, historyVars, boundVars
<1>1. ASSUME NEW o \in Orders, CreateOrder(o)
      PROVE  ClaimInv'
  BY <1>1 DEF CreateOrder
<1>2. ASSUME NEW o \in Orders, RetryOrder(o)
      PROVE  ClaimInv'
  BY <1>2 DEF RetryOrder
<1>3. ASSUME NEW o \in Orders, SysproFinishesAbandoned(o)
      PROVE  ClaimInv'
  BY <1>3 DEF SysproFinishesAbandoned
<1>4. ASSUME NEW i \in Instances, FetchPendingOrders(i)
      PROVE  ClaimInv'
  BY <1>4 DEF FetchPendingOrders
<1>5. ASSUME NEW i \in Instances, OpenSession(i)
      PROVE  ClaimInv'
  BY <1>5 DEF OpenSession
<1>6. ASSUME NEW i \in Instances, OpenSessionFails(i)
      PROVE  ClaimInv'
  BY <1>6 DEF OpenSessionFails, EndBatch
<1>7. ASSUME NEW i \in Instances, FinishBatch(i)
      PROVE  ClaimInv'
  BY <1>7 DEF FinishBatch, EndBatch
<1>8. ASSUME NEW i \in Instances, PostSORTOI(i)
      PROVE  ClaimInv'
  BY <1>8 DEF PostSORTOI
<1>9. ASSUME NEW i \in Instances, PostSORTOIFails(i)
      PROVE  ClaimInv'
  BY <1>9 DEF PostSORTOIFails
<1>10. ASSUME NEW i \in Instances, SysproAccepts(i)
      PROVE  ClaimInv'
  BY <1>10 DEF SysproAccepts
<1>11. ASSUME NEW i \in Instances, SysproRejects(i)
      PROVE  ClaimInv'
  BY <1>11 DEF SysproRejects
<1>12. ASSUME NEW i \in Instances, ReceiveReply(i)
      PROVE  ClaimInv'
  BY <1>12 DEF ReceiveReply
<1>13. ASSUME NEW i \in Instances, LoseReply(i)
      PROVE  ClaimInv'
  BY <1>13 DEF LoseReply
<1>14. ASSUME NEW i \in Instances, AbandonCall(i)
      PROVE  ClaimInv'
  BY <1>14 DEF AbandonCall
<1>15. ASSUME NEW i \in Instances, RecordInfraError(i)
      PROVE  ClaimInv'
  BY <1>15 DEF RecordInfraError, EndBatch, NewAttempts, StatusAfterInfra
<1>16. ASSUME NEW i \in Instances, RecordRejection(i)
      PROVE  ClaimInv'
  BY <1>16 DEF RecordRejection, NextOrder
<1>17. ASSUME NEW i \in Instances, RecordSuccess(i)
      PROVE  ClaimInv'
  BY <1>17 DEF RecordSuccess, NextOrder, NewAttempts
<1>18. ASSUME NEW i \in Instances, RecordFails(i)
      PROVE  ClaimInv'
  BY <1>18 DEF RecordFails, EndBatch, NextOrder
<1>19. ASSUME NEW i \in Instances, Crash(i)
      PROVE  ClaimInv'
  BY <1>19 DEF Crash, GoDown
<1>20. ASSUME NEW i \in Instances, BatchCancel(i)
      PROVE  ClaimInv'
  BY <1>20 DEF BatchCancel
<1>21. ASSUME NEW i \in Instances, Exit(i)
      PROVE  ClaimInv'
  BY <1>21 DEF Exit, GoDown
<1>22. ASSUME NEW i \in Instances, Boot(i)
      PROVE  ClaimInv'
  <2>1. ASSUME NEW j \in Instances, InFlight(j)
        PROVE  ~Stale(cur[j]) /\ j # i
    <3>1. age[cur[j]] <= StaleAfter
      <4>1. /\ age[cur[j]] \in Nat /\ elapsed[j] \in Nat
            /\ age[cur[j]] <= elapsed[j] /\ elapsed[j] <= BatchTimeout
        BY <2>1
      <4>. QED
        BY <4>1
    <3>2. j # i
      BY <1>22, <2>1 DEF Boot
    <3>3. age[cur[j]] \in Nat
      BY <2>1
    <3>. QED
      BY <3>1, <3>2, <3>3 DEF Stale
  <2>2. ASSUME NEW j \in Instances, InFlight(j)
        PROVE  status'[cur[j]] = status[cur[j]] /\ age'[cur[j]] = age[cur[j]]
    BY <1>22, <2>1, <2>2 DEF Boot, ResetStaleProcessing
  <2>. QED
    BY <1>22, <2>2 DEF Boot
<1>23. ASSUME NEW i \in Instances, NEW o \in Orders, MarkOrderProcessing(i, o)
      PROVE  ClaimInv'
  <2>1. \A j \in Instances : InFlight(j) => cur[j] # o
    BY <1>23 DEF MarkOrderProcessing, SetProcessing
  <2>2. ASSUME NEW j \in Instances, InFlight(j)
        PROVE  /\ j # i
               /\ status'[cur[j]] = status[cur[j]] /\ age'[cur[j]] = age[cur[j]]
    BY <1>23, <2>1, <2>2 DEF MarkOrderProcessing, SetProcessing
  <2>3. /\ status'[o] = "processing" /\ age'[o] = 0 /\ elapsed' = elapsed
        /\ elapsed[i] <= BatchTimeout
        /\ pc' = [pc EXCEPT ![i] = "claimed"] /\ cur' = [cur EXCEPT ![i] = o]
    BY <1>23 DEF MarkOrderProcessing, SetProcessing, CtxDone, Expired
  <2>. QED
    BY <2>1, <2>2, <2>3
<1>24. ASSUME NEW i \in Instances, NEW o \in Orders, SkipOrder(i, o)
      PROVE  ClaimInv'
  BY <1>24 DEF SkipOrder
<1>25. ASSUME NEW i \in Instances, NEW o \in Orders, MarkOrderProcessingFails(i, o)
      PROVE  ClaimInv'
  <2>1. ASSUME NEW j \in Instances, InFlight(j)
        PROVE  status'[cur[j]] = status[cur[j]] /\ age'[cur[j]] = age[cur[j]]
    <3>1. CASE UNCHANGED <<status, age>>
      BY <3>1
    <3>2. CASE SetProcessing(o)
      BY <2>1, <3>2 DEF SetProcessing
    <3>. QED
      BY <1>25, <3>1, <3>2 DEF MarkOrderProcessingFails
  <2>2. EndBatch(i)
    BY <1>25 DEF MarkOrderProcessingFails
  <2>. QED
    BY <2>1, <2>2 DEF EndBatch
<1>26. ASSUME TimePasses
      PROVE  ClaimInv'
  <2>1. ASSUME NEW j \in Instances, InFlight(j)
        PROVE  /\ elapsed'[j] = elapsed[j] + 1 /\ elapsed[j] < BatchTimeout
               /\ age'[cur[j]] <= age[cur[j]] + 1
    <3>1. ~Expired(j) /\ InBatch(j)
      BY <1>26, <2>1 DEF TimePasses, Hurried, InBatch
    <3>2. elapsed'[j] = elapsed[j] + 1
      BY <1>26, <3>1 DEF TimePasses
    <3>3. elapsed[j] < BatchTimeout
      BY <3>1 DEF Expired
    <3>4. cur[j] \in Orders /\ age[cur[j]] \in Nat
      BY <2>1
    <3>5. age'[cur[j]] <= age[cur[j]] + 1
      BY <1>26, <3>4 DEF TimePasses
    <3>. QED
      BY <3>2, <3>3, <3>5
  <2>2. UNCHANGED <<status, pc, cur>>
    BY <1>26 DEF TimePasses
  <2>3. ASSUME NEW j \in Instances, InFlight(j)
        PROVE  age'[cur[j]] <= elapsed'[j] /\ elapsed'[j] <= BatchTimeout
    <3>1. /\ cur[j] \in Orders /\ age[cur[j]] \in Nat /\ elapsed[j] \in Nat
          /\ age[cur[j]] <= elapsed[j]
      BY <2>3
    <3>2. age'[cur[j]] \in {age[cur[j]], age[cur[j]] + 1}
      BY <1>26, <3>1 DEF TimePasses
    <3>. QED
      BY <2>1, <2>3, <3>1, <3>2
  <2>. QED
    BY <2>2, <2>3
<1>27. CASE UNCHANGED vars
  BY <1>27 DEF vars
<1>. QED
  BY <1>1, <1>2, <1>3, <1>4, <1>5, <1>6, <1>7, <1>8, <1>9, <1>10, 
     <1>11, <1>12, <1>13, <1>14, <1>15, <1>16, <1>17, <1>18, <1>19, 
     <1>20, <1>21, <1>22, <1>23, <1>24, <1>25, <1>26, <1>27
  DEF Next, Claim, Submit, Record
\* ClaimInv says all that ClaimIsExclusive does.
LEMMA ClaimInvImplies == TypeOK /\ ClaimInv => ClaimIsExclusive
<1> SUFFICES ASSUME TypeOK, ClaimInv, NEW i \in Instances, InFlight(i)
             PROVE  /\ status[cur[i]] = "processing"
                    /\ ~Stale(cur[i])
                    /\ \A j \in Instances : InFlight(j) /\ cur[j] = cur[i] => j = i
  BY DEF ClaimIsExclusive
<1>1. age[cur[i]] \in Nat /\ elapsed[i] \in Nat
  BY InHand DEF TypeOK
<1>2. age[cur[i]] <= elapsed[i] /\ elapsed[i] <= BatchTimeout
  BY DEF ClaimInv
<1>3. ~Stale(cur[i])
  BY <1>1, <1>2, TimeAssumption DEF Stale
<1>. QED
  BY <1>3 DEF ClaimInv

\* Two batches never submit the same row at once, and no boot sweep takes a row
\* out of a batch's hands: for any number of instances, as long as the sweep's
\* threshold is no shorter than the batch timeout.
THEOREM ExclusiveClaim == Spec => []ClaimIsExclusive
<1>1. TypeOK /\ ClaimInv /\ [Next]_vars => (TypeOK /\ ClaimInv)'
  BY TypeStep, ClaimStep
<1>2. Init => TypeOK /\ ClaimInv
  BY TypeInit, ClaimInit
<1>. QED
  BY <1>1, <1>2, ClaimInvImplies, PTL DEF Spec

-----------------------------------------------------------------------------
(* Replies and what is known of SYSPRO's orders.                           *)

\* No reply is pending at the start.
LEMMA ReplyInit == Init => ReplyInv
BY DEF Init, ReplyInv

\* An accepted order's reply says so and bears the new order's number or none.
LEMMA AcceptedReply ==
    ASSUME TypeOK, NEW i \in Instances, SysproAccepts(i)
    PROVE  \E r \in Reply : /\ r # NoReply /\ Success(r)
                            /\ r.so \in {0, created[cur[i]] + 1}
                            /\ reply' = [reply EXCEPT ![i] = r]
<1>1. cur[i] \in Orders
  BY InHand DEF SysproAccepts, InFlight
<1>2. created[cur[i]] \in Nat
  BY <1>1 DEF TypeOK
<1>3. created[cur[i]] + 1 \in Nat \ {0}
  BY <1>2
<1>. QED
  BY <1>3, Replies DEF SysproAccepts

\* A reply comes with SYSPRO's answer and goes when the outcome is settled.
LEMMA ReplyStep == TypeOK /\ ReplyInv /\ [Next]_vars => ReplyInv'
<1> SUFFICES ASSUME TypeOK, ReplyInv, [Next]_vars
             PROVE  ReplyInv'
  OBVIOUS
<1>a. /\ pc \in [Instances -> PC]
      /\ reply \in [Instances -> Reply \cup {NoReply}]
  BY DEF TypeOK
<1> USE <1>a
    DEF ReplyInv, PC, vars,
        rowVars, batchVars, sysproVars, historyVars, boundVars
<1>1. ASSUME NEW o \in Orders, CreateOrder(o)
      PROVE  ReplyInv'
  BY <1>1 DEF CreateOrder
<1>2. ASSUME NEW o \in Orders, RetryOrder(o)
      PROVE  ReplyInv'
  BY <1>2 DEF RetryOrder
<1>3. ASSUME NEW o \in Orders, SysproFinishesAbandoned(o)
      PROVE  ReplyInv'
  BY <1>3 DEF SysproFinishesAbandoned
<1>4. ASSUME NEW i \in Instances, FetchPendingOrders(i)
      PROVE  ReplyInv'
  BY <1>4 DEF FetchPendingOrders
<1>5. ASSUME NEW i \in Instances, OpenSession(i)
      PROVE  ReplyInv'
  BY <1>5 DEF OpenSession
<1>6. ASSUME NEW i \in Instances, OpenSessionFails(i)
      PROVE  ReplyInv'
  BY <1>6 DEF OpenSessionFails, EndBatch
<1>7. ASSUME NEW i \in Instances, FinishBatch(i)
      PROVE  ReplyInv'
  BY <1>7 DEF FinishBatch, EndBatch
<1>8. ASSUME NEW i \in Instances, PostSORTOI(i)
      PROVE  ReplyInv'
  BY <1>8 DEF PostSORTOI
<1>9. ASSUME NEW i \in Instances, PostSORTOIFails(i)
      PROVE  ReplyInv'
  BY <1>9 DEF PostSORTOIFails
<1>10. ASSUME NEW i \in Instances, SysproAccepts(i)
      PROVE  ReplyInv'
  <2>1. \E r \in Reply : r # NoReply /\ reply' = [reply EXCEPT ![i] = r]
    BY <1>10, AcceptedReply
  <2>. QED
    BY <1>10, <2>1 DEF SysproAccepts
<1>11. ASSUME NEW i \in Instances, SysproRejects(i)
      PROVE  ReplyInv'
  BY <1>11, Replies DEF SysproRejects
<1>12. ASSUME NEW i \in Instances, ReceiveReply(i)
      PROVE  ReplyInv'
  BY <1>12 DEF ReceiveReply
<1>13. ASSUME NEW i \in Instances, LoseReply(i)
      PROVE  ReplyInv'
  BY <1>13 DEF LoseReply
<1>14. ASSUME NEW i \in Instances, AbandonCall(i)
      PROVE  ReplyInv'
  BY <1>14 DEF AbandonCall
<1>15. ASSUME NEW i \in Instances, RecordInfraError(i)
      PROVE  ReplyInv'
  BY <1>15 DEF RecordInfraError, EndBatch, NewAttempts, StatusAfterInfra
<1>16. ASSUME NEW i \in Instances, RecordRejection(i)
      PROVE  ReplyInv'
  BY <1>16 DEF RecordRejection, NextOrder
<1>17. ASSUME NEW i \in Instances, RecordSuccess(i)
      PROVE  ReplyInv'
  BY <1>17 DEF RecordSuccess, NextOrder, NewAttempts
<1>18. ASSUME NEW i \in Instances, RecordFails(i)
      PROVE  ReplyInv'
  BY <1>18 DEF RecordFails, EndBatch, NextOrder
<1>19. ASSUME NEW i \in Instances, Crash(i)
      PROVE  ReplyInv'
  BY <1>19 DEF Crash, GoDown
<1>20. ASSUME NEW i \in Instances, BatchCancel(i)
      PROVE  ReplyInv'
  BY <1>20 DEF BatchCancel
<1>21. ASSUME NEW i \in Instances, Exit(i)
      PROVE  ReplyInv'
  BY <1>21 DEF Exit, GoDown
<1>22. ASSUME NEW i \in Instances, Boot(i)
      PROVE  ReplyInv'
  BY <1>22 DEF Boot, ResetStaleProcessing, Stale
<1>23. ASSUME NEW i \in Instances, NEW o \in Orders, MarkOrderProcessing(i, o)
      PROVE  ReplyInv'
  BY <1>23 DEF MarkOrderProcessing, SetProcessing
<1>24. ASSUME NEW i \in Instances, NEW o \in Orders, SkipOrder(i, o)
      PROVE  ReplyInv'
  BY <1>24 DEF SkipOrder
<1>25. ASSUME NEW i \in Instances, NEW o \in Orders, MarkOrderProcessingFails(i, o)
      PROVE  ReplyInv'
  BY <1>25 DEF MarkOrderProcessingFails, EndBatch, SetProcessing
<1>26. ASSUME TimePasses
      PROVE  ReplyInv'
  BY <1>26 DEF TimePasses
<1>27. CASE UNCHANGED vars
  BY <1>27 DEF vars
<1>. QED
  BY <1>1, <1>2, <1>3, <1>4, <1>5, <1>6, <1>7, <1>8, <1>9, <1>10, 
     <1>11, <1>12, <1>13, <1>14, <1>15, <1>16, <1>17, <1>18, <1>19, 
     <1>20, <1>21, <1>22, <1>23, <1>24, <1>25, <1>26, <1>27
  DEF Next, Claim, Submit, Record

\* SYSPRO has nothing at the start.
LEMMA CountInit == Init => CountInv
BY DEF Init, CountInv

\* A process that stops with an unrecorded answer loses it.
LEMMA CountGoDown ==
    ASSUME TypeOK, ClaimInv, ReplyInv, CountInv, NEW i \in Instances, GoDown(i)
    PROVE  CountInv'
<1>1. ASSUME NEW p \in Orders, NEW j \in Instances, j # i
      PROVE  (Accepted(j) /\ cur[j] = p)' <=> (Accepted(j) /\ cur[j] = p)
  BY <1>1 DEF GoDown, Accepted, InFlight, TypeOK
<1>2. ~Accepted(i)'
  BY DEF GoDown, Accepted, InFlight, TypeOK
<1>3. ASSUME NEW p \in Orders, ~(InFlight(i) /\ cur[i] = p)
      PROVE  /\ Known(p)' <=> Known(p)
             /\ created'[p] = created[p] /\ posted'[p] = posted[p]
             /\ lost'[p] = lost[p]
  <2>1. Known(p)' <=> Known(p)
    BY <1>1, <1>2, <1>3 DEF Known, GoDown, rowVars, Accepted
  <2>. QED
    BY <1>3, <2>1 DEF GoDown, TypeOK, Unrecorded, InFlight
<1>4. ASSUME InFlight(i), NEW p \in Orders, cur[i] = p
      PROVE  /\ ~Known(p)' /\ status[p] = "processing"
             /\ Known(p) => Accepted(i)
  BY <1>1, <1>2, <1>4 DEF Known, ClaimInv, GoDown, rowVars, Accepted
<1>5. ASSUME InFlight(i), NEW p \in Orders, cur[i] = p
      PROVE  created'[p] + posted'[p] <= lost'[p]
  <2>1. /\ created[p] \in Nat /\ posted[p] \in Nat /\ lost[p] \in Nat
        /\ created[p] + posted[p] <= lost[p] + 1
        /\ ~Accepted(i) => created[p] + posted[p] <= lost[p]
    BY <1>4, <1>5 DEF TypeOK, CountInv
  <2>2. Accepted(i) => Unrecorded(i) /\ pc[i] # "calling"
    BY DEF Accepted, Unrecorded, InFlight, ReplyInv
  <2>3. pc[i] = "calling" => Unrecorded(i) /\ ~Accepted(i)
    BY DEF Accepted, Unrecorded, ReplyInv
  <2>4. /\ created'[p] = created[p]
        /\ posted'[p] = IF pc[i] = "calling" THEN posted[p] + 1 ELSE posted[p]
        /\ lost'[p] = IF Unrecorded(i) THEN lost[p] + 1 ELSE lost[p]
    BY <1>5 DEF GoDown, TypeOK
  <2>. QED
    BY <2>1, <2>2, <2>3, <2>4
<1>. QED
  <2> SUFFICES ASSUME NEW p \in Orders
               PROVE  /\ created'[p] + posted'[p] <= lost'[p] + 1
                      /\ ~Known(p)' => created'[p] + posted'[p] <= lost'[p]
    BY DEF CountInv
  <2>1. CASE InFlight(i) /\ cur[i] = p
    <3>1. created'[p] \in Nat /\ posted'[p] \in Nat /\ lost'[p] \in Nat
      <4>1. created[p] \in Nat /\ posted[p] \in Nat /\ lost[p] \in Nat
        BY DEF TypeOK
      <4>. QED
        BY <2>1, <4>1 DEF GoDown, TypeOK
    <3>. QED
      BY <1>5, <2>1, <3>1
  <2>2. CASE ~(InFlight(i) /\ cur[i] = p)
    BY <1>3, <2>2 DEF CountInv
  <2>. QED
    BY <2>1, <2>2

\* A SYSPRO order that is not known of was paid for with a lost answer.
LEMMA CountStep ==
    TypeOK /\ ClaimInv /\ ReplyInv /\ CountInv /\ [Next]_vars => CountInv'
<1> SUFFICES ASSUME TypeOK, ClaimInv, ReplyInv, CountInv, [Next]_vars
             PROVE  CountInv'
  OBVIOUS
<1>a. /\ status \in [Orders -> Status] /\ created \in [Orders -> Nat]
      /\ posted \in [Orders -> Nat] /\ lost \in [Orders -> Nat]
      /\ pc \in [Instances -> PC]
      /\ cur \in [Instances -> Orders \cup {NoOrder}]
      /\ reply \in [Instances -> Reply \cup {NoReply}]
      /\ \A i \in Instances : InFlight(i) => cur[i] \in Orders
  BY InHand DEF TypeOK
<1>b. /\ \A i \in Instances : InFlight(i) => status[cur[i]] = "processing"
      /\ \A i, j \in Instances :
            InFlight(i) /\ InFlight(j) /\ cur[i] = cur[j] => i = j
  BY DEF ClaimInv
<1> USE <1>a, <1>b
    DEF CountInv, Known, Accepted, ReplyInv, InFlight, Status, PC, NoOrder,
        vars, rowVars, batchVars, sysproVars, historyVars, boundVars
<1>1. ASSUME NEW o \in Orders, CreateOrder(o)
      PROVE  CountInv'
  BY <1>1 DEF CreateOrder
<1>2. ASSUME NEW o \in Orders, RetryOrder(o)
      PROVE  CountInv'
  BY <1>2 DEF RetryOrder
<1>3. ASSUME NEW o \in Orders, SysproFinishesAbandoned(o)
      PROVE  CountInv'
  BY <1>3 DEF SysproFinishesAbandoned
<1>4. ASSUME NEW i \in Instances, FetchPendingOrders(i)
      PROVE  CountInv'
  BY <1>4 DEF FetchPendingOrders
<1>5. ASSUME NEW i \in Instances, OpenSession(i)
      PROVE  CountInv'
  BY <1>5 DEF OpenSession
<1>6. ASSUME NEW i \in Instances, OpenSessionFails(i)
      PROVE  CountInv'
  BY <1>6 DEF OpenSessionFails, EndBatch
<1>7. ASSUME NEW i \in Instances, FinishBatch(i)
      PROVE  CountInv'
  BY <1>7 DEF FinishBatch, EndBatch
<1>8. ASSUME NEW i \in Instances, PostSORTOI(i)
      PROVE  CountInv'
  BY <1>8 DEF PostSORTOI
<1>9. ASSUME NEW i \in Instances, PostSORTOIFails(i)
      PROVE  CountInv'
  BY <1>9 DEF PostSORTOIFails
<1>10. ASSUME NEW i \in Instances, SysproAccepts(i)
      PROVE  CountInv'
  <2>1. PICK r \in Reply : /\ r # NoReply /\ Success(r)
                           /\ reply' = [reply EXCEPT ![i] = r]
    BY <1>10, AcceptedReply
  <2>2. cur[i] \in Orders /\ ~Known(cur[i])
    BY <1>10 DEF SysproAccepts
  <2>3. Known(cur[i])'
    BY <1>10, <2>1 DEF SysproAccepts
  <2>4. \A p \in Orders \ {cur[i]} : Known(p)' <=> Known(p)
    BY <1>10, <2>1 DEF SysproAccepts
  <2>. QED
    BY <1>10, <2>2, <2>3, <2>4 DEF SysproAccepts
<1>11. ASSUME NEW i \in Instances, SysproRejects(i)
      PROVE  CountInv'
  BY <1>11 DEF SysproRejects
<1>12. ASSUME NEW i \in Instances, ReceiveReply(i)
      PROVE  CountInv'
  BY <1>12 DEF ReceiveReply
<1>13. ASSUME NEW i \in Instances, LoseReply(i)
      PROVE  CountInv'
  BY <1>13 DEF LoseReply
<1>14. ASSUME NEW i \in Instances, AbandonCall(i)
      PROVE  CountInv'
  BY <1>14 DEF AbandonCall
<1>15. ASSUME NEW i \in Instances, RecordInfraError(i)
      PROVE  CountInv'
  BY <1>15 DEF RecordInfraError, EndBatch, NewAttempts, StatusAfterInfra
<1>16. ASSUME NEW i \in Instances, RecordRejection(i)
      PROVE  CountInv'
  BY <1>16 DEF RecordRejection, NextOrder
<1>17. ASSUME NEW i \in Instances, RecordSuccess(i)
      PROVE  CountInv'
  BY <1>17 DEF RecordSuccess, NextOrder, NewAttempts
<1>18. ASSUME NEW i \in Instances, RecordFails(i)
      PROVE  CountInv'
  BY <1>18 DEF RecordFails, EndBatch, NextOrder
<1>19. ASSUME NEW i \in Instances, Crash(i)
      PROVE  CountInv'
  BY <1>19, CountGoDown DEF Crash
<1>20. ASSUME NEW i \in Instances, BatchCancel(i)
      PROVE  CountInv'
  BY <1>20 DEF BatchCancel
<1>21. ASSUME NEW i \in Instances, Exit(i)
      PROVE  CountInv'
  BY <1>21, CountGoDown DEF Exit
<1>22. ASSUME NEW i \in Instances, Boot(i)
      PROVE  CountInv'
  BY <1>22 DEF Boot, ResetStaleProcessing, Stale
<1>23. ASSUME NEW i \in Instances, NEW o \in Orders, MarkOrderProcessing(i, o)
      PROVE  CountInv'
  BY <1>23 DEF MarkOrderProcessing, SetProcessing
<1>24. ASSUME NEW i \in Instances, NEW o \in Orders, SkipOrder(i, o)
      PROVE  CountInv'
  BY <1>24 DEF SkipOrder
<1>25. ASSUME NEW i \in Instances, NEW o \in Orders, MarkOrderProcessingFails(i, o)
      PROVE  CountInv'
  BY <1>25 DEF MarkOrderProcessingFails, EndBatch, SetProcessing
<1>26. ASSUME TimePasses
      PROVE  CountInv'
  BY <1>26 DEF TimePasses
<1>27. CASE UNCHANGED vars
  BY <1>27 DEF vars
<1>. QED
  BY <1>1, <1>2, <1>3, <1>4, <1>5, <1>6, <1>7, <1>8, <1>9, <1>10, 
     <1>11, <1>12, <1>13, <1>14, <1>15, <1>16, <1>17, <1>18, <1>19, 
     <1>20, <1>21, <1>22, <1>23, <1>24, <1>25, <1>26, <1>27
  DEF Next, Claim, Submit, Record

\* Nothing is written about SYSPRO at the start.
LEMMA NumberInit == Init => NumberInv
BY DEF Init, NumberInv, Accepted, InFlight

\* A number comes from a reply, and a reply from an order SYSPRO made.
LEMMA NumberStep ==
    TypeOK /\ ClaimInv /\ ReplyInv /\ NumberInv /\ [Next]_vars => NumberInv'
<1> SUFFICES ASSUME TypeOK, ClaimInv, ReplyInv, NumberInv, [Next]_vars
             PROVE  NumberInv'
  OBVIOUS
<1>a. /\ status \in [Orders -> Status] /\ created \in [Orders -> Nat]
      /\ number \in [Orders -> Nat] /\ pc \in [Instances -> PC]
      /\ cur \in [Instances -> Orders \cup {NoOrder}]
      /\ reply \in [Instances -> Reply \cup {NoReply}]
      /\ \A i \in Instances : InFlight(i) => cur[i] \in Orders
      /\ \A i \in Instances : reply[i] # NoReply => reply[i].so \in Nat
  BY InHand DEF TypeOK, Reply
<1>b. /\ \A i \in Instances : InFlight(i) => status[cur[i]] = "processing"
      /\ \A i, j \in Instances :
            InFlight(i) /\ InFlight(j) /\ cur[i] = cur[j] => i = j
  BY DEF ClaimInv
<1> USE <1>a, <1>b
    DEF NumberInv, Accepted, ReplyInv, InFlight, Status, PC, NoOrder,
        vars, rowVars, batchVars, sysproVars, historyVars, boundVars
<1>1. ASSUME NEW o \in Orders, CreateOrder(o)
      PROVE  NumberInv'
  BY <1>1 DEF CreateOrder
<1>2. ASSUME NEW o \in Orders, RetryOrder(o)
      PROVE  NumberInv'
  BY <1>2 DEF RetryOrder
<1>3. ASSUME NEW o \in Orders, SysproFinishesAbandoned(o)
      PROVE  NumberInv'
  BY <1>3 DEF SysproFinishesAbandoned
<1>4. ASSUME NEW i \in Instances, FetchPendingOrders(i)
      PROVE  NumberInv'
  BY <1>4 DEF FetchPendingOrders
<1>5. ASSUME NEW i \in Instances, OpenSession(i)
      PROVE  NumberInv'
  BY <1>5 DEF OpenSession
<1>6. ASSUME NEW i \in Instances, OpenSessionFails(i)
      PROVE  NumberInv'
  BY <1>6 DEF OpenSessionFails, EndBatch
<1>7. ASSUME NEW i \in Instances, FinishBatch(i)
      PROVE  NumberInv'
  BY <1>7 DEF FinishBatch, EndBatch
<1>8. ASSUME NEW i \in Instances, PostSORTOI(i)
      PROVE  NumberInv'
  BY <1>8 DEF PostSORTOI
<1>9. ASSUME NEW i \in Instances, PostSORTOIFails(i)
      PROVE  NumberInv'
  BY <1>9 DEF PostSORTOIFails
<1>10. ASSUME NEW i \in Instances, SysproAccepts(i)
      PROVE  NumberInv'
  <2>1. PICK r \in Reply : /\ r # NoReply /\ r.so \in {0, created[cur[i]] + 1}
                           /\ reply' = [reply EXCEPT ![i] = r]
    BY <1>10, AcceptedReply
  <2>2. cur[i] \in Orders /\ created'[cur[i]] = created[cur[i]] + 1
    BY <1>10 DEF SysproAccepts
  <2>. QED
    BY <1>10, <2>1, <2>2 DEF SysproAccepts
<1>11. ASSUME NEW i \in Instances, SysproRejects(i)
      PROVE  NumberInv'
  BY <1>11, Replies DEF SysproRejects
<1>12. ASSUME NEW i \in Instances, ReceiveReply(i)
      PROVE  NumberInv'
  BY <1>12 DEF ReceiveReply
<1>13. ASSUME NEW i \in Instances, LoseReply(i)
      PROVE  NumberInv'
  BY <1>13 DEF LoseReply
<1>14. ASSUME NEW i \in Instances, AbandonCall(i)
      PROVE  NumberInv'
  BY <1>14 DEF AbandonCall
<1>15. ASSUME NEW i \in Instances, RecordInfraError(i)
      PROVE  NumberInv'
  BY <1>15 DEF RecordInfraError, EndBatch, NewAttempts, StatusAfterInfra
<1>16. ASSUME NEW i \in Instances, RecordRejection(i)
      PROVE  NumberInv'
  BY <1>16 DEF RecordRejection, NextOrder
<1>17. ASSUME NEW i \in Instances, RecordSuccess(i)
      PROVE  NumberInv'
  BY <1>17 DEF RecordSuccess, NextOrder, NewAttempts
<1>18. ASSUME NEW i \in Instances, RecordFails(i)
      PROVE  NumberInv'
  BY <1>18 DEF RecordFails, EndBatch, NextOrder
<1>19. ASSUME NEW i \in Instances, Crash(i)
      PROVE  NumberInv'
  BY <1>19 DEF Crash, GoDown
<1>20. ASSUME NEW i \in Instances, BatchCancel(i)
      PROVE  NumberInv'
  BY <1>20 DEF BatchCancel
<1>21. ASSUME NEW i \in Instances, Exit(i)
      PROVE  NumberInv'
  BY <1>21 DEF Exit, GoDown
<1>22. ASSUME NEW i \in Instances, Boot(i)
      PROVE  NumberInv'
  BY <1>22 DEF Boot, ResetStaleProcessing, Stale
<1>23. ASSUME NEW i \in Instances, NEW o \in Orders, MarkOrderProcessing(i, o)
      PROVE  NumberInv'
  BY <1>23 DEF MarkOrderProcessing, SetProcessing
<1>24. ASSUME NEW i \in Instances, NEW o \in Orders, SkipOrder(i, o)
      PROVE  NumberInv'
  BY <1>24 DEF SkipOrder
<1>25. ASSUME NEW i \in Instances, NEW o \in Orders, MarkOrderProcessingFails(i, o)
      PROVE  NumberInv'
  BY <1>25 DEF MarkOrderProcessingFails, EndBatch, SetProcessing
<1>26. ASSUME TimePasses
      PROVE  NumberInv'
  BY <1>26 DEF TimePasses
<1>27. CASE UNCHANGED vars
  BY <1>27 DEF vars
<1>. QED
  BY <1>1, <1>2, <1>3, <1>4, <1>5, <1>6, <1>7, <1>8, <1>9, <1>10, 
     <1>11, <1>12, <1>13, <1>14, <1>15, <1>16, <1>17, <1>18, <1>19, 
     <1>20, <1>21, <1>22, <1>23, <1>24, <1>25, <1>26, <1>27
  DEF Next, Claim, Submit, Record

\* The inductive invariant holds throughout.
THEOREM Inductive == Spec => []IndInv
<1>1. Init => IndInv
  BY TypeInit, ClaimInit, ReplyInit, CountInit, NumberInit DEF IndInv
<1>2. IndInv /\ [Next]_vars => IndInv'
  BY TypeStep, ClaimStep, ReplyStep, CountStep, NumberStep DEF IndInv
<1>. QED
  BY <1>1, <1>2, PTL DEF Spec

\* A duplicate in SYSPRO is always the price of an answer that never reached the
\* row, one for one.
THEOREM DuplicatesAreAccountedFor == Spec => []DuplicateNeedsLostAnswer
<1>1. IndInv => DuplicateNeedsLostAnswer
  BY DEF IndInv, CountInv, DuplicateNeedsLostAnswer
<1>. QED
  BY <1>1, Inductive, PTL

\* Waiting, refused and dead rows are not in SYSPRO, lost answers apart.
THEOREM UnsubmittedIsAbsent == Spec => []UnsubmittedIsNotInSyspro
<1>1. IndInv => UnsubmittedIsNotInSyspro
  <2> SUFFICES ASSUME IndInv, NEW o \in Orders,
                      status[o] \in {"absent", "pending", "failed", "dead_letter"}
               PROVE  created[o] + posted[o] <= lost[o]
    BY DEF UnsubmittedIsNotInSyspro
  <2>1. ~Known(o)
    BY DEF IndInv, ClaimInv, Known, Accepted
  <2>. QED
    BY <2>1 DEF IndInv, CountInv
<1>. QED
  BY <1>1, Inductive, PTL

\* Submitted rows are in SYSPRO, under the number they bear if they bear one.
THEOREM SubmittedIsPresent == Spec => []SubmittedIsInSyspro
<1>1. IndInv => SubmittedIsInSyspro
  BY DEF IndInv, NumberInv, SubmittedIsInSyspro
<1>. QED
  BY <1>1, Inductive, PTL

-----------------------------------------------------------------------------
(* Submitted rows are final.                                               *)

\* A step that writes a row writes one that is 'processing', or moves one that
\* is absent, pending, failed or dead-lettered.
LEMMA FinalStep ==
    TypeOK /\ ClaimInv /\ [Next]_vars => \A p \in Orders : StaysSubmitted(p)
<1> SUFFICES ASSUME TypeOK, ClaimInv, [Next]_vars, NEW p \in Orders
             PROVE  StaysSubmitted(p)
  OBVIOUS
<1>a. /\ status \in [Orders -> Status] /\ number \in [Orders -> Nat]
      /\ \A i \in Instances : InFlight(i) => cur[i] \in Orders
      /\ \A i \in Instances : InFlight(i) => status[cur[i]] = "processing"
  BY InHand DEF TypeOK, ClaimInv
<1> USE <1>a
    DEF StaysSubmitted, InFlight, vars,
        rowVars, batchVars, sysproVars, historyVars, boundVars
<1>1. ASSUME NEW o \in Orders, CreateOrder(o)
      PROVE  StaysSubmitted(p)
  BY <1>1 DEF CreateOrder
<1>2. ASSUME NEW o \in Orders, RetryOrder(o)
      PROVE  StaysSubmitted(p)
  BY <1>2 DEF RetryOrder
<1>3. ASSUME NEW o \in Orders, SysproFinishesAbandoned(o)
      PROVE  StaysSubmitted(p)
  BY <1>3 DEF SysproFinishesAbandoned
<1>4. ASSUME NEW i \in Instances, FetchPendingOrders(i)
      PROVE  StaysSubmitted(p)
  BY <1>4 DEF FetchPendingOrders
<1>5. ASSUME NEW i \in Instances, OpenSession(i)
      PROVE  StaysSubmitted(p)
  BY <1>5 DEF OpenSession
<1>6. ASSUME NEW i \in Instances, OpenSessionFails(i)
      PROVE  StaysSubmitted(p)
  BY <1>6 DEF OpenSessionFails, EndBatch
<1>7. ASSUME NEW i \in Instances, FinishBatch(i)
      PROVE  StaysSubmitted(p)
  BY <1>7 DEF FinishBatch, EndBatch
<1>8. ASSUME NEW i \in Instances, PostSORTOI(i)
      PROVE  StaysSubmitted(p)
  BY <1>8 DEF PostSORTOI
<1>9. ASSUME NEW i \in Instances, PostSORTOIFails(i)
      PROVE  StaysSubmitted(p)
  BY <1>9 DEF PostSORTOIFails
<1>10. ASSUME NEW i \in Instances, SysproAccepts(i)
      PROVE  StaysSubmitted(p)
  BY <1>10 DEF SysproAccepts
<1>11. ASSUME NEW i \in Instances, SysproRejects(i)
      PROVE  StaysSubmitted(p)
  BY <1>11 DEF SysproRejects
<1>12. ASSUME NEW i \in Instances, ReceiveReply(i)
      PROVE  StaysSubmitted(p)
  BY <1>12 DEF ReceiveReply
<1>13. ASSUME NEW i \in Instances, LoseReply(i)
      PROVE  StaysSubmitted(p)
  BY <1>13 DEF LoseReply
<1>14. ASSUME NEW i \in Instances, AbandonCall(i)
      PROVE  StaysSubmitted(p)
  BY <1>14 DEF AbandonCall
<1>15. ASSUME NEW i \in Instances, RecordInfraError(i)
      PROVE  StaysSubmitted(p)
  BY <1>15 DEF RecordInfraError, EndBatch, NewAttempts, StatusAfterInfra
<1>16. ASSUME NEW i \in Instances, RecordRejection(i)
      PROVE  StaysSubmitted(p)
  BY <1>16 DEF RecordRejection, NextOrder
<1>17. ASSUME NEW i \in Instances, RecordSuccess(i)
      PROVE  StaysSubmitted(p)
  BY <1>17 DEF RecordSuccess, NextOrder, NewAttempts
<1>18. ASSUME NEW i \in Instances, RecordFails(i)
      PROVE  StaysSubmitted(p)
  BY <1>18 DEF RecordFails, EndBatch, NextOrder
<1>19. ASSUME NEW i \in Instances, Crash(i)
      PROVE  StaysSubmitted(p)
  BY <1>19 DEF Crash, GoDown
<1>20. ASSUME NEW i \in Instances, BatchCancel(i)
      PROVE  StaysSubmitted(p)
  BY <1>20 DEF BatchCancel
<1>21. ASSUME NEW i \in Instances, Exit(i)
      PROVE  StaysSubmitted(p)
  BY <1>21 DEF Exit, GoDown
<1>22. ASSUME NEW i \in Instances, Boot(i)
      PROVE  StaysSubmitted(p)
  BY <1>22 DEF Boot, ResetStaleProcessing, Stale
<1>23. ASSUME NEW i \in Instances, NEW o \in Orders, MarkOrderProcessing(i, o)
      PROVE  StaysSubmitted(p)
  BY <1>23 DEF MarkOrderProcessing, SetProcessing
<1>24. ASSUME NEW i \in Instances, NEW o \in Orders, SkipOrder(i, o)
      PROVE  StaysSubmitted(p)
  BY <1>24 DEF SkipOrder
<1>25. ASSUME NEW i \in Instances, NEW o \in Orders, MarkOrderProcessingFails(i, o)
      PROVE  StaysSubmitted(p)
  BY <1>25 DEF MarkOrderProcessingFails, EndBatch, SetProcessing
<1>26. ASSUME TimePasses
      PROVE  StaysSubmitted(p)
  BY <1>26 DEF TimePasses
<1>27. CASE UNCHANGED vars
  BY <1>27 DEF vars
<1>. QED
  BY <1>1, <1>2, <1>3, <1>4, <1>5, <1>6, <1>7, <1>8, <1>9, <1>10, 
     <1>11, <1>12, <1>13, <1>14, <1>15, <1>16, <1>17, <1>18, <1>19, 
     <1>20, <1>21, <1>22, <1>23, <1>24, <1>25, <1>26, <1>27
  DEF Next, Claim, Submit, Record

\* No step takes a submitted row back or renumbers it.
THEOREM SubmittedStays == Spec => SubmittedIsFinal
<1>1. IndInv /\ [Next]_vars => [\A o \in Orders : StaysSubmitted(o)]_vars
  BY FinalStep DEF IndInv
<1>. QED
  BY <1>1, Inductive, PTL DEF Spec, SubmittedIsFinal

-----------------------------------------------------------------------------
(* Attempts, with one instance.                                            *)

\* What the batch fetched about its orders is still true: nobody else writes
\* rows that are pending or in hand.  Two instances break this: the one that
\* comes second counts from attempts the other has already raised.
SnapInv ==
    \A i \in Instances :
       /\ \A o \in todo[i] : status[o] = "pending" /\ snap[i][o] = attempts[o]
       /\ InFlight(i) => snap[i][cur[i]] = attempts[cur[i]]

\* A row is at most one post ahead of its attempts, from the post until the row
\* leaves 'processing'.
SendInv ==
    /\ \A o \in Orders :
          /\ status[o] \in {"absent", "pending", "dead_letter"} => sends[o] <= attempts[o]
          /\ status[o] = "processing" => sends[o] <= attempts[o] + 1
    /\ \A i \in Instances : pc[i] = "claimed" => sends[cur[i]] <= attempts[cur[i]]

OneInstance == \A i, j \in Instances : i = j

\* The only instance's snapshot stays true.
LEMMA SnapStep ==
    ASSUME OneInstance, TypeOK, ClaimInv, SnapInv, [Next]_vars
    PROVE  SnapInv'
<1>a. /\ status \in [Orders -> Status] /\ attempts \in [Orders -> Nat]
      /\ pc \in [Instances -> PC] /\ todo \in [Instances -> SUBSET Orders]
      /\ snap \in [Instances -> [Orders -> Nat]]
      /\ cur \in [Instances -> Orders \cup {NoOrder}]
      /\ \A i \in Instances : InFlight(i) => cur[i] \in Orders
      /\ \A i \in Instances : InFlight(i) => status[cur[i]] = "processing"
  BY InHand DEF TypeOK, ClaimInv
<1> USE <1>a
    DEF OneInstance, SnapInv, InFlight, vars,
        rowVars, batchVars, sysproVars, historyVars, boundVars
<1>1. ASSUME NEW o \in Orders, CreateOrder(o)
      PROVE  SnapInv'
  BY <1>1 DEF CreateOrder
<1>2. ASSUME NEW o \in Orders, RetryOrder(o)
      PROVE  SnapInv'
  BY <1>2 DEF RetryOrder
<1>3. ASSUME NEW o \in Orders, SysproFinishesAbandoned(o)
      PROVE  SnapInv'
  BY <1>3 DEF SysproFinishesAbandoned
<1>4. ASSUME NEW i \in Instances, FetchPendingOrders(i)
      PROVE  SnapInv'
  BY <1>4 DEF FetchPendingOrders, Pending, Oldest
<1>5. ASSUME NEW i \in Instances, OpenSession(i)
      PROVE  SnapInv'
  BY <1>5 DEF OpenSession
<1>6. ASSUME NEW i \in Instances, OpenSessionFails(i)
      PROVE  SnapInv'
  BY <1>6 DEF OpenSessionFails, EndBatch
<1>7. ASSUME NEW i \in Instances, FinishBatch(i)
      PROVE  SnapInv'
  BY <1>7 DEF FinishBatch, EndBatch
<1>8. ASSUME NEW i \in Instances, PostSORTOI(i)
      PROVE  SnapInv'
  BY <1>8 DEF PostSORTOI
<1>9. ASSUME NEW i \in Instances, PostSORTOIFails(i)
      PROVE  SnapInv'
  BY <1>9 DEF PostSORTOIFails
<1>10. ASSUME NEW i \in Instances, SysproAccepts(i)
      PROVE  SnapInv'
  BY <1>10 DEF SysproAccepts
<1>11. ASSUME NEW i \in Instances, SysproRejects(i)
      PROVE  SnapInv'
  BY <1>11 DEF SysproRejects
<1>12. ASSUME NEW i \in Instances, ReceiveReply(i)
      PROVE  SnapInv'
  BY <1>12 DEF ReceiveReply
<1>13. ASSUME NEW i \in Instances, LoseReply(i)
      PROVE  SnapInv'
  BY <1>13 DEF LoseReply
<1>14. ASSUME NEW i \in Instances, AbandonCall(i)
      PROVE  SnapInv'
  BY <1>14 DEF AbandonCall
<1>15. ASSUME NEW i \in Instances, RecordInfraError(i)
      PROVE  SnapInv'
  BY <1>15 DEF RecordInfraError, EndBatch, NewAttempts, StatusAfterInfra
<1>16. ASSUME NEW i \in Instances, RecordRejection(i)
      PROVE  SnapInv'
  BY <1>16 DEF RecordRejection, NextOrder
<1>17. ASSUME NEW i \in Instances, RecordSuccess(i)
      PROVE  SnapInv'
  BY <1>17 DEF RecordSuccess, NextOrder, NewAttempts
<1>18. ASSUME NEW i \in Instances, RecordFails(i)
      PROVE  SnapInv'
  BY <1>18 DEF RecordFails, EndBatch, NextOrder
<1>19. ASSUME NEW i \in Instances, Crash(i)
      PROVE  SnapInv'
  BY <1>19 DEF Crash, GoDown
<1>20. ASSUME NEW i \in Instances, BatchCancel(i)
      PROVE  SnapInv'
  BY <1>20 DEF BatchCancel
<1>21. ASSUME NEW i \in Instances, Exit(i)
      PROVE  SnapInv'
  BY <1>21 DEF Exit, GoDown
<1>22. ASSUME NEW i \in Instances, Boot(i)
      PROVE  SnapInv'
  BY <1>22 DEF Boot, ResetStaleProcessing, Stale
<1>23. ASSUME NEW i \in Instances, NEW o \in Orders, MarkOrderProcessing(i, o)
      PROVE  SnapInv'
  BY <1>23 DEF MarkOrderProcessing, SetProcessing, IsNext
<1>24. ASSUME NEW i \in Instances, NEW o \in Orders, SkipOrder(i, o)
      PROVE  SnapInv'
  BY <1>24 DEF SkipOrder
<1>25. ASSUME NEW i \in Instances, NEW o \in Orders, MarkOrderProcessingFails(i, o)
      PROVE  SnapInv'
  BY <1>25 DEF MarkOrderProcessingFails, EndBatch, SetProcessing
<1>26. CASE TimePasses
  BY <1>26 DEF TimePasses
<1>27. CASE UNCHANGED vars
  BY <1>27 DEF vars
<1>. QED
  BY <1>1, <1>2, <1>3, <1>4, <1>5, <1>6, <1>7, <1>8, <1>9, <1>10,
     <1>11, <1>12, <1>13, <1>14, <1>15, <1>16, <1>17, <1>18, <1>19,
     <1>20, <1>21, <1>22, <1>23, <1>24, <1>25, <1>26, <1>27
  DEF Next, Claim, Submit, Record

\* Posts never run ahead of the attempts by more than the call under way.
LEMMA SendStep ==
    ASSUME OneInstance, TypeOK, ClaimInv, SnapInv, SendInv, [Next]_vars
    PROVE  SendInv'
<1>a. /\ status \in [Orders -> Status] /\ attempts \in [Orders -> Nat]
      /\ sends \in [Orders -> Nat]
      /\ pc \in [Instances -> PC]
      /\ cur \in [Instances -> Orders \cup {NoOrder}]
      /\ \A i \in Instances : InFlight(i) => cur[i] \in Orders
      /\ \A i \in Instances : InFlight(i) => status[cur[i]] = "processing"
      /\ \A i \in Instances : InFlight(i) => snap[i][cur[i]] = attempts[cur[i]]
  BY InHand DEF TypeOK, ClaimInv, SnapInv
<1> USE <1>a
    DEF OneInstance, SendInv, InFlight, vars,
        rowVars, batchVars, sysproVars, historyVars, boundVars
<1>1. ASSUME NEW o \in Orders, CreateOrder(o)
      PROVE  SendInv'
  BY <1>1 DEF CreateOrder
<1>2. ASSUME NEW o \in Orders, RetryOrder(o)
      PROVE  SendInv'
  BY <1>2 DEF RetryOrder
<1>3. ASSUME NEW o \in Orders, SysproFinishesAbandoned(o)
      PROVE  SendInv'
  BY <1>3 DEF SysproFinishesAbandoned
<1>4. ASSUME NEW i \in Instances, FetchPendingOrders(i)
      PROVE  SendInv'
  BY <1>4 DEF FetchPendingOrders, Pending, Oldest
<1>5. ASSUME NEW i \in Instances, OpenSession(i)
      PROVE  SendInv'
  BY <1>5 DEF OpenSession
<1>6. ASSUME NEW i \in Instances, OpenSessionFails(i)
      PROVE  SendInv'
  BY <1>6 DEF OpenSessionFails, EndBatch
<1>7. ASSUME NEW i \in Instances, FinishBatch(i)
      PROVE  SendInv'
  BY <1>7 DEF FinishBatch, EndBatch
<1>8. ASSUME NEW i \in Instances, PostSORTOI(i)
      PROVE  SendInv'
  BY <1>8 DEF PostSORTOI
<1>9. ASSUME NEW i \in Instances, PostSORTOIFails(i)
      PROVE  SendInv'
  BY <1>9 DEF PostSORTOIFails
<1>10. ASSUME NEW i \in Instances, SysproAccepts(i)
      PROVE  SendInv'
  BY <1>10 DEF SysproAccepts
<1>11. ASSUME NEW i \in Instances, SysproRejects(i)
      PROVE  SendInv'
  BY <1>11 DEF SysproRejects
<1>12. ASSUME NEW i \in Instances, ReceiveReply(i)
      PROVE  SendInv'
  BY <1>12 DEF ReceiveReply
<1>13. ASSUME NEW i \in Instances, LoseReply(i)
      PROVE  SendInv'
  BY <1>13 DEF LoseReply
<1>14. ASSUME NEW i \in Instances, AbandonCall(i)
      PROVE  SendInv'
  BY <1>14 DEF AbandonCall
<1>15. ASSUME NEW i \in Instances, RecordInfraError(i)
      PROVE  SendInv'
  BY <1>15 DEF RecordInfraError, EndBatch, NewAttempts, StatusAfterInfra
<1>16. ASSUME NEW i \in Instances, RecordRejection(i)
      PROVE  SendInv'
  BY <1>16 DEF RecordRejection, NextOrder
<1>17. ASSUME NEW i \in Instances, RecordSuccess(i)
      PROVE  SendInv'
  BY <1>17 DEF RecordSuccess, NextOrder, NewAttempts
<1>18. ASSUME NEW i \in Instances, RecordFails(i)
      PROVE  SendInv'
  BY <1>18 DEF RecordFails, EndBatch, NextOrder
<1>19. ASSUME NEW i \in Instances, Crash(i)
      PROVE  SendInv'
  BY <1>19 DEF Crash, GoDown
<1>20. ASSUME NEW i \in Instances, BatchCancel(i)
      PROVE  SendInv'
  BY <1>20 DEF BatchCancel
<1>21. ASSUME NEW i \in Instances, Exit(i)
      PROVE  SendInv'
  BY <1>21 DEF Exit, GoDown
<1>22. ASSUME NEW i \in Instances, Boot(i)
      PROVE  SendInv'
  BY <1>22 DEF Boot, ResetStaleProcessing, Stale
<1>23. ASSUME NEW i \in Instances, NEW o \in Orders, MarkOrderProcessing(i, o)
      PROVE  SendInv'
  BY <1>23 DEF MarkOrderProcessing, SetProcessing, IsNext
<1>24. ASSUME NEW i \in Instances, NEW o \in Orders, SkipOrder(i, o)
      PROVE  SendInv'
  BY <1>24 DEF SkipOrder
<1>25. ASSUME NEW i \in Instances, NEW o \in Orders, MarkOrderProcessingFails(i, o)
      PROVE  SendInv'
  BY <1>25 DEF MarkOrderProcessingFails, EndBatch, SetProcessing
<1>26. CASE TimePasses
  BY <1>26 DEF TimePasses
<1>27. CASE UNCHANGED vars
  BY <1>27 DEF vars
<1>. QED
  BY <1>1, <1>2, <1>3, <1>4, <1>5, <1>6, <1>7, <1>8, <1>9, <1>10,
     <1>11, <1>12, <1>13, <1>14, <1>15, <1>16, <1>17, <1>18, <1>19,
     <1>20, <1>21, <1>22, <1>23, <1>24, <1>25, <1>26, <1>27
  DEF Next, Claim, Submit, Record

\* With one instance every SORTOI posted since a row was queued is counted in its
\* attempts once the row waits again or is dead-lettered, whatever crashes,
\* failed updates, boot sweeps and operators' retries came between.
THEOREM AttemptsAreCounted ==
    ASSUME OneInstance
    PROVE  Spec => []AttemptsCountSends
<1>1. Init => SnapInv /\ SendInv
  BY DEF Init, SnapInv, SendInv, InFlight
<1>2. IndInv /\ SnapInv /\ SendInv /\ [Next]_vars => SnapInv' /\ SendInv'
  BY OneInstance, SnapStep, SendStep DEF IndInv
<1>3. SendInv => AttemptsCountSends
  BY DEF SendInv, AttemptsCountSends
<1>. QED
  BY <1>1, <1>2, <1>3, Inductive, PTL DEF Spec

-----------------------------------------------------------------------------
(* The batch processor implements the order lifecycle.                     *)

\* Some instance waits for SYSPRO's answer about o.
Calling(o) == \E i \in Instances : pc[i] = "calling" /\ cur[i] = o

AbstractStep == [Lifecycle!LNext]_(Lifecycle!lifecycleVars)

\* The abstract calls change only with posted and with who is calling.
LEMMA OutstandingSame ==
    ASSUME posted' = posted, \A o \in Orders : Calling(o)' <=> Calling(o)
    PROVE  Outstanding' = Outstanding
BY DEF Outstanding, Calling

\* A step that leaves statuses, SYSPRO's orders and the calls alone stutters.
LEMMA Stutter ==
    ASSUME status' = status, created' = created, Outstanding' = Outstanding
    PROVE  AbstractStep
BY DEF AbstractStep, Lifecycle!lifecycleVars

\* A batch's step that neither begins nor ends a call stutters when it leaves
\* the rows and SYSPRO alone.
LEMMA CallsSame ==
    ASSUME TypeOK, NEW i \in Instances, pc[i] # "calling",
           NEW l, l # "calling", pc' = [pc EXCEPT ![i] = l],
           \A j \in Instances : j # i => cur'[j] = cur[j],
           posted' = posted
    PROVE  Outstanding' = Outstanding
<1>1. ASSUME NEW j \in Instances, NEW o \in Orders
      PROVE  (pc[j] = "calling" /\ cur[j] = o)' <=> (pc[j] = "calling" /\ cur[j] = o)
  BY DEF TypeOK
<1>. QED
  BY <1>1, OutstandingSame DEF Calling

\* A call that begins is the only one for its order.
LEMMA CallBegins ==
    ASSUME TypeOK, ClaimInv, NEW i \in Instances, pc[i] = "claimed",
           pc' = [pc EXCEPT ![i] = "calling"], cur' = cur, posted' = posted
    PROVE  /\ cur[i] \in Orders
           /\ Outstanding' = [Outstanding EXCEPT ![cur[i]] = @ + 1]
<1>1. cur[i] \in Orders
  BY InHand DEF InFlight
<1>2. ~Calling(cur[i]) /\ Calling(cur[i])'
  BY <1>1 DEF Calling, ClaimInv, InFlight, TypeOK
<1>3. \A o \in Orders \ {cur[i]} : Calling(o)' <=> Calling(o)
  BY DEF Calling, TypeOK
<1>4. ASSUME NEW o \in Orders
      PROVE  Outstanding'[o] = [Outstanding EXCEPT ![cur[i]] = @ + 1][o]
  <2>1. posted[o] \in Nat
    BY DEF TypeOK
  <2>2. CASE o = cur[i]
    BY <1>1, <1>2, <2>1, <2>2 DEF Outstanding, Calling
  <2>3. CASE o # cur[i]
    BY <1>1, <1>3, <2>1, <2>3 DEF Outstanding, Calling
  <2>. QED
    BY <2>2, <2>3
<1>. QED
  BY <1>1, <1>4 DEF Outstanding

\* A call that ends was the only one for its order.
LEMMA CallEnds ==
    ASSUME TypeOK, ClaimInv, NEW i \in Instances, pc[i] = "calling",
           NEW l, l # "calling", pc' = [pc EXCEPT ![i] = l],
           \A j \in Instances : j # i => cur'[j] = cur[j],
           NEW c \in Orders, c = cur[i]
    PROVE  /\ Calling(c) /\ ~Calling(c)'
           /\ \A o \in Orders \ {c} : Calling(o)' <=> Calling(o)
<1>2. \A j \in Instances : j # i => ~(pc[j] = "calling" /\ cur[j] = cur[i])
  BY DEF ClaimInv, InFlight
<1>3. \A j \in Instances : j # i => pc'[j] = pc[j]
  BY DEF TypeOK
<1>4. pc'[i] # "calling"
  BY DEF TypeOK
<1>. QED
  BY <1>2, <1>3, <1>4 DEF Calling

\* SYSPRO answers the instance that calls.
LEMMA CallAnswered ==
    ASSUME TypeOK, ClaimInv, NEW i \in Instances, pc[i] = "calling",
           pc' = [pc EXCEPT ![i] = "answered"], cur' = cur, posted' = posted
    PROVE  /\ cur[i] \in Orders
           /\ Outstanding[cur[i]] > 0
           /\ Outstanding' = [Outstanding EXCEPT ![cur[i]] = @ - 1]
<1>0. PICK c \in Orders : c = cur[i]
  BY InHand DEF InFlight
<1>1. /\ Calling(c) /\ ~Calling(c)'
      /\ \A o \in Orders \ {c} : Calling(o)' <=> Calling(o)
  BY <1>0, CallEnds
<1>2. posted \in [Orders -> Nat]
  BY DEF TypeOK
<1>3. ASSUME NEW o \in Orders
      PROVE  Outstanding'[o] = [Outstanding EXCEPT ![cur[i]] = @ - 1][o]
  <2>1. posted[o] \in Nat
    BY <1>2
  <2>2. CASE o = c
    BY <1>0, <1>1, <2>1, <2>2 DEF Outstanding, Calling
  <2>3. CASE o # c
    BY <1>0, <1>1, <2>1, <2>3 DEF Outstanding, Calling
  <2>. QED
    BY <2>2, <2>3
<1>4. Outstanding[cur[i]] > 0
  BY <1>0, <1>1, <1>2 DEF Outstanding, Calling
<1>. QED
  BY <1>0, <1>1, <1>3, <1>4 DEF Outstanding

\* A call whose caller goes away stays outstanding.
LEMMA CallAbandoned ==
    ASSUME TypeOK, ClaimInv, NEW i \in Instances, pc[i] = "calling",
           NEW l, l # "calling", pc' = [pc EXCEPT ![i] = l],
           \A j \in Instances : j # i => cur'[j] = cur[j],
           posted' = [posted EXCEPT ![cur[i]] = @ + 1]
    PROVE  Outstanding' = Outstanding
<1>0. PICK c \in Orders : c = cur[i]
  BY InHand DEF InFlight
<1>1. /\ Calling(c) /\ ~Calling(c)'
      /\ \A o \in Orders \ {c} : Calling(o)' <=> Calling(o)
  BY <1>0, CallEnds
<1>2. posted \in [Orders -> Nat]
  BY DEF TypeOK
<1>3. ASSUME NEW o \in Orders
      PROVE  Outstanding'[o] = Outstanding[o]
  <2>1. posted[o] \in Nat
    BY <1>2
  <2>2. CASE o = c
    BY <1>0, <1>1, <1>2, <2>1, <2>2 DEF Outstanding, Calling
  <2>3. CASE o # c
    BY <1>0, <1>1, <1>2, <2>1, <2>3 DEF Outstanding, Calling
  <2>. QED
    BY <2>2, <2>3
<1>. QED
  BY <1>3 DEF Outstanding
\* A process that stops leaves its call behind.
LEMMA GoDownStutters ==
    ASSUME TypeOK, ClaimInv, NEW i \in Instances, GoDown(i)
    PROVE  AbstractStep
<1>1. CASE pc[i] = "calling"
  BY <1>1, CallAbandoned, Stutter DEF GoDown, rowVars, TypeOK
<1>2. CASE pc[i] # "calling"
  BY <1>2, CallsSame, Stutter DEF GoDown, rowVars, TypeOK
<1>. QED
  BY <1>1, <1>2

\* Every step of the processor is a step of the lifecycle, or leaves it alone.
LEMMA StepSimulation == IndInv /\ [Next]_vars => AbstractStep
<1> SUFFICES ASSUME IndInv, [Next]_vars
             PROVE  AbstractStep
  OBVIOUS
<1> TypeOK /\ ClaimInv /\ NumberInv
  BY DEF IndInv
<1> cur \in [Instances -> Orders \cup {NoOrder}]
  BY DEF TypeOK
<1> USE DEF rowVars, batchVars, sysproVars, historyVars, boundVars
<1>1. ASSUME NEW o \in Orders, CreateOrder(o)
      PROVE  AbstractStep
  <2>1. Outstanding' = Outstanding
    BY <1>1, OutstandingSame DEF CreateOrder, Calling
  <2>2. Lifecycle!Arrive(o)
    BY <1>1, <2>1 DEF CreateOrder, Lifecycle!Arrive, Lifecycle!Move
  <2>. QED
    BY <2>2 DEF AbstractStep, Lifecycle!LNext
<1>2. ASSUME NEW o \in Orders, RetryOrder(o)
      PROVE  AbstractStep
  <2>1. Outstanding' = Outstanding
    BY <1>2, OutstandingSame DEF RetryOrder, Calling
  <2>2. Lifecycle!Retry(o)
    BY <1>2, <2>1 DEF RetryOrder, Lifecycle!Retry, Lifecycle!Move
  <2>. QED
    BY <2>2 DEF AbstractStep, Lifecycle!LNext
<1>3. ASSUME NEW o \in Orders, SysproFinishesAbandoned(o)
      PROVE  AbstractStep
  <2>1. posted \in [Orders -> Nat]
    BY DEF TypeOK
  <2>2. \A p \in Orders : Calling(p)' <=> Calling(p)
    BY <1>3 DEF SysproFinishesAbandoned, Calling
  <2>3. ASSUME NEW p \in Orders
        PROVE  Outstanding'[p] = [Outstanding EXCEPT ![o] = @ - 1][p]
    BY <1>3, <2>1, <2>2 DEF SysproFinishesAbandoned, Outstanding, Calling
  <2>4. Outstanding' = [Outstanding EXCEPT ![o] = @ - 1]
    BY <2>3 DEF Outstanding
  <2>5. Outstanding[o] > 0
    BY <1>3, <2>1 DEF SysproFinishesAbandoned, Outstanding
  <2>6. Lifecycle!Work(o)
    BY <1>3, <2>4, <2>5 DEF SysproFinishesAbandoned, Lifecycle!Work
  <2>. QED
    BY <2>6 DEF AbstractStep, Lifecycle!LNext
<1>4. ASSUME NEW i \in Instances, FetchPendingOrders(i)
      PROVE  AbstractStep
  <2>1. Outstanding' = Outstanding
    BY <1>4, CallsSame DEF FetchPendingOrders
  <2>. QED
    BY <1>4, <2>1, Stutter DEF FetchPendingOrders
<1>5. ASSUME NEW i \in Instances, OpenSession(i)
      PROVE  AbstractStep
  <2>1. Outstanding' = Outstanding
    BY <1>5, CallsSame DEF OpenSession
  <2>. QED
    BY <1>5, <2>1, Stutter DEF OpenSession
<1>6. ASSUME NEW i \in Instances, OpenSessionFails(i)
      PROVE  AbstractStep
  <2>1. Outstanding' = Outstanding
    BY <1>6, CallsSame DEF OpenSessionFails, EndBatch
  <2>. QED
    BY <1>6, <2>1, Stutter DEF OpenSessionFails
<1>7. ASSUME NEW i \in Instances, FinishBatch(i)
      PROVE  AbstractStep
  <2>1. Outstanding' = Outstanding
    BY <1>7, CallsSame DEF FinishBatch, EndBatch
  <2>. QED
    BY <1>7, <2>1, Stutter DEF FinishBatch
<1>8. ASSUME NEW i \in Instances, PostSORTOIFails(i)
      PROVE  AbstractStep
  <2>1. Outstanding' = Outstanding
    BY <1>8, CallsSame DEF PostSORTOIFails
  <2>. QED
    BY <1>8, <2>1, Stutter DEF PostSORTOIFails
<1>9. ASSUME NEW i \in Instances, ReceiveReply(i)
      PROVE  AbstractStep
  <2>1. Outstanding' = Outstanding
    BY <1>9, CallsSame DEF ReceiveReply
  <2>. QED
    BY <1>9, <2>1, Stutter DEF ReceiveReply
<1>10. ASSUME NEW i \in Instances, LoseReply(i)
      PROVE  AbstractStep
  <2>1. Outstanding' = Outstanding
    BY <1>10, CallsSame DEF LoseReply
  <2>. QED
    BY <1>10, <2>1, Stutter DEF LoseReply
<1>11. ASSUME NEW i \in Instances, RecordFails(i)
      PROVE  AbstractStep
  <2>1. Outstanding' = Outstanding
    <3>1. CASE reply[i] = NoReply
      BY <1>11, <3>1, CallsSame DEF RecordFails, EndBatch
    <3>2. CASE reply[i] # NoReply
      BY <1>11, <3>2, CallsSame DEF RecordFails, NextOrder
    <3>. QED
      BY <3>1, <3>2
  <2>. QED
    BY <1>11, <2>1, Stutter DEF RecordFails
<1>12. ASSUME NEW i \in Instances, BatchCancel(i)
      PROVE  AbstractStep
  <2>1. Outstanding' = Outstanding
    BY <1>12, OutstandingSame DEF BatchCancel, Calling
  <2>. QED
    BY <1>12, <2>1, Stutter DEF BatchCancel
<1>13. ASSUME NEW i \in Instances, PostSORTOI(i)
      PROVE  AbstractStep
  <2>1. /\ cur[i] \in Orders
        /\ Outstanding' = [Outstanding EXCEPT ![cur[i]] = @ + 1]
    BY <1>13, CallBegins DEF PostSORTOI
  <2>2. Lifecycle!Send(cur[i])
    BY <1>13, <2>1 DEF PostSORTOI, ClaimInv, InFlight, Lifecycle!Send
  <2>. QED
    BY <2>1, <2>2 DEF AbstractStep, Lifecycle!LNext
<1>14. ASSUME NEW i \in Instances, SysproAccepts(i)
      PROVE  AbstractStep
  <2>1. /\ cur[i] \in Orders /\ Outstanding[cur[i]] > 0
        /\ Outstanding' = [Outstanding EXCEPT ![cur[i]] = @ - 1]
    BY <1>14, CallAnswered DEF SysproAccepts
  <2>2. Lifecycle!Work(cur[i])
    BY <1>14, <2>1 DEF SysproAccepts, Lifecycle!Work
  <2>. QED
    BY <2>1, <2>2 DEF AbstractStep, Lifecycle!LNext
<1>15. ASSUME NEW i \in Instances, SysproRejects(i)
      PROVE  AbstractStep
  <2>1. /\ cur[i] \in Orders /\ Outstanding[cur[i]] > 0
        /\ Outstanding' = [Outstanding EXCEPT ![cur[i]] = @ - 1]
    BY <1>15, CallAnswered DEF SysproRejects
  <2>2. Lifecycle!Work(cur[i])
    BY <1>15, <2>1 DEF SysproRejects, Lifecycle!Work
  <2>. QED
    BY <2>1, <2>2 DEF AbstractStep, Lifecycle!LNext
<1>16. ASSUME NEW i \in Instances, AbandonCall(i)
      PROVE  AbstractStep
  <2>1. Outstanding' = Outstanding
    BY <1>16, CallAbandoned DEF AbandonCall
  <2>. QED
    BY <1>16, <2>1, Stutter DEF AbandonCall
<1>17. ASSUME NEW i \in Instances, RecordRejection(i)
      PROVE  AbstractStep
  <2>1. cur[i] \in Orders /\ status[cur[i]] = "processing"
    BY <1>17, InHand DEF RecordRejection, InFlight, ClaimInv
  <2>2. Outstanding' = Outstanding
    BY <1>17, CallsSame DEF RecordRejection, NextOrder
  <2>4. Lifecycle!Refuse(cur[i])
    BY <1>17, <2>1, <2>2 DEF RecordRejection, Lifecycle!Refuse, Lifecycle!Move
  <2>. QED
    BY <2>1, <2>4 DEF AbstractStep, Lifecycle!LNext
<1>18. ASSUME NEW i \in Instances, RecordSuccess(i)
      PROVE  AbstractStep
  <2>1. cur[i] \in Orders /\ status[cur[i]] = "processing"
    BY <1>18, InHand DEF RecordSuccess, InFlight, ClaimInv
  <2>2. Outstanding' = Outstanding
    BY <1>18, CallsSame DEF RecordSuccess, NextOrder
  <2>3. created[cur[i]] > 0
    BY <1>18 DEF RecordSuccess, NumberInv, Accepted, InFlight
  <2>4. Lifecycle!Complete(cur[i])
    BY <1>18, <2>1, <2>2, <2>3 DEF RecordSuccess, Lifecycle!Complete, Lifecycle!Move
  <2>. QED
    BY <2>1, <2>4 DEF AbstractStep, Lifecycle!LNext
<1>19. ASSUME NEW i \in Instances, RecordInfraError(i)
      PROVE  AbstractStep
  <2>1. cur[i] \in Orders /\ status[cur[i]] = "processing"
    BY <1>19, InHand DEF RecordInfraError, InFlight, ClaimInv
  <2>2. Outstanding' = Outstanding
    BY <1>19, CallsSame DEF RecordInfraError, EndBatch
  <2>3. status \in [Orders -> Status]
    BY DEF TypeOK
  <2>4. CASE StatusAfterInfra(NewAttempts(i)) = "dead_letter"
    <3>1. Lifecycle!GiveUp(cur[i])
      BY <1>19, <2>1, <2>2, <2>4
      DEF RecordInfraError, Lifecycle!GiveUp, Lifecycle!Move
    <3>. QED
      BY <2>1, <3>1 DEF AbstractStep, Lifecycle!LNext
  <2>5. CASE StatusAfterInfra(NewAttempts(i)) = "pending"
    <3>1. Lifecycle!Requeue({cur[i]})
      BY <1>19, <2>1, <2>2, <2>3, <2>5 DEF RecordInfraError, Lifecycle!Requeue
    <3>. QED
      BY <2>1, <3>1 DEF AbstractStep, Lifecycle!LNext
  <2>. QED
    BY <2>4, <2>5 DEF StatusAfterInfra
<1>20. ASSUME NEW i \in Instances, Crash(i)
      PROVE  AbstractStep
  BY <1>20, GoDownStutters DEF Crash
<1>21. ASSUME NEW i \in Instances, Exit(i)
      PROVE  AbstractStep
  BY <1>21, GoDownStutters DEF Exit
<1>22. ASSUME NEW i \in Instances, Boot(i)
      PROVE  AbstractStep
  <2>1. Outstanding' = Outstanding
    BY <1>22, CallsSame DEF Boot
  <2>2. CASE ResetStaleProcessing
    <3>1. Lifecycle!Requeue({o \in Orders : Stale(o)})
      BY <1>22, <2>1, <2>2 DEF Boot, ResetStaleProcessing, Stale, Lifecycle!Requeue
    <3>2. {o \in Orders : Stale(o)} \in SUBSET Orders
      OBVIOUS
    <3>. QED
      BY <3>1, <3>2 DEF AbstractStep, Lifecycle!LNext
  <2>3. CASE UNCHANGED rowVars
    BY <1>22, <2>1, <2>3, Stutter DEF Boot
  <2>. QED
    BY <1>22, <2>2, <2>3 DEF Boot
<1>23. ASSUME NEW i \in Instances, NEW o \in Orders, MarkOrderProcessing(i, o)
      PROVE  AbstractStep
  <2>1. Outstanding' = Outstanding
    BY <1>23, CallsSame DEF MarkOrderProcessing
  <2>2. Lifecycle!Take(o)
    BY <1>23, <2>1
    DEF MarkOrderProcessing, SetProcessing, Lifecycle!Take, Lifecycle!Move
  <2>. QED
    BY <2>2 DEF AbstractStep, Lifecycle!LNext
<1>24. ASSUME NEW i \in Instances, NEW o \in Orders, SkipOrder(i, o)
      PROVE  AbstractStep
  <2>1. Outstanding' = Outstanding
    BY <1>24, OutstandingSame DEF SkipOrder, Calling
  <2>. QED
    BY <1>24, <2>1, Stutter DEF SkipOrder
<1>25. ASSUME NEW i \in Instances, NEW o \in Orders, MarkOrderProcessingFails(i, o)
      PROVE  AbstractStep
  <2>1. Outstanding' = Outstanding
    BY <1>25, CallsSame DEF MarkOrderProcessingFails, EndBatch
  <2>2. CASE UNCHANGED <<status, age>>
    BY <1>25, <2>1, <2>2, Stutter DEF MarkOrderProcessingFails
  <2>3. CASE SetProcessing(o)
    <3>1. Lifecycle!Take(o)
      BY <1>25, <2>1, <2>3
      DEF MarkOrderProcessingFails, SetProcessing, Lifecycle!Take, Lifecycle!Move
    <3>. QED
      BY <3>1 DEF AbstractStep, Lifecycle!LNext
  <2>. QED
    BY <1>25, <2>2, <2>3 DEF MarkOrderProcessingFails
<1>26. ASSUME TimePasses
      PROVE  AbstractStep
  <2>1. Outstanding' = Outstanding
    BY <1>26, OutstandingSame DEF TimePasses, Calling
  <2>. QED
    BY <1>26, <2>1, Stutter DEF TimePasses
<1>27. CASE UNCHANGED vars
  <2>1. Outstanding' = Outstanding
    BY <1>27, OutstandingSame DEF Calling, vars
  <2>. QED
    BY <1>27, <2>1, Stutter DEF vars
<1>. QED
  BY <1>1, <1>2, <1>3, <1>4, <1>5, <1>6, <1>7, <1>8, <1>9, <1>10,
     <1>11, <1>12, <1>13, <1>14, <1>15, <1>16, <1>17, <1>18, <1>19,
     <1>20, <1>21, <1>22, <1>23, <1>24, <1>25, <1>26, <1>27
  DEF Next, Claim, Submit, Record

\* The processor's initial states are the lifecycle's.
LEMMA InitSimulation == Init => Lifecycle!LInit
BY DEF Init, Lifecycle!LInit, Outstanding

\* The batch processor implements the order lifecycle, for all constants.
THEOREM ProcessorImplementsLifecycle == Spec => ImplementsLifecycle
BY InitSimulation, StepSimulation, Inductive, PTL
DEF Spec, ImplementsLifecycle, Lifecycle!LSpec, AbstractStep

=============================================================================
