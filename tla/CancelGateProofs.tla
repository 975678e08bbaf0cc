-------------------------- MODULE CancelGateProofs --------------------------
(***************************************************************************)
(* What the runs of CancelGate check on small instances, proved for any    *)
(* orders, webhook ids and concurrent requests, and any number of status   *)
(* changes and faults.                                                     *)
(***************************************************************************)
EXTENDS CancelGate, TLAPS

\* A webhook that was sent is about an order.
HookInv == \A w \in Hooks : delivery[w] # "unsent" => hook[w] \in Orders

\* A request has a webhook in hand that was sent, and has lived through the
\* present status of its order.
RequestInv ==
    \A h \in Handlers : InHand(h) =>
       /\ req[h] \in Hooks
       /\ delivery[req[h]] # "unsent"
       /\ sor[hook[req[h]]] \in during[h]

\* The disposition a request is about to record fits what it lived through.
DispositionInv ==
    \A h \in Handlers : pc[h] = "insert" =>
       disp[h] \in Disposition /\ FitsOneOf(disp[h], during[h])

SafeInv ==
    TypeOK /\ HookInv /\ RequestInv /\ DispositionInv
    /\ VerdictWasTrue /\ AckedIsRecorded
-----------------------------------------------------------------------------
\* A verdict that fits some statuses fits more of them.
LEMMA FitsMore ==
    ASSUME NEW d, NEW cs, NEW ds, cs \subseteq ds, FitsOneOf(d, cs)
    PROVE  FitsOneOf(d, ds)
BY DEF FitsOneOf

\* Classify's verdict fits the status it was given, if it was given one.
LEMMA ClassifyFits ==
    ASSUME NEW c, NEW cs, c \in cs \/ c = "nil"
    PROVE  Classify(c) \in Disposition /\ FitsOneOf(Classify(c), cs)
BY DEF Classify, FitsOneOf, Disposition, CancelledCodes

\* The initial state satisfies the invariant.
LEMMA SafeInit == Init => SafeInv
BY GateAssumption
   DEF Init, SafeInv, TypeOK, HookInv, RequestInv, DispositionInv,
       VerdictWasTrue, AckedIsRecorded, FitsOneOf, NoRecord, NoOrder, NoRequest,
       NoDisposition, NotRead, Row, Delivery, InHand

\* Every action keeps it.
LEMMA SafeStep == SafeInv /\ [Next]_vars => SafeInv'
<1> SUFFICES ASSUME SafeInv, [Next]_vars
             PROVE  SafeInv'
  OBVIOUS
<1> USE GateAssumption
    DEF SafeInv, TypeOK, HookInv, RequestInv, DispositionInv, VerdictWasTrue,
        AckedIsRecorded, NoRecord, NoOrder, NoRequest, NoDisposition,
        NotRead, Row, Delivery, vars, orderVars, hookVars, requestVars, InHand
<1>1. ASSUME NEW o \in Orders, StageOrder(o)
      PROVE  SafeInv'
  BY <1>1 DEF StageOrder
<1>2. ASSUME NEW o \in Orders, MarkOrderProcessing(o)
      PROVE  SafeInv'
  BY <1>2 DEF MarkOrderProcessing
<1>3. ASSUME NEW o \in Orders, SubmissionFails(o)
      PROVE  SafeInv'
  BY <1>3 DEF SubmissionFails
<1>4. ASSUME NEW o \in Orders, UpdateOrderSubmitted(o)
      PROVE  SafeInv'
  BY <1>4 DEF UpdateOrderSubmitted
<1>5. ASSUME NEW o \in Orders, NEW c \in Codes, SysproImports(o, c)
      PROVE  SafeInv'
  <2>1. SetStatus(o, c)
    BY <1>5 DEF SysproImports
  <2>2. /\ UNCHANGED <<hookVars, rec, requestVars>>
        /\ moves' = moves /\ faults' = faults /\ row' = row
        /\ taken' \subseteq Orders /\ late' = late /\ lost' = lost
    BY <1>5 DEF SysproImports
  <2>3. /\ sor' \in [Orders -> Codes \cup {"none"}]
        /\ during' \in [Handlers -> SUBSET (Codes \cup {"none"})]
    BY <2>1 DEF SetStatus
  <2>4. \A h \in Handlers : during[h] \subseteq during'[h]
    BY <2>1 DEF SetStatus
  <2>5. TypeOK'
    BY <2>2, <2>3
  <2>6. HookInv' /\ VerdictWasTrue' /\ AckedIsRecorded'
    BY <2>2
  <2>7. RequestInv'
    BY <2>1, <2>2, <2>4 DEF SetStatus
  <2>8. DispositionInv'
    BY <2>2, <2>4, FitsMore
  <2>. QED
    BY <2>5, <2>6, <2>7, <2>8
<1>6. ASSUME NEW o \in Orders, NEW c \in Codes, SysproMoves(o, c)
      PROVE  SafeInv'
  <2>1. SetStatus(o, c)
    BY <1>6 DEF SysproMoves
  <2>2. /\ UNCHANGED <<hookVars, rec, requestVars>>
        /\ moves' \in 0..MaxMoves /\ faults' = faults /\ row' = row
        /\ UNCHANGED <<taken, late, lost>>
    BY <1>6 DEF SysproMoves
  <2>3. /\ sor' \in [Orders -> Codes \cup {"none"}]
        /\ during' \in [Handlers -> SUBSET (Codes \cup {"none"})]
    BY <2>1 DEF SetStatus
  <2>4. \A h \in Handlers : during[h] \subseteq during'[h]
    BY <2>1 DEF SetStatus
  <2>5. TypeOK'
    BY <2>2, <2>3
  <2>6. HookInv' /\ VerdictWasTrue' /\ AckedIsRecorded'
    BY <2>2
  <2>7. RequestInv'
    BY <2>1, <2>2, <2>4 DEF SetStatus
  <2>8. DispositionInv'
    BY <2>2, <2>4, FitsMore
  <2>. QED
    BY <2>5, <2>6, <2>7, <2>8
<1>7. ASSUME NEW w \in Hooks, DropWebhook(w)
      PROVE  SafeInv'
  BY <1>7 DEF DropWebhook
<1>8. ASSUME NEW o \in Orders, NEW w \in Hooks, CancelOrder(o, w)
      PROVE  SafeInv'
  BY <1>8 DEF CancelOrder
<1>9. ASSUME NEW w \in Hooks, DuplicateWebhook(w)
      PROVE  SafeInv'
  <2>1. /\ UNCHANGED <<hook, orderVars, rec, requestVars, during, faults>>
        /\ rec[w] # NoRecord
    BY <1>9 DEF DuplicateWebhook
  <2>2. /\ delivery' \in [Hooks -> Delivery]
        /\ \A v \in Hooks : delivery'[v] # "unsent" <=> delivery[v] # "unsent"
        /\ \A v \in Hooks \ {w} : delivery'[v] = delivery[v]
    BY <1>9 DEF DuplicateWebhook, Respond200
  <2>3. TypeOK' /\ HookInv' /\ RequestInv'
    BY <2>1, <2>2
  <2>4. DispositionInv' /\ VerdictWasTrue'
    BY <2>1
  <2>5. AckedIsRecorded'
    BY <2>1, <2>2
  <2>. QED
    BY <2>3, <2>4, <2>5
<1>10. ASSUME NEW h \in Handlers, NEW w \in Hooks, Receive(h, w)
      PROVE  SafeInv'
  BY <1>10 DEF Receive
<1>11. ASSUME NEW h \in Handlers, GetOrderByShopifyID(h)
      PROVE  SafeInv'
  <2>1. UNCHANGED <<req, orderVars, hookVars, rec, during, faults>>
    BY <1>11 DEF GetOrderByShopifyID
  <2>2. /\ "CancellablePreSYSPRO" \in Disposition
        /\ \A cs : FitsOneOf("CancellablePreSYSPRO", cs)
    BY DEF Disposition, FitsOneOf
  <2>5. /\ pc[h] = "lookup"
        /\ \/ pc' = [pc EXCEPT ![h] = "sorqry"] /\ disp' = disp
           \/ /\ pc' = [pc EXCEPT ![h] = "insert"]
              /\ disp' = [disp EXCEPT ![h] = "CancellablePreSYSPRO"]
        /\ seen' = [seen EXCEPT ![h] = row[hook[req[h]]]]
    BY <1>11 DEF GetOrderByShopifyID
  <2>6. row[hook[req[h]]] \in Row
    BY <2>5
  <2>3. TypeOK' /\ HookInv' /\ RequestInv' /\ VerdictWasTrue' /\ AckedIsRecorded'
    BY <2>1, <2>2, <2>5, <2>6
  <2>4. DispositionInv'
    BY <1>11, <2>1, <2>2 DEF GetOrderByShopifyID
  <2>. QED
    BY <2>3, <2>4
<1>12. ASSUME NEW h \in Handlers, QueryOrder(h)
      PROVE  SafeInv'
  <2>1. UNCHANGED <<req, seen, orderVars, hookVars, rec, during, faults>>
    BY <1>12 DEF QueryOrder
  <2>2. PICK d \in Disposition :
           /\ disp' = [disp EXCEPT ![h] = d]
           /\ FitsOneOf(d, during[h])
    BY <1>12, ClassifyFits DEF QueryOrder
  <2>3. pc' = [pc EXCEPT ![h] = "insert"] /\ InHand(h)
    BY <1>12 DEF QueryOrder
  <2>4. TypeOK' /\ HookInv' /\ RequestInv' /\ VerdictWasTrue' /\ AckedIsRecorded'
    BY <2>1, <2>2, <2>3
  <2>5. DispositionInv'
    BY <2>1, <2>2, <2>3
  <2>. QED
    BY <2>4, <2>5
<1>13. ASSUME NEW h \in Handlers, QueryFails(h)
      PROVE  SafeInv'
  <2>1. UNCHANGED <<req, seen, orderVars, hookVars, rec, during, faults>>
    BY <1>13 DEF QueryFails
  <2>2. PICK d \in Disposition :
           /\ disp' = [disp EXCEPT ![h] = d]
           /\ FitsOneOf(d, during[h])
    BY <1>13, ClassifyFits DEF QueryFails
  <2>3. pc' = [pc EXCEPT ![h] = "insert"] /\ InHand(h)
    BY <1>13 DEF QueryFails
  <2>4. TypeOK' /\ HookInv' /\ RequestInv' /\ VerdictWasTrue' /\ AckedIsRecorded'
    BY <2>1, <2>2, <2>3
  <2>5. DispositionInv'
    BY <2>1, <2>2, <2>3
  <2>. QED
    BY <2>4, <2>5
<1>14. ASSUME NEW h \in Handlers, CreateCancellation(h)
      PROVE  SafeInv'
  <2>1. /\ UNCHANGED <<hook, orderVars, faults>>
        /\ pc[h] = "insert" /\ InHand(h)
    BY <1>14 DEF CreateCancellation
  <2>2. /\ delivery' \in [Hooks -> Delivery]
        /\ \A w \in Hooks : delivery'[w] # "unsent" <=> delivery[w] # "unsent"
        /\ \A w \in Hooks \ {req[h]} : delivery'[w] = delivery[w]
    BY <1>14 DEF CreateCancellation, Respond200
  <2>3. /\ pc' = [pc EXCEPT ![h] = "idle"]
        /\ req' = [req EXCEPT ![h] = NoRequest]
        /\ disp' = [disp EXCEPT ![h] = NoDisposition]
        /\ during' = [during EXCEPT ![h] = {}]
        /\ seen' = [seen EXCEPT ![h] = NotRead]
    BY <1>14 DEF CreateCancellation, EndRequest, Leave
  <2>4. \/ rec' = rec /\ rec[req[h]] # NoRecord
        \/ rec' = [rec EXCEPT ![req[h]] = Verdict(h)]
    BY <1>14 DEF CreateCancellation, InsertRow
  <2>0. Verdict(h) \in [disposition : Disposition \cup {NoDisposition},
                        during : SUBSET (Codes \cup {"none"}),
                        seen : Row \cup {NotRead}]
    BY DEF Verdict
  <2>5. TypeOK'
    BY <2>0, <2>1, <2>2, <2>3, <2>4
  <2>6. HookInv' /\ RequestInv' /\ DispositionInv'
    BY <2>1, <2>2, <2>3
  <2>7. VerdictWasTrue'
    BY <2>1, <2>4 DEF Verdict
  <2>8. NoDisposition \notin Disposition
    BY DEF Disposition
  <2>9. AckedIsRecorded'
    BY <2>1, <2>2, <2>4, <2>8 DEF Verdict
  <2>. QED
    BY <2>5, <2>6, <2>7, <2>9
<1>15. ASSUME NEW h \in Handlers, RequestFails(h)
      PROVE  SafeInv'
  BY <1>15 DEF RequestFails, Fault, EndRequest, Leave
<1>16. ASSUME NEW h \in Handlers, InsertAnswerLost(h)
      PROVE  SafeInv'
  BY <1>16 DEF InsertAnswerLost, Fault, InsertRow, Verdict, EndRequest, Leave
<1>17. CASE UNCHANGED vars
  BY <1>17
<1>18. ASSUME NEW o \in Orders, AnswerLost(o)
      PROVE  SafeInv'
  BY <1>18 DEF AnswerLost, Fault
<1>19. ASSUME NEW o \in Orders, NEW c \in Codes, ResubmitOrder(o, c)
      PROVE  SafeInv'
  <2>1. SetStatus(o, c)
    BY <1>19 DEF ResubmitOrder
  <2>2. /\ UNCHANGED <<hookVars, rec, requestVars, taken, late, lost, moves, faults>>
        /\ row' \in [Orders -> Row]
    BY <1>19 DEF ResubmitOrder
  <2>3. /\ sor' \in [Orders -> Codes \cup {"none"}]
        /\ during' \in [Handlers -> SUBSET (Codes \cup {"none"})]
    BY <2>1 DEF SetStatus
  <2>4. \A h \in Handlers : during[h] \subseteq during'[h]
    BY <2>1 DEF SetStatus
  <2>5. TypeOK'
    BY <2>2, <2>3
  <2>6. HookInv' /\ VerdictWasTrue' /\ AckedIsRecorded'
    BY <2>2
  <2>7. RequestInv'
    BY <2>1, <2>2, <2>4 DEF SetStatus
  <2>8. DispositionInv'
    BY <2>2, <2>4, FitsMore
  <2>. QED
    BY <2>5, <2>6, <2>7, <2>8
<1>20. ASSUME NEW o \in Orders, NEW c \in Codes, SysproImportsLate(o, c)
      PROVE  SafeInv'
  <2>1. SetStatus(o, c)
    BY <1>20 DEF SysproImportsLate
  <2>2. /\ UNCHANGED <<row, hookVars, rec, requestVars, taken, lost, moves, faults>>
        /\ late' \subseteq Orders
    BY <1>20 DEF SysproImportsLate
  <2>3. /\ sor' \in [Orders -> Codes \cup {"none"}]
        /\ during' \in [Handlers -> SUBSET (Codes \cup {"none"})]
    BY <2>1 DEF SetStatus
  <2>4. \A h \in Handlers : during[h] \subseteq during'[h]
    BY <2>1 DEF SetStatus
  <2>5. TypeOK'
    BY <2>2, <2>3
  <2>6. HookInv' /\ VerdictWasTrue' /\ AckedIsRecorded'
    BY <2>2
  <2>7. RequestInv'
    BY <2>1, <2>2, <2>4 DEF SetStatus
  <2>8. DispositionInv'
    BY <2>2, <2>4, FitsMore
  <2>. QED
    BY <2>5, <2>6, <2>7, <2>8
<1>21. ASSUME NEW h \in Handlers, HangUp(h)
      PROVE  SafeInv'
  BY <1>21 DEF HangUp, Leave
<1>22. ASSUME NEW h \in Handlers, CutOff(h)
      PROVE  SafeInv'
  BY <1>22 DEF CutOff
<1>. QED
  BY <1>1, <1>2, <1>3, <1>4, <1>5, <1>6, <1>7, <1>8, <1>9, <1>10, <1>11,
     <1>12, <1>13, <1>14, <1>15, <1>16, <1>17, <1>18, <1>19, <1>20,
     <1>21, <1>22
     DEF Next, OrderStep, ShopifyStep, HandlerStep, Answer


\* The inductive invariant holds of every behaviour.
THEOREM GateInductive == Spec => []SafeInv
<1>. QED
  BY SafeInit, SafeStep, PTL DEF Spec

\* The type invariant of the handler and the table holds in every reachable
\* state.
THEOREM GateTypeCorrect == Spec => []TypeOK
<1>1. SafeInv => TypeOK
  BY DEF SafeInv
<1>. QED
  BY <1>1, GateInductive, PTL

\* The disposition CreateCancellation records was true of the order at some
\* moment of the request, whatever SYSPRO and the other requests do meanwhile.
THEOREM VerdictsWereTrue == Spec => []VerdictWasTrue
<1>1. SafeInv => VerdictWasTrue
  BY DEF SafeInv
<1>. QED
  BY <1>1, GateInductive, PTL

\* The handler answers 200 only for webhooks whose verdict is in the table.
THEOREM AckedAreRecorded == Spec => []AckedIsRecorded
<1>1. SafeInv => AckedIsRecorded
  BY DEF SafeInv
<1>. QED
  BY <1>1, GateInductive, PTL

\* No action rewrites a verdict.
LEMMA FinalStep ==
    SafeInv /\ [Next]_vars =>
       [\A w \in Hooks : rec[w] # NoRecord => rec'[w] = rec[w]]_vars
<1> SUFFICES ASSUME SafeInv, [Next]_vars, NEW v \in Hooks, rec[v] # NoRecord
             PROVE  rec'[v] = rec[v]
  OBVIOUS
<1> USE DEF SafeInv, TypeOK, RequestInv, vars, orderVars, hookVars, requestVars, InHand
<1>1. ASSUME NEW o \in Orders, StageOrder(o)
      PROVE  rec'[v] = rec[v]
  BY <1>1 DEF StageOrder
<1>2. ASSUME NEW o \in Orders, MarkOrderProcessing(o)
      PROVE  rec'[v] = rec[v]
  BY <1>2 DEF MarkOrderProcessing
<1>3. ASSUME NEW o \in Orders, SubmissionFails(o)
      PROVE  rec'[v] = rec[v]
  BY <1>3 DEF SubmissionFails
<1>4. ASSUME NEW o \in Orders, UpdateOrderSubmitted(o)
      PROVE  rec'[v] = rec[v]
  BY <1>4 DEF UpdateOrderSubmitted
<1>5. ASSUME NEW o \in Orders, NEW c \in Codes, SysproImports(o, c)
      PROVE  rec'[v] = rec[v]
  BY <1>5 DEF SysproImports, SetStatus
<1>6. ASSUME NEW o \in Orders, NEW c \in Codes, SysproMoves(o, c)
      PROVE  rec'[v] = rec[v]
  BY <1>6 DEF SysproMoves, SetStatus
<1>7. ASSUME NEW w \in Hooks, DropWebhook(w)
      PROVE  rec'[v] = rec[v]
  BY <1>7 DEF DropWebhook
<1>8. ASSUME NEW o \in Orders, NEW w \in Hooks, CancelOrder(o, w)
      PROVE  rec'[v] = rec[v]
  BY <1>8 DEF CancelOrder
<1>9. ASSUME NEW w \in Hooks, DuplicateWebhook(w)
      PROVE  rec'[v] = rec[v]
  BY <1>9 DEF DuplicateWebhook, Respond200
<1>10. ASSUME NEW h \in Handlers, NEW w \in Hooks, Receive(h, w)
      PROVE  rec'[v] = rec[v]
  BY <1>10 DEF Receive
<1>11. ASSUME NEW h \in Handlers, GetOrderByShopifyID(h)
      PROVE  rec'[v] = rec[v]
  BY <1>11 DEF GetOrderByShopifyID
<1>12. ASSUME NEW h \in Handlers, QueryOrder(h)
      PROVE  rec'[v] = rec[v]
  BY <1>12 DEF QueryOrder
<1>13. ASSUME NEW h \in Handlers, QueryFails(h)
      PROVE  rec'[v] = rec[v]
  BY <1>13 DEF QueryFails
<1>14. ASSUME NEW h \in Handlers, CreateCancellation(h)
      PROVE  rec'[v] = rec[v]
  BY <1>14 DEF CreateCancellation, InsertRow, Verdict, Respond200, EndRequest, Leave
<1>15. ASSUME NEW h \in Handlers, RequestFails(h)
      PROVE  rec'[v] = rec[v]
  BY <1>15 DEF RequestFails, Fault, EndRequest, Leave
<1>16. ASSUME NEW h \in Handlers, InsertAnswerLost(h)
      PROVE  rec'[v] = rec[v]
  BY <1>16 DEF InsertAnswerLost, Fault, InsertRow, Verdict, EndRequest, Leave
<1>17. CASE UNCHANGED vars
  BY <1>17
<1>18. ASSUME NEW o \in Orders, AnswerLost(o)
      PROVE  rec'[v] = rec[v]
  BY <1>18 DEF AnswerLost
<1>19. ASSUME NEW o \in Orders, NEW c \in Codes, ResubmitOrder(o, c)
      PROVE  rec'[v] = rec[v]
  BY <1>19 DEF ResubmitOrder, SetStatus
<1>20. ASSUME NEW o \in Orders, NEW c \in Codes, SysproImportsLate(o, c)
      PROVE  rec'[v] = rec[v]
  BY <1>20 DEF SysproImportsLate, SetStatus
<1>21. ASSUME NEW h \in Handlers, HangUp(h)
      PROVE  rec'[v] = rec[v]
  BY <1>21 DEF HangUp, Leave
<1>22. ASSUME NEW h \in Handlers, CutOff(h)
      PROVE  rec'[v] = rec[v]
  BY <1>22 DEF CutOff
<1>. QED
  BY <1>1, <1>2, <1>3, <1>4, <1>5, <1>6, <1>7, <1>8, <1>9, <1>10, <1>11,
     <1>12, <1>13, <1>14, <1>15, <1>16, <1>17, <1>18, <1>19, <1>20,
     <1>21, <1>22
     DEF Next, OrderStep, ShopifyStep, HandlerStep, Answer


\* The unique constraint on webhook_id makes the first verdict final, however
\* many requests for one webhook pass CancellationExists together.
THEOREM VerdictsAreFinal == Spec => VerdictIsFinal
<1>. QED
  BY GateInductive, FinalStep, PTL DEF Spec, VerdictIsFinal

-----------------------------------------------------------------------------
(* Orders recorded as never submitted.                                     *)

\* A row that is not in flight, submitted or the victim of a lost answer is right
\* about SYSPRO not having the order.
RowInv ==
    \A o \in Orders :
       /\ o \in taken => row[o] = "processing"
       /\ o \in late => o \in lost
       /\ row[o] \in {"absent", "queued", "processing"} =>
             sor[o] = "none" \/ o \in taken \/ o \in lost

\* The webhook of a verdict was sent: the order it is about stays the same.
RecordInv == \A w \in Hooks : rec[w] # NoRecord => delivery[w] # "unsent"

\* A request about to record an order as never submitted has the explanation.
PreSysproInv ==
    \A h \in Handlers : pc[h] = "insert" /\ disp[h] = "CancellablePreSYSPRO" =>
       \/ "none" \in during[h]
       \/ seen[h] \in {"processing", "untraced"}
       \/ hook[req[h]] \in lost

\* Every action keeps the rows right about SYSPRO.
LEMMA RowStep ==
    ASSUME SafeInv, RowInv, [Next]_vars
    PROVE  RowInv'
<1> USE DEF SafeInv, TypeOK, RowInv, Row, vars, orderVars, hookVars, requestVars, InHand
<1>1. ASSUME NEW o \in Orders, StageOrder(o)
      PROVE  RowInv'
  BY <1>1 DEF StageOrder
<1>2. ASSUME NEW o \in Orders, MarkOrderProcessing(o)
      PROVE  RowInv'
  BY <1>2 DEF MarkOrderProcessing
<1>3. ASSUME NEW o \in Orders, SubmissionFails(o)
      PROVE  RowInv'
  BY <1>3 DEF SubmissionFails
<1>4. ASSUME NEW o \in Orders, UpdateOrderSubmitted(o)
      PROVE  RowInv'
  BY <1>4 DEF UpdateOrderSubmitted
<1>5. ASSUME NEW o \in Orders, AnswerLost(o)
      PROVE  RowInv'
  BY <1>5 DEF AnswerLost
<1>6. ASSUME NEW o \in Orders, NEW c \in Codes, SysproImports(o, c)
      PROVE  RowInv'
  BY <1>6 DEF SysproImports, SetStatus
<1>7. ASSUME NEW o \in Orders, NEW c \in Codes, SysproMoves(o, c)
      PROVE  RowInv'
  BY <1>7 DEF SysproMoves, SetStatus
<1>8. ASSUME NEW o \in Orders, NEW c \in Codes, ResubmitOrder(o, c)
      PROVE  RowInv'
  BY <1>8 DEF ResubmitOrder, SetStatus
<1>9. ASSUME NEW w \in Hooks, DropWebhook(w)
      PROVE  RowInv'
  BY <1>9 DEF DropWebhook
<1>10. ASSUME NEW o \in Orders, NEW w \in Hooks, CancelOrder(o, w)
      PROVE  RowInv'
  BY <1>10 DEF CancelOrder
<1>11. ASSUME NEW w \in Hooks, DuplicateWebhook(w)
      PROVE  RowInv'
  BY <1>11 DEF DuplicateWebhook, Respond200
<1>12. ASSUME NEW h \in Handlers, NEW w \in Hooks, Receive(h, w)
      PROVE  RowInv'
  BY <1>12 DEF Receive
<1>13. ASSUME NEW h \in Handlers, GetOrderByShopifyID(h)
      PROVE  RowInv'
  BY <1>13 DEF GetOrderByShopifyID
<1>14. ASSUME NEW h \in Handlers, QueryOrder(h)
      PROVE  RowInv'
  BY <1>14 DEF QueryOrder
<1>15. ASSUME NEW h \in Handlers, QueryFails(h)
      PROVE  RowInv'
  BY <1>15 DEF QueryFails
<1>16. ASSUME NEW h \in Handlers, CreateCancellation(h)
      PROVE  RowInv'
  BY <1>16 DEF CreateCancellation, InsertRow, Verdict, Respond200, EndRequest, Leave
<1>17. ASSUME NEW h \in Handlers, RequestFails(h)
      PROVE  RowInv'
  BY <1>17 DEF RequestFails, EndRequest, Leave
<1>18. ASSUME NEW h \in Handlers, InsertAnswerLost(h)
      PROVE  RowInv'
  BY <1>18 DEF InsertAnswerLost, InsertRow, Verdict, EndRequest, Leave
<1>19. CASE UNCHANGED vars
  BY <1>19
<1>20. ASSUME NEW o \in Orders, NEW c \in Codes, SysproImportsLate(o, c)
      PROVE  RowInv'
  BY <1>20 DEF SysproImportsLate, SetStatus
<1>21. ASSUME NEW h \in Handlers, HangUp(h)
      PROVE  RowInv'
  BY <1>21 DEF HangUp, Leave
<1>22. ASSUME NEW h \in Handlers, CutOff(h)
      PROVE  RowInv'
  BY <1>22 DEF CutOff
<1>. QED
  BY <1>1, <1>2, <1>3, <1>4, <1>5, <1>6, <1>7, <1>8, <1>9, <1>10,
     <1>11, <1>12, <1>13, <1>14, <1>15, <1>16, <1>17, <1>18, <1>19, <1>20,
     <1>21, <1>22
     DEF Next, OrderStep, ShopifyStep, HandlerStep, Answer

\* Every action keeps verdicts to webhooks that were sent.
LEMMA RecordStep ==
    ASSUME SafeInv, RecordInv, [Next]_vars
    PROVE  RecordInv'
<1> USE DEF SafeInv, TypeOK, RequestInv, RecordInv, Delivery, vars, orderVars, hookVars,
            requestVars, InHand
<1>1. ASSUME NEW o \in Orders, StageOrder(o)
      PROVE  RecordInv'
  BY <1>1 DEF StageOrder
<1>2. ASSUME NEW o \in Orders, MarkOrderProcessing(o)
      PROVE  RecordInv'
  BY <1>2 DEF MarkOrderProcessing
<1>3. ASSUME NEW o \in Orders, SubmissionFails(o)
      PROVE  RecordInv'
  BY <1>3 DEF SubmissionFails
<1>4. ASSUME NEW o \in Orders, UpdateOrderSubmitted(o)
      PROVE  RecordInv'
  BY <1>4 DEF UpdateOrderSubmitted
<1>5. ASSUME NEW o \in Orders, AnswerLost(o)
      PROVE  RecordInv'
  BY <1>5 DEF AnswerLost
<1>6. ASSUME NEW o \in Orders, NEW c \in Codes, SysproImports(o, c)
      PROVE  RecordInv'
  BY <1>6 DEF SysproImports, SetStatus
<1>7. ASSUME NEW o \in Orders, NEW c \in Codes, SysproMoves(o, c)
      PROVE  RecordInv'
  BY <1>7 DEF SysproMoves, SetStatus
<1>8. ASSUME NEW o \in Orders, NEW c \in Codes, ResubmitOrder(o, c)
      PROVE  RecordInv'
  BY <1>8 DEF ResubmitOrder, SetStatus
<1>9. ASSUME NEW w \in Hooks, DropWebhook(w)
      PROVE  RecordInv'
  BY <1>9 DEF DropWebhook
<1>10. ASSUME NEW o \in Orders, NEW w \in Hooks, CancelOrder(o, w)
      PROVE  RecordInv'
  BY <1>10 DEF CancelOrder
<1>11. ASSUME NEW w \in Hooks, DuplicateWebhook(w)
      PROVE  RecordInv'
  BY <1>11 DEF DuplicateWebhook, Respond200
<1>12. ASSUME NEW h \in Handlers, NEW w \in Hooks, Receive(h, w)
      PROVE  RecordInv'
  BY <1>12 DEF Receive
<1>13. ASSUME NEW h \in Handlers, GetOrderByShopifyID(h)
      PROVE  RecordInv'
  BY <1>13 DEF GetOrderByShopifyID
<1>14. ASSUME NEW h \in Handlers, QueryOrder(h)
      PROVE  RecordInv'
  BY <1>14 DEF QueryOrder
<1>15. ASSUME NEW h \in Handlers, QueryFails(h)
      PROVE  RecordInv'
  BY <1>15 DEF QueryFails
<1>16. ASSUME NEW h \in Handlers, CreateCancellation(h)
      PROVE  RecordInv'
  BY <1>16 DEF CreateCancellation, InsertRow, Verdict, Respond200, EndRequest, Leave
<1>17. ASSUME NEW h \in Handlers, RequestFails(h)
      PROVE  RecordInv'
  BY <1>17 DEF RequestFails, EndRequest, Leave
<1>18. ASSUME NEW h \in Handlers, InsertAnswerLost(h)
      PROVE  RecordInv'
  BY <1>18 DEF InsertAnswerLost, InsertRow, Verdict, EndRequest, Leave
<1>19. CASE UNCHANGED vars
  BY <1>19
<1>20. ASSUME NEW o \in Orders, NEW c \in Codes, SysproImportsLate(o, c)
      PROVE  RecordInv'
  BY <1>20 DEF SysproImportsLate, SetStatus
<1>21. ASSUME NEW h \in Handlers, HangUp(h)
      PROVE  RecordInv'
  BY <1>21 DEF HangUp, Leave
<1>22. ASSUME NEW h \in Handlers, CutOff(h)
      PROVE  RecordInv'
  BY <1>22 DEF CutOff
<1>. QED
  BY <1>1, <1>2, <1>3, <1>4, <1>5, <1>6, <1>7, <1>8, <1>9, <1>10,
     <1>11, <1>12, <1>13, <1>14, <1>15, <1>16, <1>17, <1>18, <1>19, <1>20,
     <1>21, <1>22
     DEF Next, OrderStep, ShopifyStep, HandlerStep, Answer

\* Classify never says that an order was not submitted.
LEMMA ClassifyNeverPre == \A c : Classify(c) # "CancellablePreSYSPRO"
BY DEF Classify

\* Every action keeps the explanations of the requests.
LEMMA PreSysproStep ==
    ASSUME SafeInv, RowInv, PreSysproInv, [Next]_vars
    PROVE  PreSysproInv'
<1> USE DEF SafeInv, TypeOK, HookInv, RequestInv, RowInv, PreSysproInv, Row, vars,
            orderVars, hookVars, requestVars, InHand
<1>1. ASSUME NEW o \in Orders, StageOrder(o)
      PROVE  PreSysproInv'
  BY <1>1 DEF StageOrder
<1>2. ASSUME NEW o \in Orders, MarkOrderProcessing(o)
      PROVE  PreSysproInv'
  BY <1>2 DEF MarkOrderProcessing
<1>3. ASSUME NEW o \in Orders, SubmissionFails(o)
      PROVE  PreSysproInv'
  BY <1>3 DEF SubmissionFails
<1>4. ASSUME NEW o \in Orders, UpdateOrderSubmitted(o)
      PROVE  PreSysproInv'
  BY <1>4 DEF UpdateOrderSubmitted
<1>5. ASSUME NEW o \in Orders, AnswerLost(o)
      PROVE  PreSysproInv'
  BY <1>5 DEF AnswerLost
<1>6. ASSUME NEW o \in Orders, NEW c \in Codes, SysproImports(o, c)
      PROVE  PreSysproInv'
  BY <1>6 DEF SysproImports, SetStatus
<1>7. ASSUME NEW o \in Orders, NEW c \in Codes, SysproMoves(o, c)
      PROVE  PreSysproInv'
  BY <1>7 DEF SysproMoves, SetStatus
<1>8. ASSUME NEW o \in Orders, NEW c \in Codes, ResubmitOrder(o, c)
      PROVE  PreSysproInv'
  BY <1>8 DEF ResubmitOrder, SetStatus
<1>9. ASSUME NEW w \in Hooks, DropWebhook(w)
      PROVE  PreSysproInv'
  BY <1>9 DEF DropWebhook
<1>10. ASSUME NEW o \in Orders, NEW w \in Hooks, CancelOrder(o, w)
      PROVE  PreSysproInv'
  BY <1>10 DEF CancelOrder
<1>11. ASSUME NEW w \in Hooks, DuplicateWebhook(w)
      PROVE  PreSysproInv'
  BY <1>11 DEF DuplicateWebhook, Respond200
<1>12. ASSUME NEW h \in Handlers, NEW w \in Hooks, Receive(h, w)
      PROVE  PreSysproInv'
  BY <1>12 DEF Receive
<1>13. ASSUME NEW h \in Handlers, GetOrderByShopifyID(h)
      PROVE  PreSysproInv'
  BY <1>13 DEF GetOrderByShopifyID
<1>14. ASSUME NEW h \in Handlers, QueryOrder(h)
      PROVE  PreSysproInv'
  BY <1>14, ClassifyNeverPre DEF QueryOrder
<1>15. ASSUME NEW h \in Handlers, QueryFails(h)
      PROVE  PreSysproInv'
  BY <1>15, ClassifyNeverPre DEF QueryFails
<1>16. ASSUME NEW h \in Handlers, CreateCancellation(h)
      PROVE  PreSysproInv'
  BY <1>16 DEF CreateCancellation, InsertRow, Verdict, Respond200, EndRequest, Leave
<1>17. ASSUME NEW h \in Handlers, RequestFails(h)
      PROVE  PreSysproInv'
  BY <1>17 DEF RequestFails, EndRequest, Leave
<1>18. ASSUME NEW h \in Handlers, InsertAnswerLost(h)
      PROVE  PreSysproInv'
  BY <1>18 DEF InsertAnswerLost, InsertRow, Verdict, EndRequest, Leave
<1>19. CASE UNCHANGED vars
  BY <1>19
<1>20. ASSUME NEW o \in Orders, NEW c \in Codes, SysproImportsLate(o, c)
      PROVE  PreSysproInv'
  BY <1>20 DEF SysproImportsLate, SetStatus
<1>21. ASSUME NEW h \in Handlers, HangUp(h)
      PROVE  PreSysproInv'
  BY <1>21 DEF HangUp, Leave
<1>22. ASSUME NEW h \in Handlers, CutOff(h)
      PROVE  PreSysproInv'
  BY <1>22 DEF CutOff
<1>. QED
  BY <1>1, <1>2, <1>3, <1>4, <1>5, <1>6, <1>7, <1>8, <1>9, <1>10,
     <1>11, <1>12, <1>13, <1>14, <1>15, <1>16, <1>17, <1>18, <1>19, <1>20,
     <1>21, <1>22
     DEF Next, OrderStep, ShopifyStep, HandlerStep, Answer

\* Every action keeps the explanations of the verdicts.
LEMMA ExplainedStep ==
    ASSUME SafeInv, RecordInv, PreSysproInv, PreSysproIsExplained, [Next]_vars
    PROVE  PreSysproIsExplained'
<1> USE DEF SafeInv, TypeOK, RequestInv, RecordInv, PreSysproInv, PreSysproIsExplained,
            NoRecord, NoDisposition, vars, orderVars, hookVars, requestVars, InHand
<1>1. ASSUME NEW o \in Orders, StageOrder(o)
      PROVE  PreSysproIsExplained'
  BY <1>1 DEF StageOrder
<1>2. ASSUME NEW o \in Orders, MarkOrderProcessing(o)
      PROVE  PreSysproIsExplained'
  BY <1>2 DEF MarkOrderProcessing
<1>3. ASSUME NEW o \in Orders, SubmissionFails(o)
      PROVE  PreSysproIsExplained'
  BY <1>3 DEF SubmissionFails
<1>4. ASSUME NEW o \in Orders, UpdateOrderSubmitted(o)
      PROVE  PreSysproIsExplained'
  BY <1>4 DEF UpdateOrderSubmitted
<1>5. ASSUME NEW o \in Orders, AnswerLost(o)
      PROVE  PreSysproIsExplained'
  BY <1>5 DEF AnswerLost
<1>6. ASSUME NEW o \in Orders, NEW c \in Codes, SysproImports(o, c)
      PROVE  PreSysproIsExplained'
  BY <1>6 DEF SysproImports, SetStatus
<1>7. ASSUME NEW o \in Orders, NEW c \in Codes, SysproMoves(o, c)
      PROVE  PreSysproIsExplained'
  BY <1>7 DEF SysproMoves, SetStatus
<1>8. ASSUME NEW o \in Orders, NEW c \in Codes, ResubmitOrder(o, c)
      PROVE  PreSysproIsExplained'
  BY <1>8 DEF ResubmitOrder, SetStatus
<1>9. ASSUME NEW w \in Hooks, DropWebhook(w)
      PROVE  PreSysproIsExplained'
  BY <1>9 DEF DropWebhook
<1>10. ASSUME NEW o \in Orders, NEW w \in Hooks, CancelOrder(o, w)
      PROVE  PreSysproIsExplained'
  BY <1>10 DEF CancelOrder
<1>11. ASSUME NEW w \in Hooks, DuplicateWebhook(w)
      PROVE  PreSysproIsExplained'
  BY <1>11 DEF DuplicateWebhook, Respond200
<1>12. ASSUME NEW h \in Handlers, NEW w \in Hooks, Receive(h, w)
      PROVE  PreSysproIsExplained'
  BY <1>12 DEF Receive
<1>13. ASSUME NEW h \in Handlers, GetOrderByShopifyID(h)
      PROVE  PreSysproIsExplained'
  BY <1>13 DEF GetOrderByShopifyID
<1>14. ASSUME NEW h \in Handlers, QueryOrder(h)
      PROVE  PreSysproIsExplained'
  BY <1>14 DEF QueryOrder
<1>15. ASSUME NEW h \in Handlers, QueryFails(h)
      PROVE  PreSysproIsExplained'
  BY <1>15 DEF QueryFails
<1>16. ASSUME NEW h \in Handlers, CreateCancellation(h)
      PROVE  PreSysproIsExplained'
  BY <1>16 DEF CreateCancellation, InsertRow, Verdict, Respond200, EndRequest, Leave
<1>17. ASSUME NEW h \in Handlers, RequestFails(h)
      PROVE  PreSysproIsExplained'
  BY <1>17 DEF RequestFails, EndRequest, Leave
<1>18. ASSUME NEW h \in Handlers, InsertAnswerLost(h)
      PROVE  PreSysproIsExplained'
  BY <1>18 DEF InsertAnswerLost, InsertRow, Verdict, EndRequest, Leave
<1>19. CASE UNCHANGED vars
  BY <1>19
<1>20. ASSUME NEW o \in Orders, NEW c \in Codes, SysproImportsLate(o, c)
      PROVE  PreSysproIsExplained'
  BY <1>20 DEF SysproImportsLate, SetStatus
<1>21. ASSUME NEW h \in Handlers, HangUp(h)
      PROVE  PreSysproIsExplained'
  BY <1>21 DEF HangUp, Leave
<1>22. ASSUME NEW h \in Handlers, CutOff(h)
      PROVE  PreSysproIsExplained'
  BY <1>22 DEF CutOff
<1>. QED
  BY <1>1, <1>2, <1>3, <1>4, <1>5, <1>6, <1>7, <1>8, <1>9, <1>10,
     <1>11, <1>12, <1>13, <1>14, <1>15, <1>16, <1>17, <1>18, <1>19, <1>20,
     <1>21, <1>22
     DEF Next, OrderStep, ShopifyStep, HandlerStep, Answer

\* The handler's switch on the order number records an order as never submitted
\* only if SYSPRO did not have it at some moment of the request, or the row was
\* in flight, submitted by a clean import or told nothing of a submission.
THEOREM PreSysproVerdictsAreExplained == Spec => []PreSysproIsExplained
<1>1. Init => RowInv /\ RecordInv /\ PreSysproInv /\ PreSysproIsExplained
  BY DEF Init, RowInv, RecordInv, PreSysproInv, PreSysproIsExplained, NoRecord,
     NoDisposition
<1>2. SafeInv /\ RowInv /\ RecordInv /\ PreSysproInv /\ PreSysproIsExplained
         /\ [Next]_vars
      => RowInv' /\ RecordInv' /\ PreSysproInv' /\ PreSysproIsExplained'
  BY RowStep, RecordStep, PreSysproStep, ExplainedStep
<1>. QED
  BY <1>1, <1>2, GateInductive, PTL DEF Spec

=============================================================================
