--------------------------- MODULE BatchProcessor ---------------------------
(***************************************************************************)
(* The batch processor: it takes pending rows of the orders table, posts   *)
(* each one to SYSPRO as a SORTOI transaction and records the outcome.     *)
(*                                                                         *)
(* The actors are the service instances (each runs one batch at a time,    *)
(* internal/batch/processor.go), the database (internal/store/order.go),   *)
(* SYSPRO, the operator who retries orders, and time.  A SORTOI call is    *)
(* split at every point where another actor, a lost reply, a cancelled     *)
(* context or a crash can come between: claim, post, SYSPRO's work, the    *)
(* reply, the status update.                                               *)
(*                                                                         *)
(* Time advances in units of which a batch gets BatchTimeout before its    *)
(* context expires; a row left in 'processing' for more than StaleAfter    *)
(* units is handed back at the next boot.                                  *)
(***************************************************************************)
EXTENDS Integers, FiniteSets

CONSTANTS
    Instances,     \* processes of the service
    Orders,        \* ids of rows of the orders table, in order of created_at
    BatchLimit,    \* rows fetched per batch (100 in the code)
    MaxAttempts,   \* maxAttempts (3 in the code)
    BatchTimeout,  \* the batch context's timeout (5 minutes)
    StaleAfter,    \* the age ResetStaleProcessing is given (10 minutes)
    NetFaults,     \* may calls to SYSPRO fail, time out or lose their reply?
    DbFaults,      \* may statements of the database fail?
    MaxCrashes,    \* bound: kills of a process
    MaxDrains,     \* bound: graceful shutdowns
    MaxRetries     \* bound: uses of POST /orders/{id}/retry

ASSUME OrdersAssumption == Orders \subseteq Nat \ {0}

ASSUME LimitsAssumption ==
    /\ BatchLimit \in Nat \ {0}
    /\ MaxAttempts \in Nat \ {0}
    /\ MaxCrashes \in Nat
    /\ MaxDrains \in Nat
    /\ MaxRetries \in Nat

\* Five minutes against ten: an order still in the hands of a batch is never
\* old enough to be handed back.
ASSUME TimeAssumption ==
    /\ BatchTimeout \in Nat \ {0}
    /\ StaleAfter \in Nat
    /\ BatchTimeout <= StaleAfter

ASSUME FaultAssumption == NetFaults \in BOOLEAN /\ DbFaults \in BOOLEAN

VARIABLES
    \* The orders table.
    status,     \* status[o]
    attempts,   \* attempts[o]
    number,     \* syspro_order_number: n-th SYSPRO order made for o, 0 = ''
    age,        \* time since updated_at, kept while the row is 'processing'
    \* The batch of each instance.
    pc,         \* where the instance is
    todo,       \* fetched orders not yet started
    snap,       \* attempts of the fetched orders, as fetched
    cur,        \* the order being submitted, 0 = none
    reply,      \* SYSPRO's answer to the current call
    elapsed,    \* time since the batch context was made
    cancelled,  \* batchCancel has been called
    \* SYSPRO.
    posted,     \* posted[o]: SORTOI calls whose caller is gone, not yet done
    created,    \* created[o]: sales orders made for o
    \* History, for the properties only.
    lost,       \* lost[o]: posted attempts whose answer never reached the row
    sends,      \* sends[o]: SORTOI posts of o since its attempts were reset
    \* Bounds.
    crashes, drains, retries

rowVars == <<status, attempts, number, age>>
batchVars == <<pc, todo, snap, cur, reply, elapsed, cancelled>>
sysproVars == <<posted, created>>
historyVars == <<lost, sends>>
boundVars == <<crashes, drains, retries>>
vars == <<rowVars, batchVars, sysproVars, historyVars, boundVars>>

NoOrder == 0
NoSnap == [o \in Orders |-> 0]

Status == {"absent", "pending", "processing", "submitted", "failed",
           "dead_letter"}

PC == {"down", "idle", "opening", "loop", "claimed", "calling", "answered",
       "deciding"}

-----------------------------------------------------------------------------
(* SORTOI replies.                                                         *)

\* What a reply holds, as far as the code reads it: the SalesOrder element
\* (0 = empty), whether CustomerPoNumber is there, and ItemsProcessed.
Reply == [so : Nat, po : BOOLEAN, items : {"", "000000", "some"}]

\* No usable reply: transport error, HTTP error, timeout or unreadable XML.
NoReply == [so |-> 0, po |-> FALSE, items |-> "none"]

\* SYSPRO's answers to an import that made its n-th order for the row: with
\* the number when there were warnings, without an Order block otherwise.
AcceptReplies(n) ==
    {[so |-> n, po |-> TRUE, items |-> "some"],
     [so |-> 0, po |-> FALSE, items |-> "some"]}

RejectReplies ==
    {[so |-> 0, po |-> TRUE, items |-> "000000"],
     [so |-> 0, po |-> FALSE, items |-> "000000"],
     [so |-> 0, po |-> FALSE, items |-> ""]}

\* Mutants of Success: the clean import is read as a refusal; a reply without
\* an Order block is read as a clean import whatever was processed.
SuccessNeedsNumber(r) == r.so # 0
SuccessIgnoresItems(r) == r.so # 0 \/ ~r.po

\* parseSORTOIResponse: did SYSPRO take the order?
Success(r) ==
    \/ r.so # 0
    \/ /\ r.so = 0
       /\ ~r.po
       /\ r.items \notin {"", "000000"}

-----------------------------------------------------------------------------
(* Rows and batches.                                                       *)

Pending == {o \in Orders : status[o] = "pending"}

\* FetchPendingOrders: the oldest pending rows, at most BatchLimit of them.
Oldest(S) == {o \in S : Cardinality({p \in S : p < o}) < BatchLimit}

\* Mutant of Stale: the sweep ignores updated_at.
StaleAtOnce(o) == status[o] = "processing"

\* ResetStaleProcessing's WHERE clause.
Stale(o) == status[o] = "processing" /\ age[o] > StaleAfter

\* The instance holds a claimed order.
InFlight(i) == pc[i] \in {"claimed", "calling", "answered", "deciding"}

\* The batch context no longer lets a call through.
Expired(i) == elapsed[i] >= BatchTimeout
CtxDone(i) == cancelled[i] \/ Expired(i)

\* Leave the batch: drop what is left of it, close the session.
EndBatch(i) ==
    /\ pc' = [pc EXCEPT ![i] = "idle"]
    /\ todo' = [todo EXCEPT ![i] = {}]
    /\ snap' = [snap EXCEPT ![i] = NoSnap]
    /\ cur' = [cur EXCEPT ![i] = NoOrder]
    /\ reply' = [reply EXCEPT ![i] = NoReply]
    /\ elapsed' = [elapsed EXCEPT ![i] = 0]

\* Go on with the next order of the batch.
NextOrder(i) ==
    /\ pc' = [pc EXCEPT ![i] = "loop"]
    /\ cur' = [cur EXCEPT ![i] = NoOrder]
    /\ reply' = [reply EXCEPT ![i] = NoReply]
    /\ UNCHANGED <<todo, snap, elapsed>>

-----------------------------------------------------------------------------

Init ==
    /\ status = [o \in Orders |-> "absent"]
    /\ attempts = [o \in Orders |-> 0]
    /\ number = [o \in Orders |-> 0]
    /\ age = [o \in Orders |-> 0]
    /\ pc = [i \in Instances |-> "idle"]
    /\ todo = [i \in Instances |-> {}]
    /\ snap = [i \in Instances |-> NoSnap]
    /\ cur = [i \in Instances |-> NoOrder]
    /\ reply = [i \in Instances |-> NoReply]
    /\ elapsed = [i \in Instances |-> 0]
    /\ cancelled = [i \in Instances |-> FALSE]
    /\ posted = [o \in Orders |-> 0]
    /\ created = [o \in Orders |-> 0]
    /\ lost = [o \in Orders |-> 0]
    /\ sends = [o \in Orders |-> 0]
    /\ crashes = 0
    /\ drains = 0
    /\ retries = 0

(***************************************************************************)
(* Intake commits a new row.  Ids are given out in order of creation.      *)
(***************************************************************************)
CreateOrder(o) ==
    /\ status[o] = "absent"
    /\ \A p \in Orders : p < o => status[p] # "absent"
    /\ status' = [status EXCEPT ![o] = "pending"]
    /\ UNCHANGED <<attempts, number, age, batchVars, sysproVars, historyVars,
                   boundVars>>

(***************************************************************************)
(* A tick finds pending rows.  A failed fetch and an empty one leave       *)
(* everything as it was.                                                   *)
(***************************************************************************)
FetchPendingOrders(i) ==
    /\ pc[i] = "idle"
    /\ ~cancelled[i]
    /\ Pending # {}
    /\ pc' = [pc EXCEPT ![i] = "opening"]
    /\ todo' = [todo EXCEPT ![i] = Oldest(Pending)]
    /\ snap' = [snap EXCEPT ![i] = attempts]
    /\ elapsed' = [elapsed EXCEPT ![i] = 0]
    /\ UNCHANGED <<rowVars, cur, reply, cancelled, sysproVars, historyVars,
                   boundVars>>

\* OpenSession: a logon that fails leaves all the fetched rows pending.
OpenSession(i) ==
    /\ pc[i] = "opening"
    /\ ~CtxDone(i)
    /\ pc' = [pc EXCEPT ![i] = "loop"]
    /\ UNCHANGED <<rowVars, todo, snap, cur, reply, elapsed, cancelled,
                   sysproVars, historyVars, boundVars>>

OpenSessionFails(i) ==
    /\ pc[i] = "opening"
    /\ NetFaults \/ CtxDone(i)
    /\ EndBatch(i)
    /\ UNCHANGED <<rowVars, cancelled, sysproVars, historyVars, boundVars>>

\* The loop ends when nothing is left or the context is done.
FinishBatch(i) ==
    /\ pc[i] = "loop"
    /\ todo[i] = {} \/ CtxDone(i)
    /\ EndBatch(i)
    /\ UNCHANGED <<rowVars, cancelled, sysproVars, historyVars, boundVars>>

\* The next order of the batch: rows were fetched ORDER BY created_at.
IsNext(i, o) == o \in todo[i] /\ \A p \in todo[i] : o <= p

\* Mutant of SetProcessing: the claim does not look at the status.
SetProcessingUnguarded(o) ==
    /\ status[o] \in {"pending", "processing"}
    /\ status' = [status EXCEPT ![o] = "processing"]
    /\ age' = [age EXCEPT ![o] = 0]

\* The row leaves 'pending' in one statement, whoever else wants it.
SetProcessing(o) ==
    /\ status[o] = "pending"
    /\ status' = [status EXCEPT ![o] = "processing"]
    /\ age' = [age EXCEPT ![o] = 0]

MarkOrderProcessing(i, o) ==
    /\ pc[i] = "loop"
    /\ ~CtxDone(i)
    /\ IsNext(i, o)
    /\ SetProcessing(o)
    /\ pc' = [pc EXCEPT ![i] = "claimed"]
    /\ todo' = [todo EXCEPT ![i] = @ \ {o}]
    /\ cur' = [cur EXCEPT ![i] = o]
    /\ UNCHANGED <<attempts, number, snap, reply, elapsed, cancelled,
                   sysproVars, historyVars, boundVars>>

\* Mutant of SkipOrder: the claim's answer is not looked at.
SubmitAnyway(i, o) ==
    /\ pc[i] = "loop"
    /\ ~CtxDone(i)
    /\ IsNext(i, o)
    /\ status[o] # "pending"
    /\ pc' = [pc EXCEPT ![i] = "claimed"]
    /\ todo' = [todo EXCEPT ![i] = @ \ {o}]
    /\ cur' = [cur EXCEPT ![i] = o]
    /\ UNCHANGED <<rowVars, snap, reply, elapsed, cancelled, sysproVars,
                   historyVars, boundVars>>

\* The row is no longer pending: somebody else took it.
SkipOrder(i, o) ==
    /\ pc[i] = "loop"
    /\ ~CtxDone(i)
    /\ IsNext(i, o)
    /\ status[o] # "pending"
    /\ todo' = [todo EXCEPT ![i] = @ \ {o}]
    /\ UNCHANGED <<rowVars, pc, snap, cur, reply, elapsed, cancelled,
                   sysproVars, historyVars, boundVars>>

\* The claim returns an error, and the batch stops: the statement was not run,
\* or it was run and its acknowledgement lost.
MarkOrderProcessingFails(i, o) ==
    /\ pc[i] = "loop"
    /\ ~CtxDone(i)
    /\ IsNext(i, o)
    /\ DbFaults
    /\ \/ UNCHANGED <<status, age>>
       \/ SetProcessing(o)
    /\ EndBatch(i)
    /\ UNCHANGED <<attempts, number, cancelled, sysproVars, historyVars,
                   boundVars>>

-----------------------------------------------------------------------------
(* The SORTOI call.                                                        *)

\* SubmitOrder sends the transaction.
PostSORTOI(i) ==
    /\ pc[i] = "claimed"
    /\ ~CtxDone(i)
    /\ pc' = [pc EXCEPT ![i] = "calling"]
    /\ sends' = [sends EXCEPT ![cur[i]] = @ + 1]
    /\ UNCHANGED <<rowVars, todo, snap, cur, reply, elapsed, cancelled,
                   sysproVars, lost, boundVars>>

\* The XML cannot be built or the request cannot be sent.
PostSORTOIFails(i) ==
    /\ pc[i] = "claimed"
    /\ NetFaults \/ CtxDone(i)
    /\ pc' = [pc EXCEPT ![i] = "deciding"]
    /\ UNCHANGED <<rowVars, todo, snap, cur, reply, elapsed, cancelled,
                   sysproVars, historyVars, boundVars>>

\* SYSPRO imports the order.
SysproAccepts(i) ==
    /\ pc[i] = "calling"
    /\ created' = [created EXCEPT ![cur[i]] = @ + 1]
    /\ \E r \in AcceptReplies(created[cur[i]] + 1) :
          reply' = [reply EXCEPT ![i] = r]
    /\ pc' = [pc EXCEPT ![i] = "answered"]
    /\ UNCHANGED <<rowVars, todo, snap, cur, elapsed, cancelled, posted,
                   historyVars, boundVars>>

\* SYSPRO refuses the order.
SysproRejects(i) ==
    /\ pc[i] = "calling"
    /\ \E r \in RejectReplies : reply' = [reply EXCEPT ![i] = r]
    /\ pc' = [pc EXCEPT ![i] = "answered"]
    /\ UNCHANGED <<rowVars, todo, snap, cur, elapsed, cancelled, sysproVars,
                   historyVars, boundVars>>

\* The reply arrives and can be read.
ReceiveReply(i) ==
    /\ pc[i] = "answered"
    /\ ~CtxDone(i)
    /\ pc' = [pc EXCEPT ![i] = "deciding"]
    /\ UNCHANGED <<rowVars, todo, snap, cur, reply, elapsed, cancelled,
                   sysproVars, historyVars, boundVars>>

\* The reply does not arrive, or it cannot be read.
LoseReply(i) ==
    /\ pc[i] = "answered"
    /\ NetFaults \/ CtxDone(i)
    /\ pc' = [pc EXCEPT ![i] = "deciding"]
    /\ reply' = [reply EXCEPT ![i] = NoReply]
    /\ lost' = [lost EXCEPT ![cur[i]] = @ + 1]
    /\ UNCHANGED <<rowVars, todo, snap, cur, elapsed, cancelled, sysproVars,
                   sends, boundVars>>

\* The client gives up (30 s HTTP timeout, or the context is done) while SYSPRO
\* is still to work on the request.
AbandonCall(i) ==
    /\ pc[i] = "calling"
    /\ NetFaults \/ CtxDone(i)
    /\ pc' = [pc EXCEPT ![i] = "deciding"]
    /\ posted' = [posted EXCEPT ![cur[i]] = @ + 1]
    /\ lost' = [lost EXCEPT ![cur[i]] = @ + 1]
    /\ UNCHANGED <<rowVars, todo, snap, cur, reply, elapsed, cancelled,
                   created, sends, boundVars>>

\* SYSPRO gets round to a request nobody waits for: it imports it, or refuses
\* or drops it.
SysproFinishesAbandoned(o) ==
    /\ posted[o] > 0
    /\ posted' = [posted EXCEPT ![o] = @ - 1]
    /\ \/ created' = [created EXCEPT ![o] = @ + 1]
       \/ UNCHANGED created
    /\ UNCHANGED <<rowVars, batchVars, historyVars, boundVars>>

-----------------------------------------------------------------------------
(* Recording the outcome, by id and from the attempts that were fetched.   *)

\* Mutant of NewAttempts: the failed attempt is not counted.
SameAttempts(i) == snap[i][cur[i]]

\* The infra branch's newAttempts and status.
NewAttempts(i) == snap[i][cur[i]] + 1
StatusAfterInfra(n) == IF n >= MaxAttempts THEN "dead_letter" ELSE "pending"

\* Infrastructure error: retry or dead-letter, and stop the batch.
RecordInfraError(i) ==
    /\ pc[i] = "deciding"
    /\ reply[i] = NoReply
    /\ ~CtxDone(i)
    /\ status' = [status EXCEPT ![cur[i]] = StatusAfterInfra(NewAttempts(i))]
    /\ attempts' = [attempts EXCEPT ![cur[i]] = NewAttempts(i)]
    /\ age' = [age EXCEPT ![cur[i]] = 0]
    /\ EndBatch(i)
    /\ UNCHANGED <<number, cancelled, sysproVars, historyVars, boundVars>>

\* Business error: failed, attempts as they were, go on.
RecordRejection(i) ==
    /\ pc[i] = "deciding"
    /\ reply[i] # NoReply
    /\ ~Success(reply[i])
    /\ ~CtxDone(i)
    /\ status' = [status EXCEPT ![cur[i]] = "failed"]
    /\ attempts' = [attempts EXCEPT ![cur[i]] = snap[i][cur[i]]]
    /\ age' = [age EXCEPT ![cur[i]] = 0]
    /\ NextOrder(i)
    /\ UNCHANGED <<number, cancelled, sysproVars, historyVars, boundVars>>

\* Success: UpdateOrderSubmitted, go on.
RecordSuccess(i) ==
    /\ pc[i] = "deciding"
    /\ reply[i] # NoReply
    /\ Success(reply[i])
    /\ ~CtxDone(i)
    /\ status' = [status EXCEPT ![cur[i]] = "submitted"]
    /\ number' = [number EXCEPT ![cur[i]] = reply[i].so]
    /\ attempts' = [attempts EXCEPT ![cur[i]] = NewAttempts(i)]
    /\ age' = [age EXCEPT ![cur[i]] = 0]
    /\ NextOrder(i)
    /\ UNCHANGED <<cancelled, sysproVars, historyVars, boundVars>>

\* The update fails: the error is logged and the row stays 'processing'.  Only
\* an infrastructure error of the call itself stops the batch.
RecordFails(i) ==
    /\ pc[i] = "deciding"
    /\ DbFaults \/ CtxDone(i)
    /\ IF reply[i] = NoReply
         THEN EndBatch(i) /\ UNCHANGED lost
         ELSE /\ NextOrder(i)
              /\ lost' = [lost EXCEPT ![cur[i]] = @ + 1]
    /\ UNCHANGED <<rowVars, cancelled, sysproVars, sends, boundVars>>

-----------------------------------------------------------------------------
(* Processes come and go.                                                  *)

\* The attempt in hand was posted and its answer is not yet on the row.
Unrecorded(i) ==
    \/ pc[i] \in {"calling", "answered"}
    \/ pc[i] = "deciding" /\ reply[i] # NoReply

GoDown(i) ==
    /\ pc' = [pc EXCEPT ![i] = "down"]
    /\ todo' = [todo EXCEPT ![i] = {}]
    /\ snap' = [snap EXCEPT ![i] = NoSnap]
    /\ cur' = [cur EXCEPT ![i] = NoOrder]
    /\ reply' = [reply EXCEPT ![i] = NoReply]
    /\ elapsed' = [elapsed EXCEPT ![i] = 0]
    /\ cancelled' = [cancelled EXCEPT ![i] = FALSE]
    /\ posted' = IF pc[i] = "calling"
                   THEN [posted EXCEPT ![cur[i]] = @ + 1] ELSE posted
    /\ lost' = IF Unrecorded(i)
                 THEN [lost EXCEPT ![cur[i]] = @ + 1] ELSE lost
    /\ UNCHANGED <<rowVars, created, sends, retries>>

Crash(i) ==
    /\ pc[i] # "down"
    /\ crashes < MaxCrashes
    /\ crashes' = crashes + 1
    /\ UNCHANGED drains
    /\ GoDown(i)

\* SIGTERM leads to batchCancel: ten seconds later, or as soon as the HTTP
\* server has nothing left to serve, whichever comes first.
BatchCancel(i) ==
    /\ pc[i] # "down"
    /\ ~cancelled[i]
    /\ drains < MaxDrains
    /\ drains' = drains + 1
    /\ cancelled' = [cancelled EXCEPT ![i] = TRUE]
    /\ UNCHANGED <<rowVars, pc, todo, snap, cur, reply, elapsed, sysproVars,
                   historyVars, crashes, retries>>

\* main returns without waiting for the batch goroutine.
Exit(i) ==
    /\ pc[i] # "down"
    /\ cancelled[i]
    /\ UNCHANGED <<crashes, drains>>
    /\ GoDown(i)

\* Mutant of ResetStaleProcessing: attempts are left alone.
ResetWithoutAttempt ==
    /\ status' = [o \in Orders |-> IF Stale(o) THEN "pending" ELSE status[o]]
    /\ age' = [o \in Orders |-> IF Stale(o) THEN 0 ELSE age[o]]
    /\ UNCHANGED <<number, attempts>>

\* The boot sweep hands stale rows back; when it fails boot goes on.
ResetStaleProcessing ==
    /\ status' = [o \in Orders |-> IF Stale(o) THEN "pending" ELSE status[o]]
    /\ attempts' = [o \in Orders |->
                       IF Stale(o) THEN attempts[o] + 1 ELSE attempts[o]]
    /\ age' = [o \in Orders |-> IF Stale(o) THEN 0 ELSE age[o]]
    /\ UNCHANGED number

Boot(i) ==
    /\ pc[i] = "down"
    /\ pc' = [pc EXCEPT ![i] = "idle"]
    /\ \/ ResetStaleProcessing
       \/ DbFaults /\ UNCHANGED rowVars
    /\ UNCHANGED <<todo, snap, cur, reply, elapsed, cancelled, sysproVars,
                   historyVars, boundVars>>

\* The operator puts a failed or dead-lettered order back.
RetryOrder(o) ==
    /\ status[o] \in {"failed", "dead_letter"}
    /\ retries < MaxRetries
    /\ retries' = retries + 1
    /\ status' = [status EXCEPT ![o] = "pending"]
    /\ attempts' = [attempts EXCEPT ![o] = 0]
    /\ sends' = [sends EXCEPT ![o] = 0]
    /\ UNCHANGED <<number, age, batchVars, sysproVars, lost, crashes, drains>>

(***************************************************************************)
(* Time.  Once its context is done a batch has no call left that waits, so *)
(* it lets go of its order before the next unit of time is over; only the  *)
(* wait for the session mutex ignores the context.                         *)
(***************************************************************************)
Hurried(i) == Expired(i) /\ (InFlight(i) \/ pc[i] = "loop")

InBatch(i) == pc[i] \notin {"down", "idle"}

TimePasses ==
    /\ \A i \in Instances : ~Hurried(i)
    /\ elapsed' = [i \in Instances |->
                      IF InBatch(i) /\ ~Expired(i) THEN elapsed[i] + 1
                                                   ELSE elapsed[i]]
    /\ age' = [o \in Orders |->
                  IF status[o] = "processing" /\ age[o] <= StaleAfter
                    THEN age[o] + 1 ELSE age[o]]
    /\ UNCHANGED <<status, attempts, number, pc, todo, snap, cur, reply,
                   cancelled, sysproVars, historyVars, boundVars>>

-----------------------------------------------------------------------------

Submit(i) ==
    \/ PostSORTOI(i) \/ PostSORTOIFails(i)
    \/ SysproAccepts(i) \/ SysproRejects(i)
    \/ ReceiveReply(i) \/ LoseReply(i) \/ AbandonCall(i)

Record(i) ==
    \/ RecordInfraError(i) \/ RecordRejection(i) \/ RecordSuccess(i)
    \/ RecordFails(i)

Claim(i, o) ==
    \/ MarkOrderProcessing(i, o) \/ SkipOrder(i, o)
    \/ MarkOrderProcessingFails(i, o)

Next ==
    \/ \E o \in Orders : CreateOrder(o) \/ RetryOrder(o)
                         \/ SysproFinishesAbandoned(o)
    \/ \E i \in Instances :
          \/ FetchPendingOrders(i)
          \/ OpenSession(i) \/ OpenSessionFails(i)
          \/ \E o \in Orders : Claim(i, o)
          \/ Submit(i) \/ Record(i) \/ FinishBatch(i)
          \/ Crash(i) \/ BatchCancel(i) \/ Exit(i) \/ Boot(i)
    \/ TimePasses

Spec == Init /\ [][Next]_vars

(***************************************************************************)
(* What the goroutine's scheduling and its surroundings give: the service  *)
(* keeps running and is started again, its own steps are not put off for   *)
(* ever, SYSPRO answers or the call times out, and a logon and a claim     *)
(* that are tried again and again succeed at last.  Nothing is assumed of  *)
(* the fate of a single SORTOI call.                                       *)
(***************************************************************************)
Fairness ==
    \A i \in Instances :
       /\ WF_vars(Boot(i))
       /\ WF_vars(Exit(i))
       /\ WF_vars(FetchPendingOrders(i))
       /\ WF_vars(OpenSession(i) \/ OpenSessionFails(i))
       /\ SF_vars(OpenSession(i))
       /\ WF_vars(\E o \in Orders : Claim(i, o))
       /\ SF_vars(\E o \in Orders : MarkOrderProcessing(i, o) \/ SkipOrder(i, o))
       /\ WF_vars(FinishBatch(i))
       /\ WF_vars(Submit(i))
       /\ WF_vars(Record(i))

FairSpec == Spec /\ Fairness

-----------------------------------------------------------------------------
(* Properties.                                                             *)

\* Every column and every local variable of a batch holds what the code keeps
\* in it; a batch has an order in hand exactly while it submits one.
TypeOK ==
    /\ status \in [Orders -> Status]
    /\ attempts \in [Orders -> Nat]
    /\ number \in [Orders -> Nat]
    /\ age \in [Orders -> Nat]
    /\ pc \in [Instances -> PC]
    /\ todo \in [Instances -> SUBSET Orders]
    /\ snap \in [Instances -> [Orders -> Nat]]
    /\ cur \in [Instances -> Orders \cup {NoOrder}]
    /\ reply \in [Instances -> Reply \cup {NoReply}]
    /\ elapsed \in [Instances -> Nat]
    /\ cancelled \in [Instances -> BOOLEAN]
    /\ posted \in [Orders -> Nat]
    /\ created \in [Orders -> Nat]
    /\ lost \in [Orders -> Nat]
    /\ sends \in [Orders -> Nat]
    /\ crashes \in Nat /\ drains \in Nat /\ retries \in Nat
    /\ \A i \in Instances : InFlight(i) <=> cur[i] # NoOrder

\* Two batches, of one process before and after a restart or of two processes,
\* never submit the same row at the same time, and the row in hand stays
\* 'processing' and too young for another process's boot sweep: the atomic
\* claim and the five and ten minute limits work together.
ClaimIsExclusive ==
    \A i \in Instances :
       InFlight(i) =>
          /\ status[cur[i]] = "processing"
          /\ ~Stale(cur[i])
          /\ \A j \in Instances : InFlight(j) /\ cur[j] = cur[i] => j = i

\* SYSPRO gets a second order for a row only after the answer to an earlier
\* SORTOI of that row went missing; each missing answer costs at most one.
DuplicateNeedsLostAnswer ==
    \A o \in Orders : created[o] + posted[o] <= lost[o] + 1

\* A row that says SYSPRO does not have the order (waiting, refused or dead)
\* is right, unless an answer went missing: refusals are read as refusals and
\* imports as imports.
UnsubmittedIsNotInSyspro ==
    \A o \in Orders :
       status[o] \in {"absent", "pending", "failed", "dead_letter"}
          => created[o] + posted[o] <= lost[o]

\* A row that says SYSPRO has the order is right, and the number written on it
\* is that of an order SYSPRO made for this very row.
SubmittedIsInSyspro ==
    \A o \in Orders :
       /\ status[o] = "submitted" => created[o] > 0
       /\ number[o] # 0 => status[o] = "submitted"
       /\ number[o] <= created[o]

\* With one instance the attempts column counts every SORTOI posted since the
\* row was queued, those cut short by a crash or a failed update included once
\* the row is back in the queue.
AttemptsCountSends ==
    \A o \in Orders :
       status[o] \in {"pending", "dead_letter"} => sends[o] <= attempts[o]

StaysSubmitted(o) ==
    status[o] = "submitted" => status'[o] = "submitted" /\ number'[o] = number[o]

\* No step, of any instance, ever takes a submitted row back or changes the
\* number on it, although the updates are by id alone.
SubmittedIsFinal == [][\A o \in Orders : StaysSubmitted(o)]_vars

\* Whatever SYSPRO does to the orders before it, a waiting order is taken up:
\* an order that breaks every batch it is in leaves the queue after
\* MaxAttempts of them.
PendingIsTakenUp ==
    \A o \in Orders : status[o] = "pending" ~> status[o] # "pending"

\* The calls SYSPRO has still to deal with: those nobody waits for and the one
\* an instance is waiting for.
Outstanding ==
    [o \in Orders |->
        posted[o] + IF \E i \in Instances : pc[i] = "calling" /\ cur[i] = o
                      THEN 1 ELSE 0]

Lifecycle == INSTANCE OrderLifecycle WITH sent <- Outstanding

\* The processor implements the abstract order lifecycle: all that happens to a
\* row, its SORTOI calls and its SYSPRO orders is a step the pipeline promises.
ImplementsLifecycle == Lifecycle!LSpec

\* processor.go, before the claim: "This prevents duplicate submissions if the
\* service crashes after SYSPRO accepts but before we update the status."
\* main.go, before batchCancel: "This prevents the scenario where SYSPRO accepts
\* an order but the DB update is cancelled mid-flight, causing the order to be
\* resubmitted as a duplicate."
NoDuplicateInSyspro == \A o \in Orders : created[o] <= 1
=============================================================================
