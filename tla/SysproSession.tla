---------------------------- MODULE SysproSession ----------------------------
(***************************************************************************)
(* The one SYSPRO session, and everyone who uses it.                       *)
(*                                                                         *)
(* SYSPRO e.net keeps one session per operator: a logon ends whatever      *)
(* session the operator had.  Inside the service sessionMu keeps the batch *)
(* processor, the stock, fulfilment and payments syncers and the cancel    *)
(* handler from logging on over each other (internal/syspro).  The         *)
(* resubmit-order tool is another process: it logs on as the same operator *)
(* and takes no mutex (cmd/resubmit-order).                                *)
(*                                                                         *)
(* A session is named by whoever logged it on, since nobody uses a GUID    *)
(* longer than the call that asked for it.  A session whose GUID nobody    *)
(* has any more is an "orphan".  What the requests carry is the matter of  *)
(* the other modules; here a request is answered or it fails.              *)
(***************************************************************************)
EXTENDS Integers, FiniteSets

CONSTANTS
    Batches,    \* users of OpenSession: the batch processor
    Queries,    \* logon, requests, logoff in one call: QueryStock,
                \* QueryDispatchedOrders, SubmitSalesOrder, PostCashReceipt
    Runs,       \* runs of the resubmit-order tool
    Orders,     \* rows the tool may be asked to resubmit
    Requests    \* bound: requests made under one logon

Callers == Batches \cup Queries

ASSUME SessionAssumption ==
    /\ Requests \in Nat \ {0}
    /\ Batches \cap Queries = {}
    /\ Callers \cap Runs = {}
    /\ (Callers \cup Runs) \cap {"none", "orphan"} = {}

None == "none"
Orphan == "orphan"

VARIABLES
    \* The service.
    sessionMu,  \* who holds the mutex
    pc,         \* pc[c]: where the goroutine of caller c is
    ctx,        \* ctx[c]: "live", or "done" once cancelled or past its deadline
    left,       \* left[c]: requests c still has to make
    \* SYSPRO.
    session,    \* the operator's live session
    late,       \* e.net may still perform a logon its caller has given up
    issued,     \* issued[o]: the runs whose SORTOI made a sales order for o
    \* The tool and the rows it works on.
    run,        \* run[r]: where run r of the tool is
    target,     \* target[r]: the order run r is about
    number,     \* number[o]: the run that wrote syspro_order_number, "none" if ''
    \* History, for the properties only.
    intruded    \* someone else logged on since the service's last logon

serviceVars == <<sessionMu, pc, ctx, left>>
toolVars == <<run, target, number, issued>>
vars == <<serviceVars, session, late, toolVars, intruded>>

Pcs == {"idle", "lock", "logon", "open", "close"}
RunStates == {"new", "logon", "send", "confirm", "written", "logoff", "ok", "failed"}

\* Every row the tool can work on is 'submitted' without a number: it refuses
\* all others, and no other part of the service changes such a row.
Init ==
    /\ sessionMu = None
    /\ pc = [c \in Callers |-> "idle"]
    /\ ctx = [c \in Callers |-> "live"]
    /\ left = [c \in Callers |-> 0]
    /\ session = None
    /\ late = FALSE
    /\ issued = [o \in Orders |-> {}]
    /\ run = [r \in Runs |-> "new"]
    /\ target \in [Runs -> Orders]
    /\ number = [o \in Orders |-> None]
    /\ intruded = FALSE

-----------------------------------------------------------------------------
(* e.net, as the clients see it.                                           *)

\* A logon that e.net performs: the operator's session is now p's.
LoggedOn(p) == session' = p

\* A logon without a usable answer: refused, performed with the answer lost,
\* or still to be performed when the caller has long gone.
LogonUnanswered ==
    \/ UNCHANGED <<session, late>>
    \/ session' = Orphan /\ UNCHANGED late
    \/ late' = TRUE /\ UNCHANGED session

\* A logoff ends p's session and nobody else's.  When it is not sent, or
\* lost, the session stays without an owner.
LoggedOff(p) == session' = IF session = p THEN None ELSE session
Abandoned(p) == session' = IF session = p THEN Orphan ELSE session

\* e.net gets to a logon its caller no longer waits for; there may be more.
LateLogon ==
    /\ late
    /\ late' \in BOOLEAN
    /\ session' = Orphan
    /\ intruded' = TRUE
    /\ UNCHANGED <<serviceVars, toolVars>>

\* An ownerless session ends: a logoff that arrives late, or a timeout.
OrphanEnds ==
    /\ session = Orphan
    /\ session' = None
    /\ UNCHANGED <<serviceVars, late, toolVars, intruded>>

-----------------------------------------------------------------------------
(* The service.                                                            *)

\* A batch, a sync cycle or a cancel webhook comes to its SYSPRO call.
Begin(c) ==
    /\ pc[c] = "idle"
    /\ pc' = [pc EXCEPT ![c] = "lock"]
    /\ UNCHANGED <<sessionMu, ctx, left, session, late, toolVars, intruded>>

\* The caller's deadline passes or the service shuts down: requests sent
\* from now on fail at once, but Lock goes on waiting.
Expire(c) ==
    /\ pc[c] # "idle" /\ ctx[c] = "live"
    /\ ctx' = [ctx EXCEPT ![c] = "done"]
    /\ UNCHANGED <<sessionMu, pc, left, session, late, toolVars, intruded>>

\* Mutant of Lock: the mutex is not waited for.
LockWithoutWaiting(c) ==
    /\ pc[c] = "lock"
    /\ sessionMu' = c
    /\ pc' = [pc EXCEPT ![c] = "logon"]
    /\ UNCHANGED <<ctx, left, session, late, toolVars, intruded>>

\* sessionMu.Lock, the first thing every call does.
Lock(c) ==
    /\ pc[c] = "lock" /\ sessionMu = None
    /\ sessionMu' = c
    /\ pc' = [pc EXCEPT ![c] = "logon"]
    /\ UNCHANGED <<ctx, left, session, late, toolVars, intruded>>

\* logon returns a GUID.
Logon(c) ==
    /\ pc[c] = "logon" /\ ctx[c] = "live"
    /\ LoggedOn(c)
    /\ pc' = [pc EXCEPT ![c] = "open"]
    /\ left' = [left EXCEPT ![c] = Requests]
    /\ intruded' = FALSE
    /\ UNCHANGED <<sessionMu, ctx, late, toolVars>>

\* The call returns; its context and its loop are gone.
Return(c) ==
    /\ pc' = [pc EXCEPT ![c] = "idle"]
    /\ ctx' = [ctx EXCEPT ![c] = "live"]
    /\ left' = [left EXCEPT ![c] = 0]

\* Mutant of LogonFails: the error path of OpenSession leaves the mutex locked.
LogonFailsLocked(c) ==
    /\ pc[c] = "logon"
    /\ \/ ctx[c] = "done" /\ UNCHANGED <<session, late>>
       \/ ctx[c] = "live" /\ LogonUnanswered
    /\ Return(c)
    /\ UNCHANGED <<sessionMu, toolVars, intruded>>

\* logon fails, without being sent when the context is done: the mutex is
\* released and the call returns an error.
LogonFails(c) ==
    /\ pc[c] = "logon"
    /\ \/ ctx[c] = "done" /\ UNCHANGED <<session, late>>
       \/ ctx[c] = "live" /\ LogonUnanswered
    /\ Return(c)
    /\ sessionMu' = None
    /\ UNCHANGED <<toolVars, intruded>>

\* The loop over orders or SKUs goes on to the next.
NextRequest(c) ==
    /\ left' = [left EXCEPT ![c] = @ - 1]
    /\ pc' = [pc EXCEPT ![c] = IF left[c] = 1 THEN "close" ELSE "open"]

\* A transaction or query under c's GUID, answered.
Request(c) ==
    /\ pc[c] = "open" /\ ctx[c] = "live" /\ session = c
    /\ NextRequest(c)
    /\ UNCHANGED <<sessionMu, ctx, session, late, toolVars, intruded>>

\* It fails: not sent, lost, or refused because the session is gone.  A
\* batch ends there; the queries log it and try the next one.
RequestFails(c) ==
    /\ pc[c] = "open"
    /\ \/ /\ c \in Batches
          /\ pc' = [pc EXCEPT ![c] = "close"]
          /\ UNCHANGED left
       \/ /\ c \in Queries
          /\ NextRequest(c)
    /\ UNCHANGED <<sessionMu, ctx, session, late, toolVars, intruded>>

\* logoff, then Unlock whatever became of it.  A batch closes on a context of
\* its own; the others log off on the context of the call.
Close(c) ==
    /\ pc[c] = "close"
    /\ \/ (c \in Batches \/ ctx[c] = "live") /\ LoggedOff(c)
       \/ Abandoned(c)
    /\ Return(c)
    /\ sessionMu' = None
    /\ UNCHANGED <<late, toolVars, intruded>>

\* The process dies, or main returns without waiting for its goroutines, and
\* comes up again.
Restart ==
    /\ sessionMu' = None
    /\ pc' = [c \in Callers |-> "idle"]
    /\ ctx' = [c \in Callers |-> "live"]
    /\ left' = [c \in Callers |-> 0]
    /\ session' = IF session \in Callers THEN Orphan ELSE session
    /\ UNCHANGED <<late, toolVars, intruded>>

-----------------------------------------------------------------------------
(* resubmit-order.                                                         *)

\* loadOrder and the check that the row is a phantom.
Load(r) ==
    /\ run[r] = "new"
    /\ run' = [run EXCEPT ![r] =
                  IF number[target[r]] = None THEN "logon" ELSE "failed"]
    /\ UNCHANGED <<serviceVars, session, late, target, number, issued, intruded>>

\* The tool's logon takes the operator's session, whoever had it.
ToolLogon(r) ==
    /\ run[r] = "logon"
    /\ \/ /\ LoggedOn(r) /\ UNCHANGED late
          /\ run' = [run EXCEPT ![r] = "send"]
       \/ /\ LogonUnanswered
          /\ run' = [run EXCEPT ![r] = "failed"]
    /\ intruded' = (intruded \/ session' # session)
    /\ UNCHANGED <<serviceVars, target, number, issued>>

\* transact: SYSPRO imports the order and answers with its number.
ToolSend(r) ==
    /\ run[r] = "send" /\ session = r
    /\ issued' = [issued EXCEPT ![target[r]] = @ \cup {r}]
    /\ run' = [run EXCEPT ![r] = "confirm"]
    /\ UNCHANGED <<serviceVars, session, late, target, number, intruded>>

\* It ends without a number to write: refused or not sent, only validated, or
\* imported with the answer lost or without a SalesOrder element.
ToolSendFails(r) ==
    /\ run[r] = "send"
    /\ \/ UNCHANGED issued
       \/ /\ session = r
          /\ issued' = [issued EXCEPT ![target[r]] = @ \cup {r}]
    /\ run' = [run EXCEPT ![r] = "logoff"]
    /\ UNCHANGED <<serviceVars, session, late, target, number, intruded>>

\* Mutant of ToolUpdate: the UPDATE names the row by its id alone.
ToolUpdateById(r) ==
    /\ run[r] = "confirm"
    /\ number' = [number EXCEPT ![target[r]] = r]
    /\ run' = [run EXCEPT ![r] = "written"]
    /\ UNCHANGED <<serviceVars, session, late, target, issued, intruded>>

\* The operator confirms, and the UPDATE writes the number if the row is still
\* a phantom.
ToolUpdate(r) ==
    /\ run[r] = "confirm" /\ number[target[r]] = None
    /\ number' = [number EXCEPT ![target[r]] = r]
    /\ run' = [run EXCEPT ![r] = "written"]
    /\ UNCHANGED <<serviceVars, session, late, target, issued, intruded>>

\* Nothing is written: the operator declines, the two minutes of the run are
\* over, the database fails, or no row matched.
ToolGivesUp(r) ==
    /\ run[r] = "confirm"
    /\ run' = [run EXCEPT ![r] = "logoff"]
    /\ UNCHANGED <<serviceVars, session, late, target, number, issued, intruded>>

\* The deferred logoff, sent unless the run's context is done.
ToolLogoff(r) ==
    /\ run[r] \in {"written", "logoff"}
    /\ LoggedOff(r) \/ Abandoned(r)
    /\ run' = [run EXCEPT ![r] = IF @ = "written" THEN "ok" ELSE "failed"]
    /\ UNCHANGED <<serviceVars, late, target, number, issued, intruded>>

-----------------------------------------------------------------------------
Caller(c) ==
    \/ Begin(c) \/ Expire(c) \/ Lock(c)
    \/ Logon(c) \/ LogonFails(c)
    \/ Request(c) \/ RequestFails(c)
    \/ Close(c)

Tool(r) ==
    \/ Load(r) \/ ToolLogon(r)
    \/ ToolSend(r) \/ ToolSendFails(r)
    \/ ToolUpdate(r) \/ ToolGivesUp(r)
    \/ ToolLogoff(r)

Next ==
    \/ \E c \in Callers : Caller(c)
    \/ \E r \in Runs : Tool(r)
    \/ LateLogon
    \/ OrphanEnds
    \/ Restart

\* Every request ends within the client's 30 s, answered or not, and a
\* goroutine waiting for a sync.Mutex gets it in the end, because the mutex is
\* handed over in order once someone has waited for a millisecond.
Fairness ==
    \A c \in Callers :
        /\ SF_vars(Lock(c))
        /\ WF_vars(Logon(c) \/ LogonFails(c))
        /\ WF_vars(Request(c) \/ RequestFails(c))
        /\ WF_vars(Close(c))

Spec == Init /\ [][Next]_vars /\ Fairness

-----------------------------------------------------------------------------
(* Properties.                                                             *)

\* Every variable keeps its type.
TypeOK ==
    /\ sessionMu \in Callers \cup {None}
    /\ pc \in [Callers -> Pcs]
    /\ ctx \in [Callers -> {"live", "done"}]
    /\ left \in [Callers -> 0..Requests]
    /\ session \in Callers \cup Runs \cup {None, Orphan}
    /\ late \in BOOLEAN
    /\ issued \in [Orders -> SUBSET Runs]
    /\ run \in [Runs -> RunStates]
    /\ target \in [Runs -> Orders]
    /\ number \in [Orders -> Runs \cup {None}]
    /\ intruded \in BOOLEAN

\* The callers of the service do not evict each other: whoever is at work
\* under a session still has it, unless someone outside the mutex has logged
\* on since.  That is what sessionMu is for, and it must hold through failed
\* logons, expired contexts, skipped logoffs and restarts.
SessionIsOwn ==
    \A c \in Callers : pc[c] \in {"open", "close"} /\ ~intruded => session = c

\* A run of resubmit-order that reports success has its own number, which
\* SYSPRO issued for that order, in the row, and no other run replaces it
\* afterwards, although two runs may both have sent the order.
OkMeansRecorded ==
    \A r \in Runs : run[r] \in {"written", "ok"} =>
        /\ number[target[r]] = r
        /\ r \in issued[target[r]]

\* A caller is between Lock and Unlock.
Inside(c) == pc[c] \in {"logon", "open", "close"}

\* sessionMu is held exactly while its holder is between Lock and Unlock: every
\* early return and every failure after Lock gives it back, no caller unlocks
\* for another, and no two are inside, whatever expires or fails meanwhile.
LockIsNotLeaked == \A c \in Callers : Inside(c) <=> sessionMu = c

\* Every call to SYSPRO comes back, however many others are waiting for the
\* session and whatever fails: no path leaves sessionMu locked, and a caller
\* whose deadline passed while it waited is not stuck behind the mutex.
EveryCallReturns == \A c \in Callers : pc[c] = "lock" ~> pc[c] = "idle"
=============================================================================
