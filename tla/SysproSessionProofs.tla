------------------------- MODULE SysproSessionProofs -------------------------
(***************************************************************************)
(* Proofs about SysproSession, for any number of callers, tool runs,       *)
(* orders and requests.                                                    *)
(***************************************************************************)
EXTENDS SysproSession, TLAPS

\* A caller in its loop has a request left to make.
LoopInv == \A c \in Callers : pc[c] = "open" => left[c] > 0

\* A run that waits for the operator, or has written, has made a sales order.
SentInv ==
    \A r \in Runs : run[r] \in {"confirm", "written", "ok"} => r \in issued[target[r]]

\* The inductive invariant.
SessionInv ==
    /\ TypeOK
    /\ LockIsNotLeaked
    /\ LoopInv
    /\ SentInv
    /\ SessionIsOwn
    /\ OkMeansRecorded

\* TypeOK without the two Booleans, which the provers treat apart.
NamesOK ==
    /\ sessionMu \in Callers \cup {None}
    /\ pc \in [Callers -> Pcs]
    /\ ctx \in [Callers -> {"live", "done"}]
    /\ left \in [Callers -> 0..Requests]
    /\ session \in Callers \cup Runs \cup {None, Orphan}
    /\ issued \in [Orders -> SUBSET Runs]
    /\ run \in [Runs -> RunStates]
    /\ target \in [Runs -> Orders]
    /\ number \in [Orders -> Runs \cup {None}]

FlagsOK == late \in BOOLEAN /\ intruded \in BOOLEAN

LEMMA TypeSplit == TypeOK <=> NamesOK /\ FlagsOK
BY Zenon DEF TypeOK, NamesOK, FlagsOK

\* The names of the callers, the runs and the two special sessions differ.
LEMMA Names ==
    /\ \A c \in Callers : c # None /\ c # Orphan /\ c \notin Runs
    /\ \A r \in Runs : r # None /\ r # Orphan /\ r \notin Callers
BY SessionAssumption DEF None, Orphan

LEMMA InitInv == Init => SessionInv
<1>1. Init => TypeOK
  <2>1. Init => NamesOK
    BY SessionAssumption DEF Init, NamesOK, Pcs, RunStates
  <2>2. Init => FlagsOK
    BY Zenon DEF Init, FlagsOK
  <2> QED BY <2>1, <2>2, Zenon DEF TypeOK, NamesOK, FlagsOK
<1>2. Init => LockIsNotLeaked /\ LoopInv /\ SentInv /\ SessionIsOwn /\ OkMeansRecorded
  BY Names DEF Init, LockIsNotLeaked, Inside, LoopInv, SentInv, SessionIsOwn, OkMeansRecorded
<1> QED BY <1>1, <1>2 DEF SessionInv

\* Steps of the service leave the tool and its rows alone.
LEMMA ToolFrame ==
    ASSUME SentInv, OkMeansRecorded, UNCHANGED toolVars
    PROVE  SentInv' /\ OkMeansRecorded'
BY DEF SentInv, OkMeansRecorded, toolVars

\* Steps of the tool leave the callers alone.
LEMMA ServiceFrame ==
    ASSUME LockIsNotLeaked, LoopInv, UNCHANGED serviceVars
    PROVE  LockIsNotLeaked' /\ LoopInv'
BY DEF LockIsNotLeaked, Inside, LoopInv, serviceVars

LEMMA CallerStep ==
    ASSUME SessionInv, NEW c \in Callers, Caller(c)
    PROVE  SessionInv'
<1> USE SessionAssumption, Names DEF SessionInv
<1>0. UNCHANGED toolVars
  BY DEF Caller, Begin, Expire, Lock, Logon, LogonFails, Request,
         RequestFails, Close
<1>1. TypeOK'
  <2>1. NamesOK'
    BY <1>0, TypeSplit DEF Caller, NamesOK, LoopInv, Begin, Expire, Lock, Logon,
       LogonFails, Request, RequestFails, NextRequest, Close, Return, LoggedOn,
       LogonUnanswered, LoggedOff, Abandoned, Pcs, toolVars
  <2>2. FlagsOK'
    BY TypeSplit, Zenon DEF FlagsOK, Caller, Begin, Expire, Lock, Logon,
       LogonFails, LogonUnanswered, Request, RequestFails, Close
  <2> QED BY <2>1, <2>2, Zenon DEF TypeOK, NamesOK, FlagsOK
<1>2. LockIsNotLeaked'
  BY DEF Caller, TypeOK, LockIsNotLeaked, Inside, Begin, Expire, Lock, Logon,
         LogonFails, Request, RequestFails, NextRequest, Close, Return
<1>3. LoopInv'
  BY DEF Caller, TypeOK, LoopInv, Begin, Expire, Lock, Logon, LogonFails,
         Request, RequestFails, NextRequest, Close, Return
<1>4. SessionIsOwn'
  BY DEF Caller, TypeOK, LockIsNotLeaked, Inside, SessionIsOwn, Begin, Expire, Lock,
         Logon, LogonFails, Request, RequestFails, NextRequest, Close, Return,
         LoggedOn, LogonUnanswered, LoggedOff, Abandoned
<1>5. SentInv' /\ OkMeansRecorded'
  BY <1>0, ToolFrame
<1> QED BY <1>1, <1>2, <1>3, <1>4, <1>5

LEMMA ToolStep ==
    ASSUME SessionInv, NEW r \in Runs, Tool(r)
    PROVE  SessionInv'
<1> USE SessionAssumption, Names DEF SessionInv
<1>0. UNCHANGED serviceVars
  BY DEF Tool, Load, ToolLogon, ToolSend, ToolSendFails, ToolUpdate,
         ToolGivesUp, ToolLogoff
<1>1. TypeOK'
  <2>1. NamesOK'
    BY <1>0, TypeSplit DEF Tool, NamesOK, Load, ToolLogon, ToolSend,
       ToolSendFails, ToolUpdate, ToolGivesUp, ToolLogoff, LoggedOn,
       LogonUnanswered, LoggedOff, Abandoned, RunStates, serviceVars
  <2>2. FlagsOK'
    BY TypeSplit, Zenon DEF FlagsOK, Tool, Load, ToolLogon, ToolSend,
       ToolSendFails, ToolUpdate, ToolGivesUp, ToolLogoff, LogonUnanswered
  <2> QED BY <2>1, <2>2, Zenon DEF TypeOK, NamesOK, FlagsOK
<1>2. LockIsNotLeaked' /\ LoopInv'
  BY <1>0, ServiceFrame
<1>3. SessionIsOwn'
  BY <1>0 DEF Tool, TypeOK, SessionIsOwn, Load, ToolLogon, ToolSend,
         ToolSendFails, ToolUpdate, ToolGivesUp, ToolLogoff, LoggedOn,
         LogonUnanswered, LoggedOff, Abandoned, serviceVars
<1>4. SentInv'
  BY DEF Tool, TypeOK, SentInv, Load, ToolLogon, ToolSend, ToolSendFails,
         ToolUpdate, ToolGivesUp, ToolLogoff
<1>5. OkMeansRecorded'
  BY DEF Tool, TypeOK, SentInv, OkMeansRecorded, Load, ToolLogon, ToolSend,
         ToolSendFails, ToolUpdate, ToolGivesUp, ToolLogoff
<1> QED BY <1>1, <1>2, <1>3, <1>4, <1>5

\* Steps of neither a caller nor a run.
LEMMA OtherStep ==
    ASSUME SessionInv, LateLogon \/ OrphanEnds \/ Restart
    PROVE  SessionInv'
<1> USE SessionAssumption, Names DEF SessionInv
<1>0. UNCHANGED toolVars
  BY DEF LateLogon, OrphanEnds, Restart
<1>1. TypeOK'
  <2>1. NamesOK'
    BY <1>0, TypeSplit DEF NamesOK, LateLogon, OrphanEnds, Restart, Pcs,
       toolVars, serviceVars
  <2>2. FlagsOK'
    BY TypeSplit, Zenon DEF FlagsOK, LateLogon, OrphanEnds, Restart
  <2> QED BY <2>1, <2>2, Zenon DEF TypeOK, NamesOK, FlagsOK
<1>2. LockIsNotLeaked' /\ LoopInv'
  BY DEF TypeOK, LockIsNotLeaked, Inside, LoopInv, LateLogon, OrphanEnds, Restart, serviceVars
<1>3. SessionIsOwn'
  BY DEF TypeOK, SessionIsOwn, LateLogon, OrphanEnds, Restart, serviceVars
<1>4. SentInv' /\ OkMeansRecorded'
  BY <1>0, ToolFrame
<1> QED BY <1>1, <1>2, <1>3, <1>4

LEMMA SessionInductive == Spec => []SessionInv
<1>1. SessionInv /\ [Next]_vars => SessionInv'
  <2> SUFFICES ASSUME SessionInv, [Next]_vars PROVE SessionInv'
    OBVIOUS
  <2>1. CASE \E c \in Callers : Caller(c)
    BY <2>1, CallerStep
  <2>2. CASE \E r \in Runs : Tool(r)
    BY <2>2, ToolStep
  <2>3. CASE LateLogon \/ OrphanEnds \/ Restart
    BY <2>3, OtherStep
  <2>4. CASE UNCHANGED vars
    BY <2>4 DEF vars, serviceVars, toolVars, SessionInv, TypeOK, LockIsNotLeaked,
       Inside, LoopInv, SentInv, SessionIsOwn, OkMeansRecorded
  <2> QED BY <2>1, <2>2, <2>3, <2>4 DEF Next
<1> QED BY InitInv, <1>1, PTL DEF Spec

\* Every variable of the session model keeps its type.
THEOREM SessionTypeCorrect == Spec => []TypeOK
<1>1. SessionInv => TypeOK BY DEF SessionInv
<1> QED BY SessionInductive, <1>1, PTL

\* On every path through OpenSession, Close, the queries and the posts the mutex
\* is given back by the caller that took it: no goroutine waits for a lock that
\* nobody holds the code to release.
THEOREM LockIsGivenBack == Spec => []LockIsNotLeaked
<1>1. SessionInv => LockIsNotLeaked BY DEF SessionInv
<1> QED BY SessionInductive, <1>1, PTL

\* Whatever fails, expires or restarts, no caller of the service takes the
\* session from another: a session at work is lost only to a logon made
\* outside the mutex.
THEOREM SessionOwned == Spec => []SessionIsOwn
<1>1. SessionInv => SessionIsOwn BY DEF SessionInv
<1> QED BY SessionInductive, <1>1, PTL

\* However many runs of the tool work on one order, each that reports success
\* finds its own number in the row and keeps it there.
THEOREM SuccessIsRecorded == Spec => []OkMeansRecorded
<1>1. SessionInv => OkMeansRecorded BY DEF SessionInv
<1> QED BY SessionInductive, <1>1, PTL
=============================================================================
