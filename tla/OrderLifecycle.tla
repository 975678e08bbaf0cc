--------------------------- MODULE OrderLifecycle ---------------------------
(***************************************************************************)
(* What the order pipeline promises for each row of the orders table,      *)
(* whatever instances, batches, crashes and lost replies there are:        *)
(* at-least-once submission with an honest status column.                  *)
(*                                                                         *)
(*   - a SORTOI is sent only for a row that is claimed;                    *)
(*   - SYSPRO makes an order only out of a SORTOI that was sent;           *)
(*   - a row becomes 'submitted' only when SYSPRO has the order, and then  *)
(*     stays so;                                                           *)
(*   - a claimed row ends as submitted, failed or dead-lettered, or goes   *)
(*     back to the queue.                                                  *)
(***************************************************************************)
EXTENDS Integers

CONSTANT Orders

VARIABLES
    status,   \* status[o], as in the orders table
    sent,     \* sent[o]: SORTOI calls SYSPRO has not dealt with
    created   \* created[o]: sales orders SYSPRO made for o

lifecycleVars == <<status, sent, created>>

LInit ==
    /\ status = [o \in Orders |-> "absent"]
    /\ sent = [o \in Orders |-> 0]
    /\ created = [o \in Orders |-> 0]

Move(o, from, to) ==
    /\ status[o] \in from
    /\ status' = [status EXCEPT ![o] = to]
    /\ UNCHANGED <<sent, created>>

Arrive(o) == Move(o, {"absent"}, "pending")
Take(o) == Move(o, {"pending"}, "processing")
Refuse(o) == Move(o, {"processing"}, "failed")
GiveUp(o) == Move(o, {"processing"}, "dead_letter")
Retry(o) == Move(o, {"failed", "dead_letter"}, "pending")
Complete(o) == created[o] > 0 /\ Move(o, {"processing"}, "submitted")

\* Claimed rows go back to the queue, one after a failed call or many at boot.
Requeue(S) ==
    /\ \A o \in S : status[o] = "processing"
    /\ status' = [o \in Orders |-> IF o \in S THEN "pending" ELSE status[o]]
    /\ UNCHANGED <<sent, created>>

Send(o) ==
    /\ status[o] = "processing"
    /\ sent' = [sent EXCEPT ![o] = @ + 1]
    /\ UNCHANGED <<status, created>>

\* SYSPRO deals with one call, making an order of it or not.
Work(o) ==
    /\ sent[o] > 0
    /\ sent' = [sent EXCEPT ![o] = @ - 1]
    /\ \/ created' = [created EXCEPT ![o] = @ + 1]
       \/ UNCHANGED created
    /\ UNCHANGED status

LNext ==
    \/ \E o \in Orders :
          \/ Arrive(o) \/ Take(o) \/ Refuse(o) \/ GiveUp(o) \/ Retry(o)
          \/ Complete(o) \/ Send(o) \/ Work(o)
    \/ \E S \in SUBSET Orders : Requeue(S)

LSpec == LInit /\ [][LNext]_lifecycleVars
=============================================================================
