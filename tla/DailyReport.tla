---------------------------- MODULE DailyReport -----------------------------
(***************************************************************************)
(* The two daily reports (internal/payments/daily_report.go and intake.go),*)
(* the mailer they share, the dead letters, the file that remembers the    *)
(* last day sent, and the operator's cmd/send-report.                      *)
(*                                                                         *)
(* A scheduler looks at the clock every 15 minutes.  In its send hour, and *)
(* if it has not done so today, it mails yesterday's report.  Time is      *)
(* modelled as days cut into slots of 15 minutes, so that a scheduler that *)
(* is up and not busy looks once in every slot; only the slots around the  *)
(* send hour matter, and a day has few of them.  All windows start and end *)
(* at midnight UTC and are half-open, so an instant is known by its day.   *)
(*                                                                         *)
(* The copy of a sent CSV and the heartbeat are outputs nothing reads back:*)
(* the heartbeat matters only in that the call may not return.             *)
(***************************************************************************)
EXTENDS Integers, FiniteSets

CONSTANTS
    Orders,      \* Shopify orders, each paid by one transaction
    TestOrders,  \* those Shopify flags as tests
    Manual,      \* those paid through the "manual" gateway
    Enabled,     \* the reports the server has recipients for
    SendHour,    \* SendHour[k]: the slots of the send hour of report k
    FirstSlot,   \* the slot in which the service is first started
    Slots,       \* slots in a day; the last one is after both send hours
    MaxDay,      \* bound: days
    MaxFaults,   \* bound: failed calls, lost answers, crashes
    MaxResends   \* bound: runs of cmd/send-report

Kinds == {"cash", "intake"}
Runners == Kinds \cup {"operator"}
Days == 0..MaxDay
Never == -1

ASSUME ReportAssumption ==
    /\ Slots \in Nat \ {0}
    /\ FirstSlot \in 0..(Slots - 1)
    /\ MaxDay \in Nat \ {0}
    /\ MaxFaults \in Nat
    /\ MaxResends \in Nat
    /\ Enabled \subseteq Kinds
    /\ SendHour \in [Kinds -> SUBSET (0..(Slots - 2))]

VARIABLES
    day, slot,                        \* the clock
    placed, paid, staged, refunded,   \* Shopify's orders, and when they were staged here
    server,      \* "up" or "down"
    token,       \* the server's mailer: "stale" when it has cached a revoked token
    lastSent,    \* lastSent[k], in memory
    disk,        \* the last-send files
    checked,     \* the schedulers that looked at the clock in this slot
    carried,     \* the runners whose job began in an earlier slot
    pc, job,     \* the runners
    dead,        \* the dead letters, which only the operator reads
    \* History, for the properties only.
    sent,        \* sent[k][d]: mails the scheduler of k got out for day d
    excused,     \* <<k, d>> whose first mail the scheduler could not know of later
    content,     \* content[k][d]: orders in mails about day d
    reported,    \* <<k, d>> that a mail made after the end of d covers
    gaps,        \* orders left out because their transactions could not be read
    mark, hour,  \* if this slot, and one of the send hour before it, went undisturbed
    faults, resends

clockVars == <<day, slot>>
shopVars == <<placed, paid, staged, refunded>>
memVars == <<server, token, lastSent>>
jobVars == <<checked, carried, pc, job>>
mailVars == <<sent, content, reported>>
vars == <<clockVars, shopVars, memVars, disk, jobVars, dead, mailVars,
          excused, gaps, mark, hour, faults, resends>>

\* A report of kind k about [since, until): its rows, and the day they were read.
Job(k, since, until) ==
    [kind |-> k, since |-> since, until |-> until, asof |-> 0, rows |-> {}]
NoJob == Job("cash", 0, 0)

Init ==
    /\ day = 1 /\ slot = FirstSlot
    /\ placed = [o \in Orders |-> Never]
    /\ paid = [o \in Orders |-> Never]
    /\ staged = [o \in Orders |-> Never]
    /\ refunded = {}
    /\ server = "up"
    /\ token = "good"
    /\ lastSent = [k \in Kinds |-> 0]
    /\ disk = [k \in Kinds |-> 0]
    /\ checked = {} /\ carried = {}
    /\ pc = [r \in Runners |-> "idle"]
    /\ job = [r \in Runners |-> NoJob]
    /\ dead = {}
    /\ sent = [k \in Kinds |-> [d \in Days |-> 0]]
    /\ excused = {}
    /\ content = [k \in Kinds |-> [d \in Days |-> {}]]
    /\ reported = {} /\ gaps = {}
    /\ mark = [k \in Kinds |-> "clean"]
    /\ hour = [k \in Kinds |-> "none"]
    /\ faults = 0 /\ resends = 0

-----------------------------------------------------------------------------
(* Faults, and what they do to the slot: it stays "clean" when nothing     *)
(* went wrong in it.                                                       *)

Fault == faults < MaxFaults /\ faults' = faults + 1

Disturbed(r) ==
    mark' = IF r \in Kinds THEN [mark EXCEPT ![r] = "disturbed"] ELSE mark

\* What the slot that ends now says of the send hour of k: its scheduler was
\* up, looked at the clock and finished what it began, and nothing failed.
SlotDone(k) ==
    IF /\ slot \in SendHour[k] /\ server = "up" /\ pc[k] = "idle"
       /\ k \in checked /\ mark[k] = "clean"
    THEN "clean" ELSE hour[k]

\* Fifteen minutes pass.  The ticker of a scheduler that is up and not busy
\* has fired in them, and no job lasts longer: fetching is limited to two
\* minutes and sending to one, send-report to five.  Only a ping has no limit.
Advance ==
    /\ server = "up" => \A k \in Enabled :
          \/ pc[k] = "idle" /\ k \in checked
          \/ pc[k] = "hung"
          \/ pc[k] # "idle" /\ k \notin carried
    /\ "operator" \notin carried
    /\ \/ /\ slot < Slots - 1
          /\ slot' = slot + 1 /\ day' = day
          /\ hour' = [k \in Kinds |-> SlotDone(k)]
       \/ /\ slot = Slots - 1 /\ day < MaxDay
          /\ slot' = 0 /\ day' = day + 1
          /\ hour' = [k \in Kinds |-> "none"]
    /\ mark' = [k \in Kinds |->
                   IF server = "up" /\ pc[k] # "hung" THEN "clean" ELSE "disturbed"]
    /\ checked' = {}
    /\ carried' = {r \in Runners : pc[r] # "idle"}
    /\ UNCHANGED <<shopVars, memVars, disk, pc, job, dead, mailVars, excused,
                   gaps, faults, resends>>

-----------------------------------------------------------------------------
(* Shopify and the order table.                                            *)

restOfWorld == <<clockVars, memVars, disk, jobVars, dead, mailVars, excused,
                 gaps, mark, hour, faults, resends>>

\* An order is placed, paid at once or only authorised.
PlaceOrder(o) ==
    /\ placed[o] = Never
    /\ placed' = [placed EXCEPT ![o] = day]
    /\ \E p \in {day, Never} : paid' = [paid EXCEPT ![o] = p]
    /\ UNCHANGED <<staged, refunded, restOfWorld>>

\* The authorised amount is captured.
Capture(o) ==
    /\ placed[o] # Never /\ paid[o] = Never
    /\ paid' = [paid EXCEPT ![o] = day]
    /\ UNCHANGED <<placed, staged, refunded, restOfWorld>>

\* A refund ends the order's financial status "paid".
Refund(o) ==
    /\ paid[o] # Never /\ o \notin refunded
    /\ refunded' = refunded \cup {o}
    /\ UNCHANGED <<placed, paid, staged, restOfWorld>>

\* The order is staged, which fixes its created_at.
StageOrder(o) ==
    /\ placed[o] # Never /\ staged[o] = Never
    /\ staged' = [staged EXCEPT ![o] = day]
    /\ UNCHANGED <<placed, paid, refunded, restOfWorld>>

\* Mutant of Within: the end of the window belongs to it.
WithinClosed(d, since, until) == since <= d /\ d <= until

\* d lies in [since, until).
Within(d, since, until) == since <= d /\ d < until

\* listOrdersInWindow: the orders processed in the window that are paid now.
ListOrdersInWindow(since, until) ==
    {o \in Orders : /\ Within(placed[o], since, until)
                    /\ paid[o] # Never /\ o \notin refunded}

\* fetchGraphQL: the days of the order's settled transactions, sale or capture.
FetchGraphQL(o) == {paid[o]} \ {Never}

\* FetchOrdersInWindow: the listed orders that are no tests, less the ones
\* whose transactions could not be read, with a settled transaction in the
\* window that is not "manual".
FetchOrdersInWindow(since, until, unread) ==
    {o \in ListOrdersInWindow(since, until) \ (TestOrders \cup unread) :
        o \notin Manual /\ \E d \in FetchGraphQL(o) : Within(d, since, until)}

\* FetchOrdersByDateRange: the rows created in the window.
FetchOrdersByDateRange(since, until) ==
    {o \in Orders : Within(staged[o], since, until)}

Rows(k, since, until, unread) ==
    IF k = "cash" THEN FetchOrdersInWindow(since, until, unread)
                  ELSE FetchOrdersByDateRange(since, until)

-----------------------------------------------------------------------------
(* The schedulers.                                                         *)

Yesterday(d) == d - 1

\* The conditions of check: it is the send hour, and today's is still due.
Due(k) == slot \in SendHour[k] /\ lastSent[k] < day

\* A scheduler looks at the clock, and starts SendForDate when it is due.
Check(k) ==
    /\ server = "up" /\ pc[k] = "idle" /\ k \notin checked
    /\ checked' = checked \cup {k}
    /\ pc' = [pc EXCEPT ![k] = IF Due(k) THEN "fetch" ELSE "idle"]
    /\ job' = [job EXCEPT ![k] =
                  IF Due(k) THEN Job(k, Yesterday(day), Yesterday(day) + 1) ELSE @]
    /\ UNCHANGED <<clockVars, shopVars, memVars, disk, carried, dead, mailVars,
                   excused, gaps, mark, hour, faults, resends>>

\* An operator runs send-report for a date or, for cash, a range of dates,
\* with a mailer of its own.
Resend(k, since, until) ==
    /\ pc["operator"] = "idle"
    /\ resends < MaxResends /\ resends' = resends + 1
    /\ since < until /\ until <= day + 1
    /\ k = "intake" => until = since + 1
    /\ pc' = [pc EXCEPT !["operator"] = "fetch"]
    /\ job' = [job EXCEPT !["operator"] = Job(k, since, until)]
    /\ UNCHANGED <<clockVars, shopVars, memVars, disk, checked, carried, dead,
                   mailVars, excused, gaps, mark, hour, faults>>

\* The runner is done, with or without a mail.
Ended(r) ==
    /\ pc' = [pc EXCEPT ![r] = "idle"]
    /\ job' = [job EXCEPT ![r] = NoJob]
    /\ carried' = carried \ {r}

\* The report is read.  An order whose transactions cannot be read is logged
\* and left out.
Fetch(r) ==
    LET j == job[r]
    IN  /\ pc[r] = "fetch"
        /\ \E unread \in SUBSET ListOrdersInWindow(j.since, j.until) :
              /\ j.kind = "intake" => unread = {}
              /\ IF unread = {} THEN UNCHANGED faults ELSE Fault
              /\ gaps' = gaps \cup unread
              /\ job' = [job EXCEPT ![r] =
                    [@ EXCEPT !.rows = Rows(j.kind, j.since, j.until, unread),
                              !.asof = day]]
        /\ pc' = [pc EXCEPT ![r] = "send"]
        /\ UNCHANGED <<clockVars, shopVars, memVars, disk, checked, carried, dead,
                       mailVars, excused, mark, hour, resends>>

\* It cannot be read: SendForDate returns, and nothing is kept.
FetchFails(r) ==
    /\ pc[r] = "fetch"
    /\ Fault
    /\ Disturbed(r)
    /\ Ended(r)
    /\ UNCHANGED <<clockVars, shopVars, memVars, disk, checked, dead, mailVars,
                   excused, gaps, hour, resends>>

-----------------------------------------------------------------------------
(* The mailer.                                                             *)

\* What the mail of runner r says of day d: a day's report is all about it, a
\* range report dates its rows.
RowsOf(r, d) ==
    IF job[r].until = job[r].since + 1 THEN job[r].rows
                                       ELSE {o \in job[r].rows : paid[o] = d}

\* Graph takes the mail of runner r.
Delivered(r) ==
    LET k == job[r].kind
        since == job[r].since
        until == job[r].until
    IN  /\ sent' = IF r \in Kinds THEN [sent EXCEPT ![k][since] = @ + 1] ELSE sent
        /\ content' = [content EXCEPT ![k] = [d \in Days |->
              @[d] \cup IF Within(d, since, until) THEN RowsOf(r, d) ELSE {}]]
        /\ reported' = reported \cup
              {<<k, d>> : d \in {d \in Days : Within(d, since, until) /\ d < job[r].asof}}

\* The attempt of Send that is under way: the first one uses the cached token
\* and fetches one if there is none, the second always fetches a new one, as
\* does send-report, whose mailer is new.
Attempt(r) == pc[r] \in {"send", "retry"}
Fresh(r) == r = "operator" \/ pc[r] = "retry" \/ token # "stale"
GetToken(r) == token' = IF r = "operator" THEN token ELSE "good"

\* Graph takes the mail and says so.  send-report ends here: it keeps no date
\* and sends no heartbeat.
SendMail(r) ==
    /\ Attempt(r) /\ Fresh(r)
    /\ GetToken(r)
    /\ Delivered(r)
    /\ IF r = "operator"
       THEN Ended(r)
       ELSE pc' = [pc EXCEPT ![r] = "sent"] /\ UNCHANGED <<job, carried>>
    /\ UNCHANGED <<clockVars, shopVars, server, lastSent, disk, checked, dead, excused,
                   gaps, mark, hour, faults, resends>>

\* Graph takes the mail and the answer is lost, or comes too late.
SendUnanswered(r) ==
    /\ Attempt(r) /\ Fresh(r)
    /\ Fault
    /\ GetToken(r)
    /\ Delivered(r)
    /\ Disturbed(r)
    /\ excused' = IF r \in Kinds THEN excused \cup {<<r, job[r].since>>} ELSE excused
    /\ pc' = [pc EXCEPT ![r] = "failed"]
    /\ UNCHANGED <<clockVars, shopVars, server, lastSent, disk, checked, carried, job,
                   dead, gaps, hour, resends>>

\* Mutant of Unauthorised: there is no second attempt.
UnauthorisedFails(r) ==
    /\ pc[r] = "send" /\ ~Fresh(r)
    /\ pc' = [pc EXCEPT ![r] = "failed"]
    /\ UNCHANGED <<clockVars, shopVars, memVars, disk, checked, carried, job, dead,
                   mailVars, excused, gaps, mark, hour, faults, resends>>

\* The cached token was revoked: Graph answers 401, and Send tries once more.
Unauthorised(r) ==
    /\ pc[r] = "send" /\ ~Fresh(r)
    /\ pc' = [pc EXCEPT ![r] = "retry"]
    /\ UNCHANGED <<clockVars, shopVars, memVars, disk, checked, carried, job, dead,
                   mailVars, excused, gaps, mark, hour, faults, resends>>

\* No token, no connection, a refusal, or a second 401.
SendFails(r) ==
    /\ Attempt(r)
    /\ Fault
    /\ GetToken(r) \/ UNCHANGED token
    /\ Disturbed(r)
    /\ pc' = [pc EXCEPT ![r] = "failed"]
    /\ UNCHANGED <<clockVars, shopVars, server, lastSent, disk, checked, carried, job,
                   dead, mailVars, excused, gaps, hour, resends>>

\* The token the server holds is revoked; a revoked one runs out, and the
\* next send fetches another.
TokenChanges ==
    /\ token' = IF token = "good" THEN "stale" ELSE "good"
    /\ UNCHANGED <<clockVars, shopVars, server, lastSent, disk, jobVars, dead, mailVars,
                   excused, gaps, mark, hour, faults, resends>>

-----------------------------------------------------------------------------
(* After Send.                                                             *)

\* The CSV is kept in the dead-letter directory, the operator is told, and
\* SendForDate returns the error.
DeadLetter(r) ==
    /\ pc[r] = "failed"
    /\ dead' = dead \cup {<<job[r].kind, d>> :
                  d \in {d \in Days : Within(d, job[r].since, job[r].until)}}
    /\ Ended(r)
    /\ UNCHANGED <<clockVars, shopVars, memVars, disk, checked, mailVars, excused,
                   gaps, mark, hour, faults, resends>>

\* The push that tells the operator, which comes whether or not the CSV could
\* be kept, gets no answer.  The call has no time limit, and the scheduler
\* never comes back from it.
AlertHangs(k) ==
    /\ pc[k] = "failed"
    /\ Fault
    /\ dead' \in {dead, dead \cup {<<k, job[k].since>>}}
    /\ pc' = [pc EXCEPT ![k] = "hung"]
    /\ Disturbed(k)
    /\ UNCHANGED <<clockVars, shopVars, memVars, disk, checked, carried, job, mailVars,
                   excused, gaps, hour, resends>>

\* The disk is full: the CSV there was is neither mailed nor kept, and the
\* operator is told of the failed mail all the same.
DeadLetterFails(r) ==
    /\ pc[r] = "failed"
    /\ Fault
    /\ Disturbed(r)
    /\ Ended(r)
    /\ UNCHANGED <<clockVars, shopVars, memVars, disk, checked, dead, mailVars,
                   excused, gaps, hour, resends>>

\* Mutant of Record: only the memory is written.
RecordInMemory(k) ==
    /\ pc[k] = "sent"
    /\ lastSent' = [lastSent EXCEPT ![k] = job[k].until]
    /\ Ended(k)
    /\ UNCHANGED <<clockVars, shopVars, server, token, disk, checked, dead, mailVars,
                   excused, gaps, mark, hour, faults, resends>>

\* The scheduler remembers today, in memory and on disk.
Record(k) ==
    /\ pc[k] = "sent"
    /\ lastSent' = [lastSent EXCEPT ![k] = job[k].until]
    /\ disk' = [disk EXCEPT ![k] = job[k].until]
    /\ Ended(k)
    /\ UNCHANGED <<clockVars, shopVars, server, token, checked, dead, mailVars, excused,
                   gaps, mark, hour, faults, resends>>

\* The file cannot be written, which nobody notices.
RecordFails(k) ==
    /\ pc[k] = "sent"
    /\ Fault
    /\ lastSent' = [lastSent EXCEPT ![k] = job[k].until]
    /\ excused' = excused \cup {<<k, job[k].since>>}
    /\ Ended(k)
    /\ UNCHANGED <<clockVars, shopVars, server, token, disk, checked, dead, mailVars,
                   gaps, mark, hour, resends>>

\* The heartbeat gets no answer, and has no time limit either.
PingHangs(k) ==
    /\ pc[k] = "sent"
    /\ Fault
    /\ excused' = excused \cup {<<k, job[k].since>>}
    /\ pc' = [pc EXCEPT ![k] = "hung"]
    /\ Disturbed(k)
    /\ UNCHANGED <<clockVars, shopVars, memVars, disk, checked, carried, job, dead,
                   mailVars, gaps, hour, resends>>

\* The server stops, wherever it is.
Crash ==
    /\ server = "up" /\ Fault
    /\ server' = "down"
    /\ excused' = excused \cup {<<k, job[k].since>> : k \in {k \in Kinds : pc[k] = "sent"}}
    /\ pc' = [r \in Runners |-> IF r \in Kinds THEN "idle" ELSE pc[r]]
    /\ job' = [r \in Runners |-> IF r \in Kinds THEN NoJob ELSE job[r]]
    /\ carried' = carried \ Kinds
    /\ mark' = [k \in Kinds |-> "disturbed"]
    /\ UNCHANGED <<clockVars, shopVars, token, lastSent, disk, checked, dead, mailVars,
                   gaps, hour, resends>>

\* It starts again.  Both schedulers read their files and look at the clock
\* at once; the new mailer has cached no token, or the one Verify got.
Boot ==
    /\ server = "down"
    /\ server' = "up"
    /\ lastSent' = disk
    /\ token' = "good"
    /\ checked' = {}
    /\ UNCHANGED <<clockVars, shopVars, disk, carried, pc, job, dead, mailVars, excused,
                   gaps, mark, hour, faults, resends>>

-----------------------------------------------------------------------------
Run(r) ==
    \/ Fetch(r) \/ FetchFails(r)
    \/ SendMail(r) \/ SendUnanswered(r) \/ Unauthorised(r) \/ SendFails(r)
    \/ DeadLetter(r) \/ DeadLetterFails(r)

Next ==
    \/ Advance \/ TokenChanges \/ Crash \/ Boot
    \/ \E o \in Orders : PlaceOrder(o) \/ Capture(o) \/ Refund(o) \/ StageOrder(o)
    \/ \E k \in Enabled : Check(k) \/ Record(k) \/ RecordFails(k)
                         \/ PingHangs(k) \/ AlertHangs(k)
    \/ \E k \in Kinds, since, until \in Days : Resend(k, since, until)
    \/ \E r \in Runners : Run(r)

Spec == Init /\ [][Next]_vars

-----------------------------------------------------------------------------
(* Properties.                                                             *)

Pcs == {"idle", "fetch", "send", "retry", "sent", "failed", "hung"}
Jobs == [kind : Kinds, since : Days, until : 0..(MaxDay + 1), asof : Days,
         rows : SUBSET Orders]

\* Every variable keeps its type.
TypeOK ==
    /\ day \in 1..MaxDay /\ slot \in 0..(Slots - 1)
    /\ placed \in [Orders -> Days \cup {Never}]
    /\ paid \in [Orders -> Days \cup {Never}]
    /\ staged \in [Orders -> Days \cup {Never}]
    /\ refunded \in SUBSET Orders
    /\ server \in {"up", "down"}
    /\ token \in {"good", "stale"}
    /\ lastSent \in [Kinds -> Days]
    /\ disk \in [Kinds -> Days]
    /\ checked \in SUBSET Kinds /\ carried \in SUBSET Runners
    /\ pc \in [Runners -> Pcs]
    /\ job \in [Runners -> Jobs]
    /\ dead \in SUBSET (Kinds \X Days)
    /\ sent \in [Kinds -> [Days -> Nat]]
    /\ excused \in SUBSET (Kinds \X Days)
    /\ content \in [Kinds -> [Days -> SUBSET Orders]]
    /\ reported \in SUBSET (Kinds \X Days)
    /\ gaps \in SUBSET Orders
    /\ mark \in [Kinds -> {"clean", "disturbed"}]
    /\ hour \in [Kinds -> {"none", "clean"}]
    /\ faults \in 0..MaxFaults /\ resends \in 0..MaxResends

\* The scheduler mails a day's report twice only if it could not know of the
\* first mail: its answer was lost, or the process stopped or hung before the
\* date was on disk.  No other restart, retry or resend doubles a report.
SentTwiceIsExplained ==
    \A k \in Kinds, d \in Days : sent[k][d] > 1 => <<k, d>> \in excused

\* One undisturbed quarter of the send hour is enough: whatever failed before,
\* a revoked token included, yesterday's report is out after it.
CleanSlotReports ==
    \A k \in Kinds : hour[k] = "clean" => sent[k][day - 1] > 0

\* The mails about a finished day hold everything of that day and nothing of
\* another: an order placed and paid on it that is still paid, readable, no
\* test and not "manual"; for the intake, every order staged on it.
DayIsWholeAndOwn ==
    \A d \in Days, o \in Orders :
        /\ <<"cash", d>> \in reported /\ placed[o] = d /\ paid[o] = d
              /\ o \notin refunded \cup gaps \cup TestOrders \cup Manual
           => o \in content["cash"][d]
        /\ <<"intake", d>> \in reported /\ staged[o] = d => o \in content["intake"][d]
        /\ o \in content["cash"][d] => paid[o] = d
        /\ o \in content["intake"][d] => staged[o] = d
=============================================================================
