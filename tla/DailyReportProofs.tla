------------------------- MODULE DailyReportProofs --------------------------
(***************************************************************************)
(* What the daily reports guarantee for any orders, send hours, days and   *)
(* faults.                                                                 *)
(*                                                                         *)
(* The inductive invariant SafeInv adds to the types what is true of each  *)
(* report and its scheduler on its own (KindInv) and what the mails say of *)
(* the days (DayInv).  Neither property is inductive by itself: that no    *)
(* report is doubled rests on what the two dates, in memory and on disk,   *)
(* mean (JobInv, SentInv), and that a day is whole on what the rows a      *)
(* runner holds are, read before the clock and the orders moved (RowsInv). *)
(* A step changes one runner or none, so most cases end in a frame lemma.  *)
(***************************************************************************)
EXTENDS DailyReport, TLAPS

USE DEF clockVars, shopVars, memVars, jobVars, mailVars

\* What the proofs need of the fixed sets.
LEMMA KindFacts ==
    /\ Kinds \subseteq Runners /\ "operator" \in Runners
    /\ "cash" \in Kinds /\ "intake" \in Kinds /\ "operator" \notin Kinds
    /\ \A k \in Kinds : k # "operator" /\ (k = "cash" \/ k = "intake")
    /\ \A r \in Runners : r \in Kinds \/ r = "operator"
BY DEF Kinds, Runners

\* Days are integers.
LEMMA DayFacts ==
    /\ MaxDay \in Nat /\ 0 \in Days
    /\ \A d \in Days : d \in Int /\ 0 <= d /\ d <= MaxDay
    /\ \A d \in Int : 0 <= d /\ d <= MaxDay => d \in Days
BY ReportAssumption DEF Days

\* The job of a scheduler is about the day before the one it was started on,
\* and is started only while that day is newer than the date in memory.  A
\* date in memory or on disk means that the report of that day is out.
JobInv(k) ==
    /\ pc[k] # "idle" =>
          /\ server = "up" /\ job[k].kind = k
          /\ job[k].until = job[k].since + 1
          /\ lastSent[k] < job[k].until /\ job[k].until <= day
          /\ k \in checked => job[k].until = day
    /\ lastSent[k] <= day /\ disk[k] <= day
    /\ lastSent[k] > 0 => sent[k][lastSent[k] - 1] > 0
    /\ disk[k] > 0 => sent[k][disk[k] - 1] > 0
    /\ pc[k] = "sent" => sent[k][job[k].since] > 0

\* A first mail that needs no excuse is known, or about to be: its date is in
\* memory and on disk, or the scheduler is about to write it.
SentInv(k) ==
    \A d \in Days :
        sent[k][d] > 0 /\ <<k, d>> \notin excused =>
            /\ sent[k][d] = 1
            /\ \/ d < lastSent[k] /\ d < disk[k]
               \/ pc[k] = "sent" /\ job[k].since = d

\* The scheduler has mailed yesterday's report.
Out(k) == sent[k][day - 1] > 0

\* It has done so when an undisturbed slot of the send hour can end, and when
\* there was one before.
SlotInv(k) ==
    /\ slot \in SendHour[k] /\ server = "up" /\ pc[k] = "idle" /\ k \in checked =>
          (mark[k] = "clean" => Out(k))
    /\ pc[k] = "failed" /\ k \in checked => mark[k] # "clean"
    /\ hour[k] = "clean" => Out(k)

\* Order o must be in a cash report about day d.
Owed(o, d) ==
    /\ placed[o] = d /\ paid[o] = d
    /\ o \notin refunded \cup gaps \cup TestOrders \cup Manual

\* The rows in hand are of the days of the window, and of those over when they
\* were read they are all there is.
RowsInv(r) ==
    LET j == job[r]
    IN  pc[r] \in {"send", "retry"} =>
            /\ j.asof <= day
            /\ j.kind = "cash" =>
                  /\ \A o \in j.rows : j.since <= paid[o] /\ paid[o] < j.until
                  /\ \A o \in Orders, d \in Days :
                        j.since <= d /\ d < j.until /\ d < j.asof /\ Owed(o, d)
                            => o \in j.rows
            /\ j.kind = "intake" =>
                  /\ j.until = j.since + 1
                  /\ \A o \in j.rows : staged[o] = j.since
                  /\ \A o \in Orders :
                        j.since < j.asof /\ staged[o] = j.since => o \in j.rows

\* What the mails say of the days, and what that rests on.
DayInv ==
    /\ \A o \in Orders : placed[o] = Never => paid[o] = Never /\ staged[o] = Never
    /\ \A r \in Runners :
          pc[r] = "fetch" /\ job[r].kind = "intake" => job[r].until = job[r].since + 1
    /\ \A r \in Runners : RowsInv(r)
    /\ \A k \in Kinds, d \in Days : <<k, d>> \in reported => d < day
    /\ \A d \in Days, o \in Orders :
          /\ <<"cash", d>> \in reported /\ Owed(o, d) => o \in content["cash"][d]
          /\ <<"intake", d>> \in reported /\ staged[o] = d => o \in content["intake"][d]
          /\ o \in content["cash"][d] => paid[o] = d
          /\ o \in content["intake"][d] => staged[o] = d

\* All of a report and its scheduler.
KindInv(k) == JobInv(k) /\ SentInv(k) /\ SlotInv(k)

\* The inductive invariant.
SafeInv == TypeOK /\ (\A k \in Kinds : KindInv(k)) /\ DayInv

\* What the proofs need of the types.
LEMMA TypeFacts ==
    ASSUME TypeOK
    PROVE  /\ day \in Days /\ day \in Int /\ 1 <= day /\ day - 1 \in Days
           /\ \A k \in Kinds, d \in Days : sent[k][d] \in Nat
           /\ \A k \in Kinds : /\ lastSent[k] \in Days /\ lastSent[k] \in Int
                               /\ disk[k] \in Days /\ disk[k] \in Int
           /\ \A r \in Runners :
                 /\ job[r].kind \in Kinds /\ job[r].since \in Days
                 /\ job[r].since \in Int /\ 0 <= job[r].since
                 /\ job[r].until \in Int /\ job[r].asof \in Int
                 /\ job[r].rows \subseteq Orders
<1>1. day \in Days /\ day \in Int /\ 1 <= day /\ day - 1 \in Days
  BY DayFacts DEF TypeOK
<1>2. \A k \in Kinds, d \in Days : sent[k][d] \in Nat
  <2>1. sent \in [Kinds -> [Days -> Nat]]
    BY DEF TypeOK
  <2> QED BY <2>1
<1>3. \A k \in Kinds : /\ lastSent[k] \in Days /\ lastSent[k] \in Int
                       /\ disk[k] \in Days /\ disk[k] \in Int
  BY DayFacts DEF TypeOK
<1>4. \A r \in Runners :
                 /\ job[r].kind \in Kinds /\ job[r].since \in Days
                 /\ job[r].since \in Int /\ 0 <= job[r].since
                 /\ job[r].until \in Int /\ job[r].asof \in Int
                 /\ job[r].rows \subseteq Orders
  <2>1. job \in [Runners -> Jobs]
    BY DEF TypeOK
  <2> QED BY <2>1, DayFacts DEF Jobs
<1> QED BY <1>1, <1>2, <1>3, <1>4

\* The functions a job step changes.
LEMMA TypeShapes ==
    ASSUME TypeOK
    PROVE  /\ pc \in [Runners -> Pcs] /\ job \in [Runners -> Jobs]
           /\ lastSent \in [Kinds -> Days] /\ disk \in [Kinds -> Days]
           /\ sent \in [Kinds -> [Days -> Nat]]
           /\ mark \in [Kinds -> {"clean", "disturbed"}]
BY DEF TypeOK

\* The idle job has its type.
LEMMA NoJobFact == NoJob \in Jobs
BY KindFacts, DayFacts DEF NoJob, Job, Jobs

\* What reading the rows does to a job.
LEMMA ReadFact ==
    ASSUME NEW j \in Jobs, NEW rows \in SUBSET Orders, NEW d \in Days
    PROVE  [j EXCEPT !.rows = rows, !.asof = d] \in Jobs
BY DEF Jobs

\* A step that leaves report k and its scheduler alone keeps what is known.
LEMMA KindFrame ==
    ASSUME NEW k \in Kinds, KindInv(k),
           day' = day, slot' = slot, server' = server,
           pc'[k] = pc[k], pc[k] # "idle" => job'[k] = job[k],
           lastSent'[k] = lastSent[k], disk'[k] = disk[k], sent'[k] = sent[k],
           mark'[k] = mark[k], hour'[k] = hour[k], k \in checked' => k \in checked,
           excused \subseteq excused', dead \subseteq dead'
    PROVE  KindInv(k)'
BY DEF KindInv, JobInv, SentInv, SlotInv, Out

\* Rows in hand stay right while time passes and orders are refunded.
LEMMA RowsFrame ==
    ASSUME NEW r \in Runners, RowsInv(r), TypeOK, TypeOK',
           UNCHANGED <<placed, paid, staged>>,
           refunded \subseteq refunded', gaps \subseteq gaps', day <= day',
           pc'[r] \in {"send", "retry"} =>
               pc[r] \in {"send", "retry"} /\ job'[r] = job[r]
    PROVE  RowsInv(r)'
<1>1. day \in Int /\ day' \in Int /\ job[r].asof \in Int
  BY TypeFacts DEF TypeOK
<1>2. \A o \in Orders, d \in Days : Owed(o, d)' => Owed(o, d)
  BY DEF Owed
<1> QED BY <1>1, <1>2 DEF RowsInv

\* A step that sends no mail keeps what is known of the days.
LEMMA DayRest ==
    ASSUME DayInv, TypeOK, TypeOK',
           UNCHANGED <<placed, paid, staged, content, reported>>,
           refunded \subseteq refunded', gaps \subseteq gaps', day <= day',
           \A r \in Runners : RowsInv(r)',
           \A r \in Runners : pc'[r] = "fetch" /\ job'[r].kind = "intake" =>
               job'[r].until = job'[r].since + 1
    PROVE  DayInv'
<1>1. day \in Int /\ day' \in Int
  BY DEF TypeOK
<1>2. \A o \in Orders, d \in Days : Owed(o, d)' => Owed(o, d)
  BY DEF Owed
<1>3. \A k \in Kinds, d \in Days : <<k, d>> \in reported' => d < day'
  BY <1>1, DayFacts DEF DayInv
<1> QED BY <1>2, <1>3 DEF DayInv

\* So does one that reads no rows either.
LEMMA DayFrame ==
    ASSUME DayInv, TypeOK, TypeOK',
           UNCHANGED <<placed, paid, staged, content, reported>>,
           refunded \subseteq refunded', gaps \subseteq gaps', day <= day',
           \A r \in Runners : pc'[r] \in {"send", "retry"} =>
               pc[r] \in {"send", "retry"} /\ job'[r] = job[r],
           \A r \in Runners : pc'[r] = "fetch" /\ job'[r].kind = "intake" =>
               job'[r].until = job'[r].since + 1
    PROVE  DayInv'
<1>1. ASSUME NEW r \in Runners PROVE RowsInv(r)'
  BY RowsFrame DEF DayInv
<1> QED BY <1>1, DayRest

\* What happens to an order today is of no concern to the days before.
LEMMA OrderFrame ==
    ASSUME NEW o \in Orders, DayInv, TypeOK, TypeOK',
           UNCHANGED <<day, pc, job, content, reported, refunded, gaps>>,
           \A x \in Orders \ {o} : /\ placed'[x] = placed[x] /\ paid'[x] = paid[x]
                                   /\ staged'[x] = staged[x],
           placed'[o] = placed[o] \/ (placed[o] = Never /\ placed'[o] = day),
           paid'[o] = paid[o] \/ (paid[o] = Never /\ paid'[o] = day),
           staged'[o] = staged[o] \/ (staged[o] = Never /\ staged'[o] = day),
           placed'[o] # Never
    PROVE  DayInv'
<1>1. \A x \in Orders, d \in Days : d < day /\ Owed(x, d)' => Owed(x, d)
  BY TypeFacts, DayFacts DEF Owed
<1>2. Never \notin Days /\ \A d \in Days : d \in Int /\ Never < d
  BY DayFacts DEF Never
<1>3. ASSUME NEW r \in Runners PROVE RowsInv(r)'
  <2>1. RowsInv(r)
    BY DEF DayInv

      <2>2. job[r].since \in Days /\ job[r].rows \subseteq Orders /\ job[r].asof \in Int /\ day \in Int
    BY TypeFacts
  <2>3. \A d \in Days : job[r].asof <= day /\ d < job[r].asof => d < day
    BY <2>2, DayFacts
  <2>4. ASSUME pc[r] \in {"send", "retry"}, job[r].kind = "cash"
        PROVE  /\ \A x \in job[r].rows : job[r].since <= paid'[x] /\ paid'[x] < job[r].until
               /\ \A x \in Orders, d \in Days :
                     job[r].since <= d /\ d < job[r].until /\ d < job[r].asof /\ Owed(x, d)'
                         => x \in job[r].rows
    <3>1. ASSUME NEW x \in job[r].rows
          PROVE  job[r].since <= paid'[x] /\ paid'[x] < job[r].until
      <4>1. job[r].since <= paid[x] /\ paid[x] < job[r].until
        BY <2>1, <2>4 DEF RowsInv
      <4>2. paid[x] # Never
        BY <2>2, <4>1, DayFacts DEF Never
      <4> QED BY <2>2, <4>1, <4>2
    <3>2. ASSUME NEW x \in Orders, NEW d \in Days, job[r].since <= d, d < job[r].until,
                 d < job[r].asof, Owed(x, d)'
          PROVE  x \in job[r].rows
      <4>1. job[r].asof <= day
        BY <2>1, <2>4 DEF RowsInv
      <4> QED BY <1>1, <2>1, <2>3, <2>4, <3>2, <4>1 DEF RowsInv
    <3> QED BY <3>1, <3>2
  <2>5. ASSUME pc[r] \in {"send", "retry"}, job[r].kind = "intake"
        PROVE  /\ \A x \in job[r].rows : staged'[x] = job[r].since
               /\ \A x \in Orders :

                                            job[r].since < job[r].asof /\ staged'[x] = job[r].since => x \in job[r].rows
    BY <1>2, <2>1, <2>2, <2>3, <2>5 DEF RowsInv
  <2> QED BY <2>1, <2>4, <2>5 DEF RowsInv
<1>4. ASSUME NEW d \in Days, NEW x \in Orders
      PROVE  /\ <<"cash", d>> \in reported /\ Owed(x, d)' => x \in content["cash"][d]
             /\ <<"intake", d>> \in reported /\ staged'[x] = d => x \in content["intake"][d]
             /\ x \in content["cash"][d] => paid'[x] = d
             /\ x \in content["intake"][d] => staged'[x] = d
  <2>1. /\ <<"cash", d>> \in reported => d < day
        /\ <<"intake", d>> \in reported => d < day
    BY KindFacts DEF DayInv
  <2> QED BY <1>1, <1>2, <2>1, TypeFacts DEF DayInv
<1>5. \A x \in Orders : placed'[x] = Never => paid'[x] = Never /\ staged'[x] = Never
  BY DEF DayInv
<1> QED BY <1>3, <1>4, <1>5 DEF DayInv

\* A mail counts for the day of its scheduler only.
LEMMA DeliveredSent ==
    ASSUME NEW r \in Runners, SafeInv, Attempt(r), Delivered(r)
    PROVE  /\ sent' \in [Kinds -> [Days -> Nat]]
           /\ \A k \in Kinds : k # r => sent'[k] = sent[k]
           /\ r \in Kinds => \A d \in Days :
                 sent'[r][d] = IF d = job[r].since THEN sent[r][d] + 1 ELSE sent[r][d]
<1>1. r \in Kinds => job[r].kind = r
  BY DEF SafeInv, KindInv, JobInv, Attempt
<1>2. sent \in [Kinds -> [Days -> Nat]] /\ job[r].since \in Days
  BY TypeFacts, TypeShapes DEF SafeInv
<1>3. CASE r \in Kinds
  <2>1. sent' = [sent EXCEPT ![r] = [sent[r] EXCEPT ![job[r].since] = @ + 1]]
    BY <1>1, <1>3 DEF Delivered
  <2>2. sent[r] \in [Days -> Nat]
    BY <1>2, <1>3
  <2>3. [sent[r] EXCEPT ![job[r].since] = @ + 1] \in [Days -> Nat]
    BY <1>2, <2>2
  <2> QED BY <1>2, <1>3, <2>1, <2>2, <2>3
<1>4. CASE r \notin Kinds
  BY <1>2, <1>4 DEF Delivered
<1> QED BY <1>3, <1>4

\* The mail holds what its rows say of the days of its window.
LEMMA DeliveredContent ==
    ASSUME NEW r \in Runners, SafeInv, Delivered(r)
    PROVE  LET j == job[r]
           IN  /\ content' \in [Kinds -> [Days -> SUBSET Orders]]
               /\ reported' \in SUBSET (Kinds \X Days)
               /\ \A k \in Kinds, d \in Days :
                     content'[k][d] = IF k = j.kind /\ j.since <= d /\ d < j.until
                                      THEN content[k][d] \cup RowsOf(r, d)
                                      ELSE content[k][d]
               /\ \A k \in Kinds, d \in Days : <<k, d>> \in reported' =>
                     \/ <<k, d>> \in reported
                     \/ k = j.kind /\ j.since <= d /\ d < j.until /\ d < j.asof
<1> DEFINE j == job[r]
           new == [d \in Days |-> content[j.kind][d] \cup
                     IF Within(d, j.since, j.until) THEN RowsOf(r, d) ELSE {}]
<1>1. j.kind \in Kinds /\ j.rows \subseteq Orders
  BY TypeFacts DEF SafeInv
<1>2. content \in [Kinds -> [Days -> SUBSET Orders]] /\ reported \in SUBSET (Kinds \X Days)
  BY DEF SafeInv, TypeOK
<1>3. content' = [content EXCEPT ![j.kind] = new]
  BY DEF Delivered
<1>4. \A d \in Days : RowsOf(r, d) \subseteq Orders
  BY <1>1 DEF RowsOf
<1>5. new \in [Days -> SUBSET Orders]
  BY <1>1, <1>2, <1>4
<1>6. content' \in [Kinds -> [Days -> SUBSET Orders]]
  BY <1>1, <1>2, <1>3, <1>5
<1>7. reported' \in SUBSET (Kinds \X Days)
  BY <1>1, <1>2 DEF Delivered
<1>8. ASSUME NEW k \in Kinds, NEW d \in Days
      PROVE  content'[k][d] = IF k = j.kind /\ j.since <= d /\ d < j.until
                              THEN content[k][d] \cup RowsOf(r, d)
                              ELSE content[k][d]
  <2>1. CASE k = j.kind
    <3>1. content'[k] = new
      BY <1>1, <1>2, <1>3, <2>1
    <3> QED BY <2>1, <3>1 DEF Within
  <2>2. CASE k # j.kind
    BY <1>1, <1>2, <1>3, <2>2
  <2> QED BY <2>1, <2>2
<1>9. ASSUME NEW k \in Kinds, NEW d \in Days, <<k, d>> \in reported', <<k,
   d>> \notin reported
      PROVE  k = j.kind /\ j.since <= d /\ d < j.until /\ d < j.asof
  BY <1>9 DEF Delivered, Within
<1> QED BY <1>6, <1>7, <1>8, <1>9

\* A mail keeps what is known of the days.
LEMMA DayDelivered ==
    ASSUME NEW r \in Runners, SafeInv, TypeOK', Attempt(r), Delivered(r),
           UNCHANGED <<day, placed, paid, staged, refunded, gaps>>,
           pc'[r] \notin {"send", "retry", "fetch"},
           \A q \in Runners : q # r => pc'[q] = pc[q] /\ job'[q] = job[q]
    PROVE  DayInv'
<1> DEFINE j == job[r]
<1>1. DayInv /\ RowsInv(r) /\ TypeOK
  BY DEF SafeInv, DayInv
<1>2. /\ j.kind \in Kinds /\ j.since \in Int /\ j.until \in Int /\ j.asof \in Int
      /\ day \in Int /\ j.rows \subseteq Orders
  BY <1>1, TypeFacts
<1>a. ASSUME NEW k \in Kinds, NEW d \in Days
      PROVE  content'[k][d] = IF k = j.kind /\ j.since <= d /\ d < j.until
                              THEN content[k][d] \cup RowsOf(r, d)
                              ELSE content[k][d]
  BY DeliveredContent
<1>b. \A d \in Days, o \in Orders :
         /\ <<"cash", d>> \in reported /\ Owed(o, d) => o \in content["cash"][d]
         /\ <<"intake", d>> \in reported /\ staged[o] = d => o \in content["intake"][d]
         /\ o \in content["cash"][d] => paid[o] = d
         /\ o \in content["intake"][d] => staged[o] = d
  BY <1>1 DEF DayInv
<1>3. ASSUME NEW q \in Runners PROVE RowsInv(q)'
  <2>1. CASE q # r
    <3>1. day <= day'
      BY <1>2
    <3> QED BY <1>1, <2>1, <3>1, RowsFrame DEF DayInv
  <2>2. CASE q = r
    BY <2>2 DEF RowsInv
  <2> QED BY <2>1, <2>2
<1>4. \A q \in Runners :
         pc'[q] = "fetch" /\ job'[q].kind = "intake" => job'[q].until = job'[q].since + 1
  BY <1>1 DEF DayInv
<1>5. \A k \in Kinds, d \in Days : <<k, d>> \in reported' => d < day'
  BY <1>1, <1>2, DeliveredContent, DayFacts DEF DayInv, RowsInv, Attempt
<1>6. ASSUME NEW d \in Days, NEW o \in Orders
      PROVE  /\ o \in content'["cash"][d] => paid[o] = d
             /\ o \in content'["intake"][d] => staged[o] = d
  <2>1. d \in Int
    BY DayFacts
  <2>2. ASSUME j.kind = "cash", j.since <= d, d < j.until, o \in RowsOf(r, d)
        PROVE  paid[o] = d
    <3>1. paid[o] \in Int
      BY <1>1, DayFacts DEF TypeOK, Never
    <3> QED BY <1>1, <1>2, <2>1, <2>2, <3>1 DEF RowsOf, RowsInv, Attempt
  <2>3. ASSUME j.kind = "intake", j.since <= d, d < j.until, o \in RowsOf(r, d)
        PROVE  staged[o] = d
    BY <1>1, <1>2, <2>1, <2>3 DEF RowsOf, RowsInv, Attempt
  <2>4. /\ o \in content'["cash"][d] =>
              o \in content["cash"][d] \/ (j.kind = "cash" /\ j.since <= d /\ d < j.until
                                            /\ o \in RowsOf(r, d))
        /\ o \in content'["intake"][d] =>

                              o \in content["intake"][d] \/ (j.kind = "intake" /\ j.since <= d /\ d < j.until
                                              /\ o \in RowsOf(r, d))
    BY <1>a, KindFacts
  <2> QED BY <1>b, <2>2, <2>3, <2>4
<1>7. ASSUME NEW d \in Days, NEW o \in Orders,
             <<"cash", d>> \in reported', Owed(o, d)
      PROVE  o \in content'["cash"][d]
  <2>1. CASE <<"cash", d>> \in reported
    <3>1. o \in content["cash"][d]
      BY <1>7, <1>b, <2>1
    <3>2. content["cash"][d] \subseteq content'["cash"][d]
      BY <1>a, KindFacts
    <3> QED BY <3>1, <3>2
  <2>2. CASE <<"cash", d>> \notin reported
    <3>1. j.kind = "cash" /\ j.since <= d /\ d < j.until /\ d < j.asof
      BY <1>7, <2>2, DeliveredContent, KindFacts
    <3>2. o \in j.rows
      BY <1>1, <1>7, <3>1 DEF RowsInv, Attempt
    <3>3. o \in RowsOf(r, d)
      BY <1>7, <3>2 DEF RowsOf, Owed
    <3> QED BY <1>a, <3>1, <3>3, KindFacts
  <2> QED BY <2>1, <2>2
<1>8. ASSUME NEW d \in Days, NEW o \in Orders,
             <<"intake", d>> \in reported', staged[o] = d
      PROVE  o \in content'["intake"][d]
  <2>1. CASE <<"intake", d>> \in reported
    <3>1. o \in content["intake"][d]
      BY <1>8, <1>b, <2>1
    <3>2. content["intake"][d] \subseteq content'["intake"][d]
      BY <1>a, KindFacts
    <3> QED BY <3>1, <3>2
  <2>2. CASE <<"intake", d>> \notin reported
    <3>1. j.kind = "intake" /\ j.since <= d /\ d < j.until /\ d < j.asof
      BY <1>8, <2>2, DeliveredContent, KindFacts
    <3>2. j.until = j.since + 1 /\ d = j.since
      BY <1>1, <1>2, <3>1, DayFacts DEF RowsInv, Attempt
    <3>3. o \in j.rows
      BY <1>1, <1>8, <3>1, <3>2 DEF RowsInv, Attempt
    <3>4. o \in RowsOf(r, d)
      BY <3>2, <3>3 DEF RowsOf
    <3> QED BY <1>a, <3>1, <3>4, KindFacts
  <2> QED BY <2>1, <2>2
<1>9. \A o \in Orders, d \in Days : Owed(o, d)' <=> Owed(o, d)
  BY DEF Owed
<1>10. \A o \in Orders : placed'[o] = Never => paid'[o] = Never /\ staged'[o] = Never
  BY <1>1 DEF DayInv
<1> QED BY <1>3, <1>4, <1>5, <1>6, <1>7, <1>8, <1>9, <1>10 DEF DayInv

-----------------------------------------------------------------------------
\* The service starts in a safe state.
LEMMA InitSafe == Init => SafeInv
<1> SUFFICES ASSUME Init PROVE SafeInv
  OBVIOUS
<1>1. TypeOK
  BY KindFacts, DayFacts, NoJobFact, ReportAssumption DEF Init, TypeOK, Pcs
<1>2. \A k \in Kinds : KindInv(k)
  BY KindFacts DEF Init, KindInv, JobInv, SentInv, SlotInv
<1>3. DayInv
  BY KindFacts DEF Init, DayInv, RowsInv
<1> QED BY <1>1, <1>2, <1>3 DEF SafeInv

\* Advance keeps the invariant.
LEMMA AdvanceStep ==
    ASSUME SafeInv, Advance
    PROVE  SafeInv'
<1>1. TypeOK'
  <2>1. day' \in 1..MaxDay
    BY ReportAssumption DEF SafeInv, TypeOK, Advance
  <2>2. slot' \in 0..(Slots - 1)
    BY ReportAssumption DEF SafeInv, TypeOK, Advance
  <2>3. hour' \in [Kinds -> {"none", "clean"}]
    BY DEF SafeInv, TypeOK, Advance, SlotDone
  <2>4. mark' \in [Kinds -> {"clean", "disturbed"}]
    BY KindFacts DEF SafeInv, TypeOK, Advance
  <2>5. checked' \in SUBSET Kinds
    BY DEF SafeInv, TypeOK, Advance
  <2>6. carried' \in SUBSET Runners
    BY DEF SafeInv, TypeOK, Advance
  <2> QED BY <2>1, <2>2, <2>3, <2>4, <2>5, <2>6 DEF SafeInv, TypeOK, Advance, SlotDone
<1>2. ASSUME NEW k \in Kinds PROVE KindInv(k)'
  <2>1. KindInv(k) /\ day \in Int
    BY TypeFacts DEF SafeInv
  <2>2. /\ UNCHANGED <<server, pc, job, lastSent, disk, sent, excused, dead>>
        /\ checked' = {}
        /\ \/ day' = day /\ hour'[k] = SlotDone(k)
           \/ day' = day + 1 /\ hour'[k] = "none"
    BY DEF Advance
  <2>3. JobInv(k)'
    BY <2>1, <2>2, TypeFacts, KindFacts DEF SafeInv, KindInv, JobInv
  <2>4. SentInv(k)'
    BY <2>1, <2>2 DEF KindInv, SentInv
  <2>5. SlotInv(k)'
    BY <2>1, <2>2 DEF KindInv, SlotInv, SlotDone, Out
  <2> QED BY <2>3, <2>4, <2>5 DEF KindInv
<1>3. DayInv'
  BY <1>1, DayFrame, KindFacts, TypeFacts, TypeShapes DEF SafeInv, DayInv, Advance, SlotDone
<1> QED BY <1>1, <1>2, <1>3 DEF SafeInv

\* TokenChanges keeps the invariant.
LEMMA TokenChangesStep ==
    ASSUME SafeInv, TokenChanges
    PROVE  SafeInv'
<1>1. TypeOK'
  <2>1. token' \in {"good", "stale"}
    BY DEF SafeInv, TypeOK, TokenChanges
  <2> QED BY <2>1 DEF SafeInv, TypeOK, TokenChanges
<1>2. ASSUME NEW k \in Kinds PROVE KindInv(k)'
  BY KindFrame, KindFacts, TypeShapes DEF SafeInv, TokenChanges
<1>3. DayInv'
  BY <1>1, DayFrame, KindFacts, TypeFacts, TypeShapes DEF SafeInv, DayInv, TokenChanges
<1> QED BY <1>1, <1>2, <1>3 DEF SafeInv

\* Crash keeps the invariant.
LEMMA CrashStep ==
    ASSUME SafeInv, Crash
    PROVE  SafeInv'
<1>1. TypeOK'
  <2>1. server' \in {"up", "down"}
    BY DEF SafeInv, TypeOK, Crash
  <2>2. excused' \in SUBSET (Kinds \X Days)
    BY KindFacts, TypeFacts DEF SafeInv, TypeOK, Crash
  <2>3. pc' \in [Runners -> Pcs]
    BY KindFacts DEF SafeInv, TypeOK, Pcs, Crash
  <2>4. job' \in [Runners -> Jobs]
    BY KindFacts, NoJobFact DEF SafeInv, TypeOK, Crash
  <2>5. carried' \in SUBSET Runners
    BY DEF SafeInv, TypeOK, Crash
  <2>6. mark' \in [Kinds -> {"clean", "disturbed"}]
    BY KindFacts DEF SafeInv, TypeOK, Crash
  <2>7. faults' \in 0..MaxFaults
    BY ReportAssumption DEF SafeInv, TypeOK, Crash, Fault
  <2> QED BY <2>1, <2>2, <2>3, <2>4, <2>5, <2>6, <2>7 DEF SafeInv, TypeOK, Crash, Fault
<1>2. ASSUME NEW k \in Kinds PROVE KindInv(k)'
  <2>1. KindInv(k) /\ k \in Runners
    BY KindFacts DEF SafeInv
  <2>2. /\ UNCHANGED <<day, lastSent, disk, sent, dead, hour>>
        /\ pc'[k] = "idle" /\ server' = "down"
        /\ excused \subseteq excused'
        /\ pc[k] = "sent" => <<k, job[k].since>> \in excused'
    BY <2>1 DEF Crash
  <2> QED BY <2>1, <2>2 DEF KindInv, JobInv, SentInv, SlotInv, Out
<1>3. DayInv'
  BY <1>1, DayFrame, KindFacts, TypeFacts, TypeShapes DEF SafeInv, DayInv, Crash, Fault
<1> QED BY <1>1, <1>2, <1>3 DEF SafeInv

\* Boot keeps the invariant.
LEMMA BootStep ==
    ASSUME SafeInv, Boot
    PROVE  SafeInv'
<1>1. TypeOK'
  <2>1. server' \in {"up", "down"}
    BY DEF SafeInv, TypeOK, Boot
  <2>2. lastSent' \in [Kinds -> Days]
    BY DEF SafeInv, TypeOK, Boot
  <2>3. token' \in {"good", "stale"}
    BY DEF SafeInv, TypeOK, Boot
  <2>4. checked' \in SUBSET Kinds
    BY DEF SafeInv, TypeOK, Boot
  <2> QED BY <2>1, <2>2, <2>3, <2>4 DEF SafeInv, TypeOK, Boot
<1>2. ASSUME NEW k \in Kinds PROVE KindInv(k)'
  <2>1. KindInv(k) /\ pc[k] = "idle"
    BY DEF SafeInv, KindInv, JobInv, Boot
  <2>2. /\ UNCHANGED <<day, disk, pc, job, sent, excused, dead, hour, mark>>
        /\ lastSent' = disk /\ checked' = {}
    BY DEF Boot
  <2> QED BY <2>1, <2>2 DEF KindInv, JobInv, SentInv, SlotInv, Out
<1>3. DayInv'
  BY <1>1, DayFrame, KindFacts, TypeFacts, TypeShapes DEF SafeInv, DayInv, Boot
<1> QED BY <1>1, <1>2, <1>3 DEF SafeInv

\* PlaceOrder keeps the invariant.
LEMMA PlaceOrderStep ==
    ASSUME NEW o \in Orders, SafeInv, PlaceOrder(o)
    PROVE  SafeInv'
<1>1. TypeOK'
  <2>1. placed' \in [Orders -> Days \cup {Never}]
    BY TypeFacts DEF SafeInv, TypeOK, PlaceOrder, restOfWorld
  <2>2. paid' \in [Orders -> Days \cup {Never}]
    BY TypeFacts DEF SafeInv, TypeOK, PlaceOrder, restOfWorld
  <2> QED BY <2>1, <2>2 DEF SafeInv, TypeOK, PlaceOrder, restOfWorld
<1>2. ASSUME NEW k \in Kinds PROVE KindInv(k)'
  BY KindFrame, KindFacts, TypeShapes DEF SafeInv, PlaceOrder, restOfWorld
<1>3. DayInv'
  <2>1. paid[o] = Never /\ staged[o] = Never
    BY DEF SafeInv, DayInv, PlaceOrder
  <2>2. /\ placed' = [placed EXCEPT ![o] = day]
        /\ UNCHANGED <<staged, refunded, day, pc, job, content, reported, gaps>>
    BY DEF PlaceOrder, restOfWorld
  <2>3. /\ \A x \in Orders \ {o} : placed'[x] = placed[x] /\ paid'[x] = paid[x]
        /\ placed'[o] = day /\ paid'[o] \in {day, Never}
    BY DEF SafeInv, TypeOK, PlaceOrder
  <2>4. day # Never
    BY TypeFacts DEF SafeInv, Never
  <2> QED BY <1>1, <2>1, <2>2, <2>3, <2>4, OrderFrame DEF SafeInv, PlaceOrder
<1> QED BY <1>1, <1>2, <1>3 DEF SafeInv

\* Capture keeps the invariant.
LEMMA CaptureStep ==
    ASSUME NEW o \in Orders, SafeInv, Capture(o)
    PROVE  SafeInv'
<1>1. TypeOK'
  <2>1. paid' \in [Orders -> Days \cup {Never}]
    BY TypeFacts DEF SafeInv, TypeOK, Capture, restOfWorld
  <2> QED BY <2>1 DEF SafeInv, TypeOK, Capture, restOfWorld
<1>2. ASSUME NEW k \in Kinds PROVE KindInv(k)'
  BY KindFrame, KindFacts, TypeShapes DEF SafeInv, Capture, restOfWorld
<1>3. DayInv'
  <2>1. /\ \A x \in Orders \ {o} : paid'[x] = paid[x]
        /\ paid'[o] = day
    BY DEF SafeInv, TypeOK, Capture
  <2> QED BY <1>1, <2>1, OrderFrame DEF SafeInv, Capture, restOfWorld
<1> QED BY <1>1, <1>2, <1>3 DEF SafeInv

\* Refund keeps the invariant.
LEMMA RefundStep ==
    ASSUME NEW o \in Orders, SafeInv, Refund(o)
    PROVE  SafeInv'
<1>1. TypeOK'
  <2>1. refunded' \in SUBSET Orders
    BY DEF SafeInv, TypeOK, Refund, restOfWorld
  <2> QED BY <2>1 DEF SafeInv, TypeOK, Refund, restOfWorld
<1>2. ASSUME NEW k \in Kinds PROVE KindInv(k)'
  BY KindFrame, KindFacts, TypeShapes DEF SafeInv, Refund, restOfWorld
<1>3. DayInv'
  BY <1>1, DayFrame, KindFacts, TypeFacts, TypeShapes
     DEF SafeInv, DayInv, Refund, restOfWorld
<1> QED BY <1>1, <1>2, <1>3 DEF SafeInv

\* StageOrder keeps the invariant.
LEMMA StageOrderStep ==
    ASSUME NEW o \in Orders, SafeInv, StageOrder(o)
    PROVE  SafeInv'
<1>1. TypeOK'
  <2>1. staged' \in [Orders -> Days \cup {Never}]
    BY TypeFacts DEF SafeInv, TypeOK, StageOrder, restOfWorld
  <2> QED BY <2>1 DEF SafeInv, TypeOK, StageOrder, restOfWorld
<1>2. ASSUME NEW k \in Kinds PROVE KindInv(k)'
  BY KindFrame, KindFacts, TypeShapes DEF SafeInv, StageOrder, restOfWorld
<1>3. DayInv'
  <2>1. /\ \A x \in Orders \ {o} : staged'[x] = staged[x]
        /\ staged'[o] = day
    BY DEF SafeInv, TypeOK, StageOrder
  <2> QED BY <1>1, <2>1, OrderFrame DEF SafeInv, StageOrder, restOfWorld
<1> QED BY <1>1, <1>2, <1>3 DEF SafeInv

\* Check keeps the invariant.
LEMMA CheckStep ==
    ASSUME NEW r \in Kinds, SafeInv, Check(r)
    PROVE  SafeInv'
<1>1. TypeOK'
  <2>1. checked' \in SUBSET Kinds
    BY DEF SafeInv, TypeOK, Check
  <2>2. pc' \in [Runners -> Pcs]
    BY KindFacts DEF SafeInv, TypeOK, Pcs, Check, Due
  <2>3. job' \in [Runners -> Jobs]
    <3>1. Job(r, day - 1, day - 1 + 1) \in Jobs
      BY TypeFacts, DayFacts DEF SafeInv, Jobs, Job
    <3> QED BY <3>1, KindFacts DEF SafeInv, TypeOK, Check, Yesterday
  <2> QED BY <2>1, <2>2, <2>3 DEF SafeInv, TypeOK, Check, Due, Yesterday, Job
<1>2. ASSUME NEW k \in Kinds PROVE KindInv(k)'
  <2>0. KindInv(k)
    BY DEF SafeInv
  <2>1. CASE k # r
    BY <2>0, <2>1, KindFrame, KindFacts, TypeShapes DEF SafeInv, Check, Due, Yesterday, Job
  <2>2. CASE k = r
    <3>1. JobInv(k)'
      BY <2>0, <2>2, KindFacts, TypeFacts, TypeShapes
         DEF SafeInv, KindInv, JobInv, Check, Due, Yesterday, Job
    <3>2. SentInv(k)'
      BY <2>0, <2>2, KindFacts, TypeFacts, TypeShapes
         DEF SafeInv, KindInv, JobInv, SentInv, Check, Due, Yesterday, Job
    <3>3. SlotInv(k)'
      <4>1. /\ UNCHANGED <<sent, day, slot, server, mark, hour, dead, lastSent>>
            /\ pc'[k] = IF Due(k) THEN "fetch" ELSE "idle"
        BY <2>2, KindFacts, TypeShapes DEF SafeInv, Check
      <4>2. slot \in SendHour[k] /\ ~Due(k) => Out(k)
        BY <2>0, TypeFacts DEF SafeInv, KindInv, JobInv, Due, Out
      <4> QED BY <2>0, <4>1, <4>2 DEF KindInv, SlotInv, Out
    <3> QED BY <3>1, <3>2, <3>3 DEF KindInv
  <2> QED BY <2>1, <2>2
<1>3. DayInv'
  BY <1>1, DayFrame, KindFacts, TypeFacts, TypeShapes
     DEF SafeInv, DayInv, Check, Due, Yesterday, Job
<1> QED BY <1>1, <1>2, <1>3 DEF SafeInv

\* Record keeps the invariant.
LEMMA RecordStep ==
    ASSUME NEW r \in Kinds, SafeInv, Record(r)
    PROVE  SafeInv'
<1>0. job[r].until \in Days /\ r \in Runners
  BY KindFacts, TypeFacts, DayFacts DEF SafeInv, KindInv, JobInv, Record
<1>1. TypeOK'
  <2>1. lastSent' \in [Kinds -> Days]
    BY <1>0 DEF SafeInv, TypeOK, Record
  <2>2. disk' \in [Kinds -> Days]
    BY <1>0 DEF SafeInv, TypeOK, Record
  <2>3. pc' \in [Runners -> Pcs]
    BY <1>0, KindFacts DEF SafeInv, TypeOK, Pcs, Record, Ended
  <2>4. job' \in [Runners -> Jobs]
    BY <1>0, KindFacts, NoJobFact DEF SafeInv, TypeOK, Record, Ended
  <2>5. carried' \in SUBSET Runners
    BY <1>0 DEF SafeInv, TypeOK, Record, Ended
  <2> QED BY <2>1, <2>2, <2>3, <2>4, <2>5 DEF SafeInv, TypeOK, Record, Ended
<1>2. ASSUME NEW k \in Kinds PROVE KindInv(k)'
  <2>0. KindInv(k)
    BY DEF SafeInv
  <2>1. CASE k # r
    BY <1>0, <2>0, <2>1, KindFrame, KindFacts, TypeShapes DEF SafeInv, Record, Ended
  <2>2. CASE k = r
    <3>1. JobInv(k)'
      <4>1. /\ pc[k] = "sent" /\ pc'[k] = "idle" /\ UNCHANGED <<day, sent, server>>
            /\ lastSent'[k] = job[k].until /\ disk'[k] = job[k].until
        BY <1>0, <2>2, TypeShapes DEF SafeInv, Record, Ended
      <4>2. job[k].until - 1 = job[k].since /\ job[k].until <= day
        BY <1>0, <2>0, <2>2, <4>1, TypeFacts DEF SafeInv, KindInv, JobInv
      <4> QED BY <2>0, <4>1, <4>2 DEF KindInv, JobInv
    <3>2. SentInv(k)'
      <4>1. /\ pc[k] = "sent" /\ UNCHANGED <<sent, excused>>
            /\ lastSent'[k] = job[k].until /\ disk'[k] = job[k].until
        BY <1>0, <2>2, TypeShapes DEF SafeInv, Record, Ended
      <4>2. job[k].since \in Int /\ job[k].until = job[k].since + 1
        BY <1>0, <2>0, <2>2, <4>1, TypeFacts DEF SafeInv, KindInv, JobInv
      <4>3. lastSent[k] < job[k].until /\ disk[k] \in Int /\ lastSent[k] \in Int
        BY <2>0, <4>1, TypeFacts DEF SafeInv, KindInv, JobInv
      <4> QED BY <2>0, <4>1, <4>2, <4>3, DayFacts DEF KindInv, SentInv
    <3>3. SlotInv(k)'
      BY <1>0, <2>0, <2>2, KindFacts, TypeFacts, TypeShapes
         DEF SafeInv, KindInv, JobInv, SlotInv, Out, Record, Ended
    <3> QED BY <3>1, <3>2, <3>3 DEF KindInv
  <2> QED BY <2>1, <2>2
<1>3. DayInv'
  BY <1>0, <1>1, DayFrame, KindFacts, TypeFacts, TypeShapes
     DEF SafeInv, DayInv, Record, Ended
<1> QED BY <1>1, <1>2, <1>3 DEF SafeInv

\* RecordFails keeps the invariant.
LEMMA RecordFailsStep ==
    ASSUME NEW r \in Kinds, SafeInv, RecordFails(r)
    PROVE  SafeInv'
<1>0. job[r].until \in Days /\ r \in Runners
  BY KindFacts, TypeFacts, DayFacts DEF SafeInv, KindInv, JobInv, RecordFails
<1>1. TypeOK'
  <2>1. lastSent' \in [Kinds -> Days]
    BY <1>0 DEF SafeInv, TypeOK, RecordFails
  <2>2. excused' \in SUBSET (Kinds \X Days)
    BY <1>0, TypeFacts DEF SafeInv, TypeOK, RecordFails
  <2>3. pc' \in [Runners -> Pcs]
    BY <1>0, KindFacts DEF SafeInv, TypeOK, Pcs, RecordFails, Ended
  <2>4. job' \in [Runners -> Jobs]
    BY <1>0, KindFacts, NoJobFact DEF SafeInv, TypeOK, RecordFails, Ended
  <2>5. carried' \in SUBSET Runners
    BY <1>0 DEF SafeInv, TypeOK, RecordFails, Ended
  <2>6. faults' \in 0..MaxFaults
    BY <1>0, ReportAssumption DEF SafeInv, TypeOK, RecordFails, Fault
  <2> QED BY <2>1, <2>2, <2>3, <2>4, <2>5, <2>6
         DEF SafeInv, TypeOK, RecordFails, Ended, Fault
<1>2. ASSUME NEW k \in Kinds PROVE KindInv(k)'
  <2>0. KindInv(k)
    BY DEF SafeInv
  <2>1. CASE k # r
    BY <1>0, <2>0, <2>1, KindFrame, KindFacts, TypeShapes
       DEF SafeInv, RecordFails, Ended, Fault
  <2>2. CASE k = r
    <3>1. JobInv(k)'
      <4>1. /\ pc[k] = "sent" /\ pc'[k] = "idle" /\ UNCHANGED <<day, sent, server, disk>>
            /\ lastSent'[k] = job[k].until
        BY <1>0, <2>2, TypeShapes DEF SafeInv, RecordFails, Ended
      <4>2. job[k].until - 1 = job[k].since /\ job[k].until <= day
        BY <1>0, <2>0, <2>2, <4>1, TypeFacts DEF SafeInv, KindInv, JobInv
      <4> QED BY <2>0, <4>1, <4>2 DEF KindInv, JobInv
    <3>2. SentInv(k)'
      <4>1. /\ pc[k] = "sent" /\ UNCHANGED <<sent, disk>>
            /\ lastSent'[k] = job[k].until /\ excused' = excused \cup {<<k, job[k].since>>}
        BY <1>0, <2>2, TypeShapes DEF SafeInv, RecordFails, Ended
      <4>2. lastSent[k] < job[k].until /\ lastSent[k] \in Int /\ job[k].until \in Int
        BY <1>0, <2>0, <2>2, <4>1, TypeFacts DEF SafeInv, KindInv, JobInv
      <4> QED BY <2>0, <4>1, <4>2, DayFacts DEF KindInv, SentInv
    <3>3. SlotInv(k)'
      <4>1. /\ pc[k] = "sent" /\ pc'[k] = "idle"
            /\ UNCHANGED <<sent, day, slot, server, checked, mark, hour, dead>>
        BY <1>0, <2>2, TypeShapes DEF SafeInv, RecordFails, Ended
      <4>2. k \in checked => Out(k)
        BY <2>0, <4>1, <1>0, <2>2, TypeFacts DEF SafeInv, KindInv, JobInv, Out
      <4> QED BY <2>0, <4>1, <4>2 DEF KindInv, SlotInv, Out
    <3> QED BY <3>1, <3>2, <3>3 DEF KindInv
  <2> QED BY <2>1, <2>2
<1>3. DayInv'
  BY <1>0, <1>1, DayFrame, KindFacts, TypeFacts, TypeShapes
     DEF SafeInv, DayInv, RecordFails, Ended, Fault
<1> QED BY <1>1, <1>2, <1>3 DEF SafeInv

\* PingHangs keeps the invariant.
LEMMA PingHangsStep ==
    ASSUME NEW r \in Kinds, SafeInv, PingHangs(r)
    PROVE  SafeInv'
<1>1. TypeOK'
  <2>1. excused' \in SUBSET (Kinds \X Days)
    BY KindFacts, TypeFacts DEF SafeInv, TypeOK, PingHangs
  <2>2. pc' \in [Runners -> Pcs]
    BY KindFacts DEF SafeInv, TypeOK, Pcs, PingHangs
  <2>3. mark' \in [Kinds -> {"clean", "disturbed"}]
    BY KindFacts DEF SafeInv, TypeOK, PingHangs, Disturbed
  <2>4. faults' \in 0..MaxFaults
    BY ReportAssumption DEF SafeInv, TypeOK, PingHangs, Fault
  <2> QED BY <2>1, <2>2, <2>3, <2>4 DEF SafeInv, TypeOK, PingHangs, Fault, Disturbed
<1>2. ASSUME NEW k \in Kinds PROVE KindInv(k)'
  <2>0. KindInv(k)
    BY DEF SafeInv
  <2>1. CASE k # r
    BY <2>0, <2>1, KindFrame, KindFacts, TypeShapes
       DEF SafeInv, PingHangs, Fault, Disturbed
  <2>2. CASE k = r
    <3>1. JobInv(k)'
      BY <2>0, <2>2, KindFacts, TypeFacts, TypeShapes
         DEF SafeInv, KindInv, JobInv, PingHangs, Fault, Disturbed
    <3>2. SentInv(k)'
      BY <2>0, <2>2, KindFacts, TypeFacts, TypeShapes
         DEF SafeInv, KindInv, JobInv, SentInv, PingHangs, Fault, Disturbed
    <3>3. SlotInv(k)'
      BY <2>0, <2>2, KindFacts, TypeFacts, TypeShapes
         DEF SafeInv, KindInv, JobInv, SlotInv, Out, PingHangs, Fault, Disturbed
    <3> QED BY <3>1, <3>2, <3>3 DEF KindInv
  <2> QED BY <2>1, <2>2
<1>3. DayInv'
  BY <1>1, DayFrame, KindFacts, TypeFacts, TypeShapes
     DEF SafeInv, DayInv, PingHangs, Fault, Disturbed
<1> QED BY <1>1, <1>2, <1>3 DEF SafeInv

\* AlertHangs keeps the invariant.
LEMMA AlertHangsStep ==
    ASSUME NEW r \in Kinds, SafeInv, AlertHangs(r)
    PROVE  SafeInv'
<1>1. TypeOK'
  <2>1. dead' \in SUBSET (Kinds \X Days)
    <3>0. TypeOK /\ r \in Runners
      BY KindFacts DEF SafeInv
    <3>1. dead \in SUBSET (Kinds \X Days) /\ job[r].since \in Days
      <4>1. dead \in SUBSET (Kinds \X Days)
        BY <3>0 DEF TypeOK
      <4>2. job[r].since \in Days
        BY <3>0, TypeFacts
      <4> QED BY <4>1, <4>2
    <3>2. dead' = dead \/ dead' = dead \cup {<<r, job[r].since>>}
      BY DEF AlertHangs
    <3> QED BY <3>1, <3>2
  <2>2. pc' \in [Runners -> Pcs]
    BY KindFacts DEF SafeInv, TypeOK, Pcs, AlertHangs
  <2>3. mark' \in [Kinds -> {"clean", "disturbed"}]
    BY KindFacts DEF SafeInv, TypeOK, AlertHangs, Disturbed
  <2>4. faults' \in 0..MaxFaults
    BY ReportAssumption DEF SafeInv, TypeOK, AlertHangs, Fault
  <2> QED BY <2>1, <2>2, <2>3, <2>4 DEF SafeInv, TypeOK, AlertHangs, Fault, Disturbed
<1>2. ASSUME NEW k \in Kinds PROVE KindInv(k)'
  <2>0. KindInv(k)
    BY DEF SafeInv
  <2>1. CASE k # r
    BY <2>0, <2>1, KindFrame, KindFacts, TypeShapes
       DEF SafeInv, AlertHangs, Fault, Disturbed
  <2>2. CASE k = r
    <3>1. JobInv(k)'
      BY <2>0, <2>2, KindFacts, TypeFacts, TypeShapes
         DEF SafeInv, KindInv, JobInv, AlertHangs, Fault, Disturbed
    <3>2. SentInv(k)'
      BY <2>0, <2>2, KindFacts, TypeFacts, TypeShapes
         DEF SafeInv, KindInv, JobInv, SentInv, AlertHangs, Fault, Disturbed
    <3>3. SlotInv(k)'
      BY <2>0, <2>2, KindFacts, TypeFacts, TypeShapes
         DEF SafeInv, KindInv, JobInv, SlotInv, Out, AlertHangs, Fault, Disturbed
    <3> QED BY <3>1, <3>2, <3>3 DEF KindInv
  <2> QED BY <2>1, <2>2
<1>3. DayInv'
  BY <1>1, DayFrame, KindFacts, TypeFacts, TypeShapes
     DEF SafeInv, DayInv, AlertHangs, Fault, Disturbed
<1> QED BY <1>1, <1>2, <1>3 DEF SafeInv

\* Resend keeps the invariant.
LEMMA ResendStep ==
    ASSUME NEW k \in Kinds, NEW since \in Days, NEW until \in Days, SafeInv, Resend(k,
       since, until)
    PROVE  SafeInv'
<1>1. TypeOK'
  <2>1. resends' \in 0..MaxResends
    BY ReportAssumption DEF SafeInv, TypeOK, Resend
  <2>2. pc' \in [Runners -> Pcs]
    BY KindFacts DEF SafeInv, TypeOK, Pcs, Resend
  <2>3. job' \in [Runners -> Jobs]
    <3>1. Job(k, since, until) \in Jobs
      BY DayFacts DEF Jobs, Job
    <3> QED BY <3>1, KindFacts DEF SafeInv, TypeOK, Resend
  <2> QED BY <2>1, <2>2, <2>3 DEF SafeInv, TypeOK, Resend, Job
<1>2. ASSUME NEW q \in Kinds PROVE KindInv(q)'
  BY KindFrame, KindFacts, TypeShapes DEF SafeInv, Resend, Job
<1>3. DayInv'
  BY <1>1, DayFrame, KindFacts, TypeFacts, TypeShapes DEF SafeInv, DayInv, Resend, Job
<1> QED BY <1>1, <1>2, <1>3 DEF SafeInv

\* Fetch keeps the invariant.
LEMMA FetchStep ==
    ASSUME NEW r \in Runners, SafeInv, Fetch(r)
    PROVE  SafeInv'
<1>0. PICK unread \in SUBSET ListOrdersInWindow(job[r].since, job[r].until) :
        /\ job[r].kind = "intake" => unread = {}
        /\ IF unread = {} THEN UNCHANGED faults ELSE Fault
        /\ gaps' = gaps \cup unread
        /\ job' = [job EXCEPT ![r] =
              [@ EXCEPT !.rows = Rows(job[r].kind, job[r].since, job[r].until, unread),
                        !.asof = day]]
  BY DEF Fetch
<1> DEFINE rows == Rows(job[r].kind, job[r].since, job[r].until, unread)
<1>a. unread \subseteq Orders /\ rows \in SUBSET Orders
  BY DEF Rows, ListOrdersInWindow, FetchOrdersInWindow, FetchOrdersByDateRange
<1>b. /\ job'[r] \in Jobs /\ job'[r].rows = rows /\ job'[r].asof = day
      /\ job'[r].kind = job[r].kind /\ job'[r].since = job[r].since
      /\ job'[r].until = job[r].until
      /\ \A q \in Runners \ {r} : job'[q] = job[q]
      /\ job' \in [Runners -> Jobs]
  <2>1. job[r] \in Jobs /\ day \in Days /\ job \in [Runners -> Jobs]
    BY TypeFacts, TypeShapes DEF SafeInv
  <2>2. job' = [job EXCEPT ![r] = [job[r] EXCEPT !.rows = rows, !.asof = day]]
    BY <1>0
  <2>3. [job[r] EXCEPT !.rows = rows, !.asof = day] \in Jobs
    BY <1>a, <2>1, ReadFact
  <2>4. job'[r] = [job[r] EXCEPT !.rows = rows, !.asof = day]
    BY <2>1, <2>2
  <2>5. /\ job'[r].rows = rows /\ job'[r].asof = day
        /\ job'[r].kind = job[r].kind /\ job'[r].since = job[r].since
        /\ job'[r].until = job[r].until
    BY <2>1, <2>4 DEF Jobs
  <2> QED BY <2>1, <2>2, <2>3, <2>4, <2>5
<1>c. /\ UNCHANGED <<day, slot, placed, paid, staged, refunded, server, token, lastSent,
                     disk, checked, carried, dead, sent, content, reported, excused,
                     mark, hour, resends>>
      /\ pc[r] = "fetch" /\ pc'[r] = "send"
      /\ \A q \in Runners \ {r} : pc'[q] = pc[q]
  BY TypeShapes DEF SafeInv, Fetch
<1>1. TypeOK'
  <2>1. gaps' \in SUBSET Orders
    BY <1>0, <1>a DEF SafeInv, TypeOK
  <2>2. faults' \in 0..MaxFaults
    BY <1>0, ReportAssumption DEF SafeInv, TypeOK, Fault
  <2>3. job' \in [Runners -> Jobs]
    BY <1>b
  <2>4. pc' \in [Runners -> Pcs]
    BY KindFacts DEF SafeInv, TypeOK, Pcs, Fetch
  <2> QED BY <2>1, <2>2, <2>3, <2>4 DEF SafeInv, TypeOK, Fetch, Fault
<1>2. ASSUME NEW k \in Kinds PROVE KindInv(k)'
  <2>0. KindInv(k) /\ k \in Runners
    BY KindFacts DEF SafeInv
  <2>1. CASE k # r
    BY <1>b, <1>c, <2>0, <2>1, KindFrame
  <2>2. CASE k = r
    BY <1>b, <1>c, <2>0, <2>2 DEF KindInv, JobInv, SentInv, SlotInv, Out
  <2> QED BY <2>1, <2>2
<1>3. DayInv'
  <2>1. TypeOK /\ DayInv /\ day \in Int /\ gaps \subseteq gaps' /\ day <= day'
    BY <1>0, <1>c, TypeFacts DEF SafeInv
  <2>2. ASSUME NEW q \in Runners, q # r PROVE RowsInv(q)'
    BY <1>1, <1>b, <1>c, <2>1, <2>2, RowsFrame DEF DayInv
  <2>3. CASE job[r].kind = "cash"
    <3>1. rows = FetchOrdersInWindow(job[r].since, job[r].until, unread)
      BY <2>3 DEF Rows
    <3>2. \A o \in rows : job[r].since <= paid[o] /\ paid[o] < job[r].until
      BY <3>1 DEF FetchOrdersInWindow, FetchGraphQL, Within
    <3>3. ASSUME NEW o \in Orders, NEW d \in Days, job[r].since <= d, d < job[r].until,
                 Owed(o, d)'
          PROVE  o \in rows
      <4>1. /\ placed[o] = d /\ paid[o] = d /\ o \notin refunded /\ o \notin unread
            /\ o \notin TestOrders /\ o \notin Manual
        BY <1>0, <1>c, <3>3 DEF Owed
      <4>2. paid[o] # Never
        BY <4>1, DayFacts DEF Never
      <4> QED BY <3>1, <3>3, <4>1, <4>2 DEF FetchOrdersInWindow, FetchGraphQL, ListOrdersInWindow, Within
    <3>4. RowsInv(r)'
      BY <1>b, <1>c, <2>1, <2>3, <3>2, <3>3 DEF RowsInv
    <3> QED BY <1>1, <1>b, <1>c, <2>1, <2>2, <3>4, DayRest DEF DayInv
  <2>4. CASE job[r].kind = "intake"
    <3>1. rows = FetchOrdersByDateRange(job[r].since, job[r].until)
      BY <2>4 DEF Rows
    <3>2. job[r].until = job[r].since + 1 /\ job[r].since \in Int
      BY <1>c, <2>1, <2>4, TypeFacts DEF DayInv
    <3>3. \A o \in Orders : staged[o] \in Int
      BY <2>1, DayFacts DEF TypeOK, Never
    <3>4. \A o \in Orders : o \in rows <=> staged[o] = job[r].since
      BY <3>1, <3>2, <3>3 DEF FetchOrdersByDateRange, Within
    <3>5. RowsInv(r)'
      BY <1>a, <1>b, <1>c, <2>1, <2>4, <3>2, <3>4 DEF RowsInv
    <3> QED BY <1>1, <1>b, <1>c, <2>1, <2>2, <3>5, DayRest DEF DayInv
  <2>5. job[r].kind = "cash" \/ job[r].kind = "intake"
    BY <2>1, TypeFacts, KindFacts
  <2> QED BY <2>3, <2>4, <2>5
<1> QED BY <1>1, <1>2, <1>3 DEF SafeInv

\* FetchFails keeps the invariant.
LEMMA FetchFailsStep ==
    ASSUME NEW r \in Runners, SafeInv, FetchFails(r)
    PROVE  SafeInv'
<1>1. TypeOK'
  <2>1. faults' \in 0..MaxFaults
    BY ReportAssumption DEF SafeInv, TypeOK, FetchFails, Fault
  <2>2. mark' \in [Kinds -> {"clean", "disturbed"}]
    BY KindFacts DEF SafeInv, TypeOK, FetchFails, Disturbed
  <2>3. pc' \in [Runners -> Pcs]
    BY KindFacts DEF SafeInv, TypeOK, Pcs, FetchFails, Ended
  <2>4. job' \in [Runners -> Jobs]
    BY KindFacts, NoJobFact DEF SafeInv, TypeOK, FetchFails, Ended
  <2>5. carried' \in SUBSET Runners
    BY DEF SafeInv, TypeOK, FetchFails, Ended
  <2> QED BY <2>1, <2>2, <2>3, <2>4, <2>5
         DEF SafeInv, TypeOK, FetchFails, Fault, Disturbed, Ended
<1>2. ASSUME NEW k \in Kinds PROVE KindInv(k)'
  <2>0. KindInv(k)
    BY DEF SafeInv
  <2>1. CASE k # r
    BY <2>0, <2>1, KindFrame, KindFacts, TypeShapes
       DEF SafeInv, FetchFails, Fault, Disturbed, Ended
  <2>2. CASE k = r
    <3>1. JobInv(k)'
      BY <2>0, <2>2, KindFacts, TypeFacts, TypeShapes
         DEF SafeInv, KindInv, JobInv, FetchFails, Fault, Disturbed, Ended
    <3>2. SentInv(k)'
      BY <2>0, <2>2, KindFacts, TypeFacts, TypeShapes
         DEF SafeInv, KindInv, JobInv, SentInv, FetchFails, Fault, Disturbed, Ended
    <3>3. SlotInv(k)'
      BY <2>0, <2>2, KindFacts, TypeFacts, TypeShapes
         DEF SafeInv, KindInv, JobInv, SlotInv, Out, FetchFails, Fault, Disturbed, Ended
    <3> QED BY <3>1, <3>2, <3>3 DEF KindInv
  <2> QED BY <2>1, <2>2
<1>3. DayInv'
  BY <1>1, DayFrame, KindFacts, TypeFacts, TypeShapes
     DEF SafeInv, DayInv, FetchFails, Fault, Disturbed, Ended
<1> QED BY <1>1, <1>2, <1>3 DEF SafeInv

\* SendMail keeps the invariant.
LEMMA SendMailStep ==
    ASSUME NEW r \in Runners, SafeInv, SendMail(r)
    PROVE  SafeInv'
<1>1. TypeOK'
  <2>1. token' \in {"good", "stale"}
    BY DEF SafeInv, TypeOK, SendMail, GetToken
  <2>2. sent' \in [Kinds -> [Days -> Nat]]
    BY DeliveredSent DEF SendMail
  <2>3. content' \in [Kinds -> [Days -> SUBSET Orders]]
    BY DeliveredContent DEF SendMail
  <2>4. reported' \in SUBSET (Kinds \X Days)
    BY DeliveredContent DEF SendMail
  <2>5. pc' \in [Runners -> Pcs]
    <3>1. pc' = [pc EXCEPT ![r] = "idle"] \/ pc' = [pc EXCEPT ![r] = "sent"]
      BY DEF SendMail, Ended
    <3> QED BY <3>1 DEF SafeInv, TypeOK, Pcs
  <2>6. job' \in [Runners -> Jobs]
    <3>1. job' = [job EXCEPT ![r] = NoJob] \/ job' = job
      BY DEF SendMail, Ended
    <3> QED BY <3>1, NoJobFact DEF SafeInv, TypeOK
  <2>7. carried' \in SUBSET Runners
    BY DEF SafeInv, TypeOK, SendMail, Ended
  <2> QED BY <2>1, <2>2, <2>3, <2>4, <2>5, <2>6, <2>7
         DEF SafeInv, TypeOK, SendMail, Attempt, GetToken, Delivered, Ended
<1>2. ASSUME NEW k \in Kinds PROVE KindInv(k)'
  <2>0. KindInv(k)
    BY DEF SafeInv
  <2>1. CASE k # r
    <3>1. sent'[k] = sent[k]
      BY <2>1, DeliveredSent DEF SendMail
    <3> QED BY <2>0, <2>1, <3>1, KindFrame, KindFacts, TypeShapes
           DEF SafeInv, SendMail, Attempt, GetToken, Ended
  <2>2. CASE k = r
    <3>1. JobInv(k)'
      BY <2>0, <2>2, KindFacts, TypeFacts, TypeShapes
         DEF SafeInv, KindInv, JobInv, SendMail, Attempt, GetToken, Delivered, Ended
    <3>2. SentInv(k)'
      BY <2>0, <2>2, KindFacts, TypeFacts, TypeShapes
         DEF SafeInv, KindInv, JobInv, SentInv, SendMail, Attempt, GetToken, Delivered,
             Ended
    <3>3. SlotInv(k)'
      BY <2>0, <2>2, KindFacts, TypeFacts, TypeShapes
         DEF SafeInv, KindInv, JobInv, SlotInv, Out, SendMail, Attempt, GetToken,
             Delivered, Ended
    <3> QED BY <3>1, <3>2, <3>3 DEF KindInv
  <2> QED BY <2>1, <2>2
<1>3. DayInv'
  <2>1. /\ Attempt(r) /\ Delivered(r)
        /\ UNCHANGED <<day, placed, paid, staged, refunded, gaps>>
    BY DEF SendMail
  <2>2. /\ pc'[r] \notin {"send", "retry", "fetch"}
        /\ \A q \in Runners : q # r => pc'[q] = pc[q] /\ job'[q] = job[q]
    BY TypeShapes DEF SafeInv, SendMail, Ended
  <2> QED BY <1>1, <2>1, <2>2, DayDelivered
<1> QED BY <1>1, <1>2, <1>3 DEF SafeInv

\* SendUnanswered keeps the invariant.
LEMMA SendUnansweredStep ==
    ASSUME NEW r \in Runners, SafeInv, SendUnanswered(r)
    PROVE  SafeInv'
<1>1. TypeOK'
  <2>1. faults' \in 0..MaxFaults
    BY ReportAssumption DEF SafeInv, TypeOK, SendUnanswered, Fault
  <2>2. token' \in {"good", "stale"}
    BY DEF SafeInv, TypeOK, SendUnanswered, GetToken
  <2>3. sent' \in [Kinds -> [Days -> Nat]]
    BY DeliveredSent DEF SendUnanswered
  <2>4. content' \in [Kinds -> [Days -> SUBSET Orders]]
    BY DeliveredContent DEF SendUnanswered
  <2>5. reported' \in SUBSET (Kinds \X Days)
    BY DeliveredContent DEF SendUnanswered
  <2>6. mark' \in [Kinds -> {"clean", "disturbed"}]
    BY KindFacts DEF SafeInv, TypeOK, SendUnanswered, Disturbed
  <2>7. excused' \in SUBSET (Kinds \X Days)
    BY TypeFacts DEF SafeInv, TypeOK, SendUnanswered
  <2>8. pc' \in [Runners -> Pcs]
    BY KindFacts DEF SafeInv, TypeOK, Pcs, SendUnanswered
  <2> QED BY <2>1, <2>2, <2>3, <2>4, <2>5, <2>6, <2>7, <2>8
         DEF SafeInv, TypeOK, SendUnanswered, Attempt, GetToken, Delivered, Fault,
             Disturbed
<1>2. ASSUME NEW k \in Kinds PROVE KindInv(k)'
  <2>0. KindInv(k)
    BY DEF SafeInv
  <2>1. CASE k # r
    <3>1. sent'[k] = sent[k]
      BY <2>1, DeliveredSent DEF SendUnanswered
    <3> QED BY <2>0, <2>1, <3>1, KindFrame, KindFacts, TypeShapes
           DEF SafeInv, SendUnanswered, Attempt, GetToken, Fault, Disturbed
  <2>2. CASE k = r
    <3>1. JobInv(k)'
      BY <2>0, <2>2, KindFacts, TypeFacts, TypeShapes
         DEF SafeInv, KindInv, JobInv, SendUnanswered, Attempt, GetToken, Delivered,
             Fault, Disturbed
    <3>2. SentInv(k)'
      BY <2>0, <2>2, KindFacts, TypeFacts, TypeShapes
         DEF SafeInv, KindInv, JobInv, SentInv, SendUnanswered, Attempt, GetToken,
             Delivered, Fault, Disturbed
    <3>3. SlotInv(k)'
      BY <2>0, <2>2, KindFacts, TypeFacts, TypeShapes
         DEF SafeInv, KindInv, JobInv, SlotInv, Out, SendUnanswered, Attempt,
             GetToken, Delivered, Fault, Disturbed
    <3> QED BY <3>1, <3>2, <3>3 DEF KindInv
  <2> QED BY <2>1, <2>2
<1>3. DayInv'
  <2>1. /\ Attempt(r) /\ Delivered(r)
        /\ UNCHANGED <<day, placed, paid, staged, refunded, gaps>>
    BY DEF SendUnanswered
  <2>2. /\ pc'[r] \notin {"send", "retry", "fetch"}
        /\ \A q \in Runners : q # r => pc'[q] = pc[q] /\ job'[q] = job[q]
    BY TypeShapes DEF SafeInv, SendUnanswered, Ended
  <2> QED BY <1>1, <2>1, <2>2, DayDelivered
<1> QED BY <1>1, <1>2, <1>3 DEF SafeInv

\* Unauthorised keeps the invariant.
LEMMA UnauthorisedStep ==
    ASSUME NEW r \in Runners, SafeInv, Unauthorised(r)
    PROVE  SafeInv'
<1>1. TypeOK'
  <2>1. pc' \in [Runners -> Pcs]
    BY KindFacts DEF SafeInv, TypeOK, Pcs, Unauthorised
  <2> QED BY <2>1 DEF SafeInv, TypeOK, Unauthorised
<1>2. ASSUME NEW k \in Kinds PROVE KindInv(k)'
  <2>0. KindInv(k)
    BY DEF SafeInv
  <2>1. CASE k # r
    BY <2>0, <2>1, KindFrame, KindFacts, TypeShapes DEF SafeInv, Unauthorised
  <2>2. CASE k = r
    <3>1. JobInv(k)'
      BY <2>0, <2>2, KindFacts, TypeFacts, TypeShapes
         DEF SafeInv, KindInv, JobInv, Unauthorised
    <3>2. SentInv(k)'
      BY <2>0, <2>2, KindFacts, TypeFacts, TypeShapes
         DEF SafeInv, KindInv, JobInv, SentInv, Unauthorised
    <3>3. SlotInv(k)'
      BY <2>0, <2>2, KindFacts, TypeFacts, TypeShapes
         DEF SafeInv, KindInv, JobInv, SlotInv, Out, Unauthorised
    <3> QED BY <3>1, <3>2, <3>3 DEF KindInv
  <2> QED BY <2>1, <2>2
<1>3. DayInv'
  BY <1>1, DayFrame, KindFacts, TypeFacts, TypeShapes DEF SafeInv, DayInv, Unauthorised
<1> QED BY <1>1, <1>2, <1>3 DEF SafeInv

\* SendFails keeps the invariant.
LEMMA SendFailsStep ==
    ASSUME NEW r \in Runners, SafeInv, SendFails(r)
    PROVE  SafeInv'
<1>1. TypeOK'
  <2>1. faults' \in 0..MaxFaults
    BY ReportAssumption DEF SafeInv, TypeOK, SendFails, Fault
  <2>2. token' \in {"good", "stale"}
    BY DEF SafeInv, TypeOK, SendFails, GetToken
  <2>3. mark' \in [Kinds -> {"clean", "disturbed"}]
    BY KindFacts DEF SafeInv, TypeOK, SendFails, Disturbed
  <2>4. pc' \in [Runners -> Pcs]
    BY KindFacts DEF SafeInv, TypeOK, Pcs, SendFails
  <2> QED BY <2>1, <2>2, <2>3, <2>4
         DEF SafeInv, TypeOK, SendFails, Attempt, GetToken, Fault, Disturbed
<1>2. ASSUME NEW k \in Kinds PROVE KindInv(k)'
  <2>0. KindInv(k)
    BY DEF SafeInv
  <2>1. CASE k # r
    BY <2>0, <2>1, KindFrame, KindFacts, TypeShapes
       DEF SafeInv, SendFails, Attempt, GetToken, Fault, Disturbed
  <2>2. CASE k = r
    <3>1. JobInv(k)'
      BY <2>0, <2>2, KindFacts, TypeFacts, TypeShapes
         DEF SafeInv, KindInv, JobInv, SendFails, Attempt, GetToken, Fault, Disturbed
    <3>2. SentInv(k)'
      BY <2>0, <2>2, KindFacts, TypeFacts, TypeShapes
         DEF SafeInv, KindInv, JobInv, SentInv, SendFails, Attempt, GetToken, Fault,
             Disturbed
    <3>3. SlotInv(k)'
      BY <2>0, <2>2, KindFacts, TypeFacts, TypeShapes
         DEF SafeInv, KindInv, JobInv, SlotInv, Out, SendFails, Attempt,
             GetToken, Fault, Disturbed
    <3> QED BY <3>1, <3>2, <3>3 DEF KindInv
  <2> QED BY <2>1, <2>2
<1>3. DayInv'
  BY <1>1, DayFrame, KindFacts, TypeFacts, TypeShapes
     DEF SafeInv, DayInv, SendFails, Attempt, GetToken, Fault, Disturbed
<1> QED BY <1>1, <1>2, <1>3 DEF SafeInv

\* DeadLetter keeps the invariant.
LEMMA DeadLetterStep ==
    ASSUME NEW r \in Runners, SafeInv, DeadLetter(r)
    PROVE  SafeInv'
<1>1. TypeOK'
  <2>1. dead' \in SUBSET (Kinds \X Days)
    BY TypeFacts DEF SafeInv, TypeOK, DeadLetter
  <2>2. pc' \in [Runners -> Pcs]
    BY KindFacts DEF SafeInv, TypeOK, Pcs, DeadLetter, Ended
  <2>3. job' \in [Runners -> Jobs]
    BY KindFacts, NoJobFact DEF SafeInv, TypeOK, DeadLetter, Ended
  <2>4. carried' \in SUBSET Runners
    BY DEF SafeInv, TypeOK, DeadLetter, Ended
  <2> QED BY <2>1, <2>2, <2>3, <2>4 DEF SafeInv, TypeOK, DeadLetter, Ended
<1>2. ASSUME NEW k \in Kinds PROVE KindInv(k)'
  <2>0. KindInv(k)
    BY DEF SafeInv
  <2>1. CASE k # r
    BY <2>0, <2>1, KindFrame, KindFacts, TypeShapes DEF SafeInv, DeadLetter, Ended
  <2>2. CASE k = r
    <3>1. JobInv(k)'
      BY <2>0, <2>2, KindFacts, TypeFacts, TypeShapes
         DEF SafeInv, KindInv, JobInv, DeadLetter, Ended
    <3>2. SentInv(k)'
      BY <2>0, <2>2, KindFacts, TypeFacts, TypeShapes
         DEF SafeInv, KindInv, JobInv, SentInv, DeadLetter, Ended
    <3>3. SlotInv(k)'
      <4>1. /\ pc[k] = "failed" /\ pc'[k] = "idle"
            /\ UNCHANGED <<sent, day, slot, server, checked, mark, hour>>
        BY <2>2, TypeShapes DEF SafeInv, DeadLetter, Ended
      <4> QED BY <2>0, <4>1 DEF KindInv, SlotInv, Out
    <3> QED BY <3>1, <3>2, <3>3 DEF KindInv
  <2> QED BY <2>1, <2>2
<1>3. DayInv'
  BY <1>1, DayFrame, KindFacts, TypeFacts, TypeShapes DEF SafeInv, DayInv, DeadLetter, Ended
<1> QED BY <1>1, <1>2, <1>3 DEF SafeInv

\* DeadLetterFails keeps the invariant.
LEMMA DeadLetterFailsStep ==
    ASSUME NEW r \in Runners, SafeInv, DeadLetterFails(r)
    PROVE  SafeInv'
<1>1. TypeOK'
  <2>1. faults' \in 0..MaxFaults
    BY ReportAssumption DEF SafeInv, TypeOK, DeadLetterFails, Fault
  <2>2. mark' \in [Kinds -> {"clean", "disturbed"}]
    BY KindFacts DEF SafeInv, TypeOK, DeadLetterFails, Disturbed
  <2>3. pc' \in [Runners -> Pcs]
    BY KindFacts DEF SafeInv, TypeOK, Pcs, DeadLetterFails, Ended
  <2>4. job' \in [Runners -> Jobs]
    BY KindFacts, NoJobFact DEF SafeInv, TypeOK, DeadLetterFails, Ended
  <2>5. carried' \in SUBSET Runners
    BY DEF SafeInv, TypeOK, DeadLetterFails, Ended
  <2> QED BY <2>1, <2>2, <2>3, <2>4, <2>5
         DEF SafeInv, TypeOK, DeadLetterFails, Fault, Disturbed, Ended
<1>2. ASSUME NEW k \in Kinds PROVE KindInv(k)'
  <2>0. KindInv(k)
    BY DEF SafeInv
  <2>1. CASE k # r
    BY <2>0, <2>1, KindFrame, KindFacts, TypeShapes
       DEF SafeInv, DeadLetterFails, Fault, Disturbed, Ended
  <2>2. CASE k = r
    <3>1. JobInv(k)'
      BY <2>0, <2>2, KindFacts, TypeFacts, TypeShapes
         DEF SafeInv, KindInv, JobInv, DeadLetterFails, Fault, Disturbed, Ended
    <3>2. SentInv(k)'
      BY <2>0, <2>2, KindFacts, TypeFacts, TypeShapes
         DEF SafeInv, KindInv, JobInv, SentInv, DeadLetterFails, Fault, Disturbed, Ended
    <3>3. SlotInv(k)'
      BY <2>0, <2>2, KindFacts, TypeFacts, TypeShapes
         DEF SafeInv, KindInv, JobInv, SlotInv, Out, DeadLetterFails, Fault,
             Disturbed, Ended
    <3> QED BY <3>1, <3>2, <3>3 DEF KindInv
  <2> QED BY <2>1, <2>2
<1>3. DayInv'
  BY <1>1, DayFrame, KindFacts, TypeFacts, TypeShapes
     DEF SafeInv, DayInv, DeadLetterFails, Fault, Disturbed, Ended
<1> QED BY <1>1, <1>2, <1>3 DEF SafeInv

\* Every step keeps the invariant: one lemma per action above.
LEMMA NextSafe == SafeInv /\ [Next]_vars => SafeInv'
<1> SUFFICES ASSUME SafeInv, [Next]_vars PROVE SafeInv'
  OBVIOUS
<1>1. CASE Next
  <2>1. CASE Advance \/ TokenChanges \/ Crash \/ Boot
    BY <2>1, AdvanceStep, TokenChangesStep, CrashStep, BootStep
  <2>2. CASE \E o \in Orders : PlaceOrder(o) \/ Capture(o) \/ Refund(o) \/ StageOrder(o)
    BY <2>2, PlaceOrderStep, CaptureStep, RefundStep, StageOrderStep
  <2>3. CASE \E k \in Enabled : Check(k) \/ Record(k) \/ RecordFails(k)
                                \/ PingHangs(k) \/ AlertHangs(k)
    BY <2>3, ReportAssumption, CheckStep, RecordStep, RecordFailsStep, PingHangsStep,
       AlertHangsStep
  <2>4. CASE \E k \in Kinds, since, until \in Days : Resend(k, since, until)
    BY <2>4, ResendStep
  <2>5. CASE \E r \in Runners : Run(r)
    BY <2>5, FetchStep, FetchFailsStep, SendMailStep, SendUnansweredStep,
       UnauthorisedStep, SendFailsStep, DeadLetterStep, DeadLetterFailsStep DEF Run
  <2> QED BY <1>1, <2>1, <2>2, <2>3, <2>4, <2>5 DEF Next
<1>2. CASE UNCHANGED vars
  BY <1>2 DEF vars, SafeInv, TypeOK, KindInv, JobInv, SentInv, SlotInv, Out,
              DayInv, RowsInv, Owed
<1> QED BY <1>1, <1>2

\* The invariant holds in every reachable state.
LEMMA ReportInductive == Spec => []SafeInv
BY InitSafe, NextSafe, PTL DEF Spec

-----------------------------------------------------------------------------
\* The type invariant of the reports holds in every reachable state.
THEOREM ReportTypeCorrect == Spec => []TypeOK
<1>1. SafeInv => TypeOK
  BY DEF SafeInv
<1> QED BY <1>1, ReportInductive, PTL

\* Run mails a day twice only when the first mail left no trace it could read.
THEOREM DoubleMailIsExplained == Spec => []SentTwiceIsExplained
<1>1. SafeInv => SentTwiceIsExplained
  BY TypeFacts DEF SafeInv, KindInv, SentInv, SentTwiceIsExplained
<1> QED BY <1>1, ReportInductive, PTL

\* Run's retries in the send hour, and Send's after a 401, get the report out
\* in the first quarter in which nothing fails.
THEOREM CleanSlotIsEnough == Spec => []CleanSlotReports
<1>1. SafeInv => CleanSlotReports
  BY DEF SafeInv, KindInv, SlotInv, Out, CleanSlotReports
<1> QED BY <1>1, ReportInductive, PTL

\* The windows of SendForDate and SendForRange partition the orders by day.
THEOREM ReportsPartitionDays == Spec => []DayIsWholeAndOwn
<1>1. SafeInv => DayIsWholeAndOwn
  BY DEF SafeInv, DayInv, Owed, DayIsWholeAndOwn
<1> QED BY <1>1, ReportInductive, PTL
=============================================================================
