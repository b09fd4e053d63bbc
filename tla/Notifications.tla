--------------------------- MODULE Notifications ---------------------------
(***************************************************************************)
(* Scheduled notices: service/notification_scheduler.go with the delivery  *)
(* log of repository/notification_log.go and the senders of                *)
(* service/notification.go.  An hourly check goes through the users, reads *)
(* what is due for each kind of notice and delivers it on every enabled    *)
(* channel, unless the log says it was sent.                               *)
(*                                                                         *)
(* Days are numbered from 1; the calendar is the sequence of the lengths   *)
(* of its months, so that a small one has months of different lengths.     *)
(***************************************************************************)
EXTENDS Integers, Sequences, FiniteSets

CONSTANTS Owners,           \* users with settings
          Channels,
          Robots,           \* channels whose answer carries a verdict
          Items,            \* reminders, lendings and budgets: see ItemType
          MonthLengths, MonthsPerYear,
          Advances,         \* advance_days of the settings
          LastDay, MaxMishaps, MaxChanges          \* bounds

NoticeKinds == <<"payment", "lending", "budget", "annual">>
Months == 1..Len(MonthLengths)
ItemType == [owner : Owners, kind : {"payment", "lending", "budget", "annual"},
             day : Nat, advance : Nat]

\* The calendar reaches two months past the last day that is played.
ASSUME NoticeAssumption ==
  /\ Owners # {} /\ IsFiniteSet(Owners) /\ IsFiniteSet(Channels)
  /\ Robots \subseteq Channels
  /\ Items \subseteq ItemType /\ IsFiniteSet(Items)
  /\ MonthLengths \in Seq(Nat \ {0}) /\ MonthsPerYear \in Nat \ {0}
  /\ Advances \subseteq Nat /\ Advances # {}
  /\ {LastDay, MaxMishaps, MaxChanges} \subseteq Nat

VARIABLES
  today,       \* the day
  tick,        \* the ticker's channel, of capacity one
  settings,    \* the notification settings of each user
  active,      \* items that would be notified: enabled, with an amount due
  check,       \* CheckAndNotify in progress
  deliveryLog, \* NotificationLog: <<delivery, status>>
  taken,       \* how often each delivery was taken by its receiver (history)
  lost,        \* deliveries taken of which the log has no trace (history)
  mishaps, changes

noticeVars == <<today, tick, settings, active, check, deliveryLog, taken, lost,
                mishaps, changes>>

-----------------------------------------------------------------------------
(* The calendar.                                                           *)
EndOfMonth[m \in 0..Len(MonthLengths)] == IF m = 0 THEN 0 ELSE EndOfMonth[m - 1] + MonthLengths[m]
MonthOf(n) == CHOOSE m \in Months : EndOfMonth[m - 1] < n /\ n <= EndOfMonth[m]
DayOf(n) == n - EndOfMonth[MonthOf(n) - 1]

\* clampedMonthDay
ClampedMonthDay(m, d) ==
  EndOfMonth[m - 1] + IF d > MonthLengths[m] THEN MonthLengths[m] ELSE d

\* today.AddDate(0, 1, 0): the same day number counted from the end of this
\* month, which in a shorter month runs over into the one after it.
NextMonth(n) == MonthOf(EndOfMonth[MonthOf(n)] + DayOf(n))

\* daysUntilNextMonthDay
DaysUntilNextMonthDay(n, d) ==
  LET due == ClampedMonthDay(MonthOf(n), d)
  IN  (IF due < n THEN ClampedMonthDay(NextMonth(n), d) ELSE due) - n

\* clampNotificationAdvanceDays
ClampAdvance(a) == IF a > 30 THEN 30 ELSE a

-----------------------------------------------------------------------------
(* What is due.  A notice is the key its deliveries are told apart by.     *)
Notice(i, on, left) == [item |-> i, on |-> on, left |-> left]

PaymentNotices(i, n, advance) ==
  LET left == DaysUntilNextMonthDay(n, i.day)
  IN  IF left \in {0, ClampAdvance(IF i.advance > 0 THEN i.advance ELSE advance)}
      THEN {Notice(i, n + left, left)} ELSE {}

LendingNotices(i, n, advance) ==
  IF i.day - n \in {ClampAdvance(advance), 0, -1}
  THEN {Notice(i, i.day, i.day - n)} ELSE {}

BudgetNotices(i, n) == {Notice(i, MonthOf(n), 0)}

AnnualNotices(i, n) ==
  IF DayOf(n) = 1 /\ (MonthOf(n) - 1) % MonthsPerYear = 0
  THEN {Notice(i, MonthOf(n), 0)} ELSE {}

NoticesOf(i, n, advance) ==
  CASE i.kind = "payment" -> PaymentNotices(i, n, advance)
    [] i.kind = "lending" -> LendingNotices(i, n, advance)
    [] i.kind = "budget"  -> BudgetNotices(i, n)
    [] i.kind = "annual"  -> AnnualNotices(i, n)

\* Deliveries due to user u on day n for one kind, under the settings s.
NoticeDue(u, kind, n, s) ==
  {<<p, c>> : p \in UNION {NoticesOf(i, n, s.advance) :
                             i \in {j \in active : j.owner = u /\ j.kind = kind}},
              c \in s.channels}

ChannelSetting == [enabled : BOOLEAN, kinds : SUBSET {"payment", "lending", "budget", "annual"},
            channels : SUBSET Channels, advance : Advances]
EverythingOn == [enabled |-> TRUE, kinds |-> {NoticeKinds[k] : k \in 1..4},
                 channels |-> Channels,
                 advance |-> CHOOSE a \in Advances : \A b \in Advances : b <= a]
NoUser == [enabled |-> FALSE, kinds |-> {}, channels |-> {}, advance |-> 0]
CheckResting == [pc |-> "idle", day |-> 0, users |-> {}, snap |-> NoUser, user |-> {},
            kind |-> 0, queue |-> {}, at |-> {}, owed |-> {}, failed |-> {}]

SentOf(records) == {d[1] : d \in {e \in records : e[2] = "sent"}}
Sent == SentOf(deliveryLog)

NoticeTypeOK ==
  /\ today \in 1..LastDay /\ tick \in BOOLEAN
  /\ settings \in [Owners -> ChannelSetting] /\ active \subseteq Items
  /\ check.pc \in {"idle", "users", "kinds", "deliver", "sent", "failed"}
  /\ check.users \subseteq Owners /\ check.kind \in 0..4
  /\ \A d \in deliveryLog : d[1][2] \in Channels /\ d[2] \in {"sent", "failed"}
  /\ DOMAIN taken = DOMAIN lost
  /\ \A d \in DOMAIN taken : lost[d] <= taken[d]
  /\ mishaps \in 0..MaxMishaps /\ changes \in 0..MaxChanges

NoticeInit ==
  /\ today = 1 /\ tick = TRUE       \* run() checks once before it waits
  /\ settings = [u \in Owners |-> EverythingOn] /\ active \in SUBSET Items
  /\ check = CheckResting /\ deliveryLog = {} /\ taken = <<>> /\ lost = <<>>
  /\ mishaps = 0 /\ changes = 0

-----------------------------------------------------------------------------
clock == <<today, tick>>
history == <<taken, lost>>
userData == <<settings, active, changes>>

\* An hour passes, or the night does.
Hour == ~tick /\ tick' = TRUE /\ UNCHANGED today
Midnight == today < LastDay /\ today' = today + 1 /\ tick' = TRUE
TimePasses ==
  /\ Hour \/ Midnight
  /\ UNCHANGED <<userData, check, deliveryLog, history, mishaps>>

Toggled(set, x) == IF x \in set THEN set \ {x} ELSE set \cup {x}
Edited(s) ==
  {[s EXCEPT !.enabled = ~@]}
    \cup {[s EXCEPT !.channels = Toggled(@, c)] : c \in Channels}
    \cup {[s EXCEPT !.kinds = Toggled(@, NoticeKinds[k])] : k \in 1..4}
    \cup {[s EXCEPT !.advance = a] : a \in Advances}

\* NotificationService.Update, as far as the scheduler reads it.
ChangeSettings(u, s) ==
  /\ changes < MaxChanges /\ changes' = changes + 1
  /\ settings' = [settings EXCEPT ![u] = s]
  /\ UNCHANGED <<clock, active, check, deliveryLog, history, mishaps>>

\* A reminder is disabled or enabled, a lending settled or reopened, a budget
\* falls below its threshold or exceeds it again.
ChangeItem(i) ==
  /\ changes < MaxChanges /\ changes' = changes + 1
  /\ active' = Toggled(active, i)
  /\ UNCHANGED <<clock, settings, check, deliveryLog, history, mishaps>>

\* CheckAndNotify: one day is taken for the whole check.
StartCheck ==
  /\ tick /\ check.pc = "idle"
  /\ tick' = FALSE
  /\ check' = [CheckResting EXCEPT !.pc = "users", !.day = today, !.users = Owners]
  /\ UNCHANGED <<today, userData, deliveryLog, history, mishaps>>

\* The next user's settings are read once for all the notices of the user.
TakeUser(u) ==
  /\ check.pc = "users" /\ u \in check.users
  /\ check' =
       IF settings[u].enabled /\ settings[u].channels # {}
       THEN [check EXCEPT !.pc = "kinds", !.users = @ \ {u}, !.user = {u},
                          !.snap = settings[u], !.kind = 1]
       ELSE [check EXCEPT !.users = @ \ {u}]
  /\ UNCHANGED <<clock, userData, deliveryLog, history, mishaps>>

EndCheck ==
  /\ check.pc = "users" /\ check.users = {}
  /\ check' = CheckResting
  /\ UNCHANGED <<clock, userData, deliveryLog, history, mishaps>>

\* The kind is done: the next kind of notice, or the next user.
AfterKind ==
  IF check.kind = Len(NoticeKinds)
  THEN [check EXCEPT !.pc = "users", !.kind = 0, !.user = {}, !.snap = NoUser]
  ELSE [check EXCEPT !.pc = "kinds", !.kind = @ + 1]

\* checkPaymentReminders, checkLendings, checkBudgets, checkAnnualReport: what
\* is due is read; a failed read costs the notices of this kind only.
ReadKind(u) ==
  LET kind == NoticeKinds[check.kind]
      due  == IF kind \in check.snap.kinds THEN NoticeDue(u, kind, check.day, check.snap)
              ELSE {}
  IN  /\ check.pc = "kinds" /\ check.user = {u}
      /\ \/ /\ due = {} /\ check' = AfterKind /\ UNCHANGED mishaps
         \/ /\ due # {} /\ UNCHANGED mishaps
            /\ check' = [check EXCEPT !.pc = "deliver", !.queue = due,
                                      !.owed = @ \cup due]
         \/ /\ due # {} /\ mishaps < MaxMishaps /\ mishaps' = mishaps + 1
            /\ check' = AfterKind
      /\ UNCHANGED <<clock, userData, deliveryLog, history>>

\* The kind's last delivery was the one with "done".
Without(done) ==
  IF check.queue = {done} THEN [AfterKind EXCEPT !.queue = {}, !.at = {}]
  ELSE [check EXCEPT !.pc = "deliver", !.queue = @ \ {done}, !.at = {}]

\* Mutant: any row of the delivery counts, a failed attempt too.
HasSentAny(d) == \E e \in deliveryLog : e[1] = d
\* HasSent
HasSent(d) == <<d, "sent">> \in deliveryLog

Skip(d) ==
  /\ check.pc = "deliver" /\ d \in check.queue /\ HasSent(d)
  /\ check' = Without(d)
  /\ UNCHANGED <<clock, userData, deliveryLog, history, mishaps>>

\* What becomes of a message.  A robot may answer 200 and refuse in the body;
\* an answer may be lost after the message was taken.
Outcomes == {"taken", "answer lost", "refused", "refused in the body"}

\* sendNotificationChannel, sendWebhookRequest and robotWebhookRejected
Accepted(d, o) ==
  o = "taken" \/ (o = "refused in the body" /\ d[2] \notin Robots)

Count(f, d) == IF d \in DOMAIN f THEN f[d] ELSE 0
Bump(f, d, by) == [e \in DOMAIN f \cup {d} |-> Count(f, e) + IF e = d THEN by ELSE 0]

\* deliver: the message is sent, to be recorded in the next step.
Send(d, o) ==
  LET arrived == o \in {"taken", "answer lost"}
  IN  /\ check.pc = "deliver" /\ d \in check.queue /\ ~HasSent(d)
      /\ o # "taken" => mishaps < MaxMishaps
      /\ mishaps' = IF o = "taken" THEN mishaps ELSE mishaps + 1
      /\ check' = [check EXCEPT !.at = {d},
                     !.pc = IF Accepted(d, o) THEN "sent" ELSE "failed"]
      /\ taken' = IF arrived THEN Bump(taken, d, 1) ELSE taken
      /\ lost' = IF arrived THEN Bump(lost, d, IF Accepted(d, o) THEN 0 ELSE 1)
                 ELSE lost
      /\ UNCHANGED <<clock, userData, deliveryLog>>

\* Mutant: the first failure ends the loop over the channels.
AfterRecordingFirstFailure(d, failed) ==
  [(IF failed THEN [AfterKind EXCEPT !.queue = {}, !.at = {}] ELSE Without(d))
     EXCEPT !.failed = IF failed THEN @ \cup {d} ELSE @]

\* The other channels and notices go on whatever became of this one.
AfterRecording(d, failed) ==
  [Without(d) EXCEPT !.failed = IF failed THEN @ \cup {d} ELSE @]

\* NotificationLogRepository.Record; a failed insert is counted, no more.
RecordDelivery(d, stored) ==
  /\ check.pc \in {"sent", "failed"} /\ check.at = {d}
  /\ stored \/ mishaps < MaxMishaps
  /\ mishaps' = IF stored THEN mishaps ELSE mishaps + 1
  /\ deliveryLog' = IF stored THEN deliveryLog \cup {<<d, check.pc>>} ELSE deliveryLog
  /\ check' = AfterRecording(d, check.pc = "failed" \/ ~stored)
  /\ lost' = IF ~stored /\ check.pc = "sent" /\ d \in DOMAIN taken
             THEN Bump(lost, d, 1) ELSE lost
  /\ UNCHANGED <<clock, userData, taken>>

\* The process dies, perhaps between a message and its record, and starts again.
Crash ==
  /\ mishaps < MaxMishaps /\ mishaps' = mishaps + 1
  /\ check' = CheckResting /\ tick' = TRUE
  /\ lost' = IF check.pc = "sent" /\ check.at \subseteq DOMAIN taken
             THEN [d \in DOMAIN lost |-> lost[d] + IF d \in check.at THEN 1 ELSE 0]
             ELSE lost
  /\ UNCHANGED <<today, userData, deliveryLog, taken>>

CheckStep ==
  \/ StartCheck \/ EndCheck
  \/ \E u \in Owners : TakeUser(u) \/ ReadKind(u)
  \/ \E d \in check.queue :
       \/ Skip(d)
       \/ \E o \in Outcomes : Send(d, o)
       \/ \E stored \in BOOLEAN : RecordDelivery(d, stored)

NoticeNext ==
  \/ CheckStep \/ TimePasses \/ Crash
  \/ \E u \in Owners : \E s \in Edited(settings[u]) : ChangeSettings(u, s)
  \/ \E i \in Items : ChangeItem(i)

NoticeSpec == NoticeInit /\ [][NoticeNext]_noticeVars

\* The goroutine runs, and the ticker ticks.
NoticeFairness == WF_noticeVars(CheckStep) /\ WF_noticeVars(TimePasses)

-----------------------------------------------------------------------------
(* A notice is taken once on each channel, plus once for every time it was  *)
(* taken and no trace of it was kept: the log holds across hourly checks,   *)
(* restarts and changes of the settings.                                    *)
NoticesAreNotRepeated == \A d \in DOMAIN taken : taken[d] <= 1 + lost[d]

(* Whatever a check found due has been sent, was counted as failed in this  *)
(* check, or is still to do: a failing channel or notice holds up no other. *)
ChecksCoverWhatIsDue ==
  check.owed \subseteq Sent \cup check.failed \cup check.queue

(* What the log calls sent on a channel with a verdict was really taken.    *)
SentMeansTaken == \A d \in Sent : d[2] \in Robots => Count(taken, d) > 0

(* What the log says can be relied on: nothing is sent twice for want of a  *)
(* trace, nothing due is passed over, and what is called sent was taken.    *)
NoticesAreAccounted ==
  NoticesAreNotRepeated /\ ChecksCoverWhatIsDue /\ SentMeansTaken

\* What user u is still to be told on day n, under the settings of now.
Outstanding(u, n) ==
  IF settings[u].enabled
  THEN UNION {NoticeDue(u, kind, n, settings[u]) : kind \in settings[u].kinds}
         \ Sent
  ELSE {}

(* A failed delivery is tried again every hour: once the last day has come  *)
(* everything that is due gets sent, unless the user turns it off.          *)
RetriedUntilSent ==
  today = LastDay ~> \A u \in Owners : Outstanding(u, LastDay) = {}

(* When a check ends on the day that is a reminder's advance away from one  *)
(* of its payment days, the advance notice was found due, however long the  *)
(* months are: the reminder comes the chosen number of days early.          *)
AdvanceNoticeInTime ==
  check.pc = "users" /\ check.users = {} =>
    \A i \in active, m \in Months :
      LET due == ClampedMonthDay(m, i.day) IN
      /\ i.kind = "payment" /\ i.advance > 0
      /\ due - check.day = i.advance
      => \A c \in settings[i.owner].channels :
           <<Notice(i, due, i.advance), c>> \in check.owed

=============================================================================
