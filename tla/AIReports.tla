----------------------------- MODULE AIReports -----------------------------
(***************************************************************************)
(* AI reports: service/ai_report.go, ai_report_limits.go and the hourly    *)
(* ai_report_scheduler.go, for one user and one provider.  Requests and    *)
(* the scheduler generate reports of the same kinds at the same time,      *)
(* while the ledger, the provider and the schedule are edited.             *)
(*                                                                         *)
(* The facts of the ledger and the provider's configuration are version    *)
(* numbers: a snapshot is the version it was taken from, the revision hash *)
(* the version it was computed from.                                       *)
(***************************************************************************)
EXTENDS Integers, FiniteSets

CONSTANTS ReportRequests, Scheduler,
          Kinds,            \* kinds of reports the schedule generates
          MaxConcurrent,    \* aiReportMaxConcurrentPerUser
          MaxReportAttempts,      \* aiReportMaxAttemptsPerMinute
          MaxReportDay, MaxReports, MaxVersion, MaxRestarts     \* bounds

NoCaller == "no caller"

ASSUME AIReportAssumption ==
  /\ Scheduler \notin ReportRequests /\ IsFiniteSet(ReportRequests)
  /\ NoCaller \notin ReportRequests \cup {Scheduler}
  /\ {MaxConcurrent, MaxReportAttempts} \subseteq Nat \ {0}
  /\ {MaxReportDay, MaxReports, MaxVersion, MaxRestarts} \subseteq Nat

VARIABLES
  day, due,          \* the date; the scheduler has yet to look in its hour
  facts, provider,   \* versions of the ledger and of the provider
  schedule,          \* enabled kinds and marks, in one settings row
  scheduleChosen,    \* the kinds the API last enabled (history)
  round,             \* the scheduler's run; runMu is held while it is on
  automatic,         \* automatic generations of a kind on a day (history)
  reports,           \* the ai_reports table, a sequence in order of creation
  entries, locks,    \* the map of generation locks, and the locks made
  gen,               \* what every request and the scheduler are doing
  activeCalls, reportAttempts,  \* aiReportUserUsage
  aiRestarts

aiVars == <<day, due, facts, provider, schedule, scheduleChosen, round,
            automatic, reports, entries, locks, gen, activeCalls, reportAttempts,
            aiRestarts>>

Generators == ReportRequests \cup {Scheduler}
LockIds == 1..(Cardinality(Generators) + 1)
NoLock == 0
Versions == 0..MaxVersion
Report == [kind : Kinds, status : {"running", "completed", "failed"},
           facts : Versions, rev : Versions, done : 0..MaxReports, live : BOOLEAN]
NoRound == [on |-> FALSE, todo |-> {}, done |-> {}, day |-> 0, forced |-> FALSE]
ReportResting == [pc |-> "rest", kind |-> CHOOSE k \in Kinds : TRUE, lock |-> NoLock,
            report |-> 0, facts |-> 0, rev |-> 0, since |-> <<0, 0>>]

AITypeOK ==
  /\ day \in 0..MaxReportDay /\ due \in BOOLEAN
  /\ facts \in Versions /\ provider \in [rev : Versions, enabled : BOOLEAN]
  /\ schedule \in [kinds : SUBSET Kinds, marks : [Kinds -> -1..MaxReportDay]]
  /\ scheduleChosen \in SUBSET Kinds
  /\ round \in [on : BOOLEAN, todo : SUBSET Kinds, done : SUBSET Kinds,
                day : 0..MaxReportDay, forced : BOOLEAN]
  /\ DOMAIN reports \subseteq 1..MaxReports
  /\ \A i \in DOMAIN reports : reports[i] \in Report
  /\ entries \in [Kinds -> LockIds \cup {NoLock}]
  /\ locks \in [LockIds -> [refs : 0..Cardinality(Generators),
                            holder : Generators \cup {NoCaller}]]
  /\ activeCalls \in 0..MaxConcurrent /\ reportAttempts \in 0..MaxReportAttempts

AIInit ==
  /\ day = 0 /\ due = TRUE /\ facts = 0
  /\ provider = [rev |-> 0, enabled |-> TRUE]
  /\ schedule = [kinds |-> {}, marks |-> [k \in Kinds |-> -1]]
  /\ scheduleChosen = {}
  /\ round = NoRound
  /\ automatic = [k \in Kinds |-> [d \in 0..MaxReportDay |-> 0]]
  /\ reports = <<>>
  /\ entries = [k \in Kinds |-> NoLock]
  /\ locks = [e \in LockIds |-> [refs |-> 0, holder |-> NoCaller]]
  /\ gen = [c \in Generators |-> ReportResting]
  /\ activeCalls = 0 /\ reportAttempts = 0 /\ aiRestarts = 0

serviceVars == <<entries, locks, gen, activeCalls, reportAttempts, reports>>
scheduleVars == <<day, due, schedule, scheduleChosen, round, automatic>>

-----------------------------------------------------------------------------
(* AIReportService.Generate.                                               *)

\* The provider is selected before the lock is waited for; the moment the
\* caller came is kept as a pair of versions (history).
AskReport(c, kind) ==
  gen' = [gen EXCEPT ![c] =
    IF provider.enabled
    THEN [ReportResting EXCEPT !.pc = "enter", !.kind = kind,
                         !.since = <<facts, provider.rev>>]
    ELSE ReportResting]

AskByRequest(q, kind) ==
  /\ gen[q].pc = "rest"
  /\ AskReport(q, kind)
  /\ UNCHANGED <<facts, provider, scheduleVars, entries, locks, activeCalls,
                 reportAttempts, reports, aiRestarts>>

\* lockAIReportGeneration: take or make the entry and count a reference.
FreeLocks == {e \in LockIds : locks[e].refs = 0 /\ \A k \in Kinds : entries[k] # e}

Enter(c) ==
  /\ gen[c].pc = "enter"
  /\ \E e \in IF entries[gen[c].kind] = NoLock
              THEN {f \in FreeLocks : \A g \in FreeLocks : f <= g}
              ELSE {entries[gen[c].kind]} :
       /\ entries' = [entries EXCEPT ![gen[c].kind] = e]
       /\ locks' = [locks EXCEPT ![e].refs = @ + 1]
       /\ gen' = [gen EXCEPT ![c].pc = "lock", ![c].lock = e]
  /\ UNCHANGED <<facts, provider, scheduleVars, activeCalls, reportAttempts,
                 reports, aiRestarts>>

Lock(c) ==
  /\ gen[c].pc = "lock" /\ locks[gen[c].lock].holder = NoCaller
  /\ locks' = [locks EXCEPT ![gen[c].lock].holder = c]
  /\ gen' = [gen EXCEPT ![c].pc = "look"]
  /\ UNCHANGED <<facts, provider, scheduleVars, entries, activeCalls,
                 reportAttempts, reports, aiRestarts>>

\* GetReusableCompleted: of the completed reports of the kind, the one that
\* was updated last.
Newest(kind) ==
  {i \in DOMAIN reports :
     LET done(j) == reports[j].live /\ reports[j].kind = kind
                    /\ reports[j].status = "completed"
     IN done(i) /\ \A j \in DOMAIN reports :
                     done(j) => reports[j].done <= reports[i].done}

\* Mutant: any completed report of the kind answers the request.
ReusableByKind(kind) == Newest(kind)

\* A report is reused while its facts and the provider's revision are the same.
Reusable(kind) ==
  {i \in Newest(kind) : reports[i].facts = facts /\ reports[i].rev = provider.rev}

\* Under the lock: select the provider again, take the snapshot, look for a
\* reusable report and otherwise create one.
Look(c) ==
  /\ gen[c].pc = "look"
  /\ \/ /\ ~provider.enabled
        /\ gen' = [gen EXCEPT ![c].pc = "leave"]
        /\ UNCHANGED reports
     \/ /\ provider.enabled
        /\ \E i \in Reusable(gen[c].kind) :
             gen' = [gen EXCEPT ![c].pc = "leave", ![c].report = i,
                                ![c].facts = reports[i].facts,
                                ![c].rev = reports[i].rev]
        /\ UNCHANGED reports
     \/ /\ provider.enabled /\ Reusable(gen[c].kind) = {}
        /\ Cardinality(DOMAIN reports) < MaxReports
        /\ LET i == Cardinality(DOMAIN reports) + 1 IN
             /\ reports' = [j \in 1..i |-> IF j < i THEN reports[j] ELSE
                  [kind |-> gen[c].kind, status |-> "running", facts |-> facts,
                   rev |-> provider.rev, done |-> 0, live |-> TRUE]]
             /\ gen' = [gen EXCEPT ![c].pc = "permit", ![c].report = i,
                                   ![c].facts = facts, ![c].rev = provider.rev]
  /\ UNCHANGED <<facts, provider, scheduleVars, entries, locks, activeCalls,
                 reportAttempts, aiRestarts>>

Automatic(c) == c = Scheduler /\ ~round.forced

Completions == Cardinality({i \in DOMAIN reports : reports[i].done > 0})

\* repo.Update is gorm's Save: it writes the whole row, and puts back a row
\* that was deleted meanwhile.
Closed(i, status) ==
  [reports EXCEPT ![i].status = status, ![i].live = TRUE,
                  ![i].done = IF status = "completed" THEN Completions + 1 ELSE 0]

\* The last look at the schedule of an automatic run, then the allowance.
Permit(c) ==
  /\ gen[c].pc = "permit"
  /\ IF /\ Automatic(c) => gen[c].kind \in schedule.kinds
        /\ activeCalls < MaxConcurrent /\ reportAttempts < MaxReportAttempts
     THEN /\ activeCalls' = activeCalls + 1 /\ reportAttempts' = reportAttempts + 1
          /\ gen' = [gen EXCEPT ![c].pc = "call"]
          /\ UNCHANGED reports
     ELSE /\ reports' = Closed(gen[c].report, "failed")
          /\ gen' = [gen EXCEPT ![c].pc = "leave", ![c].report = 0]
          /\ UNCHANGED <<activeCalls, reportAttempts>>
  /\ UNCHANGED <<facts, provider, scheduleVars, entries, locks, aiRestarts>>

\* The provider answers, badly or not at all within 30 seconds.
Answer(c, status) ==
  /\ gen[c].pc = "call"
  /\ reports' = Closed(gen[c].report, status)
  /\ activeCalls' = activeCalls - 1
  /\ gen' = [gen EXCEPT ![c].pc = "leave",
                        ![c].report = IF status = "completed" THEN @ ELSE 0]
  /\ UNCHANGED <<facts, provider, scheduleVars, entries, locks,
                 reportAttempts, aiRestarts>>

\* unlock: the lock first, the reference to its entry afterwards.
Unlock(c) ==
  /\ gen[c].pc = "leave"
  /\ locks' = [locks EXCEPT ![gen[c].lock].holder = NoCaller]
  /\ gen' = [gen EXCEPT ![c].pc = "drop"]
  /\ UNCHANGED <<facts, provider, scheduleVars, entries, activeCalls,
                 reportAttempts, reports, aiRestarts>>

\* Mutant: the entry goes with the first caller that leaves.
DropWholeEntry(c) ==
  /\ gen[c].pc = "drop"
  /\ locks' = [locks EXCEPT ![gen[c].lock].refs = @ - 1]
  /\ entries' = [entries EXCEPT ![gen[c].kind] =
       IF @ = gen[c].lock THEN NoLock ELSE @]
  /\ gen' = [gen EXCEPT ![c] = ReportResting]
  /\ UNCHANGED <<facts, provider, scheduleVars, activeCalls, reportAttempts,
                 reports, aiRestarts>>

DropReference(c) ==
  /\ gen[c].pc = "drop"
  /\ locks' = [locks EXCEPT ![gen[c].lock].refs = @ - 1]
  /\ entries' = [entries EXCEPT ![gen[c].kind] =
       IF locks[gen[c].lock].refs = 1 /\ @ = gen[c].lock THEN NoLock ELSE @]
  /\ gen' = [gen EXCEPT ![c] = ReportResting]
  /\ UNCHANGED <<facts, provider, scheduleVars, activeCalls, reportAttempts,
                 reports, aiRestarts>>

\* The oldest attempt is a minute ago.
AttemptAges ==
  /\ reportAttempts > 0 /\ reportAttempts' = reportAttempts - 1
  /\ UNCHANGED <<facts, provider, scheduleVars, entries, locks, gen,
                 activeCalls, reports, aiRestarts>>

DeleteReport(i) ==
  /\ reports[i].live
  /\ reports' = [reports EXCEPT ![i].live = FALSE]
  /\ UNCHANGED <<facts, provider, scheduleVars, entries, locks, gen,
                 activeCalls, reportAttempts, aiRestarts>>

-----------------------------------------------------------------------------
(* What reports are made of is edited.                                     *)

EditLedger ==
  /\ facts < MaxVersion /\ facts' = facts + 1
  /\ UNCHANGED <<provider, scheduleVars, serviceVars, aiRestarts>>

EditProvider(enabled) ==
  /\ provider.rev < MaxVersion
  /\ provider' = [rev |-> provider.rev + 1, enabled |-> enabled]
  /\ UNCHANGED <<facts, scheduleVars, serviceVars, aiRestarts>>

-----------------------------------------------------------------------------
(* AIReportScheduler.  "kinds" is empty when the schedule is disabled; the *)
(* hour of the day is left to when the timer looks.                        *)

\* Mutant: the request's own marks, read earlier, replace those of the row.
SaveScheduleWhole(kinds) ==
  /\ schedule' = [kinds |-> kinds, marks |-> [k \in Kinds |-> -1]]
  /\ scheduleChosen' = kinds /\ due' = TRUE
  /\ UNCHANGED <<day, round, automatic, facts, provider, serviceVars,
                 aiRestarts>>

\* SaveSettings merges what was asked for into the row as it is.  The hour may
\* be set to one still to come today.
SaveSchedule(kinds) ==
  /\ schedule' = [schedule EXCEPT !.kinds = kinds]
  /\ scheduleChosen' = kinds /\ due' = TRUE
  /\ UNCHANGED <<day, round, automatic, facts, provider, serviceVars,
                 aiRestarts>>

NextReportDay ==
  /\ day < MaxReportDay /\ day' = day + 1 /\ due' = TRUE
  /\ UNCHANGED <<schedule, scheduleChosen, round, automatic, facts, provider,
                 serviceVars, aiRestarts>>

\* CheckAndGenerate and TriggerDueReports: runMu is tried, the settings are
\* read under it.
BeginRound(forced) ==
  /\ ~round.on /\ (due \/ forced)
  /\ due' = (due /\ forced)
  /\ round' = [on |-> TRUE, done |-> {}, day |-> day, forced |-> forced,
               todo |-> {k \in schedule.kinds : forced \/ schedule.marks[k] # day}]
  /\ UNCHANGED <<day, schedule, scheduleChosen, automatic, facts, provider,
                 serviceVars, aiRestarts>>

\* generateForAllUsers, for the user; the kind counts as run whatever comes.
\* An automatic run looks at the schedule first.
RoundStep(kind) ==
  /\ round.on /\ kind \in round.todo /\ gen[Scheduler].pc = "rest"
  /\ round' = [round EXCEPT !.todo = @ \ {kind}, !.done = @ \cup {kind}]
  /\ IF round.forced \/ kind \in schedule.kinds
     THEN AskReport(Scheduler, kind)
     ELSE UNCHANGED gen
  /\ automatic' = IF round.forced THEN automatic
                  ELSE [automatic EXCEPT ![kind][round.day] = @ + 1]
  /\ UNCHANGED <<day, due, schedule, scheduleChosen, facts, provider, entries,
                 locks, activeCalls, reportAttempts, reports, aiRestarts>>

\* recordRunCompletion merges only newer marks into the row.
EndRound ==
  /\ round.on /\ round.todo = {} /\ gen[Scheduler].pc = "rest"
  /\ schedule' = [schedule EXCEPT !.marks = [k \in Kinds |->
       IF k \in round.done /\ round.day > @[k] THEN round.day ELSE @[k]]]
  /\ round' = NoRound
  /\ UNCHANGED <<day, due, scheduleChosen, automatic, facts, provider,
                 serviceVars, aiRestarts>>

\* The process starts again: tables stay, memory is empty, and the scheduler
\* looks at once.
RestartReports ==
  /\ aiRestarts < MaxRestarts /\ aiRestarts' = aiRestarts + 1
  /\ due' = TRUE /\ round' = NoRound
  /\ entries' = [k \in Kinds |-> NoLock]
  /\ locks' = [e \in LockIds |-> [refs |-> 0, holder |-> NoCaller]]
  /\ gen' = [c \in Generators |-> ReportResting]
  /\ activeCalls' = 0 /\ reportAttempts' = 0
  /\ UNCHANGED <<day, facts, provider, schedule, scheduleChosen, automatic,
                 reports>>

GenerateStep(c) ==
  \/ Enter(c) \/ Lock(c) \/ Look(c) \/ Permit(c) \/ Unlock(c) \/ DropReference(c)
  \/ \E status \in {"completed", "failed"} : Answer(c, status)

GenerateNext ==
  \/ \E q \in ReportRequests, kind \in Kinds : AskByRequest(q, kind)
  \/ \E c \in Generators : GenerateStep(c)

EditNext ==
  \/ AttemptAges \/ EditLedger
  \/ \E i \in DOMAIN reports : DeleteReport(i)
  \/ \E enabled \in BOOLEAN : EditProvider(enabled)

ScheduleNext ==
  \/ NextReportDay \/ EndRound \/ RestartReports
  \/ \E kinds \in SUBSET Kinds : SaveSchedule(kinds)
  \/ \E forced \in BOOLEAN : BeginRound(forced)
  \/ \E kind \in Kinds : RoundStep(kind)

AINext == GenerateNext \/ EditNext \/ ScheduleNext

AISpec == AIInit /\ [][AINext]_aiVars

\* A request goes on, the call to the provider has a timeout, and sync.Mutex
\* lets a waiter in.
AIFairness == \A c \in Generators : WF_aiVars(GenerateStep(c)) /\ SF_aiVars(Lock(c))

-----------------------------------------------------------------------------
(* At most one caller generates a report of a kind at a time, although the  *)
(* lock is made on demand and dropped with its last reference: two callers  *)
(* never hold different locks for the same report.                          *)
OneGenerationPerReport ==
  \A c, d \in Generators :
    /\ {gen[c].pc, gen[d].pc} \subseteq {"look", "permit", "call"}
    /\ gen[c].kind = gen[d].kind
    => c = d

(* Whoever gets a report, new or reused, gets one made of facts and of a    *)
(* provider configuration no older than the request, also after waiting for *)
(* another generation of the same report.                                   *)
AnswersAreFresh ==
  \A c \in Generators :
    gen[c].pc = "leave" /\ gen[c].report # 0 =>
      gen[c].facts >= gen[c].since[1] /\ gen[c].rev >= gen[c].since[2]

(* Every slot of the concurrency limit in use belongs to a call under way:  *)
(* no failure, timeout or refusal keeps one.                                *)
SlotsAreCalls == activeCalls = Cardinality({c \in Generators : gen[c].pc = "call"})

(* Generation is accounted for: one caller a report, and one call a slot.   *)
GenerationsAreCounted == OneGenerationPerReport /\ SlotsAreCalls

(* The schedule generates a kind once a day, in spite of edits of the       *)
(* schedule and of manual runs in between; a restart may repeat it.         *)
OneAutomaticRunPerDay ==
  \A k \in Kinds, d \in 0..MaxReportDay : automatic[k][d] <= 1 + aiRestarts

(* Every generation ends, whatever the provider does and whoever waits.     *)
GenerationsEnd ==
  \A c \in Generators : gen[c].pc # "rest" ~>
    (gen[c].pc = "rest" \/ Cardinality(DOMAIN reports) = MaxReports)
=============================================================================
