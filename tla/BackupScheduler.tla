-------------------------- MODULE BackupScheduler --------------------------
(***************************************************************************)
(* Automatic backups: service/backup_scheduler.go.  The hourly timer and   *)
(* the requests that trigger a run by hand compete for backupMu; settings  *)
(* are edited meanwhile; a run writes one file per user, records itself in *)
(* the settings and only then removes old files.                           *)
(*                                                                         *)
(* Time is counted in hours since midnight of the first day of a month.    *)
(* The length of a day, a week and a month are constants so that a small   *)
(* instance sees them all change.                                          *)
(***************************************************************************)
EXTENDS Integers, FiniteSets

CONSTANTS Users, Triggers, HoursPerDay, DaysPerWeek, DaysPerMonth,
          KeepLimits,       \* the values of max_backups that are chosen
          DefaultKeep,      \* and the one that holds until then
          Timer,        \* the scheduler's goroutine
          MaxHour, MaxRuns, MaxFaults, MaxEdits    \* bounds

ASSUME SchedulerAssumption ==
  /\ Users # {} /\ IsFiniteSet(Users)
  /\ Timer \notin Triggers /\ "nobody" \notin Triggers \cup {Timer}
  /\ {HoursPerDay, DaysPerWeek, DaysPerMonth} \subseteq Nat \ {0}
  /\ KeepLimits \subseteq Nat \ {0} /\ DefaultKeep \in KeepLimits
  /\ {MaxHour, MaxRuns, MaxFaults, MaxEdits} \subseteq Nat

VARIABLES
  hour,      \* the clock
  ticked,    \* the ticker's channel, of capacity one
  config,    \* what the settings row says, its last_backup aside
  stored,    \* the row exists
  last,      \* last_backup: the hour, and the run that wrote it
  files,     \* auto_backup_user<u>_<run>.json in the backup directory
  runs,      \* runs that took the lock so far
  runLock,      \* holder of backupMu
  job,       \* what the timer and every request are doing
  recorded,  \* the runs that were recorded (history)
  leaked,    \* files a failed or interrupted run could not take back (history)
  faults, edits

clockVars == <<hour, ticked>>
settingVars == <<config, stored, last, edits>>
diskVars == <<files, leaked>>
runVars == <<runs, runLock, job>>
backupVars == <<clockVars, settingVars, diskVars, runVars, recorded, faults>>

Actors == Triggers \cup {Timer}
Frequencies == {"daily", "weekly", "monthly"}
Config == [enabled : BOOLEAN, freq : Frequencies, at : 0..(HoursPerDay - 1),
           max : KeepLimits]
Default ==
  [enabled |-> FALSE, freq |-> "daily", at |-> 3 % HoursPerDay,
   max |-> DefaultKeep]
Never == [at |-> -1, run |-> 0]
Nobody == "nobody"
Idle == [pc |-> "idle", run |-> 0, snap |-> Default, made |-> {}]
File == [user : Users, run : 1..MaxRuns]

BackupTypeOK ==
  /\ hour \in 0..MaxHour /\ ticked \in BOOLEAN
  /\ config \in Config /\ stored \in BOOLEAN
  /\ last \in [at : -1..MaxHour, run : 0..MaxRuns]
  /\ files \subseteq File /\ leaked \subseteq File
  /\ recorded \subseteq 1..MaxRuns
  /\ runs \in 0..MaxRuns /\ runLock \in Actors \cup {Nobody}
  /\ job \in [Actors -> [pc : {"idle", "wait", "write", "clean"},
                         run : 0..MaxRuns, snap : Config, made : SUBSET File]]
  /\ faults \in 0..MaxFaults /\ edits \in 0..MaxEdits

BackupInit ==
  /\ hour = 0 /\ ticked = TRUE      \* run() checks once before it waits
  /\ config = Default /\ stored = FALSE /\ last = Never
  /\ files = {} /\ leaked = {} /\ recorded = {} /\ runs = 0 /\ runLock = Nobody
  /\ job = [a \in Actors |-> Idle]
  /\ faults = 0 /\ edits = 0

-----------------------------------------------------------------------------
Day(h) == h \div HoursPerDay
Month(h) == Day(h) \div DaysPerMonth

\* autoBackupDue
AutoBackupDue(freq, then, now) ==
  CASE freq = "daily"   -> Day(now) - Day(then) >= 1
    [] freq = "weekly"  -> Day(now) - Day(then) >= DaysPerWeek
    [] freq = "monthly" -> Month(now) > Month(then)

Waiting(snap) == [Idle EXCEPT !.pc = "wait", !.snap = snap]

\* An hour passes; a tick nobody has taken yet swallows the next one.
Tick ==
  /\ hour < MaxHour
  /\ hour' = hour + 1 /\ ticked' = TRUE
  /\ UNCHANGED <<settingVars, diskVars, runVars, recorded, faults>>

\* checkAndBackup up to the lock: the settings are read before it is waited for.
Check ==
  /\ ticked /\ job[Timer].pc = "idle"
  /\ ticked' = FALSE
  /\ IF /\ config.enabled
        /\ hour % HoursPerDay = config.at
        /\ last = Never \/ AutoBackupDue(config.freq, last.at, hour)
     THEN job' = [job EXCEPT ![Timer] = Waiting(config)]
     ELSE UNCHANGED job
  /\ UNCHANGED <<settingVars, diskVars, recorded, hour, runs, runLock, faults>>

\* A request runs a backup now, whatever the settings say.
Trigger(q) ==
  /\ job[q].pc = "idle"
  /\ job' = [job EXCEPT ![q] = Waiting(config)]
  /\ UNCHANGED <<clockVars, settingVars, diskVars, recorded, runs, runLock,
                 faults>>

\* backupMu is granted; the run takes its timestamp, which names its files.
BeginRun(a) ==
  /\ job[a].pc = "wait" /\ runLock = Nobody /\ runs < MaxRuns
  /\ runLock' = a /\ runs' = runs + 1
  /\ job' = [job EXCEPT ![a].pc = "write", ![a].run = runs + 1]
  /\ UNCHANGED <<clockVars, settingVars, diskVars, recorded, faults>>

\* The files the run still owes.
Owed(a) == {f \in File : f.run = job[a].run} \ job[a].made

WriteFile(a, f) ==
  /\ job[a].pc = "write" /\ f \in Owed(a)
  /\ files' = files \cup {f}
  /\ job' = [job EXCEPT ![a].made = @ \cup {f}]
  /\ UNCHANGED <<clockVars, settingVars, recorded, runs, runLock, leaked,
                 faults>>

ReleaseRun(a) ==
  /\ runLock' = Nobody
  /\ job' = [job EXCEPT ![a] = Idle]

\* Mutants: the files made are not removed; an error path keeps the lock.
FailKeepingFiles(a, renamed, stuck) ==
  /\ job[a].pc = "write" /\ faults < MaxFaults
  /\ faults' = faults + 1
  /\ files' = files \cup renamed
  /\ leaked' = leaked \cup stuck \cup renamed
  /\ ReleaseRun(a)
  /\ UNCHANGED <<clockVars, settingVars, recorded, runs>>

\* Creating, marshalling, sizing or writing a file fails, or recording the run
\* does once nothing is owed: the files made so far are removed.  A file whose
\* directory could not be synced after the rename was not counted as made
\* ("renamed"), and a removal may fail ("stuck").
Fail(a, renamed, stuck) ==
  /\ job[a].pc = "write" /\ faults < MaxFaults
  /\ faults' = faults + 1
  /\ files' = (files \ (job[a].made \ stuck)) \cup renamed
  /\ leaked' = leaked \cup stuck \cup renamed
  /\ ReleaseRun(a)
  /\ UNCHANGED <<clockVars, settingVars, recorded, runs>>

\* Mutant: the settings read at the start of the run are written back.
RecordBackupSnapshot(a) ==
  /\ job[a].pc = "write" /\ Owed(a) = {}
  /\ last' = [at |-> hour, run |-> job[a].run]
  /\ config' = job[a].snap
  /\ stored' = TRUE
  /\ recorded' = recorded \cup {job[a].run}
  /\ job' = [job EXCEPT ![a].pc = "clean", ![a].snap = config']
  /\ UNCHANGED <<clockVars, diskVars, runs, runLock, faults, edits>>

\* recordSuccessfulBackup, under settingsMu: only last_backup is merged into
\* the row as it is now; a row that does not exist is made from the snapshot.
RecordBackup(a) ==
  /\ job[a].pc = "write" /\ Owed(a) = {}
  /\ last' = [at |-> hour, run |-> job[a].run]
  /\ config' = IF stored THEN config ELSE job[a].snap
  /\ stored' = TRUE
  /\ recorded' = recorded \cup {job[a].run}
  /\ job' = [job EXCEPT ![a].pc = "clean", ![a].snap = config']
  /\ UNCHANGED <<clockVars, diskVars, runs, runLock, faults, edits>>

FilesOf(u) == {f \in files : f.user = u}

\* The files beyond the newest "keep" of each user, by modification time.
Obsolete(keep) ==
  {f \in files : Cardinality({g \in FilesOf(f.user) : g.run > f.run}) >= keep}

\* cleanupOldBackups for every user, best effort; the lock is released.
Clean(a, stuck) ==
  /\ job[a].pc = "clean"
  /\ stuck = {} \/ faults < MaxFaults
  /\ faults' = IF stuck = {} THEN faults ELSE faults + 1
  /\ files' = files \ (Obsolete(job[a].snap.max) \ stuck)
  /\ leaked' = leaked \cup stuck
  /\ ReleaseRun(a)
  /\ UNCHANGED <<clockVars, settingVars, recorded, runs>>

\* UpdateAutoBackupSettings: the request carries no last_backup, so the stored
\* one is kept.
SaveSettings(c) ==
  /\ edits < MaxEdits
  /\ edits' = edits + 1
  /\ config' = c /\ stored' = TRUE
  /\ last' = IF stored THEN last ELSE Never
  /\ UNCHANGED <<clockVars, diskVars, runVars, recorded, faults>>

\* The process dies and starts again; what the run in progress wrote stays.
RestartBackups ==
  /\ faults < MaxFaults
  /\ faults' = faults + 1
  /\ ticked' = TRUE /\ runLock' = Nobody /\ job' = [a \in Actors |-> Idle]
  /\ leaked' = leaked \cup UNION {job[a].made : a \in {b \in Actors :
                                    job[b].pc = "write"}}
                      \cup UNION {Obsolete(job[a].snap.max) : a \in {b \in Actors :
                                    job[b].pc = "clean"}}
  /\ UNCHANGED <<settingVars, recorded, hour, files, runs>>

RunStep(a) ==
  \/ BeginRun(a)
  \/ \E f \in Owed(a) : WriteFile(a, f)
  \/ \E renamed \in {{}} \cup {{f} : f \in Owed(a)} :
       \E stuck \in SUBSET job[a].made : Fail(a, renamed, stuck)
  \/ RecordBackup(a)
  \/ \E stuck \in {{}, Obsolete(job[a].snap.max)} : Clean(a, stuck)

BackupNext ==
  \/ Tick \/ Check \/ RestartBackups
  \/ \E q \in Triggers : Trigger(q)
  \/ \E a \in Actors : RunStep(a)
  \/ \E c \in Config : SaveSettings(c)

BackupSpec == BackupInit /\ [][BackupNext]_backupVars

\* A run that holds the lock goes on, and sync.Mutex does not starve a waiter.
BackupFairness == \A a \in Actors : WF_backupVars(RunStep(a))

-----------------------------------------------------------------------------
(* The scheduler keeps what BackupContract promises: the settings change    *)
(* only as the API was told, also when an edit comes while a run is under   *)
(* way, and the date they show moves forward to a run whose files are all   *)
(* there and which neither a later failed run nor the removal of old files  *)
(* takes away.                                                              *)
Usable == {r \in 1..MaxRuns : {f \in File : f.run = r} \subseteq files}

Contract == INSTANCE BackupContract
  WITH Configs <- Config, Runs <- 1..MaxRuns, Hours <- 0..MaxHour, choice <- config,
       usable <- Usable

KeepsContract == Contract!Spec

(* A run leaves nothing behind unless it succeeds: each file is of a run in *)
(* progress, of a run that was recorded, or could not be removed.           *)
NoPartialRun ==
  \A f \in files \ leaked :
    \/ \E a \in Actors : f \in job[a].made
    \/ f.run \in recorded

(* Whoever waits for the lock gets it, and every run ends: no error path    *)
(* keeps backupMu.                                                          *)
RunsFinish ==
  \A a \in Actors : job[a].pc # "idle" ~> (job[a].pc = "idle" \/ runs = MaxRuns)

=============================================================================
