--------------------------- MODULE ServiceProofs ----------------------------
(***************************************************************************)
(* The proofs about the services that run beside the ledger: the backup    *)
(* scheduler, the notifications, the stored credentials, the backup format *)
(* with its restores, and the migrations.  They share no state; each part  *)
(* is about the specification of its own module.                           *)
(***************************************************************************)
EXTENDS BackupScheduler, Notifications, Credentials, BackupGraph, Migrations, SumLemmas

(***************************************************************************)
(* The scheduler implements BackupContract and leaves no partial run       *)
(* behind, for any number of users, requests, runs, faults and edits.      *)
(*                                                                         *)
(* The holder of backupMu is the newest run: its files are its own and are *)
(* newer than those of the last backup while it writes, so a failure takes *)
(* nothing from the last backup; and they are the newest of all while it   *)
(* cleans up, so the cleanup spares them.                                  *)
(***************************************************************************)
Job == [pc : {"idle", "wait", "write", "clean"}, run : Nat, snap : Config,
        made : SUBSET File]

Types ==
  /\ hour \in Nat /\ runs \in Nat /\ hour <= MaxHour /\ runs <= MaxRuns
  /\ config \in Config
  /\ files \subseteq File
  /\ job \in [Actors -> Job]
  /\ last \in [at : Int, run : Nat]

\* What the run that holds the lock has done.
Running(a) ==
  /\ job[a].pc \in {"write", "clean"} =>
       /\ runLock = a /\ job[a].run = runs /\ runs # 0
       /\ \A f \in job[a].made : f.run = runs
  /\ job[a].pc = "write" => last.run < runs /\ job[a].made \subseteq files
  /\ job[a].pc = "clean" => last.run = runs /\ runs \in recorded
  /\ job[a].pc \in {"idle", "wait"} => job[a].made = {}

\* The last backup is there and is no newer than the clock and the runs.
LastIsUsable ==
  /\ last.run <= runs /\ last.at <= hour
  /\ last = Never \/ last.run \in Usable
  /\ \A f \in files : f.run <= runs

\* Until the settings are stored everyone sees the defaults.
Unstored ==
  ~stored => /\ config = Default /\ last = Never
             /\ \A a \in Actors : job[a].snap = Default

SchedInv ==
  /\ Types
  /\ \A a \in Actors : Running(a)
  /\ LastIsUsable
  /\ Unstored
  /\ NoPartialRun

-----------------------------------------------------------------------------
LEMMA DefaultIsChosen == Default \in Config /\ Idle \in Job
<1>1. 3 % HoursPerDay \in 0..(HoursPerDay - 1)
  BY SchedulerAssumption
<1>2. Default \in Config
  BY <1>1, SchedulerAssumption DEF Default, Config, Frequencies
<1> QED
  BY <1>2 DEF Idle, Job

LEMMA NobodyIsNoActor == Nobody \notin Actors
BY SchedulerAssumption DEF Nobody, Actors

LEMMA KeepLimitsArePositive == ASSUME NEW k \in KeepLimits PROVE k \in Nat /\ k > 0
<1>1. KeepLimits \subseteq Nat \ {0}
  BY SchedulerAssumption
<1> QED
  BY <1>1

LEMMA JobFields ==
  ASSUME NEW x \in Job
  PROVE  /\ x.run \in Nat /\ x.snap \in Config /\ x.made \subseteq File
         /\ x.pc \in {"idle", "wait", "write", "clean"}
BY DEF Job

LEMMA SchedInitHolds == BackupInit => SchedInv
<1> SUFFICES ASSUME BackupInit PROVE SchedInv
  OBVIOUS
<1>1. \A a \in Actors : job[a] = Idle
  BY DEF BackupInit
<1>2. Types
  BY DefaultIsChosen, SchedulerAssumption DEF BackupInit, Types, Never
<1>3. \A a \in Actors : Running(a)
  BY <1>1 DEF Running, Idle
<1>4. LastIsUsable /\ Unstored /\ NoPartialRun
  BY <1>1 DEF BackupInit, LastIsUsable, Unstored, NoPartialRun, Never, Idle
<1> QED
  BY <1>2, <1>3, <1>4 DEF SchedInv

-----------------------------------------------------------------------------
(* What a step is to the contract. *)

\* A step that changes neither files nor settings is none.
LEMMA SameContract ==
  ASSUME UNCHANGED <<files, last, config>>
  PROVE  UNCHANGED Contract!contractVars
BY DEF Contract!contractVars, Usable

\* Files may come and go, if those of the last backup stay.
LEMMA FilesChange ==
  ASSUME UNCHANGED <<last, config>>, last = Never \/ last.run \in Usable'
  PROVE  Contract!Next
<1>1. Usable' \in SUBSET (1..MaxRuns)
  BY DEF Usable
<1>2. Contract!Keep(Usable')
  BY DEF Contract!Keep, Contract!NoBackup, Never
<1> QED
  BY <1>1, <1>2 DEF Contract!Next

-----------------------------------------------------------------------------
(* Steps that touch neither files nor settings. *)

LEMMA StutterHolds == SchedInv /\ UNCHANGED backupVars => SchedInv'
BY DEF SchedInv, Types, Running, LastIsUsable, Usable, Unstored, NoPartialRun,
       backupVars, clockVars, settingVars, diskVars, runVars

LEMMA TickHolds == SchedInv /\ Tick => SchedInv'
<1> SUFFICES ASSUME SchedInv, Tick PROVE SchedInv'
  OBVIOUS
<1>1. /\ hour' = hour + 1 /\ hour < MaxHour
      /\ UNCHANGED <<config, stored, last, files, leaked, runs, runLock, job,
                     recorded>>
  BY DEF Tick, settingVars, diskVars, runVars
<1>2. Types' /\ LastIsUsable'
  BY <1>1, SchedulerAssumption DEF SchedInv, Types, LastIsUsable, Usable
<1>3. /\ \A a \in Actors : Running(a)'
      /\ Unstored' /\ NoPartialRun'
  BY <1>1 DEF SchedInv, Running, Unstored, NoPartialRun
<1> QED
  BY <1>2, <1>3 DEF SchedInv

\* Someone idle starts to wait, with the settings as they are.
LEMMA WaitHolds ==
  ASSUME SchedInv, NEW a \in Actors, job[a].pc = "idle",
         job' = [job EXCEPT ![a] = Waiting(config)],
         UNCHANGED <<hour, config, stored, last, files, leaked, runs, runLock,
                     recorded>>
  PROVE  SchedInv'
<1> DEFINE row == Waiting(config)
<1>1. /\ row \in Job /\ row.pc = "wait" /\ row.made = {}
      /\ row.snap = config
  BY DefaultIsChosen DEF SchedInv, Types, Waiting, Idle, Job
<1>2. \A b \in Actors : job'[b] = IF b = a THEN row ELSE job[b]
  BY DEF SchedInv, Types
<1> HIDE DEF row
<1>3. Types'
  BY <1>1 DEF SchedInv, Types, row
<1>4. \A b \in Actors : Running(b)'
  BY <1>1, <1>2 DEF SchedInv, Running
<1>5. LastIsUsable' /\ Unstored'
  BY <1>1, <1>2 DEF SchedInv, LastIsUsable, Usable, Unstored
<1>6. NoPartialRun'
  <2> SUFFICES ASSUME NEW f \in files \ leaked
               PROVE  (\E b \in Actors : f \in job'[b].made) \/ f.run \in recorded
    BY DEF NoPartialRun
  <2>1. CASE f.run \in recorded
    BY <2>1
  <2>2. CASE \E b \in Actors : f \in job[b].made
    <3>1. PICK b \in Actors : f \in job[b].made
      BY <2>2
    <3>2. b # a
      BY <3>1 DEF SchedInv, Running
    <3> QED
      BY <1>2, <3>1, <3>2
  <2> QED
    BY <2>1, <2>2 DEF SchedInv, NoPartialRun
<1> QED
  BY <1>3, <1>4, <1>5, <1>6 DEF SchedInv

LEMMA CheckHolds == SchedInv /\ Check => SchedInv'
<1> SUFFICES ASSUME SchedInv, Check PROVE SchedInv'
  OBVIOUS
<1>1. /\ UNCHANGED <<hour, config, stored, last, files, leaked, runs, runLock,
                     recorded>>
      /\ Timer \in Actors /\ job[Timer].pc = "idle"
  BY DEF Check, settingVars, diskVars, Actors
<1>2. CASE job' = [job EXCEPT ![Timer] = Waiting(config)]
  BY <1>1, <1>2, WaitHolds
<1>3. CASE UNCHANGED job
  BY <1>1, <1>3 DEF SchedInv, Types, Running, LastIsUsable, Usable, Unstored,
     NoPartialRun
<1> QED
  BY <1>2, <1>3 DEF Check

LEMMA TriggerHolds ==
  ASSUME SchedInv, NEW q \in Triggers, Trigger(q)
  PROVE  SchedInv'
<1>1. /\ UNCHANGED <<hour, config, stored, last, files, leaked, runs, runLock,
                     recorded>>
      /\ q \in Actors /\ job[q].pc = "idle"
      /\ job' = [job EXCEPT ![q] = Waiting(config)]
  BY DEF Trigger, clockVars, settingVars, diskVars, Actors
<1> QED
  BY <1>1, WaitHolds

\* The holder of the lock is the only run.
LEMMA OneRun ==
  ASSUME SchedInv, NEW a \in Actors, runLock \in {a, Nobody},
         NEW b \in Actors, b # a
  PROVE  job[b].pc \in {"idle", "wait"}
BY NobodyIsNoActor, JobFields DEF SchedInv, Types, Running

LEMMA BeginRunHolds ==
  ASSUME SchedInv, NEW a \in Actors, BeginRun(a)
  PROVE  SchedInv'
<1> DEFINE row == [job[a] EXCEPT !.pc = "write", !.run = runs + 1]
<1>1. /\ job[a].pc = "wait" /\ runLock = Nobody /\ runs < MaxRuns
      /\ runLock' = a /\ runs' = runs + 1
      /\ UNCHANGED <<hour, config, stored, last, files, leaked, recorded>>
      /\ job' = [job EXCEPT ![a] = row]
  BY DEF BeginRun, clockVars, settingVars, diskVars
<1>2. job[a] \in Job /\ runs \in Nat /\ job[a].made = {}
  BY <1>1 DEF SchedInv, Types, Running
<1>3. /\ row \in Job /\ row.pc = "write" /\ row.run = runs + 1
      /\ row.made = {} /\ row.snap = job[a].snap
  <2>1. runs + 1 \in Nat
    BY <1>2
  <2> DEFINE next == runs + 1
  <2> HIDE DEF next
  <2>2. [job[a] EXCEPT !.pc = "write", !.run = next] \in Job
    BY <1>2, <2>1 DEF Job, next
  <2> QED
    BY <1>2, <2>2 DEF Job, next
<1> HIDE DEF row
<1>4. \A b \in Actors : job'[b] = IF b = a THEN row ELSE job[b]
  BY <1>1 DEF SchedInv, Types
<1>5. Types'
  BY <1>1, <1>2, <1>3, SchedulerAssumption DEF SchedInv, Types
<1>6. ASSUME NEW b \in Actors PROVE Running(b)'
  <2>1. CASE b = a
    <3>1. last.run < runs + 1 /\ runs + 1 # 0
      BY <1>2 DEF SchedInv, Types, LastIsUsable
    <3> QED
      BY <1>1, <1>3, <1>4, <2>1, <3>1 DEF Running
  <2>2. CASE b # a
    <3>1. job[b].pc \in {"idle", "wait"}
      BY <1>1, <2>2, OneRun
    <3> QED
      BY <1>4, <2>2, <3>1 DEF SchedInv, Running
  <2> QED
    BY <2>1, <2>2
<1>7. LastIsUsable'
  <2>1. last.run <= runs + 1 /\ \A f \in files : f.run <= runs + 1
    BY <1>2 DEF SchedInv, Types, LastIsUsable, File
  <2> QED
    BY <1>1, <2>1 DEF SchedInv, LastIsUsable, Usable
<1>8. Unstored'
  BY <1>1, <1>3, <1>4 DEF SchedInv, Unstored
<1>9. NoPartialRun'
  BY <1>1, <1>2, <1>3, <1>4 DEF SchedInv, NoPartialRun
<1> QED
  BY <1>5, <1>6, <1>7, <1>8, <1>9 DEF SchedInv

\* A process that starts again runs nothing.
LEMMA RestartHolds == SchedInv /\ RestartBackups => SchedInv'
<1> SUFFICES ASSUME SchedInv, RestartBackups PROVE SchedInv'
  OBVIOUS
<1>1. /\ UNCHANGED <<hour, config, stored, last, files, runs, recorded>>
      /\ job' = [a \in Actors |-> Idle] /\ leaked \subseteq leaked'
      /\ \A a \in Actors : job[a].pc = "write" => job[a].made \subseteq leaked'
  BY DEF RestartBackups, settingVars
<1>2. Types' /\ LastIsUsable' /\ Unstored'
  BY <1>1, DefaultIsChosen
  DEF SchedInv, Types, LastIsUsable, Usable, Unstored, Idle
<1>3. \A a \in Actors : Running(a)'
  BY <1>1 DEF Running, Idle
<1>4. NoPartialRun'
  <2> SUFFICES ASSUME NEW f \in files \ leaked' PROVE f.run \in recorded
    BY <1>1 DEF NoPartialRun
  <2>1. CASE \E a \in Actors : f \in job[a].made
    <3>1. PICK a \in Actors : f \in job[a].made
      BY <2>1
    <3>2. job[a].pc = "clean"
      BY <1>1, <3>1, JobFields DEF SchedInv, Types, Running
    <3> QED
      BY <3>1, <3>2 DEF SchedInv, Running
  <2> QED
    BY <1>1, <2>1 DEF SchedInv, NoPartialRun
<1> QED
  BY <1>2, <1>3, <1>4 DEF SchedInv

-----------------------------------------------------------------------------
(* Steps of the run. *)

LEMMA WriteFileHolds ==
  ASSUME SchedInv, NEW a \in Actors, NEW f \in Owed(a), WriteFile(a, f)
  PROVE  SchedInv' /\ Contract!Next
<1> DEFINE row == [job[a] EXCEPT !.made = @ \cup {f}]
<1>1. /\ job[a].pc = "write" /\ files' = files \cup {f}
      /\ job' = [job EXCEPT ![a] = row]
      /\ UNCHANGED <<hour, config, stored, last, recorded, runs, runLock, leaked>>
  BY DEF WriteFile, clockVars, settingVars
<1>2. /\ job[a] \in Job /\ f \in File /\ f.run = runs /\ runs \in Nat
      /\ runLock = a
  BY <1>1 DEF SchedInv, Types, Running, Owed
<1>3. /\ row \in Job /\ row.pc = "write" /\ row.run = job[a].run
      /\ row.made = job[a].made \cup {f} /\ row.snap = job[a].snap
  BY <1>1, <1>2 DEF Job
<1> HIDE DEF row
<1>4. \A b \in Actors : job'[b] = IF b = a THEN row ELSE job[b]
  BY <1>1 DEF SchedInv, Types
<1>5. Types'
  BY <1>1, <1>2, <1>3 DEF SchedInv, Types
<1>6. ASSUME NEW b \in Actors PROVE Running(b)'
  <2>1. CASE b = a
    BY <1>1, <1>2, <1>3, <1>4, <2>1 DEF SchedInv, Running
  <2>2. CASE b # a
    <3>1. job[b].pc \in {"idle", "wait"}
      BY <1>2, <2>2, OneRun
    <3> QED
      BY <1>4, <2>2, <3>1 DEF SchedInv, Running
  <2> QED
    BY <2>1, <2>2
<1>7. Usable \subseteq Usable'
  BY <1>1 DEF Usable
<1>8. LastIsUsable'
  BY <1>1, <1>2, <1>7 DEF SchedInv, LastIsUsable
<1>9. Unstored'
  BY <1>1, <1>3, <1>4 DEF SchedInv, Unstored
<1>10. NoPartialRun'
  BY <1>1, <1>3, <1>4 DEF SchedInv, NoPartialRun
<1>11. Contract!Next
  BY <1>1, <1>7, FilesChange DEF SchedInv, LastIsUsable
<1> QED
  BY <1>5, <1>6, <1>8, <1>9, <1>10, <1>11 DEF SchedInv

\* The run ends: what it takes away must not be of the last backup, and what
\* it leaves of its own must be recorded or known to be stuck.
LEMMA ReleaseHolds ==
  ASSUME SchedInv, NEW a \in Actors, runLock = a, ReleaseRun(a),
         UNCHANGED <<hour, config, stored, last, recorded, runs>>,
         files' \subseteq File, \A f \in files' : f.run <= runs,
         last = Never \/ last.run \in Usable',
         leaked \subseteq leaked',
         \A f \in files' \ leaked' :
           f \in files /\ (f \in job[a].made => f.run \in recorded)
  PROVE  SchedInv' /\ Contract!Next
<1>1. job' = [job EXCEPT ![a] = Idle] /\ runLock' = Nobody
  BY DEF ReleaseRun
<1>2. \A b \in Actors : job'[b] = IF b = a THEN Idle ELSE job[b]
  BY <1>1 DEF SchedInv, Types
<1>3. Types'
  BY <1>1, DefaultIsChosen DEF SchedInv, Types
<1>4. ASSUME NEW b \in Actors PROVE Running(b)'
  <2>1. CASE b = a
    BY <1>2, <2>1 DEF Running, Idle
  <2>2. CASE b # a
    <3>1. job[b].pc \in {"idle", "wait"}
      BY <2>2, OneRun
    <3> QED
      BY <1>2, <2>2, <3>1 DEF SchedInv, Running
  <2> QED
    BY <2>1, <2>2
<1>5. LastIsUsable' /\ Unstored'
  BY <1>2 DEF SchedInv, LastIsUsable, Unstored, Idle
<1>6. NoPartialRun'
  <2> SUFFICES ASSUME NEW f \in files' \ leaked'
               PROVE  (\E b \in Actors : f \in job'[b].made) \/ f.run \in recorded
    BY DEF NoPartialRun
  <2>1. f \in files \ leaked
    OBVIOUS
  <2>2. CASE \E b \in Actors : f \in job[b].made
    <3>1. PICK b \in Actors : f \in job[b].made
      BY <2>2
    <3> QED
      BY <1>2, <3>1
  <2> QED
    BY <2>1, <2>2 DEF SchedInv, NoPartialRun
<1>7. Contract!Next
  BY FilesChange
<1> QED
  BY <1>3, <1>4, <1>5, <1>6, <1>7 DEF SchedInv

LEMMA FailHolds ==
  ASSUME SchedInv, NEW a \in Actors,
         NEW renamed \in {{}} \cup {{f} : f \in Owed(a)},
         NEW stuck \in SUBSET job[a].made, Fail(a, renamed, stuck)
  PROVE  SchedInv' /\ Contract!Next
<1>1. /\ job[a].pc = "write" /\ ReleaseRun(a)
      /\ files' = (files \ (job[a].made \ stuck)) \cup renamed
      /\ leaked' = leaked \cup stuck \cup renamed
      /\ UNCHANGED <<hour, config, stored, last, recorded, runs>>
  BY DEF Fail, clockVars, settingVars
<1>2. /\ runLock = a /\ last.run < runs /\ runs \in Nat
      /\ \A f \in job[a].made : f.run = runs
      /\ job[a].run = runs
  BY <1>1 DEF SchedInv, Types, Running
<1>3. renamed \subseteq File /\ \A f \in renamed : f.run = runs
  BY <1>2 DEF Owed
<1>4. files' \subseteq File /\ \A f \in files' : f.run <= runs
  BY <1>1, <1>2, <1>3 DEF SchedInv, Types, LastIsUsable
<1>5. last = Never \/ last.run \in Usable'
  <2>1. \A f \in files : f.run = last.run => f \in files'
    BY <1>1, <1>2
  <2> QED
    BY <1>1, <2>1 DEF SchedInv, LastIsUsable, Usable
<1>6. \A f \in files' \ leaked' : f \in files /\ f \notin job[a].made
  BY <1>1
<1> QED
  BY <1>1, <1>2, <1>4, <1>5, <1>6, ReleaseHolds

\* The cleanup spares the newest run, which is the last backup.
LEMMA CleanHolds ==
  ASSUME SchedInv, NEW a \in Actors, NEW stuck \in {{}, Obsolete(job[a].snap.max)},
         Clean(a, stuck)
  PROVE  SchedInv' /\ Contract!Next
<1> DEFINE keep == job[a].snap.max
<1>1. /\ job[a].pc = "clean" /\ ReleaseRun(a)
      /\ files' = files \ (Obsolete(keep) \ stuck)
      /\ leaked' = leaked \cup stuck
      /\ UNCHANGED <<hour, config, stored, last, recorded, runs>>
  BY DEF Clean, clockVars, settingVars
<1>2. /\ runLock = a /\ last.run = runs /\ runs \in recorded /\ runs \in Nat
      /\ \A f \in job[a].made : f.run = runs
  BY <1>1 DEF SchedInv, Types, Running
<1>3. keep \in Nat /\ keep > 0
  <2>1. job[a].snap \in Config
    BY JobFields DEF SchedInv, Types
  <2>2. keep \in KeepLimits
    BY <2>1 DEF Config
  <2> HIDE DEF keep
  <2> QED
    BY <2>2, KeepLimitsArePositive
<1> HIDE DEF keep
<1>4. \A f \in files : f.run = runs => f \notin Obsolete(keep)
  <2> SUFFICES ASSUME NEW f \in files, f.run = runs
               PROVE  ~(Cardinality({g \in FilesOf(f.user) : g.run > f.run}) >= keep)
    BY DEF Obsolete
  <2>1. \A g \in FilesOf(f.user) : ~(g.run > f.run)
    <3>1. \A g \in files : g.run \in Nat /\ g.run <= runs
      BY DEF SchedInv, Types, LastIsUsable, File
    <3> QED
      BY <1>2, <3>1 DEF FilesOf
  <2>2. {g \in FilesOf(f.user) : g.run > f.run} = {}
    BY <2>1
  <2> QED
    BY <1>3, <2>2, FS_EmptySet
<1>5. files' \subseteq File /\ \A f \in files' : f.run <= runs
  BY <1>1 DEF SchedInv, Types, LastIsUsable
<1>6. last = Never \/ last.run \in Usable'
  <2>1. \A f \in files : f.run = last.run => f \in files'
    BY <1>1, <1>2, <1>4
  <2> QED
    BY <1>1, <2>1 DEF SchedInv, LastIsUsable, Usable
<1>7. \A f \in files' \ leaked' :
        f \in files /\ (f \in job[a].made => f.run \in recorded)
  BY <1>1, <1>2
<1> QED
  BY <1>1, <1>2, <1>5, <1>6, <1>7, ReleaseHolds

LEMMA RecordBackupHolds ==
  ASSUME SchedInv, NEW a \in Actors, RecordBackup(a)
  PROVE  SchedInv' /\ Contract!Next
<1> DEFINE row == [job[a] EXCEPT !.pc = "clean", !.snap = config]
<1>1. config' = config
  BY DEF RecordBackup, SchedInv, Unstored
<1>2. /\ job[a].pc = "write" /\ Owed(a) = {} /\ stored'
      /\ last' = [at |-> hour, run |-> job[a].run]
      /\ recorded' = recorded \cup {job[a].run}
      /\ job' = [job EXCEPT ![a] = row]
      /\ UNCHANGED <<hour, files, leaked, runs, runLock>>
  BY <1>1 DEF RecordBackup, clockVars, diskVars
<1>3. /\ job[a] \in Job /\ config \in Config /\ runs \in Nat /\ hour \in Nat
      /\ runLock = a /\ job[a].run = runs /\ runs # 0
      /\ last.run < runs /\ job[a].made \subseteq files
      /\ \A f \in job[a].made : f.run = runs
      /\ runs <= MaxRuns /\ hour <= MaxHour
  BY <1>2 DEF SchedInv, Types, Running
<1>4. /\ row \in Job /\ row.pc = "clean" /\ row.run = runs
      /\ row.made = job[a].made
  BY <1>3 DEF Job
<1> HIDE DEF row
<1>5. \A b \in Actors : job'[b] = IF b = a THEN row ELSE job[b]
  BY <1>2 DEF SchedInv, Types
<1>6. last'.run = runs /\ last'.at = hour
  BY <1>2, <1>3
<1>7. runs \in Usable /\ Usable' = Usable
  <2>1. runs \in 1..MaxRuns
    BY <1>3, SchedulerAssumption
  <2>2. {f \in File : f.run = runs} \subseteq files
    BY <1>2, <1>3 DEF Owed
  <2> QED
    BY <1>2, <2>1, <2>2 DEF Usable
<1>8. Types'
  BY <1>1, <1>2, <1>3, <1>4 DEF SchedInv, Types
<1>9. ASSUME NEW b \in Actors PROVE Running(b)'
  <2>1. CASE b = a
    BY <1>2, <1>3, <1>4, <1>5, <1>6, <2>1 DEF Running
  <2>2. CASE b # a
    <3>1. job[b].pc \in {"idle", "wait"}
      BY <1>3, <2>2, OneRun
    <3> QED
      BY <1>5, <2>2, <3>1 DEF SchedInv, Running
  <2> QED
    BY <2>1, <2>2
<1>10. LastIsUsable' /\ Unstored'
  BY <1>2, <1>3, <1>6, <1>7 DEF SchedInv, LastIsUsable, Unstored
<1>11. NoPartialRun'
  BY <1>2, <1>4, <1>5 DEF SchedInv, NoPartialRun
<1>12. Contract!Next
  <2>1. runs \in 1..MaxRuns /\ hour \in 0..MaxHour
    BY <1>3, SchedulerAssumption
  <2>2. runs > last.run /\ hour >= last.at
    BY <1>3 DEF SchedInv, Types, LastIsUsable
  <2>3. Contract!Complete(runs, hour)
    BY <1>1, <1>2, <1>3, <1>7, <2>2 DEF Contract!Complete
  <2> QED
    BY <2>1, <2>3 DEF Contract!Next
<1> QED
  BY <1>8, <1>9, <1>10, <1>11, <1>12 DEF SchedInv

LEMMA SaveSettingsHolds ==
  ASSUME SchedInv, NEW c \in Config, SaveSettings(c)
  PROVE  SchedInv' /\ Contract!Next
<1>1. last' = last
  BY DEF SaveSettings, SchedInv, Unstored
<1>2. /\ config' = c /\ stored'
      /\ UNCHANGED <<hour, files, leaked, runs, runLock, job, recorded>>
  BY DEF SaveSettings, clockVars, diskVars, runVars
<1>3. Types' /\ LastIsUsable' /\ Unstored'
  BY <1>1, <1>2 DEF SchedInv, Types, LastIsUsable, Usable, Unstored
<1>4. /\ \A a \in Actors : Running(a)'
      /\ NoPartialRun'
  BY <1>1, <1>2 DEF SchedInv, Running, NoPartialRun
<1>5. Contract!Choose(c)
  BY <1>1, <1>2 DEF Contract!Choose, Usable
<1> QED
  BY <1>3, <1>4, <1>5 DEF SchedInv, Contract!Next

-----------------------------------------------------------------------------
LEMMA SchedStepHolds ==
  ASSUME SchedInv, [BackupNext]_backupVars
  PROVE  SchedInv' /\ [Contract!Next]_(Contract!contractVars)
<1>1. CASE UNCHANGED backupVars
  BY <1>1, StutterHolds, SameContract DEF backupVars, settingVars, diskVars
<1>2. CASE Tick
  BY <1>2, TickHolds, SameContract DEF Tick, settingVars, diskVars
<1>3. CASE Check
  BY <1>3, CheckHolds, SameContract DEF Check, settingVars, diskVars
<1>4. CASE RestartBackups
  BY <1>4, RestartHolds, SameContract DEF RestartBackups, settingVars
<1>5. ASSUME NEW q \in Triggers, Trigger(q)
      PROVE  SchedInv' /\ UNCHANGED Contract!contractVars
  BY <1>5, TriggerHolds, SameContract DEF Trigger, settingVars, diskVars
<1>6. ASSUME NEW a \in Actors, BeginRun(a)
      PROVE  SchedInv' /\ UNCHANGED Contract!contractVars
  BY <1>6, BeginRunHolds, SameContract DEF BeginRun, settingVars, diskVars
<1>7. ASSUME NEW a \in Actors, RunStep(a), ~BeginRun(a)
      PROVE  SchedInv' /\ Contract!Next
  BY <1>7, WriteFileHolds, FailHolds, RecordBackupHolds, CleanHolds DEF RunStep
<1>8. ASSUME NEW c \in Config, SaveSettings(c)
      PROVE  SchedInv' /\ Contract!Next
  BY <1>8, SaveSettingsHolds
<1> QED
  BY <1>1, <1>2, <1>3, <1>4, <1>5, <1>6, <1>7, <1>8 DEF BackupNext

LEMMA InitContract == BackupInit => Contract!Init
<1> SUFFICES ASSUME BackupInit PROVE Contract!Init
  OBVIOUS
<1>1. Usable = {}
  <2> SUFFICES ASSUME NEW r \in Usable PROVE FALSE
    OBVIOUS
  <2>1. PICK u : u \in Users
    BY SchedulerAssumption
  <2>2. r \in 1..MaxRuns /\ {f \in File : f.run = r} \subseteq {}
    BY DEF Usable, BackupInit
  <2>3. [user |-> u, run |-> r] \in File
    BY <2>1, <2>2 DEF File
  <2> QED
    BY <2>2, <2>3
<1> QED
  BY <1>1 DEF BackupInit, Contract!Init, Contract!NoBackup, Never

\* The scheduler implements the contract: settings change only as the user
\* chose, and the last backup shown moves forward, to a run whose files are all
\* there and that no later failure, cleanup or restart takes away.
THEOREM SchedulerKeepsContract == BackupSpec => KeepsContract
BY SchedInitHolds, InitContract, SchedStepHolds, PTL
DEF BackupSpec, KeepsContract, Contract!Spec

\* Every file is of a run in progress or of one that was recorded, or is one
\* that a failed or interrupted run could not take back (NoPartialRun).
THEOREM NoPartialRunEver == BackupSpec => []NoPartialRun
<1>1. SchedInv => NoPartialRun
  BY DEF SchedInv
<1> QED
  BY SchedInitHolds, SchedStepHolds, <1>1, PTL DEF BackupSpec

-----------------------------------------------------------------------------
(***************************************************************************)
(* Notices.  A delivery is taken without a trace in the log only between   *)
(* the message and its record; what happens there instead of the record is *)
(* counted as lost.                                                        *)
(***************************************************************************)
CheckFields ==
  check = [pc |-> check.pc, day |-> check.day, users |-> check.users,
           snap |-> check.snap, user |-> check.user, kind |-> check.kind,
           queue |-> check.queue, at |-> check.at, owed |-> check.owed,
           failed |-> check.failed]

\* The message was accepted and its record is still to be written.
Unrecorded(d) == check.pc = "sent" /\ check.at = {d}

NoticesCounted ==
  /\ DOMAIN lost = DOMAIN taken
  /\ \A d \in DOMAIN taken : taken[d] \in Nat /\ lost[d] \in Nat
  /\ \A d \in DOMAIN taken : taken[d] <= lost[d] + 1
  /\ \A d \in DOMAIN taken :
       ~HasSent(d) /\ ~Unrecorded(d) => taken[d] <= lost[d]

CheckSound ==
  /\ CheckFields
  /\ check.pc \in {"idle", "users", "kinds"} => check.queue = {}
  /\ check.pc = "sent" =>
       \E d : /\ check.at = {d} /\ ~HasSent(d)
              /\ d[2] \in Robots => d \in DOMAIN taken /\ taken[d] > 0
  /\ ChecksCoverWhatIsDue

LogSound ==
  /\ \A e \in deliveryLog : e = <<e[1], e[2]>>
  /\ \A d : HasSent(d) /\ d[2] \in Robots => d \in DOMAIN taken /\ taken[d] > 0

NoticeInv == NoticesCounted /\ CheckSound /\ LogSound

-----------------------------------------------------------------------------
LEMMA SentIsLogged ==
  ASSUME LogSound
  PROVE  \A d : d \in Sent <=> HasSent(d)
<1>1. \A d : HasSent(d) => d \in Sent
  <2> SUFFICES ASSUME NEW d, HasSent(d)
               PROVE  d \in Sent
    OBVIOUS
  <2>1. <<d, "sent">> \in {e \in deliveryLog : e[2] = "sent"}
    BY DEF HasSent
  <2>2. <<d, "sent">>[1] = d
    OBVIOUS
  <2>. QED
    BY <2>1, <2>2 DEF Sent, SentOf
<1>2. \A d : d \in Sent => HasSent(d)
  <2> SUFFICES ASSUME NEW d \in Sent
               PROVE  HasSent(d)
    OBVIOUS
  <2>1. PICK e \in deliveryLog : e[2] = "sent" /\ e[1] = d
    BY DEF Sent, SentOf
  <2>. QED
    BY <2>1 DEF LogSound, HasSent
<1>. QED
  BY <1>1, <1>2

Counted(f) == \A e \in DOMAIN f : f[e] \in Nat

\* g counts "by" more of d than f.
CountsMore(f, g, d, by) ==
  /\ DOMAIN g = DOMAIN f \cup {d}
  /\ \A e \in DOMAIN f \cup {d} : g[e] \in Nat
  /\ \A e \in DOMAIN f \ {d} : g[e] = f[e]
  /\ d \in DOMAIN f => g[d] = f[d] + by
  /\ d \notin DOMAIN f => g[d] = by

LEMMA BumpCounts ==
  ASSUME NEW f, NEW d, NEW by \in Nat, Counted(f)
  PROVE  CountsMore(f, Bump(f, d, by), d, by)
<1>1. \A e \in DOMAIN f \cup {d} : Count(f, e) \in Nat
  BY DEF Count, Counted
<1>2. /\ DOMAIN Bump(f, d, by) = DOMAIN f \cup {d}
      /\ \A e \in DOMAIN f \cup {d} : e # d => Bump(f, d, by)[e] = Count(f, e) + 0
      /\ Bump(f, d, by)[d] = Count(f, d) + by
  BY DEF Bump
<1>. QED
  BY <1>1, <1>2 DEF Count, CountsMore

LEMMA NoticeInitHolds == NoticeInit => NoticeInv
<1> SUFFICES ASSUME NoticeInit
             PROVE  NoticeInv
  OBVIOUS
<1>1. /\ check = CheckResting /\ deliveryLog = {}
      /\ DOMAIN taken = {} /\ DOMAIN lost = {}
  BY DEF NoticeInit
<1>2. NoticesCounted
  BY <1>1 DEF NoticesCounted
<1>3. CheckSound
  BY <1>1 DEF CheckSound, CheckFields, CheckResting, ChecksCoverWhatIsDue
<1>4. LogSound
  BY <1>1 DEF LogSound, HasSent
<1>. QED
  BY <1>2, <1>3, <1>4 DEF NoticeInv

\* The steps that neither send nor record: what the check holds stays covered.
LEMMA QuietStep ==
  ASSUME NoticeInv, UNCHANGED <<deliveryLog, taken, lost>>, CheckFields',
         check.pc # "sent" /\ check'.pc # "sent",
         check'.pc \in {"idle", "users", "kinds"} => check'.queue = {},
         check'.owed \subseteq Sent \cup check'.failed \cup check'.queue
  PROVE  NoticeInv'
<1>1. \A d : HasSent(d)' <=> HasSent(d)
  BY DEF HasSent
<1>2. NoticesCounted'
  BY <1>1 DEF NoticeInv, NoticesCounted, Unrecorded
<1>3. CheckSound'
  <2>1. Sent' = Sent
    BY DEF Sent
  <2>. QED
    BY <2>1 DEF CheckSound, ChecksCoverWhatIsDue
<1>4. LogSound'
  BY <1>1 DEF NoticeInv, LogSound
<1>. QED
  BY <1>2, <1>3, <1>4 DEF NoticeInv

LEMMA SameNotices ==
  ASSUME NoticeInv, UNCHANGED <<deliveryLog, taken, lost, check>>
  PROVE  NoticeInv'
<1>1. \A d : (HasSent(d)' <=> HasSent(d)) /\ (Unrecorded(d)' <=> Unrecorded(d))
  BY DEF HasSent, Unrecorded
<1>2. NoticesCounted'
  BY <1>1 DEF NoticeInv, NoticesCounted
<1>3. CheckSound'
  <2>1. Sent' = Sent
    BY DEF Sent
  <2>. QED
    BY <1>1, <2>1 DEF NoticeInv, CheckSound, ChecksCoverWhatIsDue, CheckFields
<1>4. LogSound'
  BY <1>1 DEF NoticeInv, LogSound
<1>. QED
  BY <1>2, <1>3, <1>4 DEF NoticeInv

\* Between the kinds and the users nothing waits to be delivered.
LEMMA AfterKindFields ==
  ASSUME CheckFields, NEW c, c = AfterKind
  PROVE  /\ c.pc \in {"users", "kinds"}
         /\ c.queue = check.queue /\ c.owed = check.owed /\ c.failed = check.failed
         /\ c.at = check.at
         /\ c = [pc |-> c.pc, day |-> c.day, users |-> c.users,
                 snap |-> c.snap, user |-> c.user, kind |-> c.kind,
                 queue |-> c.queue, at |-> c.at, owed |-> c.owed,
                 failed |-> c.failed]
<1>1. CASE check.kind = Len(NoticeKinds)
  BY <1>1 DEF CheckFields, AfterKind
<1>2. CASE check.kind # Len(NoticeKinds)
  BY <1>2 DEF CheckFields, AfterKind
<1>. QED
  BY <1>1, <1>2

\* What is left once d is done.
LEMMA WithoutFields ==
  ASSUME CheckFields, NEW d \in check.queue, NEW c, c = Without(d)
  PROVE  /\ c.pc \in {"users", "kinds", "deliver"}
         /\ c.pc # "deliver" => c.queue = {}
         /\ c.queue = check.queue \ {d}
         /\ c.owed = check.owed /\ c.failed = check.failed
         /\ c = [pc |-> c.pc, day |-> c.day, users |-> c.users,
                 snap |-> c.snap, user |-> c.user, kind |-> c.kind,
                 queue |-> c.queue, at |-> c.at, owed |-> c.owed,
                 failed |-> c.failed]
<1>1. CASE check.queue = {d}
  <2> DEFINE k == AfterKind
  <2>1. c = [k EXCEPT !.queue = {}, !.at = {}]
    BY <1>1 DEF Without
  <2>2. /\ k.pc \in {"users", "kinds"}
        /\ k.owed = check.owed /\ k.failed = check.failed
        /\ k = [pc |-> k.pc, day |-> k.day, users |-> k.users,
                 snap |-> k.snap, user |-> k.user, kind |-> k.kind,
                 queue |-> k.queue, at |-> k.at, owed |-> k.owed,
                 failed |-> k.failed]
    BY AfterKindFields
  <2> HIDE DEF k
  <2>. QED
    BY <1>1, <2>1, <2>2
<1>2. CASE check.queue # {d}
  <2>1. c = [check EXCEPT !.pc = "deliver", !.queue = check.queue \ {d}, !.at = {}]
    BY <1>2 DEF Without
  <2>. QED
    BY <2>1 DEF CheckFields
<1>. QED
  BY <1>1, <1>2

-----------------------------------------------------------------------------
LEMMA QuietActions ==
  ASSUME NoticeInv,
         \/ StartCheck \/ EndCheck
         \/ \E u \in Owners : TakeUser(u) \/ ReadKind(u)
         \/ \E d \in check.queue : Skip(d)
  PROVE  NoticeInv'
<1>0. /\ CheckFields /\ LogSound
      /\ check.owed \subseteq Sent \cup check.failed \cup check.queue
      /\ check.pc \in {"idle", "users", "kinds"} => check.queue = {}
  BY DEF NoticeInv, CheckSound, ChecksCoverWhatIsDue
<1>1. ASSUME StartCheck \/ EndCheck
      PROVE  NoticeInv'
  <2>1. UNCHANGED <<deliveryLog, taken, lost>>
    BY <1>1 DEF StartCheck, EndCheck, history
  <2>2. /\ check.pc \in {"idle", "users"} /\ check'.pc \in {"idle", "users"}
        /\ check'.queue = {} /\ check'.owed = {} /\ CheckFields'
    <3>1. CASE StartCheck
      BY <3>1 DEF StartCheck, CheckResting, CheckFields
    <3>2. CASE EndCheck
      BY <3>2 DEF EndCheck, CheckResting, CheckFields
    <3>. QED
      BY <1>1, <3>1, <3>2
  <2>. QED
    BY <2>1, <2>2, QuietStep
<1>2. ASSUME NEW u \in Owners, TakeUser(u)
      PROVE  NoticeInv'
  <2>1. check.pc = "users" /\ UNCHANGED <<deliveryLog, taken, lost>>
    BY <1>2 DEF TakeUser, history
  <2>2. /\ check'.pc \in {"users", "kinds"} /\ CheckFields'
        /\ check'.queue = check.queue /\ check'.owed = check.owed
        /\ check'.failed = check.failed
    <3>1. CASE settings[u].enabled /\ settings[u].channels # {}
      BY <1>0, <1>2, <2>1, <3>1 DEF TakeUser, CheckFields
    <3>2. CASE ~(settings[u].enabled /\ settings[u].channels # {})
      BY <1>0, <1>2, <2>1, <3>2 DEF TakeUser, CheckFields
    <3>. QED
      BY <3>1, <3>2
  <2>. QED
    BY <1>0, <2>1, <2>2, QuietStep
<1>3. ASSUME NEW u \in Owners, ReadKind(u)
      PROVE  NoticeInv'
  <2> DEFINE due == NoticeDue(u, NoticeKinds[check.kind], check.day, check.snap)
  <2>1. check.pc = "kinds" /\ UNCHANGED <<deliveryLog, taken, lost>>
    BY <1>3 DEF ReadKind, history
  <2>2. \/ check' = AfterKind
        \/ check' = [check EXCEPT !.pc = "deliver", !.queue = due,
                                  !.owed = check.owed \cup due]
    BY <1>3 DEF ReadKind
  <2> HIDE DEF due
  <2>3. CASE check' = AfterKind
    <3>1. /\ check'.pc \in {"users", "kinds"} /\ CheckFields'
          /\ check'.queue = check.queue /\ check'.owed = check.owed
          /\ check'.failed = check.failed
      BY <1>0, <2>3, AfterKindFields DEF CheckFields
    <3>. QED
      BY <1>0, <2>1, <3>1, QuietStep
  <2>4. CASE check' = [check EXCEPT !.pc = "deliver", !.queue = due,
                                    !.owed = check.owed \cup due]
    <3>1. /\ check'.pc = "deliver" /\ CheckFields'
          /\ check'.queue = due /\ check'.owed = check.owed \cup due
          /\ check'.failed = check.failed
      BY <1>0, <2>4 DEF CheckFields
    <3>. QED
      BY <1>0, <2>1, <3>1, QuietStep
  <2>. QED
    BY <2>2, <2>3, <2>4
<1>4. ASSUME NEW d \in check.queue, Skip(d)
      PROVE  NoticeInv'
  <2>1. /\ check.pc = "deliver" /\ HasSent(d) /\ check' = Without(d)
        /\ UNCHANGED <<deliveryLog, taken, lost>>
    BY <1>4 DEF Skip, history
  <2>2. /\ check'.pc \in {"users", "kinds", "deliver"} /\ CheckFields'
        /\ check'.pc # "deliver" => check'.queue = {}
        /\ check'.queue = check.queue \ {d} /\ check'.owed = check.owed
        /\ check'.failed = check.failed
    BY <1>0, <2>1, WithoutFields DEF CheckFields
  <2>3. d \in Sent
    BY <1>0, <2>1, SentIsLogged
  <2>. QED
    BY <1>0, <2>1, <2>2, <2>3, QuietStep
<1>. QED
  BY <1>1, <1>2, <1>3, <1>4

LEMMA SendKeeps ==
  ASSUME NoticeInv, NEW d \in check.queue, NEW o \in Outcomes, Send(d, o)
  PROVE  NoticeInv'
<1> DEFINE arrived == o \in {"taken", "answer lost"}
           missed == IF Accepted(d, o) THEN 0 ELSE 1
<1>0. NoticesCounted /\ CheckSound /\ LogSound
  BY DEF NoticeInv
<1>1. /\ check.pc = "deliver" /\ ~HasSent(d) /\ UNCHANGED deliveryLog
      /\ check' = [check EXCEPT !.at = {d},
                     !.pc = IF Accepted(d, o) THEN "sent" ELSE "failed"]
      /\ arrived => taken' = Bump(taken, d, 1) /\ lost' = Bump(lost, d, missed)
      /\ ~arrived => UNCHANGED <<taken, lost>>
  BY DEF Send
<1>2. /\ Accepted(d, o) => check'.pc = "sent"
      /\ ~Accepted(d, o) => check'.pc = "failed"
      /\ check'.at = {d} /\ check'.queue = check.queue
      /\ check'.owed = check.owed /\ check'.failed = check.failed /\ CheckFields'
  BY <1>0, <1>1 DEF CheckSound, CheckFields
<1>3. /\ arrived /\ ~Accepted(d, o) <=> o = "answer lost"
      /\ Accepted(d, o) /\ d[2] \in Robots => arrived
  BY DEF Outcomes, Accepted
<1>4. missed \in Nat /\ (Accepted(d, o) => missed = 0)
      /\ (~Accepted(d, o) => missed = 1)
  OBVIOUS
<1> HIDE DEF arrived, missed
<1>5. /\ DOMAIN lost' = DOMAIN taken'
      /\ DOMAIN taken \subseteq DOMAIN taken'
      /\ \A e \in DOMAIN taken' : taken'[e] \in Nat /\ lost'[e] \in Nat
      /\ \A e \in DOMAIN taken' \ {d} :
           e \in DOMAIN taken /\ taken'[e] = taken[e] /\ lost'[e] = lost[e]
      /\ arrived => d \in DOMAIN taken' /\ taken'[d] > 0
      /\ d \in DOMAIN taken' =>
           /\ taken'[d] <= lost'[d] + 1
           /\ ~Accepted(d, o) => taken'[d] <= lost'[d]
  <2>1. CASE ~arrived
    <3>1. d \in DOMAIN taken => taken[d] <= lost[d]
      BY <1>0, <1>1 DEF NoticesCounted, Unrecorded
    <3>. QED
      BY <1>0, <1>1, <2>1, <3>1 DEF NoticesCounted
  <2>2. CASE arrived
    <3>1. /\ DOMAIN lost = DOMAIN taken
          /\ \A e \in DOMAIN taken : taken[e] \in Nat /\ lost[e] \in Nat
          /\ d \in DOMAIN taken => taken[d] <= lost[d]
      BY <1>0, <1>1 DEF NoticesCounted, Unrecorded
    <3>2. CountsMore(taken, taken', d, 1)
      <4>1. Counted(taken) /\ 1 \in Nat
        BY <3>1 DEF Counted
      <4>2. taken' = Bump(taken, d, 1)
        BY <1>1, <2>2
      <4>. QED
        BY <1>4, <4>1, <4>2, BumpCounts
    <3>3. CountsMore(lost, lost', d, missed)
      <4>1. Counted(lost) /\ 1 \in Nat
        BY <3>1 DEF Counted
      <4>2. lost' = Bump(lost, d, missed)
        BY <1>1, <2>2
      <4>. QED
        BY <1>4, <4>1, <4>2, BumpCounts
    <3>. QED
      BY <1>4, <3>1, <3>2, <3>3 DEF CountsMore
  <2>. QED
    BY <2>1, <2>2
<1>6. \A e : HasSent(e)' <=> HasSent(e)
  BY <1>1 DEF HasSent
<1>7. NoticesCounted'
  <2>1. ASSUME NEW e \in DOMAIN taken'
        PROVE  /\ taken'[e] <= lost'[e] + 1
               /\ ~HasSent(e)' /\ ~Unrecorded(e)' => taken'[e] <= lost'[e]
    <3>1. CASE e = d
      BY <1>2, <1>5, <2>1, <3>1 DEF Unrecorded
    <3>2. CASE e # d
      BY <1>0, <1>1, <1>5, <1>6, <2>1, <3>2 DEF NoticesCounted, Unrecorded
    <3>. QED
      BY <3>1, <3>2
  <2>. QED
    BY <1>5, <2>1 DEF NoticesCounted
<1>8. CheckSound'
  <2>1. Sent' = Sent
    BY <1>1 DEF Sent
  <2>2. check'.pc = "sent" => Accepted(d, o)
    BY <1>2
  <2>. QED
    BY <1>0, <1>1, <1>2, <1>3, <1>5, <1>6, <2>1, <2>2
    DEF CheckSound, ChecksCoverWhatIsDue
<1>9. LogSound'
  <2>1. ASSUME NEW e, HasSent(e)', e[2] \in Robots
        PROVE  e \in DOMAIN taken' /\ taken'[e] > 0
    BY <1>0, <1>1, <1>5, <1>6, <2>1 DEF LogSound
  <2>. QED
    BY <1>0, <1>1, <2>1 DEF LogSound
<1>. QED
  BY <1>7, <1>8, <1>9 DEF NoticeInv

LEMMA RecordKeeps ==
  ASSUME NoticeInv, NEW d \in check.queue, NEW logged \in BOOLEAN,
         RecordDelivery(d, logged)
  PROVE  NoticeInv'
<1> DEFINE sent == check.pc = "sent"
           failed == check.pc = "failed" \/ ~logged
           left == Without(d)
<1>0. NoticesCounted /\ CheckSound /\ LogSound /\ CheckFields
  BY DEF NoticeInv, CheckSound
<1>1. /\ check.pc \in {"sent", "failed"} /\ check.at = {d}
      /\ logged => deliveryLog' = deliveryLog \cup {<<d, check.pc>>}
      /\ ~logged => UNCHANGED deliveryLog
      /\ check' = [left EXCEPT !.failed = IF failed THEN left.failed \cup {d}
                                          ELSE left.failed]
      /\ ~logged /\ sent /\ d \in DOMAIN taken => lost' = Bump(lost, d, 1)
      /\ ~(~logged /\ sent /\ d \in DOMAIN taken) => UNCHANGED lost
      /\ UNCHANGED taken
  BY DEF RecordDelivery, AfterRecording
<1>2. /\ left.pc \in {"users", "kinds", "deliver"}
      /\ left.pc # "deliver" => left.queue = {}
      /\ left.queue = check.queue \ {d}
      /\ left.owed = check.owed /\ left.failed = check.failed
      /\ left = [pc |-> left.pc, day |-> left.day, users |-> left.users,
                 snap |-> left.snap, user |-> left.user, kind |-> left.kind,
                 queue |-> left.queue, at |-> left.at, owed |-> left.owed,
                 failed |-> left.failed]
  BY <1>0, WithoutFields
<1> HIDE DEF left
<1>3. /\ check'.pc = left.pc /\ check'.queue = left.queue
      /\ check'.owed = left.owed /\ CheckFields'
      /\ failed => check'.failed = check.failed \cup {d}
      /\ ~failed => check'.failed = check.failed
  BY <1>1, <1>2 DEF CheckFields
<1>4. sent => ~HasSent(d) /\ (d[2] \in Robots => d \in DOMAIN taken /\ taken[d] > 0)
  BY <1>0, <1>1 DEF CheckSound
<1>5. \A e : HasSent(e)' <=> HasSent(e) \/ (logged /\ sent /\ e = d)
  BY <1>1 DEF HasSent
<1>6. \A e : Unrecorded(e) <=> sent /\ e = d
  BY <1>1 DEF Unrecorded
<1>7. \A e : ~Unrecorded(e)'
  BY <1>2, <1>3 DEF Unrecorded
<1>8. NoticesCounted'
  <2>1. CASE ~logged /\ sent /\ d \in DOMAIN taken
    <3>1. CountsMore(lost, lost', d, 1)
      <4>1. Counted(lost) /\ 1 \in Nat
        BY <1>0 DEF Counted, NoticesCounted
      <4>. QED
        BY <1>1, <2>1, <4>1, BumpCounts
    <3>2. DOMAIN lost' = DOMAIN taken'
      BY <1>0, <1>1, <2>1, <3>1 DEF NoticesCounted, CountsMore
    <3>3. ASSUME NEW e \in DOMAIN taken'
          PROVE  /\ taken'[e] \in Nat /\ lost'[e] \in Nat
                 /\ taken'[e] <= lost'[e] + 1
                 /\ ~HasSent(e)' => taken'[e] <= lost'[e]
      <4>1. CASE e = d
        BY <1>0, <1>1, <2>1, <3>1, <4>1 DEF NoticesCounted, CountsMore
      <4>2. CASE e # d
        BY <1>0, <1>1, <1>5, <1>6, <2>1, <3>1, <4>2 DEF NoticesCounted, CountsMore
      <4>. QED
        BY <4>1, <4>2
    <3>. QED
      BY <3>2, <3>3 DEF NoticesCounted
  <2>2. CASE ~(~logged /\ sent /\ d \in DOMAIN taken)
    BY <1>0, <1>1, <1>5, <1>6, <2>2 DEF NoticesCounted
  <2>. QED
    BY <2>1, <2>2
<1>9. LogSound'
  <2>1. \A e \in deliveryLog' : e = <<e[1], e[2]>>
    BY <1>0, <1>1 DEF LogSound
  <2>2. \A e : HasSent(e)' /\ e[2] \in Robots => e \in DOMAIN taken' /\ taken'[e] > 0
    BY <1>0, <1>1, <1>4, <1>5 DEF LogSound
  <2>. QED
    BY <2>1, <2>2 DEF LogSound
<1>10. ChecksCoverWhatIsDue'
  <2>1. ASSUME NEW e, e \in Sent
        PROVE  e \in Sent'
    <3>1. HasSent(e)'
      BY <1>0, <1>5, <2>1, SentIsLogged
    <3>2. <<e, "sent">> \in {r \in deliveryLog' : r[2] = "sent"} /\ <<e, "sent">>[1] = e
      BY <3>1 DEF HasSent
    <3>. QED
      BY <3>2 DEF Sent, SentOf
  <2>2. logged /\ sent => d \in Sent'
    <3>1. SUFFICES ASSUME logged, sent
                   PROVE  d \in Sent'
      OBVIOUS
    <3>2. HasSent(d)'
      BY <1>5, <3>1
    <3>3. <<d, "sent">> \in {r \in deliveryLog' : r[2] = "sent"} /\ <<d, "sent">>[1] = d
      BY <3>2 DEF HasSent
    <3>. QED
      BY <3>3 DEF Sent, SentOf
  <2>3. check.owed \subseteq Sent \cup check.failed \cup check.queue
    BY <1>0 DEF CheckSound, ChecksCoverWhatIsDue
  <2>4. failed \/ (logged /\ sent)
    BY <1>1
  <2> HIDE DEF failed, sent
  <2>. QED
    BY <1>2, <1>3, <2>1, <2>2, <2>3, <2>4 DEF ChecksCoverWhatIsDue
<1>11. CheckSound'
  BY <1>2, <1>3, <1>10 DEF CheckSound
<1>. QED
  BY <1>8, <1>9, <1>11 DEF NoticeInv

LEMMA CrashKeeps ==
  ASSUME NoticeInv, Crash
  PROVE  NoticeInv'
<1>0. NoticesCounted /\ CheckSound /\ LogSound
  BY DEF NoticeInv
<1>1. /\ check' = CheckResting /\ UNCHANGED <<deliveryLog, taken>>
      /\ check.pc = "sent" /\ check.at \subseteq DOMAIN taken =>
           lost' = [d \in DOMAIN lost |-> lost[d] + IF d \in check.at THEN 1 ELSE 0]
      /\ ~(check.pc = "sent" /\ check.at \subseteq DOMAIN taken) => UNCHANGED lost
  BY DEF Crash
<1>2. /\ check'.pc = "idle" /\ check'.queue = {} /\ check'.owed = {} /\ CheckFields'
  BY <1>1 DEF CheckResting, CheckFields
<1>3. \A e : HasSent(e)' <=> HasSent(e)
  BY <1>1 DEF HasSent
<1>4. /\ DOMAIN lost' = DOMAIN taken'
      /\ \A e \in DOMAIN taken' :
           /\ lost'[e] \in Nat /\ lost'[e] >= lost[e]
           /\ Unrecorded(e) => lost'[e] = lost[e] + 1
  <2>1. CASE check.pc = "sent" /\ check.at \subseteq DOMAIN taken
    <3>1. /\ DOMAIN lost' = DOMAIN lost
          /\ \A e \in DOMAIN lost : e \in check.at => lost'[e] = lost[e] + 1
          /\ \A e \in DOMAIN lost : e \notin check.at => lost'[e] = lost[e] + 0
      BY <1>1, <2>1
    <3>. QED
      BY <1>0, <1>1, <3>1 DEF NoticesCounted, Unrecorded
  <2>2. CASE ~(check.pc = "sent" /\ check.at \subseteq DOMAIN taken)
    <3>1. UNCHANGED lost
      BY <1>1, <2>2
    <3>2. \A e \in DOMAIN taken : ~Unrecorded(e)
      BY <2>2 DEF Unrecorded
    <3>. QED
      BY <1>0, <1>1, <3>1, <3>2 DEF NoticesCounted
  <2>. QED
    BY <2>1, <2>2
<1>5. NoticesCounted'
  BY <1>0, <1>1, <1>3, <1>4 DEF NoticesCounted
<1>6. CheckSound'
  BY <1>2 DEF CheckSound, ChecksCoverWhatIsDue
<1>7. LogSound'
  BY <1>0, <1>1, <1>3 DEF LogSound
<1>. QED
  BY <1>5, <1>6, <1>7 DEF NoticeInv

LEMMA NoticeNextHolds == NoticeInv /\ [NoticeNext]_noticeVars => NoticeInv'
<1> SUFFICES ASSUME NoticeInv, [NoticeNext]_noticeVars
             PROVE  NoticeInv'
  OBVIOUS
<1>1. CASE UNCHANGED noticeVars
  <2>1. UNCHANGED <<deliveryLog, taken, lost, check>>
    BY <1>1 DEF noticeVars
  <2>. QED
    BY <2>1, SameNotices
<1>2. CASE CheckStep
  BY <1>2, QuietActions, SendKeeps, RecordKeeps DEF CheckStep
<1>3. CASE Crash
  BY <1>3, CrashKeeps
<1>4. CASE \/ TimePasses
           \/ \E u \in Owners : \E s \in Edited(settings[u]) : ChangeSettings(u, s)
           \/ \E i \in Items : ChangeItem(i)
  <2>1. UNCHANGED <<deliveryLog, taken, lost, check>>
    BY <1>4 DEF TimePasses, ChangeSettings, ChangeItem, history
  <2>. QED
    BY <2>1, SameNotices
<1>. QED
  BY <1>1, <1>2, <1>3, <1>4 DEF NoticeNext

\* Whatever fails, crashes or is changed, no notice is sent again for want of a
\* trace, nothing found due is passed over, and what the log calls sent to a
\* robot was taken.
THEOREM NoticesAreAlwaysAccounted == NoticeSpec => []NoticesAreAccounted
<1>1. NoticeInv => NoticesAreAccounted
  <2> SUFFICES ASSUME NoticeInv
               PROVE  NoticesAreAccounted
    OBVIOUS
  <2>1. NoticesAreNotRepeated
    BY DEF NoticeInv, NoticesCounted, NoticesAreNotRepeated
  <2>2. SentMeansTaken
    BY SentIsLogged DEF NoticeInv, LogSound, SentMeansTaken, Count
  <2>. QED
    BY <2>1, <2>2 DEF NoticeInv, CheckSound, NoticesAreAccounted
<1>. QED
  BY <1>1, NoticeInitHolds, NoticeNextHolds, PTL DEF NoticeSpec

-----------------------------------------------------------------------------
(***************************************************************************)
(* Credentials.  secretMu keeps the row a request has read as it is until  *)
(* the request saves it, but for the preferences a restore stores; a       *)
(* provider may change meanwhile, but what is written back was under the   *)
(* first key when it was read, and the keyring is that of the running      *)
(* server.  A start changes nothing before it commits, and what it commits *)
(* is what it prepared from the rows as they still are.                    *)
(***************************************************************************)
SettingRequest ==
  [pc : {"rest", "read", "save", "provider"}, url : Typed, secret : Typed,
   row : SecretSetting, key : Cred]

Under(cred, ring) == cred # None => cred.k = Primary(ring)

\* The migration of the running start is committed.
Ready == server \in {"migrated", "up"}

CredTypes ==
  /\ {prepared, tx} \subseteq [setting : SecretSetting, key : Cred]
  /\ setting \in SecretSetting /\ aiProvider \in [live : BOOLEAN, key : Cred]
  /\ update \in [SettingRequests -> SettingRequest]
  /\ server # "down" =>
       Primary(keyring) \in CredentialKeys /\ Primary(keyring) \in Opens(keyring)

MigratedKey ==
  IF aiProvider.live THEN Migrated(aiProvider.key, keyring) ELSE aiProvider.key

\* What a start has prepared and written so far.
StartSound ==
  /\ server \in Migrating \ {"read settings"} =>
       prepared.setting = MigratedSetting(setting, keyring)
  /\ server \in Migrating \ {"read settings", "read providers"} =>
       prepared.key = MigratedKey
  /\ server \in {"write providers", "commit"} => tx.setting = prepared.setting
  /\ server = "commit" => tx.key = prepared.key

\* What a request holds and has read.
RequestSound(q) ==
  /\ ~up => update[q].pc = "rest"
  /\ update[q].pc \in {"read", "save"} => secretMu = q
  /\ update[q].pc = "save" => /\ update[q].row.url = setting.url
                              /\ update[q].row.secret = setting.secret
  /\ update[q].pc = "provider" => Under(update[q].key, keyring)

\* CredentialsAreKept, from the commit of a start on.
Kept(isReady, ring, row, provider, typed, typedFor) ==
  /\ typed.url = Revealed(row.url) /\ typed.secret = Revealed(row.secret)
  /\ row.secret # None => typedFor = Revealed(row.url)
  /\ isReady => /\ Under(row.url, ring) /\ Under(row.secret, ring)
                /\ provider.live => Under(provider.key, ring)

\* entered is a record of the two.
EnteredIsPair == entered = [url |-> entered.url, secret |-> entered.secret]

WellKept ==
  EnteredIsPair /\ Kept(Ready, keyring, setting, aiProvider, entered, enteredFor)

CredInv ==
  /\ CredTypes /\ StartSound /\ WellKept
  /\ \A q \in SettingRequests : RequestSound(q)

-----------------------------------------------------------------------------
\* The first key of a keyring is one the operator configured.
LEMMA PrimaryIsConfigured ==
  ASSUME NEW a \in CredentialKeys \cup {None}, NEW b \in CredentialKeys,
         NEW c \in CredentialKeys \cup {None}
  PROVE  /\ Primary(Keyring(a, b, c)) \in CredentialKeys
         /\ Primary(Keyring(a, b, c)) \in Opens(Keyring(a, b, c))
<1> DEFINE candidates == <<a, b, c>>
           seen(i) == {candidates[j] : j \in 1..(i - 1)} \cup {None}
           kept == {i \in DOMAIN candidates : candidates[i] \notin seen(i)}
           upTo(i) == {j \in kept : j <= i}
           nth(n) == CHOOSE i \in kept : Cardinality(upTo(i)) = n
<1>1. /\ DOMAIN candidates = 1..3
      /\ \A i \in 1..3 : candidates[i] \in CredentialKeys \cup {None}
      /\ candidates[1] = a /\ candidates[2] = b
  OBVIOUS
<1>2. Keyring(a, b, c) = [n \in 1..Cardinality(kept) |-> candidates[nth(n)]]
  BY DEF Keyring, Distinct
<1>3. IsFiniteSet(kept) /\ kept \subseteq Nat /\ kept \subseteq 1..3
  <2>1. \A n \in Nat : IsFiniteSet(1..n)
    BY FS_Interval
  <2>. QED
    BY <1>1, <2>1, FS_Subset
<1>4. kept # {}
  <2>1. CASE a = None
    <3>1. 2 \in kept
      <4>1. seen(2) = {None}
        BY <1>1, <2>1
      <4>. QED
        BY <1>1, <4>1, CredentialAssumption
    <3>. QED
      BY <3>1
  <2>2. CASE a # None
    <3>1. 1 \in kept
      <4>1. seen(1) = {None}
        OBVIOUS
      <4>. QED
        BY <1>1, <2>2, <4>1
    <3>. QED
      BY <3>1
  <2>. QED
    BY <2>1, <2>2
<1>5. \A i \in kept : candidates[i] \in CredentialKeys
  BY <1>1
<1>6. Cardinality(kept) \in Nat /\ Cardinality(kept) # 0
  BY <1>3, <1>4, FS_CardinalityType, FS_EmptySet
<1> HIDE DEF kept, candidates
<1>7. \E i \in kept : Cardinality(upTo(i)) = 1
  <2>1. PICK m \in kept : \A k \in kept : m <= k
    BY <1>3, <1>4, LeastNumber
  <2>2. upTo(m) = {m}
    <3>1. \A j : j \in upTo(m) <=> j \in {m}
      <4>1. \A j \in kept : j <= m /\ m <= j => j = m
        BY <1>3, <2>1
      <4>2. m <= m
        BY <1>3, <2>1
      <4>. QED
        BY <2>1, <4>1, <4>2
    <3>. QED
      BY <3>1
  <2>3. Cardinality(upTo(m)) = 1
    BY <2>2, FS_Singleton
  <2>. QED
    BY <2>3
<1>8. nth(1) \in kept
  BY <1>7
<1>9. /\ Keyring(a, b, c)[1] = candidates[nth(1)]
      /\ 1 \in DOMAIN Keyring(a, b, c)
  BY <1>2, <1>6
<1>10. Keyring(a, b, c)[1] \in Opens(Keyring(a, b, c))
  BY <1>9 DEF Opens
<1>. QED
  BY <1>5, <1>8, <1>9, <1>10 DEF Primary

\* Encryption keeps the value, and puts it under the first key.
LEMMA ProtectKeeps ==
  ASSUME NEW v \in Typed, NEW ring, Primary(ring) \in CredentialKeys
  PROVE  /\ Protect(v, ring) \in Cred /\ Under(Protect(v, ring), ring)
         /\ Revealed(Protect(v, ring)) = v
         /\ Protect(v, ring) = None <=> v = None
<1>1. CASE v = None
  BY <1>1 DEF Protect, Revealed, Under, Cred
<1>2. CASE v # None
  <2> DEFINE c == [v |-> v, k |-> Primary(ring)]
  <2>1. v \in Values
    BY <1>2 DEF Typed
  <2>2. c \in [v : Values, k : CredentialKeys \cup {Plain}]
    BY <2>1
  <2>3. c # None /\ c.v = v /\ c.k = Primary(ring)
    BY <2>2, CredentialAssumption
  <2>4. Protect(v, ring) = c
    BY <1>2 DEF Protect
  <2> HIDE DEF c
  <2>. QED
    BY <1>2, <2>2, <2>3, <2>4 DEF Revealed, Under, Cred
<1>. QED
  BY <1>1, <1>2

LEMMA RevealedIsTyped ==
  ASSUME NEW c \in Cred
  PROVE  Revealed(c) \in Typed /\ (Revealed(c) = None <=> c = None)
BY CredentialAssumption DEF Cred, Revealed, Typed

LEMMA MigratedKeeps ==
  ASSUME NEW c \in Cred, NEW ring, Primary(ring) \in CredentialKeys
  PROVE  /\ Migrated(c, ring) \in Cred /\ Under(Migrated(c, ring), ring)
         /\ Revealed(Migrated(c, ring)) = Revealed(c)
         /\ Migrated(c, ring) = None <=> c = None
BY RevealedIsTyped, ProtectKeeps DEF Migrated

LEMMA MigratedSettingKeeps ==
  ASSUME NEW row \in SecretSetting, NEW ring, Primary(ring) \in CredentialKeys
  PROVE  /\ MigratedSetting(row, ring) \in SecretSetting
         /\ MigratedSetting(row, ring).url = Migrated(row.url, ring)
         /\ MigratedSetting(row, ring).secret = Migrated(row.secret, ring)
<1>1. row.url \in Cred /\ row.secret \in Cred /\ row.exists \in BOOLEAN
  BY DEF SecretSetting
<1>2. Migrated(row.url, ring) \in Cred /\ Migrated(row.secret, ring) \in Cred
  BY <1>1, MigratedKeeps
<1>. QED
  BY <1>2 DEF MigratedSetting, SecretSetting

LEMMA UnpreparedIsTyped ==
  {Unprepared} \subseteq [setting : SecretSetting, key : Cred]
BY DEF Unprepared, NoSetting, SecretSetting, Cred

LEMMA AtRestIsRequest == AtRest \in SettingRequest /\ AtRest.pc = "rest"
BY DEF AtRest, SettingRequest, Typed, NoSetting, SecretSetting, Cred

-----------------------------------------------------------------------------
LEMMA TheRow ==
  ASSUME CredTypes
  PROVE  /\ setting.url \in Cred /\ setting.secret \in Cred
         /\ setting.exists \in BOOLEAN
         /\ aiProvider.live \in BOOLEAN /\ aiProvider.key \in Cred
         /\ \A q \in SettingRequests :
              /\ update[q] \in SettingRequest
              /\ update[q].url \in Typed /\ update[q].secret \in Typed
              /\ update[q].row \in SecretSetting /\ update[q].key \in Cred
              /\ update[q].row.url \in Cred /\ update[q].row.secret \in Cred
BY DEF CredTypes, SecretSetting, SettingRequest

LEMMA CredInitHolds == CredentialInit => CredInv
<1> SUFFICES ASSUME CredentialInit
             PROVE  CredInv
  OBVIOUS
<1> DEFINE legacy(v) == IF v = None THEN None ELSE [v |-> v, k |-> Plain]
<1>1. \A v \in Typed : legacy(v) \in Cred /\ Revealed(legacy(v)) = v
  <2> SUFFICES ASSUME NEW v \in Typed
               PROVE  legacy(v) \in Cred /\ Revealed(legacy(v)) = v
    OBVIOUS
  <2>1. CASE v = None
    BY <2>1 DEF Cred, Revealed
  <2>2. CASE v # None
    <3> DEFINE c == [v |-> v, k |-> Plain]
    <3>1. c \in [v : Values, k : CredentialKeys \cup {Plain}] /\ c.v = v
      BY <2>2 DEF Typed
    <3>2. c # None
      BY <3>1, CredentialAssumption
    <3>3. legacy(v) = c
      BY <2>2
    <3> HIDE DEF c, legacy
    <3>. QED
      BY <3>1, <3>2, <3>3 DEF Cred, Revealed
  <2>. QED
    BY <2>1, <2>2
<1>2. PICK url \in Typed, secret \in Typed, key \in Typed :
        /\ setting = [exists |-> url # None \/ secret # None,
                      url |-> legacy(url), secret |-> legacy(secret)]
        /\ \E k \in CredentialKeys \cup {Plain} :
             /\ aiProvider = [live |-> TRUE,
                  key |-> IF key = None THEN None ELSE [v |-> key, k |-> k]]
             /\ openedBy = {k, Plain}
        /\ entered = [url |-> url, secret |-> secret] /\ enteredFor = url
  BY DEF CredentialInit
<1>3. /\ server = "down" /\ prepared = Unprepared /\ tx = Unprepared
      /\ update = [q \in SettingRequests |-> AtRest]
  BY DEF CredentialInit
<1> HIDE DEF legacy
<1>4. setting \in SecretSetting
  BY <1>1, <1>2 DEF SecretSetting
<1>5. aiProvider \in [live : BOOLEAN, key : Cred]
  BY <1>2 DEF Cred, Typed
<1>6. CredTypes /\ StartSound
  BY <1>3, <1>4, <1>5, AtRestIsRequest, UnpreparedIsTyped
  DEF CredTypes, StartSound, Migrating
<1>7. \A q \in SettingRequests : RequestSound(q)
  BY <1>3, AtRestIsRequest DEF RequestSound
<1>8. WellKept
  BY <1>1, <1>2, <1>3 DEF WellKept, EnteredIsPair, Kept, Ready
<1>. QED
  BY <1>6, <1>7, <1>8 DEF CredInv

\* The steps that leave the credentials, what was typed and the keyring alone
\* keep them.
SameCredentials ==
  /\ UNCHANGED <<aiProvider, entered, enteredFor>>
  /\ setting'.url = setting.url /\ setting'.secret = setting.secret

LEMMA SameKept ==
  ASSUME SameCredentials, WellKept, Ready' => Ready /\ UNCHANGED keyring
  PROVE  WellKept'
BY DEF WellKept, EnteredIsPair, Kept, SameCredentials, Under

\* The steps of a server that is up leave the start behind them alone.
LEMMA ServingStep ==
  ASSUME up, UNCHANGED startVars
  PROVE  /\ StartSound' /\ up' /\ Ready /\ Ready' /\ server # "down"
         /\ UNCHANGED <<server, keyring, prepared, tx, openedBy>>
BY DEF up, startVars, StartSound, Migrating, Ready

\* What a request is doing after a step that moves only q's.
LEMMA MovedRequest ==
  ASSUME CredTypes, NEW q \in SettingRequests, NEW u \in SettingRequest,
         update' = [update EXCEPT ![q] = u]
  PROVE  /\ update' \in [SettingRequests -> SettingRequest]
         /\ update'[q] = u
         /\ \A p \in SettingRequests \ {q} : update'[p] = update[p]
BY DEF CredTypes

\* The steps of a start before its commit leave the rows and requests alone.
LEMMA StartingKeeps ==
  ASSUME CredInv, ~up, ~Ready', CredTypes', StartSound',
         UNCHANGED <<rowVars, update>>
  PROVE  CredInv'
<1>1. SameCredentials
  BY DEF rowVars, SameCredentials
<1>2. WellKept'
  BY <1>1, SameKept DEF CredInv
<1>3. ~up'
  BY DEF up, Ready
<1>4. \A q \in SettingRequests : RequestSound(q)'
  BY <1>3 DEF CredInv, RequestSound
<1>. QED
  BY <1>2, <1>4 DEF CredInv

LEMMA StartKeeps ==
  ASSUME CredInv, NEW a \in CredentialKeys \cup {None}, NEW b \in CredentialKeys,
         NEW c \in CredentialKeys \cup {None}, Start(a, b, c)
  PROVE  CredInv'
<1>1. /\ server = "down" /\ server' = "read settings"
      /\ keyring' = Keyring(a, b, c)
      /\ UNCHANGED <<prepared, tx, rowVars, update, setting, aiProvider>>
  BY DEF Start, rowVars
<1>2. Primary(keyring') \in CredentialKeys /\ Primary(keyring') \in Opens(keyring')
  BY <1>1, PrimaryIsConfigured
<1>3. CredTypes'
  BY <1>1, <1>2 DEF CredInv, CredTypes
<1>4. ~up /\ ~Ready' /\ StartSound'
  BY <1>1 DEF up, Ready, StartSound, Migrating
<1>. QED
  BY <1>1, <1>3, <1>4, StartingKeeps

LEMMA DownKeeps ==
  ASSUME CredInv, Down, UNCHANGED <<keyring, rowVars>>,
         \/ ~up /\ UNCHANGED update
         \/ /\ update' \in [SettingRequests -> SettingRequest]
            /\ \A q \in SettingRequests : update'[q].pc = "rest"
  PROVE  CredInv'
<1>1. /\ server' = "down" /\ prepared' = Unprepared /\ tx' = Unprepared
      /\ UNCHANGED <<setting, aiProvider>>
  BY DEF Down, rowVars
<1>2. SameCredentials /\ ~Ready' /\ ~up'
  BY <1>1 DEF SameCredentials, rowVars, Ready, up
<1>3. WellKept'
  BY <1>2, SameKept DEF CredInv
<1>4. /\ update' \in [SettingRequests -> SettingRequest]
      /\ \A q \in SettingRequests : update'[q].pc = "rest"
  BY DEF CredInv, CredTypes, RequestSound
<1>5. CredTypes' /\ StartSound'
  BY <1>1, <1>4, UnpreparedIsTyped DEF CredInv, CredTypes, StartSound, Migrating
<1>6. \A q \in SettingRequests : RequestSound(q)'
  BY <1>2, <1>4 DEF RequestSound
<1>. QED
  BY <1>3, <1>5, <1>6 DEF CredInv

LEMMA PrepareSettingsKeeps == ASSUME CredInv, PrepareSettings PROVE CredInv'
<1>1. /\ server = "read settings"
      /\ UNCHANGED <<keyring, rowVars, update, setting, aiProvider>>
  BY DEF PrepareSettings, rowVars
<1>2. Primary(keyring) \in CredentialKeys
  BY <1>1 DEF CredInv, CredTypes
<1>3. MigratedSetting(setting, keyring) \in SecretSetting
  BY <1>2, MigratedSettingKeeps DEF CredInv, CredTypes
<1>4. CASE ReadableSetting(setting, keyring)
  <2>1. /\ server' = "read providers" /\ UNCHANGED tx
        /\ prepared' = [prepared EXCEPT !.setting = MigratedSetting(setting, keyring)]
    BY <1>4 DEF PrepareSettings
  <2>2. /\ prepared' \in [setting : SecretSetting, key : Cred]
        /\ prepared'.setting = MigratedSetting(setting, keyring)
    BY <1>3, <2>1 DEF CredInv, CredTypes
  <2>3. CredTypes'
    BY <1>1, <2>1, <2>2 DEF CredInv, CredTypes
  <2>4. ~up /\ ~Ready' /\ StartSound'
    BY <1>1, <2>1, <2>2 DEF up, Ready, StartSound, Migrating
  <2>. QED
    BY <1>1, <2>3, <2>4, StartingKeeps
<1>5. CASE ~ReadableSetting(setting, keyring)
  <2>1. Down
    BY <1>5 DEF PrepareSettings
  <2>. QED
    BY <1>1, <2>1, DownKeeps DEF up
<1>. QED
  BY <1>4, <1>5

LEMMA PrepareProvidersKeeps == ASSUME CredInv, PrepareProviders PROVE CredInv'
<1>1. /\ server = "read providers"
      /\ UNCHANGED <<keyring, rowVars, update, setting, aiProvider>>
  BY DEF PrepareProviders, rowVars
<1>2. Primary(keyring) \in CredentialKeys
  BY <1>1 DEF CredInv, CredTypes
<1>3. MigratedKey \in Cred /\ aiProvider.key \in Cred
  BY <1>2, TheRow, MigratedKeeps DEF CredInv, MigratedKey
<1>4. CASE aiProvider.live => Readable(aiProvider.key, keyring)
  <2>1. /\ server' = "write settings"
        /\ prepared' = [prepared EXCEPT !.key = MigratedKey]
        /\ tx' = [setting |-> setting, key |-> aiProvider.key]
    BY <1>4 DEF PrepareProviders, MigratedKey
  <2>2. /\ prepared' \in [setting : SecretSetting, key : Cred]
        /\ prepared'.setting = prepared.setting /\ prepared'.key = MigratedKey
    BY <1>3, <2>1 DEF CredInv, CredTypes
  <2>3. tx' \in [setting : SecretSetting, key : Cred]
    BY <1>3, <2>1 DEF CredInv, CredTypes
  <2>4. CredTypes'
    BY <1>1, <2>1, <2>2, <2>3 DEF CredInv, CredTypes
  <2>5. MigratedKey' = MigratedKey
    BY <1>1 DEF MigratedKey
  <2>6. prepared.setting = MigratedSetting(setting, keyring)
    BY <1>1 DEF CredInv, StartSound, Migrating
  <2>7. ~up /\ ~Ready' /\ StartSound'
    BY <1>1, <2>1, <2>2, <2>5, <2>6 DEF up, Ready, StartSound, Migrating
  <2>. QED
    BY <1>1, <2>4, <2>7, StartingKeeps
<1>5. CASE ~(aiProvider.live => Readable(aiProvider.key, keyring))
  <2>1. Down
    BY <1>5 DEF PrepareProviders
  <2>. QED
    BY <1>1, <2>1, DownKeeps DEF up
<1>. QED
  BY <1>4, <1>5

LEMMA WritesKeep ==
  ASSUME CredInv, WriteSettings \/ WriteProviders
  PROVE  CredInv'
<1>1. UNCHANGED <<keyring, prepared, rowVars, update, setting, aiProvider>>
  BY DEF WriteSettings, WriteProviders, rowVars
<1>2. MigratedKey' = MigratedKey
  BY <1>1 DEF MigratedKey
<1>3. /\ prepared \in [setting : SecretSetting, key : Cred]
      /\ tx \in [setting : SecretSetting, key : Cred]
  BY DEF CredInv, CredTypes
<1>4. CASE WriteSettings
  <2>1. /\ server = "write settings" /\ server' = "write providers"
        /\ tx' = [tx EXCEPT !.setting = prepared.setting]
    BY <1>4 DEF WriteSettings
  <2>2. tx' \in [setting : SecretSetting, key : Cred] /\ tx'.setting = prepared.setting
    BY <1>3, <2>1
  <2>3. CredTypes'
    BY <1>1, <2>1, <2>2 DEF CredInv, CredTypes
  <2>4. ~up /\ ~Ready' /\ StartSound'
    BY <1>1, <1>2, <2>1, <2>2 DEF CredInv, up, Ready, StartSound, Migrating
  <2>. QED
    BY <1>1, <2>3, <2>4, StartingKeeps
<1>5. CASE WriteProviders
  <2>1. /\ server = "write providers" /\ server' = "commit"
        /\ tx' = [tx EXCEPT !.key = prepared.key]
    BY <1>5 DEF WriteProviders
  <2>2. /\ tx' \in [setting : SecretSetting, key : Cred]
        /\ tx'.key = prepared.key /\ tx'.setting = tx.setting
    BY <1>3, <2>1
  <2>3. CredTypes'
    BY <1>1, <2>1, <2>2 DEF CredInv, CredTypes
  <2>4. ~up /\ ~Ready' /\ StartSound'
    BY <1>1, <1>2, <2>1, <2>2 DEF CredInv, up, Ready, StartSound, Migrating
  <2>. QED
    BY <1>1, <2>3, <2>4, StartingKeeps
<1>. QED
  BY <1>4, <1>5

LEMMA CommitKeeps == ASSUME CredInv, CommitMigration PROVE CredInv'
<1>1. /\ server = "commit" /\ server' = "migrated"
      /\ setting' = tx.setting
      /\ aiProvider' = [aiProvider EXCEPT !.key = tx.key]
      /\ prepared' = Unprepared /\ tx' = Unprepared
      /\ UNCHANGED <<keyring, entered, enteredFor, update>>
  BY DEF CommitMigration
<1>2. CredTypes /\ WellKept /\ Primary(keyring) \in CredentialKeys
  BY <1>1 DEF CredInv, CredTypes
<1>3. tx.setting = MigratedSetting(setting, keyring) /\ tx.key = MigratedKey
  BY <1>1 DEF CredInv, StartSound, Migrating
<1>4. /\ setting' \in SecretSetting
      /\ setting'.url = Migrated(setting.url, keyring)
      /\ setting'.secret = Migrated(setting.secret, keyring)
  BY <1>1, <1>2, <1>3, MigratedSettingKeeps DEF CredTypes
<1>5. /\ Under(setting'.url, keyring) /\ Under(setting'.secret, keyring)
      /\ Revealed(setting'.url) = Revealed(setting.url)
      /\ Revealed(setting'.secret) = Revealed(setting.secret)
      /\ setting'.secret = None <=> setting.secret = None
  BY <1>2, <1>4, TheRow, MigratedKeeps
<1>6. Migrated(aiProvider.key, keyring) \in Cred /\ Under(Migrated(aiProvider.key, keyring), keyring)
  BY <1>2, TheRow, MigratedKeeps
<1>7. /\ aiProvider' \in [live : BOOLEAN, key : Cred]
      /\ aiProvider'.live => Under(aiProvider'.key, keyring)
  BY <1>1, <1>2, <1>3, <1>6 DEF CredTypes, MigratedKey
<1>8. CredTypes'
  BY <1>1, <1>2, <1>4, <1>7, UnpreparedIsTyped DEF CredTypes
<1>9. WellKept'
  BY <1>1, <1>2, <1>4, <1>5, <1>7 DEF WellKept, EnteredIsPair, Kept
<1>10. StartSound'
  BY <1>1 DEF StartSound, Migrating
<1>11. \A q \in SettingRequests : RequestSound(q)'
  <2>1. ~up /\ ~up'
    BY <1>1 DEF up
  <2>. QED
    BY <1>1, <2>1 DEF CredInv, RequestSound
<1>. QED
  BY <1>8, <1>9, <1>10, <1>11 DEF CredInv

LEMMA ListenKeeps == ASSUME CredInv, Listen PROVE CredInv'
<1>1. /\ server = "migrated" /\ server' = "up"
      /\ UNCHANGED <<keyring, prepared, tx, rowVars, update, setting, aiProvider>>
  BY DEF Listen, rowVars
<1>2. SameCredentials /\ Ready /\ ~up
  BY <1>1 DEF SameCredentials, rowVars, Ready, up
<1>3. WellKept'
  BY <1>1, <1>2, SameKept DEF CredInv
<1>4. CredTypes' /\ StartSound'
  BY <1>1 DEF CredInv, CredTypes, StartSound, Migrating
<1>5. \A q \in SettingRequests : RequestSound(q)'
  BY <1>1, <1>2 DEF CredInv, RequestSound
<1>. QED
  BY <1>3, <1>4, <1>5 DEF CredInv

LEMMA StopKeeps ==
  ASSUME CredInv, Stop
  PROVE  CredInv'
<1>1. /\ Down /\ UNCHANGED <<keyring, rowVars>>
      /\ update' = [q \in SettingRequests |-> AtRest]
  BY DEF Stop
<1>2. /\ update' \in [SettingRequests -> SettingRequest]
      /\ \A q \in SettingRequests : update'[q].pc = "rest"
  BY <1>1, AtRestIsRequest
<1>. QED
  BY <1>1, <1>2, DownKeeps

LEMMA RestorePreferencesKeeps ==
  ASSUME CredInv, RestorePreferences
  PROVE  CredInv'
<1>1. SameCredentials /\ setting' \in SecretSetting /\ UNCHANGED <<secretMu, update>>
  BY DEF RestorePreferences, SameCredentials, CredInv, CredTypes, SecretSetting
<1>up. /\ StartSound' /\ up /\ up' /\ Ready /\ server # "down"
      /\ UNCHANGED <<server, keyring, prepared, tx>>
  BY ServingStep DEF RestorePreferences
<1>2. WellKept'
  BY <1>1, <1>up, SameKept DEF CredInv
<1>3. CredTypes'
  BY <1>1, <1>up DEF CredInv, CredTypes, SameCredentials
<1>4. ASSUME NEW q \in SettingRequests
      PROVE  RequestSound(q)'
  BY <1>1, <1>up DEF CredInv, RequestSound, SameCredentials
<1>. QED
  BY <1>up, <1>2, <1>3, <1>4 DEF CredInv

LEMMA AskUpdateKeeps ==
  ASSUME CredInv, NEW q \in SettingRequests, NEW url \in Typed,
         NEW secret \in Typed, AskUpdate(q, url, secret)
  PROVE  CredInv'
<1> DEFINE u == [AtRest EXCEPT !.pc = "read", !.url = url, !.secret = secret]
<1>1. SameCredentials /\ up /\ secretMu = NoHolder /\ secretMu' = q
      /\ UNCHANGED setting
      /\ update' = [update EXCEPT ![q] = u]
  BY DEF AskUpdate, SameCredentials, rowVars
<1>up. /\ StartSound' /\ up /\ up' /\ Ready /\ server # "down"
      /\ UNCHANGED <<server, keyring, prepared, tx>>
  BY ServingStep DEF AskUpdate
<1>2. u \in SettingRequest /\ u.pc = "read"
  BY AtRestIsRequest DEF SettingRequest
<1> HIDE DEF u
<1>3. /\ update' \in [SettingRequests -> SettingRequest]
      /\ update'[q] = u
      /\ \A p \in SettingRequests \ {q} : update'[p] = update[p]
  BY <1>1, <1>2, MovedRequest DEF CredInv
<1>4. WellKept'
  BY <1>1, <1>up, SameKept DEF CredInv
<1>5. CredTypes'
  BY <1>1, <1>3, <1>up DEF CredInv, CredTypes, SameCredentials
<1>6. ASSUME NEW p \in SettingRequests
      PROVE  RequestSound(p)'
  <2>1. CASE p = q
    BY <1>1, <1>up, <1>2, <1>3, <2>1 DEF RequestSound
  <2>2. CASE p # q
    <3>1. secretMu # p
      BY <1>1, CredentialAssumption DEF NoHolder
    <3>. QED
      BY <1>1, <1>up, <1>3, <2>2, <3>1 DEF CredInv, RequestSound, SameCredentials
  <2>. QED
    BY <2>1, <2>2
<1>. QED
  BY <1>up, <1>4, <1>5, <1>6 DEF CredInv

LEMMA ReadProviderKeeps ==
  ASSUME CredInv, NEW q \in SettingRequests, NEW key \in Typed,
         ReadProvider(q, key)
  PROVE  CredInv'
<1> DEFINE read == IF key = None THEN aiProvider.key ELSE Protect(key, keyring)
           u == [AtRest EXCEPT !.pc = "provider", !.key = read]
<1>1. SameCredentials /\ up /\ aiProvider.live
      /\ UNCHANGED <<setting, secretMu>>
      /\ update' = [update EXCEPT ![q] = u]
  BY DEF ReadProvider, SameCredentials, rowVars
<1>up. /\ StartSound' /\ up /\ up' /\ Ready /\ server # "down"
      /\ UNCHANGED <<server, keyring, prepared, tx>>
  BY ServingStep DEF ReadProvider
<1>2. read \in Cred /\ Under(read, keyring)
  <2>1. Primary(keyring) \in CredentialKeys /\ CredTypes
    BY <1>up DEF CredInv, CredTypes
  <2>2. CASE key = None
    <3>1. aiProvider.key \in Cred /\ Under(aiProvider.key, keyring)
      BY <1>1, <1>up, <2>1, TheRow DEF CredInv, WellKept, Kept, Ready
    <3>. QED
      BY <2>2, <3>1
  <2>3. CASE key # None
    <3>1. Protect(key, keyring) \in Cred /\ Under(Protect(key, keyring), keyring)
      BY <2>1, ProtectKeeps
    <3>. QED
      BY <2>3, <3>1
  <2>. QED
    BY <2>2, <2>3
<1> HIDE DEF read
<1>3. u \in SettingRequest /\ u.pc = "provider" /\ u.key = read
  BY <1>2, AtRestIsRequest DEF SettingRequest
<1> HIDE DEF u
<1>4. /\ update' \in [SettingRequests -> SettingRequest]
      /\ update'[q] = u
      /\ \A p \in SettingRequests \ {q} : update'[p] = update[p]
  BY <1>1, <1>3, MovedRequest DEF CredInv
<1>5. WellKept'
  BY <1>1, <1>up, SameKept DEF CredInv
<1>6. CredTypes'
  BY <1>1, <1>4, <1>up DEF CredInv, CredTypes, SameCredentials
<1>7. ASSUME NEW p \in SettingRequests
      PROVE  RequestSound(p)'
  <2>1. CASE p = q
    BY <1>1, <1>up, <1>2, <1>3, <1>4, <2>1 DEF RequestSound
  <2>2. CASE p # q
    BY <1>1, <1>up, <1>4, <2>2 DEF CredInv, RequestSound, SameCredentials
  <2>. QED
    BY <2>1, <2>2
<1>. QED
  BY <1>up, <1>5, <1>6, <1>7 DEF CredInv

LEMMA ReadSettingKeeps ==
  ASSUME CredInv, NEW q \in SettingRequests, ReadSetting(q)
  PROVE  CredInv'
<1> DEFINE row == setting'
           u == [update[q] EXCEPT !.pc = "save", !.row = row]
<1>0. /\ CredTypes /\ RequestSound(q) /\ EnteredIsPair
      /\ Kept(Ready, keyring, setting, aiProvider, entered, enteredFor)
  BY DEF CredInv, WellKept
<1>1. /\ update[q].pc = "read"
      /\ UNCHANGED <<startVars, aiProvider, entered, enteredFor>>
  BY DEF ReadSetting
<1>up. /\ StartSound' /\ up /\ up' /\ Ready /\ Ready' /\ server # "down"
      /\ UNCHANGED <<server, keyring, prepared, tx>>
  BY <1>0, <1>1, ServingStep DEF RequestSound
<1>2. up /\ Primary(keyring) \in CredentialKeys /\ secretMu = q
  BY <1>0, <1>1, <1>up DEF RequestSound, CredTypes
<1>3. \/ /\ setting' = MigratedSetting(setting, keyring)
         /\ update' = [update EXCEPT ![q] = u] /\ UNCHANGED secretMu
      \/ UNCHANGED setting /\ update' = [update EXCEPT ![q] = AtRest]
  <2>1. CASE ReadableSetting(setting, keyring)
    <3>1. /\ setting' = MigratedSetting(setting, keyring) /\ UNCHANGED secretMu
          /\ update' = [update EXCEPT ![q].pc = "save", ![q].row = setting']
      BY <2>1 DEF ReadSetting
    <3>. QED
      BY <1>0, <3>1 DEF CredTypes
  <2>2. CASE ~ReadableSetting(setting, keyring)
    BY <2>2 DEF ReadSetting
  <2>. QED
    BY <2>1, <2>2
<1>4. /\ setting' \in SecretSetting
      /\ Kept(Ready', keyring', setting', aiProvider', entered', enteredFor')
  <2>1. CASE UNCHANGED setting
    BY <1>0, <1>1, <1>up, <2>1 DEF Kept, CredTypes
  <2>2. CASE setting' = MigratedSetting(setting, keyring)
    <3>1. /\ setting' \in SecretSetting
          /\ setting'.url = Migrated(setting.url, keyring)
          /\ setting'.secret = Migrated(setting.secret, keyring)
      BY <1>0, <1>2, <2>2, MigratedSettingKeeps DEF CredTypes
    <3>2. /\ Under(setting'.url, keyring) /\ Under(setting'.secret, keyring)
          /\ Revealed(setting'.url) = Revealed(setting.url)
          /\ Revealed(setting'.secret) = Revealed(setting.secret)
          /\ setting'.secret = None <=> setting.secret = None
      BY <1>0, <1>2, <3>1, TheRow, MigratedKeeps
    <3>. QED
      BY <1>0, <1>1, <1>up, <3>1, <3>2 DEF Kept, Ready
  <2>. QED
    BY <1>3, <2>1, <2>2
<1>5. WellKept'
  <2>1. EnteredIsPair'
    BY <1>0, <1>1 DEF EnteredIsPair
  <2>. QED
    BY <1>4, <2>1 DEF WellKept
<1>6. u \in SettingRequest /\ u.pc = "save" /\ u.row = row
  BY <1>0, <1>4 DEF CredTypes, SettingRequest
<1>7. PICK next \in {u, AtRest} :
        /\ update' = [update EXCEPT ![q] = next]
        /\ next = u => UNCHANGED secretMu
  BY <1>3, <1>6, AtRestIsRequest
<1> HIDE DEF u, row
<1>8. next \in SettingRequest
  BY <1>6, AtRestIsRequest
<1>9. /\ update' \in [SettingRequests -> SettingRequest]
      /\ update'[q] = next
      /\ \A p \in SettingRequests \ {q} : update'[p] = update[p]
  BY <1>0, <1>7, <1>8, MovedRequest
<1>10. CredTypes'
  BY <1>0, <1>1, <1>up, <1>4, <1>9 DEF CredTypes
<1>11. ASSUME NEW p \in SettingRequests
       PROVE  RequestSound(p)'
  <2>1. CASE p = q /\ next = AtRest
    BY <1>up, <1>1, <1>2, <1>9, <2>1, AtRestIsRequest DEF RequestSound
  <2>2. CASE p = q /\ next = u
    BY <1>up, <1>1, <1>2, <1>6, <1>7, <1>9, <2>2 DEF RequestSound, row
  <2>3. CASE p # q
    <3>1. update[p].pc \notin {"read", "save"}
      BY <1>2, <2>3 DEF CredInv, RequestSound
    <3>. QED
      BY <1>up, <1>1, <1>2, <1>9, <2>3, <3>1 DEF CredInv, RequestSound
  <2>. QED
    BY <1>7, <2>1, <2>2, <2>3
<1>. QED
  BY <1>up, <1>5, <1>10, <1>11 DEF CredInv

LEMMA SaveSettingKeeps ==
  ASSUME CredInv, NEW q \in SettingRequests, SaveSetting(q)
  PROVE  CredInv'
<1> DEFINE u == update[q]
           url == IF u.url # None THEN u.url ELSE entered.url
           sameUrl == u.url \in {None, entered.url} /\ entered.url # None
<1>0. /\ CredTypes /\ RequestSound(q) /\ EnteredIsPair
      /\ Kept(Ready, keyring, setting, aiProvider, entered, enteredFor)
  BY DEF CredInv, WellKept
<1>1. /\ u.pc = "save" /\ setting' = SavedSetting(u)
      /\ update' = [update EXCEPT ![q] = AtRest] /\ secretMu' = NoHolder
      /\ UNCHANGED <<startVars, aiProvider>>
  BY DEF SaveSetting
<1>up. /\ StartSound' /\ up /\ up' /\ Ready /\ Ready' /\ server # "down"
      /\ UNCHANGED <<server, keyring, prepared, tx>>
  BY <1>0, <1>1, ServingStep DEF RequestSound
<1>2. /\ entered' = [url |-> url,
                     secret |-> IF u.secret # None THEN u.secret
                                ELSE IF sameUrl THEN entered.secret ELSE None]
      /\ enteredFor' = IF u.secret # None THEN url ELSE enteredFor
  BY DEF SaveSetting
<1>3. /\ up /\ Primary(keyring) \in CredentialKeys /\ secretMu = q
      /\ u.row.url = setting.url /\ u.row.secret = setting.secret
  BY <1>0, <1>1, <1>up DEF RequestSound, CredTypes
<1>4. /\ u \in SettingRequest /\ u.url \in Typed /\ u.secret \in Typed
      /\ setting.url \in Cred /\ setting.secret \in Cred
  BY <1>0, TheRow
<1>5. /\ Revealed(setting.url) = entered.url
      /\ Revealed(setting.secret) = entered.secret
      /\ setting.secret # None => enteredFor = entered.url
      /\ Under(setting.url, keyring) /\ Under(setting.secret, keyring)
      /\ entered.url = None <=> setting.url = None
      /\ setting.url # None => setting.url.v = entered.url
  <2>1. Revealed(setting.url) = None <=> setting.url = None
    BY <1>4, RevealedIsTyped
  <2>2. setting.url # None => setting.url.v = Revealed(setting.url)
    BY DEF Revealed
  <2>. QED
    BY <1>0, <1>3, <1>up, <2>1, <2>2 DEF Kept, Ready
<1>6. /\ setting'.exists = TRUE
      /\ u.url # None => setting'.url = Protect(u.url, keyring)
      /\ u.url = None => setting'.url = setting.url
      /\ u.secret # None => setting'.secret = Protect(u.secret, keyring)
      /\ u.secret = None => setting'.secret = KeptSecret(u)
      /\ setting' = [exists |-> TRUE, url |-> setting'.url,
                     secret |-> setting'.secret]
  BY <1>1, <1>3 DEF SavedSetting
<1>7. /\ sameUrl => KeptSecret(u) = setting.secret
      /\ ~sameUrl => KeptSecret(u) = None
  BY <1>3, <1>5 DEF KeptSecret
<1>8. /\ Protect(u.url, keyring) \in Cred
      /\ Under(Protect(u.url, keyring), keyring)
      /\ Revealed(Protect(u.url, keyring)) = u.url
      /\ Protect(u.secret, keyring) \in Cred
      /\ Under(Protect(u.secret, keyring), keyring)
      /\ Revealed(Protect(u.secret, keyring)) = u.secret
  BY <1>3, <1>4, ProtectKeeps
<1>9. None \in Cred /\ Under(None, keyring) /\ Revealed(None) = None
  BY DEF Cred, Under, Revealed
<1> HIDE DEF u
<1>10. /\ setting'.url \in Cred /\ Under(setting'.url, keyring)
       /\ Revealed(setting'.url) = url
  BY <1>4, <1>5, <1>6, <1>8
<1>11. /\ setting'.secret \in Cred /\ Under(setting'.secret, keyring)
       /\ Revealed(setting'.secret) = entered'.secret
       /\ setting'.secret # None => enteredFor' = url
  <2>1. CASE u.secret # None
    BY <1>2, <1>6, <1>8, <2>1
  <2>2. CASE u.secret = None /\ sameUrl
    <3>1. setting'.secret = setting.secret /\ enteredFor' = enteredFor
          /\ entered'.secret = entered.secret /\ url = entered.url
      BY <1>2, <1>6, <1>7, <2>2
    <3>. QED
      BY <1>4, <1>5, <3>1
  <2>3. CASE u.secret = None /\ ~sameUrl
    BY <1>2, <1>6, <1>7, <1>9, <2>3
  <2>. QED
    BY <2>1, <2>2, <2>3
<1>12. setting' \in SecretSetting
  BY <1>6, <1>10, <1>11 DEF SecretSetting
<1>13. entered'.url = url /\ EnteredIsPair'
  BY <1>2 DEF EnteredIsPair
<1>14. WellKept'
  <2>1. Kept(Ready', keyring', setting', aiProvider', entered', enteredFor')
    BY <1>0, <1>1, <1>up, <1>10, <1>11, <1>13 DEF Kept, Ready
  <2>. QED
    BY <1>13, <2>1 DEF WellKept
<1>15. /\ update' \in [SettingRequests -> SettingRequest]
       /\ update'[q] = AtRest
       /\ \A p \in SettingRequests \ {q} : update'[p] = update[p]
  BY <1>0, <1>1, AtRestIsRequest, MovedRequest
<1>16. CredTypes'
  BY <1>0, <1>1, <1>up, <1>12, <1>15 DEF CredTypes
<1>17. ASSUME NEW p \in SettingRequests
       PROVE  RequestSound(p)'
  <2>1. CASE p = q
    BY <1>1, <1>up, <1>3, <1>15, <2>1, AtRestIsRequest DEF RequestSound
  <2>2. CASE p # q
    <3>1. update[p].pc \notin {"read", "save"}
      BY <1>3, <2>2 DEF CredInv, RequestSound
    <3>. QED
      BY <1>1, <1>up, <1>3, <1>15, <2>2, <3>1 DEF CredInv, RequestSound
  <2>. QED
    BY <2>1, <2>2
<1>. QED
  BY <1>up, <1>14, <1>16, <1>17 DEF CredInv

\* A step that leaves the setting and what was typed alone, and keeps the
\* provider under the first key.
LEMMA ProviderKept ==
  ASSUME WellKept, Ready, Ready', UNCHANGED <<keyring, setting, entered, enteredFor>>,
         aiProvider'.live => Under(aiProvider'.key, keyring)
  PROVE  WellKept'
BY DEF WellKept, EnteredIsPair, Kept

LEMMA SaveProviderKeeps ==
  ASSUME CredInv, NEW q \in SettingRequests, SaveProvider(q)
  PROVE  CredInv'
<1>1. /\ update[q].pc = "provider"
      /\ aiProvider' = [live |-> TRUE, key |-> update[q].key]
      /\ update' = [update EXCEPT ![q] = AtRest]
      /\ UNCHANGED <<startVars, setting, secretMu, entered, enteredFor>>
  BY DEF SaveProvider
<1>2. up /\ Under(update[q].key, keyring) /\ update[q].key \in Cred
  BY <1>1, TheRow DEF CredInv, RequestSound, CredTypes
<1>up. /\ StartSound' /\ up' /\ Ready /\ Ready' /\ server # "down"
      /\ UNCHANGED <<server, keyring, prepared, tx>>
  BY <1>1, <1>2, ServingStep
<1>3. WellKept'
  <2>1. aiProvider'.key = update[q].key
    BY <1>1
  <2>. QED
    BY <1>1, <1>2, <1>up, <2>1, ProviderKept DEF CredInv
<1>4. /\ update' \in [SettingRequests -> SettingRequest]
      /\ update'[q] = AtRest
      /\ \A p \in SettingRequests \ {q} : update'[p] = update[p]
  BY <1>1, AtRestIsRequest, MovedRequest DEF CredInv
<1>5. CredTypes'
  BY <1>1, <1>2, <1>up, <1>4 DEF CredInv, CredTypes
<1>6. ASSUME NEW p \in SettingRequests
      PROVE  RequestSound(p)'
  <2>1. CASE p = q
    BY <1>1, <1>2, <1>up, <1>4, <2>1, AtRestIsRequest DEF RequestSound
  <2>2. CASE p # q
    BY <1>1, <1>2, <1>up, <1>4, <2>2 DEF CredInv, RequestSound
  <2>. QED
    BY <2>1, <2>2
<1>. QED
  BY <1>up, <1>3, <1>5, <1>6 DEF CredInv

LEMMA DeleteProviderKeeps ==
  ASSUME CredInv, DeleteProvider
  PROVE  CredInv'
<1>1. /\ up /\ aiProvider' \in [live : BOOLEAN, key : Cred]
      /\ aiProvider'.live = FALSE
      /\ UNCHANGED <<startVars, setting, secretMu, update, entered, enteredFor>>
  BY DEF DeleteProvider, CredInv, CredTypes
<1>up. /\ StartSound' /\ up' /\ Ready /\ Ready' /\ server # "down"
      /\ UNCHANGED <<server, keyring, prepared, tx>>
  BY <1>1, ServingStep
<1>2. WellKept'
  BY <1>1, <1>up, ProviderKept DEF CredInv
<1>3. CredTypes'
  BY <1>1, <1>up DEF CredInv, CredTypes
<1>4. ASSUME NEW p \in SettingRequests
      PROVE  RequestSound(p)'
  BY <1>1, <1>up DEF CredInv, RequestSound
<1>. QED
  BY <1>up, <1>2, <1>3, <1>4 DEF CredInv

LEMMA CredNextHolds == CredInv /\ [CredentialNext]_credVars => CredInv'
<1> SUFFICES ASSUME CredInv, [CredentialNext]_credVars
             PROVE  CredInv'
  OBVIOUS
<1>1. CASE UNCHANGED credVars
  BY <1>1 DEF credVars, startVars, rowVars, CredInv, CredTypes, StartSound,
     MigratedKey, WellKept, EnteredIsPair, Kept, Ready, RequestSound, up
<1>2. CASE CredentialNext
  BY <1>2, StartKeeps, PrepareSettingsKeeps, PrepareProvidersKeeps, WritesKeep,
     CommitKeeps, ListenKeeps, StopKeeps, RestorePreferencesKeeps,
     DeleteProviderKeeps, AskUpdateKeeps, ReadProviderKeeps, ReadSettingKeeps,
     SaveSettingKeeps, SaveProviderKeeps DEF CredentialNext
<1>. QED
  BY <1>1, <1>2

\* Whatever the operator does with the keys, and however the requests, the
\* phases of the starts and the crashes interleave, the stored credentials are
\* those last acknowledged, the secret belongs to its endpoint, and a running
\* server needs its first key only.
THEOREM CredentialsAreAlwaysKept == CredentialSpec => []CredentialsAreKept
<1>1. CredInv => CredentialsAreKept
  BY DEF CredInv, CredentialsAreKept, CredentialsKeepTheirValue,
     SecretBelongsToEndpoint, FallbackKeysAreSpent, WellKept, EnteredIsPair,
     Kept, Under, Ready, up
<1>. QED
  BY <1>1, CredInitHolds, CredNextHolds, PTL DEF CredentialSpec

-----------------------------------------------------------------------------
(* The keys that open everything at all times.  From the commit of a start  *)
(* on, its first key is one of them and everything is under that key.       *)
OpenInv == LastKeysStillOpen /\ (Ready => Primary(keyring) \in openedBy)

\* A step after which a start is committed.
LEMMA CommittedOpens ==
  ASSUME WellKept', Ready', (Primary(keyring) \in openedBy)'
  PROVE  OpenInv'
<1>1. /\ Under(setting'.url, keyring') /\ Under(setting'.secret, keyring')
      /\ aiProvider'.live => Under(aiProvider'.key, keyring')
  BY DEF WellKept, Kept, Ready
<1>. QED
  BY <1>1 DEF OpenInv, LastKeysStillOpen, Under, Primary

\* A step before that, which leaves the rows as they are.
LEMMA UncommittedOpens ==
  ASSUME OpenInv, ~Ready', UNCHANGED <<setting, aiProvider, openedBy>>
  PROVE  OpenInv'
BY DEF OpenInv, LastKeysStillOpen

LEMMA OpenStep ==
  ASSUME CredInv, CredInv', OpenInv, CredentialNext
  PROVE  OpenInv'
<1>1. CASE CommitMigration
  <2>1. /\ Ready' /\ UNCHANGED keyring /\ openedBy' = Opens(keyring)
        /\ server # "down"
    BY <1>1 DEF CommitMigration, Ready
  <2>2. (Primary(keyring) \in openedBy)'
    BY <2>1 DEF CredInv, CredTypes
  <2>. QED
    BY <2>1, <2>2, CommittedOpens DEF CredInv
<1>2. CASE Listen
  <2>1. Ready /\ Ready' /\ UNCHANGED <<keyring, openedBy>>
    BY <1>2 DEF Listen, Ready
  <2>. QED
    BY <2>1, CommittedOpens DEF CredInv, OpenInv
<1>3. CASE \/ PrepareSettings \/ PrepareProviders \/ WriteSettings
           \/ WriteProviders \/ Stop
           \/ \E a, b, c : Start(a, b, c)
  <2>1. ~Ready' /\ UNCHANGED <<rowVars, openedBy>>
    BY <1>3 DEF PrepareSettings, PrepareProviders, WriteSettings,
       WriteProviders, Stop, Start, Down, Ready
  <2>. QED
    BY <2>1, UncommittedOpens DEF rowVars
<1>4. CASE up /\ UNCHANGED startVars
  <2>1. Ready /\ Ready' /\ UNCHANGED <<keyring, openedBy>>
    BY <1>4, ServingStep
  <2>. QED
    BY <2>1, CommittedOpens DEF CredInv, OpenInv
<1>5. \A q \in SettingRequests :
        /\ \A url, secret : AskUpdate(q, url, secret) => up /\ UNCHANGED startVars
        /\ \A key : ReadProvider(q, key) => up /\ UNCHANGED startVars
        /\ ReadSetting(q) \/ SaveSetting(q) \/ SaveProvider(q) =>
             up /\ UNCHANGED startVars
  BY DEF AskUpdate, ReadProvider, ReadSetting, SaveSetting, SaveProvider,
     CredInv, RequestSound
<1>6. RestorePreferences \/ DeleteProvider => up /\ UNCHANGED startVars
  BY DEF RestorePreferences, DeleteProvider
<1>. QED
  BY <1>1, <1>2, <1>3, <1>4, <1>5, <1>6 DEF CredentialNext

\* Wherever a start is refused, fails or dies, the keys of the last one that
\* got through still open every credential.
THEOREM LastKeysAlwaysOpen == CredentialSpec => []LastKeysStillOpen
<1>1. CredentialInit => OpenInv
  <2> SUFFICES ASSUME CredentialInit
               PROVE  OpenInv
    OBVIOUS
  <2> DEFINE legacy(v) == IF v = None THEN None ELSE [v |-> v, k |-> Plain]
  <2>2. PICK url \in Typed, secret \in Typed, key \in Typed :
          /\ setting = [exists |-> url # None \/ secret # None,
                        url |-> legacy(url), secret |-> legacy(secret)]
          /\ \E k \in CredentialKeys \cup {Plain} :
               /\ aiProvider = [live |-> TRUE,
                    key |-> IF key = None THEN None ELSE [v |-> key, k |-> k]]
               /\ openedBy = {k, Plain}
          /\ entered = [url |-> url, secret |-> secret] /\ enteredFor = url
    BY DEF CredentialInit
  <2>1. \A v \in Typed : legacy(v) = None \/ legacy(v).k = Plain
    OBVIOUS
  <2> HIDE DEF legacy
  <2>3. /\ setting.url = legacy(url) /\ setting.secret = legacy(secret)
        /\ Plain \in openedBy
        /\ aiProvider.key # None => aiProvider.key.k \in openedBy
    BY <2>2
  <2>4. ~Ready
    BY DEF CredentialInit, Ready
  <2>. QED
    BY <2>1, <2>3, <2>4 DEF OpenInv, LastKeysStillOpen
<1>2. CredInv /\ CredInv' /\ OpenInv /\ [CredentialNext]_credVars => OpenInv'
  <2>1. UNCHANGED credVars => (OpenInv => OpenInv')
    BY DEF credVars, startVars, rowVars, OpenInv, LastKeysStillOpen, Ready
  <2>. QED
    BY <2>1, OpenStep
<1>3. OpenInv => LastKeysStillOpen
  BY DEF OpenInv
<1>. QED
  BY <1>1, <1>2, <1>3, CredInitHolds, CredNextHolds, PTL DEF CredentialSpec

-----------------------------------------------------------------------------
(***************************************************************************)
(* The ledger stays whole, for any number of users, rows, files, backups   *)
(* and restores: the proof of LedgerIsWhole.                               *)
(*                                                                         *)
(* A restore replaces the rows of one user.  That no other row loses what  *)
(* it names needs Insertable: the file holds no key of another user.  That *)
(* the restored rows find what they name needs Closed and FilesKnown, and  *)
(* FilesKnown looks only at the tables of Evidence: the invariant adds     *)
(* that no other row names a file, in the ledger and in every backup.      *)
(*                                                                         *)
(* A backup says of its rows what they were when it was made: their        *)
(* deletion is stated truly or not at all, logs are never deleted, and no  *)
(* column is zero but those a restore writes again after Create.           *)
(***************************************************************************)
Wire == [owner : Tenants, deletion : {"absent", "time", "null"},
         zero : SUBSET Columns, refs : SUBSET Ids, files : SUBSET Path]

\* What holds of every row with key i.
Proper(i, row) ==
  /\ row \in Row
  /\ KindOf[i] \notin Evidence => row.files = {}
  /\ KindOf[i] = "account_logs" => ~row.deleted
  /\ row.zero \subseteq WrittenAgain(KindOf[i])

RowsAreRows ==
  /\ DOMAIN table = Ids
  /\ \A i \in Ids : Stored(i) => Proper(i, table[i])
  /\ DOMAIN directory = Tenants

\* What a row in a file says of the row it was made of.
Tells(w, row) ==
  /\ w \in Wire
  /\ w.owner = row.owner /\ w.zero = row.zero /\ w.refs = row.refs
  /\ w.files = row.files
  /\ w.deletion = "time" => row.deleted
  /\ w.deletion = "null" => ~row.deleted

HoldsRows(a) ==
  /\ DOMAIN a.rows \subseteq Ids /\ DOMAIN a.seen = DOMAIN a.rows
  /\ \A i \in DOMAIN a.rows : Proper(i, a.seen[i]) /\ Tells(a.rows[i], a.seen[i])

\* What holds of a backup, whichever release wrote it and whoever labelled it.
ArchivesHoldRows == \A a \in archives : HoldsRows(a)

GraphInv == RowsAreRows /\ ArchivesHoldRows /\ LedgerIsWhole

-----------------------------------------------------------------------------
LEMMA RowsAreStored == ASSUME NEW x \in Row PROVE x # NoRow
BY DEF Row, NoRow

LEMMA RowFields ==
  ASSUME NEW x \in Row
  PROVE  /\ x.owner \in Tenants /\ x.refs \subseteq Ids
         /\ x.files \subseteq Path
BY DEF Row

LEMMA GraphInitHolds == GraphInit => GraphInv
BY DEF GraphInit, GraphInv, RowsAreRows, ArchivesHoldRows, LedgerIsWhole,
       ReferencesResolve, EvidenceIsThere, LiveOf, RowsOf, Stored

\* A step that leaves the backups, the directories and what the rows name.
LEMMA SameNames ==
  ASSUME GraphInv, DOMAIN table' = Ids,
         \A i \in Ids : Stored(i) <=> Stored(i)',
         \A i \in Ids : Stored(i) =>
           /\ Proper(i, table'[i])
           /\ table'[i].owner = table[i].owner
           /\ table'[i].refs = table[i].refs
           /\ table'[i].files = table[i].files
           /\ table[i].deleted => table'[i].deleted,
         UNCHANGED <<directory, archives>>
  PROVE  GraphInv'
<1>1. RowsAreRows' /\ ArchivesHoldRows'
  BY DEF GraphInv, RowsAreRows, ArchivesHoldRows
<1>2. ReferencesResolve'
  <2> SUFFICES ASSUME NEW i \in Ids, Stored(i)', NEW r \in table'[i].refs
               PROVE  Stored(r)' /\ table'[r].owner = table'[i].owner
    BY DEF ReferencesResolve
  <2>1. Stored(i) /\ r \in table[i].refs /\ r \in Ids
    BY RowFields DEF GraphInv, RowsAreRows, Proper
  <2> QED
    BY <2>1 DEF GraphInv, LedgerIsWhole, ReferencesResolve
<1>3. EvidenceIsThere'
  BY DEF GraphInv, LedgerIsWhole, EvidenceIsThere, LiveOf, RowsOf
<1> QED
  BY <1>1, <1>2, <1>3 DEF GraphInv, LedgerIsWhole

\* A restore writes the switches again.
LEMMA SwitchesAreWrittenAgain ==
  \A kind : Switches(kind) \subseteq WrittenAgain(kind)
BY DEF Switches, WrittenAgain, Defaulted

LEMMA EditSwitchHolds ==
  ASSUME GraphInv, NEW u \in Tenants, NEW i \in Ids, NEW c \in Columns,
         EditSwitch(u, i, c)
  PROVE  GraphInv'
<1>1. Proper(i, table[i]) /\ table[i] \in Row /\ Stored(i)
  BY DEF GraphInv, RowsAreRows, Proper, EditSwitch, LiveOf, RowsOf
<1>2. PICK zero \in {table[i].zero \cup {c}, table[i].zero \ {c}} :
        table' = [table EXCEPT ![i].zero = zero]
  BY DEF EditSwitch
<1>3. zero \in SUBSET Columns /\ zero \subseteq WrittenAgain(KindOf[i])
  <2>1. c \in WrittenAgain(KindOf[i])
    BY SwitchesAreWrittenAgain DEF EditSwitch
  <2>. QED
    BY <1>1, <2>1 DEF Proper, Row
<1> DEFINE row == [table[i] EXCEPT !.zero = zero]
<1>4. /\ row \in Row /\ row.owner = table[i].owner /\ row.refs = table[i].refs
      /\ row.files = table[i].files /\ row.deleted = table[i].deleted
      /\ row.zero = zero
  BY <1>1, <1>3 DEF Row
<1>5. table' = [table EXCEPT ![i] = row] /\ UNCHANGED <<directory, archives>>
  BY <1>2 DEF EditSwitch
<1> HIDE DEF row
<1>6. Proper(i, row)
  BY <1>1, <1>3, <1>4 DEF Proper
<1>7. \A j \in Ids : table'[j] = IF j = i THEN row ELSE table[j]
  BY <1>5 DEF GraphInv, RowsAreRows
<1>8. DOMAIN table' = Ids
  BY <1>5 DEF GraphInv, RowsAreRows
<1>9. \A j \in Ids : Stored(j) <=> Stored(j)'
  BY <1>1, <1>4, <1>7, RowsAreStored DEF Stored
<1>10. \A j \in Ids : Stored(j) =>
         /\ Proper(j, table'[j])
         /\ table'[j].owner = table[j].owner
         /\ table'[j].refs = table[j].refs
         /\ table'[j].files = table[j].files
         /\ table[j].deleted => table'[j].deleted
  BY <1>4, <1>6, <1>7 DEF GraphInv, RowsAreRows
<1> QED
  BY <1>5, <1>8, <1>9, <1>10, SameNames

LEMMA SoftDeleteHolds ==
  ASSUME GraphInv, NEW u \in Tenants, NEW i \in Ids, SoftDelete(u, i)
  PROVE  GraphInv'
<1> DEFINE row == [table[i] EXCEPT !.deleted = TRUE]
<1>1. Proper(i, table[i]) /\ table[i] \in Row /\ Stored(i)
  BY DEF GraphInv, RowsAreRows, Proper, SoftDelete, LiveOf, RowsOf
<1>2. /\ row \in Row /\ row.owner = table[i].owner /\ row.refs = table[i].refs
      /\ row.files = table[i].files /\ row.deleted /\ row.zero = table[i].zero
  BY <1>1 DEF Row
<1>3. table' = [table EXCEPT ![i] = row] /\ UNCHANGED <<directory, archives>>
  BY DEF SoftDelete
<1> HIDE DEF row
<1>kind. KindOf[i] # "account_logs"
  BY DEF SoftDelete
<1>proper. Proper(i, row)
  BY <1>1, <1>2, <1>kind DEF Proper
<1>4. \A j \in Ids : table'[j] = IF j = i THEN row ELSE table[j]
  BY <1>3 DEF GraphInv, RowsAreRows
<1>5. DOMAIN table' = Ids
  BY <1>3 DEF GraphInv, RowsAreRows
<1>6. \A j \in Ids : Stored(j) <=> Stored(j)'
  BY <1>1, <1>2, <1>4, RowsAreStored DEF Stored
<1>7. \A j \in Ids : Stored(j) =>
        /\ Proper(j, table'[j])
        /\ table'[j].owner = table[j].owner
        /\ table'[j].refs = table[j].refs
        /\ table'[j].files = table[j].files
        /\ table[j].deleted => table'[j].deleted
  BY <1>2, <1>proper, <1>4 DEF GraphInv, RowsAreRows
<1> QED
  BY <1>3, <1>5, <1>6, <1>7, SameNames

LEMMA AddRowHolds ==
  ASSUME GraphInv, NEW u \in Tenants, NEW i \in Ids, NEW refs \in SUBSET Ids,
         AddRow(u, i, refs)
  PROVE  GraphInv'
<1> DEFINE row == [owner |-> u, deleted |-> FALSE, zero |-> {},
                   refs |-> refs, files |-> {}]
<1>1. /\ row \in Row /\ row # NoRow /\ row.owner = u /\ row.refs = refs
      /\ row.files = {} /\ row.zero = {} /\ row.deleted = FALSE
  BY DEF Row, NoRow
<1>2. /\ table' = [table EXCEPT ![i] = row] /\ UNCHANGED <<directory, archives>>
      /\ ~Stored(i)
      /\ \A r \in refs : Stored(r) /\ table[r].owner = u
  BY DEF AddRow, LiveOf, RowsOf
<1> HIDE DEF row
<1>3. \A j \in Ids : table'[j] = IF j = i THEN row ELSE table[j]
  BY <1>2 DEF GraphInv, RowsAreRows
<1>4. \A j \in Ids : Stored(j)' <=> j = i \/ Stored(j)
  BY <1>1, <1>3 DEF Stored
<1>proper. Proper(i, row)
  BY <1>1 DEF Proper
<1>5. RowsAreRows' /\ ArchivesHoldRows'
  BY <1>1, <1>2, <1>proper, <1>3, <1>4 DEF GraphInv, RowsAreRows, ArchivesHoldRows
<1>6. ReferencesResolve'
  <2> SUFFICES ASSUME NEW j \in Ids, Stored(j)', NEW r \in table'[j].refs
               PROVE  Stored(r)' /\ table'[r].owner = table'[j].owner
    BY DEF ReferencesResolve
  <2>1. CASE j = i
    <3>1. r \in Ids /\ Stored(r) /\ table[r].owner = u
      BY <1>1, <1>2, <1>3, <2>1
    <3> QED
      BY <1>1, <1>2, <1>3, <1>4, <2>1, <3>1
  <2>2. CASE j # i
    <3>1. Stored(j) /\ r \in table[j].refs /\ r \in Ids
      BY <1>3, <1>4, <2>2, RowFields DEF GraphInv, RowsAreRows, Proper
    <3>2. Stored(r) /\ table[r].owner = table[j].owner
      BY <3>1 DEF GraphInv, LedgerIsWhole, ReferencesResolve
    <3> QED
      BY <1>2, <1>3, <1>4, <2>2, <3>1, <3>2
  <2> QED
    BY <2>1, <2>2
<1>7. EvidenceIsThere'
  BY <1>1, <1>2, <1>3, <1>4
  DEF GraphInv, LedgerIsWhole, EvidenceIsThere, LiveOf, RowsOf
<1> QED
  BY <1>5, <1>6, <1>7 DEF GraphInv, LedgerIsWhole

LEMMA AttachFileHolds ==
  ASSUME GraphInv, NEW u \in Tenants, NEW i \in Ids, NEW b \in Blobs,
         AttachFile(u, i, b)
  PROVE  GraphInv'
<1> DEFINE path == [owner |-> u, blob |-> b]
           row == [table[i] EXCEPT !.files = @ \cup {path}]
<1>1. /\ Proper(i, table[i]) /\ table[i] \in Row /\ Stored(i) /\ table[i].owner = u
      /\ KindOf[i] \in Evidence
  BY DEF GraphInv, RowsAreRows, Proper, AttachFile, LiveOf, RowsOf
<1>2. path \in Path /\ path.owner = u /\ path.blob = b
  BY DEF Path
<1>3. /\ row \in Row /\ row.owner = u /\ row.refs = table[i].refs
      /\ row.files = table[i].files \cup {path}
      /\ row.deleted = table[i].deleted /\ row.zero = table[i].zero
  BY <1>1, <1>2 DEF Row
<1>4. /\ table' = [table EXCEPT ![i] = row]
      /\ directory' = [directory EXCEPT ![u] = @ \cup {b}]
      /\ archives' = archives
  BY DEF AttachFile
<1> HIDE DEF row, path
<1>5. /\ \A j \in Ids : table'[j] = IF j = i THEN row ELSE table[j]
      /\ DOMAIN table' = Ids /\ DOMAIN directory' = Tenants
      /\ directory'[u] = directory[u] \cup {b}
      /\ \A v \in Tenants : v # u => directory'[v] = directory[v]
  BY <1>4 DEF GraphInv, RowsAreRows
<1>6. \A j \in Ids : Stored(j) <=> Stored(j)'
  BY <1>1, <1>3, <1>5, RowsAreStored DEF Stored
<1>proper. Proper(i, row)
  BY <1>1, <1>3 DEF Proper
<1>7. RowsAreRows' /\ ArchivesHoldRows'
  BY <1>1, <1>3, <1>proper, <1>4, <1>5, <1>6 DEF GraphInv, RowsAreRows, ArchivesHoldRows
<1>8. ReferencesResolve'
  <2> SUFFICES ASSUME NEW j \in Ids, Stored(j)', NEW r \in table'[j].refs
               PROVE  Stored(r)' /\ table'[r].owner = table'[j].owner
    BY DEF ReferencesResolve
  <2>1. Stored(j) /\ r \in table[j].refs /\ table'[j].owner = table[j].owner
    BY <1>1, <1>3, <1>5, <1>6
  <2>2. r \in Ids
    BY <2>1, RowFields DEF GraphInv, RowsAreRows, Proper
  <2>3. Stored(r) /\ table[r].owner = table[j].owner
    BY <2>1 DEF GraphInv, LedgerIsWhole, ReferencesResolve
  <2> QED
    BY <1>1, <1>3, <1>5, <1>6, <2>1, <2>2, <2>3
<1>9. EvidenceIsThere'
  <2> SUFFICES ASSUME NEW v \in Tenants, NEW j \in Ids, j \in LiveOf(v)',
                      NEW p \in table'[j].files
               PROVE  p.owner = v /\ p.blob \in directory'[v]
    BY DEF EvidenceIsThere, LiveOf, RowsOf
  <2>1. j \in LiveOf(v)
    BY <1>1, <1>3, <1>5, <1>6 DEF LiveOf, RowsOf
  <2>2. CASE p \in table[j].files
    BY <1>5, <2>1, <2>2 DEF GraphInv, LedgerIsWhole, EvidenceIsThere
  <2>3. CASE p \notin table[j].files
    <3>1. j = i /\ p = path /\ v = u
      BY <1>1, <1>3, <1>5, <2>1, <2>3 DEF LiveOf, RowsOf
    <3> QED
      BY <1>2, <1>5, <3>1
  <2> QED
    BY <2>2, <2>3
<1> QED
  BY <1>7, <1>8, <1>9 DEF GraphInv, LedgerIsWhole

\* The collector takes no file that a live row names.
LEMMA CollectFilesHolds ==
  ASSUME GraphInv, NEW u \in Tenants, CollectFiles(u)
  PROVE  GraphInv'
<1> PICK old \in SUBSET Unreferenced(u) :
      /\ directory' = [directory EXCEPT ![u] = @ \ old]
      /\ UNCHANGED <<table, archives>>
  BY DEF CollectFiles
<1>1. /\ DOMAIN directory' = Tenants
      /\ directory'[u] = directory[u] \ old
      /\ \A v \in Tenants : v # u => directory'[v] = directory[v]
  BY DEF GraphInv, RowsAreRows
<1>2. RowsAreRows' /\ ArchivesHoldRows' /\ ReferencesResolve'
  BY <1>1 DEF GraphInv, RowsAreRows, ArchivesHoldRows, LedgerIsWhole,
              ReferencesResolve, Stored
<1>3. EvidenceIsThere'
  <2> SUFFICES ASSUME NEW v \in Tenants, NEW j \in Ids, j \in LiveOf(v),
                      NEW p \in table[j].files
               PROVE  p.owner = v /\ p.blob \in directory'[v]
    BY DEF EvidenceIsThere, LiveOf, RowsOf, Stored
  <2>1. p.owner = v /\ p.blob \in directory[v]
    BY DEF GraphInv, LedgerIsWhole, EvidenceIsThere
  <2>2. CASE v # u
    BY <1>1, <2>1, <2>2
  <2>3. CASE v = u
    <3>1. table[j] \in Row
      BY DEF GraphInv, RowsAreRows, Proper, LiveOf, RowsOf
    <3>2. p = [owner |-> u, blob |-> p.blob]
      BY <2>1, <2>3, <3>1, RowFields DEF Path
    <3>3. p.blob \notin old
      BY <2>3, <3>2 DEF Unreferenced
    <3> QED
      BY <1>1, <2>1, <2>3, <3>3
  <2> QED
    BY <2>2, <2>3
<1> QED
  BY <1>2, <1>3 DEF GraphInv, LedgerIsWhole

\* Another backup.
LEMMA KeepHolds ==
  ASSUME GraphInv, NEW a, Keep(a), HoldsRows(a)
  PROVE  GraphInv'
<1>1. UNCHANGED <<table, directory>> /\ archives' = archives \cup {a}
  BY DEF Keep
<1> QED
  BY <1>1 DEF GraphInv, RowsAreRows, ArchivesHoldRows, LedgerIsWhole,
     ReferencesResolve, EvidenceIsThere, Stored, LiveOf, RowsOf

\* What is written of a row tells what the row is.
LEMMA EncodedTells ==
  ASSUME NEW ver, NEW kind, NEW row \in Row
  PROVE  Tells(Encoded(ver, kind, row), row)
<1>1. row.deleted \in BOOLEAN
  BY DEF Row
<1> QED
  BY <1>1 DEF Tells, Encoded, Wire, Row

\* A backup of some rows of the ledger.
LEMMA ArchiveHoldsRows ==
  ASSUME GraphInv, NEW u, NEW ver, NEW given, NEW mail,
         NEW ids, ids \subseteq Ids, \A i \in ids : Stored(i)
  PROVE  HoldsRows(Archive(u, ver, ids, given, mail))
<1> DEFINE a == Archive(u, ver, ids, given, mail)
<1>1. /\ a.rows = [i \in ids |-> Encoded(ver, KindOf[i], table[i])]
      /\ a.seen = [i \in ids |-> table[i]]
  BY DEF Archive
<1> HIDE DEF a
<1>2. \A i \in ids : Proper(i, table[i]) /\ table[i] \in Row
  BY DEF GraphInv, RowsAreRows, Proper
<1>3. \A i \in ids : a.seen[i] = table[i]
                      /\ Tells(a.rows[i], table[i])
  BY <1>1, <1>2, EncodedTells
<1>4. HoldsRows(a)
  BY <1>1, <1>2, <1>3 DEF HoldsRows
<1> QED
  BY <1>4 DEF a

\* Whichever release makes it, a backup is an archive of some rows of a user.
LEMMA BackupIsArchive ==
  ASSUME NEW u \in Tenants,
         CreateBackup(u) \/ \E ver \in {"2.1", "2.2", "2.3"} :
                              LegacyBackup(u, ver)
  PROVE  \E ver \in {"2.1", "2.2", "2.3", "2.4"},
            ids \in {LiveOf(u), RowsOf(u)}, given \in BOOLEAN,
            mail \in {profile[u], NoProfile} :
           Keep(Archive(u, ver, ids, given, mail))
<1>1. CASE CreateBackup(u)
  <2>1. Keep(Archive(u, "2.4", RowsOf(u), TRUE, profile[u]))
    BY <1>1 DEF CreateBackup
  <2>. QED
    BY <2>1, Zenon
<1>2. ASSUME NEW ver \in {"2.1", "2.2", "2.3"}, LegacyBackup(u, ver)
      PROVE  \E ids \in {LiveOf(u), RowsOf(u)}, given \in BOOLEAN,
                mail \in {profile[u], NoProfile} :
               Keep(Archive(u, ver, ids, given, mail))
  BY <1>2, Zenon DEF LegacyBackup
<1>3. \A ver \in {"2.1", "2.2", "2.3"} : ver \in {"2.1", "2.2", "2.3", "2.4"}
  OBVIOUS
<1> QED
  BY <1>1, <1>2, <1>3, Zenon

LEMMA BackupsHold ==
  ASSUME GraphInv, NEW u \in Tenants,
         CreateBackup(u) \/ \E ver \in {"2.1", "2.2", "2.3"} :
                              LegacyBackup(u, ver)
  PROVE  GraphInv'
<1>1. \A ids \in {LiveOf(u), RowsOf(u)} :
        ids \subseteq Ids /\ \A i \in ids : Stored(i)
  BY DEF LiveOf, RowsOf
<1>2. PICK ver \in {"2.1", "2.2", "2.3", "2.4"},
           ids \in {LiveOf(u), RowsOf(u)}, given \in BOOLEAN,
           mail \in {profile[u], NoProfile} :
        Keep(Archive(u, ver, ids, given, mail))
  BY BackupIsArchive, Zenon
<1>3. HoldsRows(Archive(u, ver, ids, given, mail))
  BY <1>1, ArchiveHoldsRows
<1> QED
  BY <1>2, <1>3, KeepHolds

\* Another label leaves the rows and what they were as they are.
LEMMA RelabelHolds ==
  ASSUME GraphInv, NEW a \in archives, Relabel(a)
  PROVE  GraphInv'
<1> DEFINE b == [a EXCEPT !.version = "2.4"]
<1>1. b.rows = a.rows /\ b.seen = a.seen
  OBVIOUS
<1>2. Keep(b)
  BY DEF Relabel
<1> HIDE DEF b
<1>3. HoldsRows(b)
  BY <1>1 DEF GraphInv, ArchivesHoldRows, HoldsRows
<1> QED
  BY <1>2, <1>3, KeepHolds

-----------------------------------------------------------------------------
\* A row with another owner and other files.
LEMMA ReplacedFiles ==
  ASSUME NEW row \in Row, NEW u, NEW fs
  PROVE  [row EXCEPT !.owner = u, !.files = fs] =
           [owner |-> u, deleted |-> row.deleted, zero |-> row.zero,
            refs |-> row.refs, files |-> fs]
<1> DEFINE o == row.owner  d == row.deleted  z == row.zero  r == row.refs
           f == row.files
<1>1. row = [owner |-> o, deleted |-> d, zero |-> z, refs |-> r, files |-> f]
  BY DEF Row
<1> HIDE DEF o, d, z, r, f
<1>2. [row EXCEPT !.owner = u, !.files = fs] =
        [owner |-> u, deleted |-> d, zero |-> z, refs |-> r, files |-> fs]
  <2> DEFINE moved == [row EXCEPT !.owner = u]
             full == [moved EXCEPT !.files = fs]
  <2>1. moved = [owner |-> u, deleted |-> d, zero |-> z, refs |-> r, files |-> f]
    BY <1>1
  <2>2. [row EXCEPT !.owner = u, !.files = fs] = full
    BY <1>1
  <2> HIDE DEF moved
  <2>3. full = [owner |-> u, deleted |-> d, zero |-> z, refs |-> r, files |-> fs]
    BY <2>1
  <2>. QED
    BY <2>2, <2>3
<1> QED
  BY <1>2 DEF d, z, r

\* What is inserted for a row of a file.  Create gives the zero values up, and
\* the second write brings them back, of all columns that can be zero.
LEMMA InsertedRow ==
  ASSUME NEW u \in Tenants, NEW i \in Ids, NEW w, NEW seen,
         Proper(i, seen), Tells(w, seen)
  PROVE  /\ Proper(i, Inserted(u, KindOf[i], w))
         /\ Inserted(u, KindOf[i], w) =
              [owner |-> u, deleted |-> w.deletion = "time", zero |-> seen.zero,
               refs |-> seen.refs, files |-> Remapped(u, seen.files)]
<1> DEFINE kind == KindOf[i]
           gone == w.deletion = "time"
           mapped == Remapped(u, seen.files)
           row == [Decoded(w) EXCEPT !.owner = u, !.files = Remapped(u, @)]
           made == Created(kind, row)
           full == Inserted(u, kind, w)
<1>1. /\ w.owner = seen.owner /\ w.zero = seen.zero /\ w.refs = seen.refs
      /\ w.files = seen.files /\ gone \in BOOLEAN
      /\ seen.zero \subseteq WrittenAgain(kind) /\ seen.zero \subseteq Columns
  BY DEF Tells, Proper, Row
<1> DEFINE read == Decoded(w)
<1>read. read = [owner |-> w.owner, deleted |-> gone, zero |-> w.zero,
              refs |-> w.refs, files |-> w.files]
  BY DEF Decoded
<1>moved. row = [read EXCEPT !.owner = u, !.files = Remapped(u, @)]
  OBVIOUS
<1> HIDE DEF gone, read, row
<1>2. row = [owner |-> u, deleted |-> gone, zero |-> seen.zero,
             refs |-> seen.refs, files |-> mapped]
  BY <1>1, <1>read, <1>moved
<1>3. /\ full = Updated(kind, made, row)
      /\ made = [row EXCEPT !.zero = @ \ Defaulted(kind)]
  BY DEF Inserted, Created, row
<1> HIDE DEF mapped, made, full
<1>4. made = [owner |-> u, deleted |-> gone, zero |-> seen.zero \ Defaulted(kind),
              refs |-> seen.refs, files |-> mapped]
  BY <1>2, <1>3
<1> DEFINE back == ((seen.zero \ Defaulted(kind)) \ WrittenAgain(kind))
                     \cup (seen.zero \cap WrittenAgain(kind))
<1>5. full = [owner |-> u, deleted |-> gone, zero |-> back,
              refs |-> seen.refs, files |-> mapped]
  BY <1>2, <1>3, <1>4 DEF Updated
<1>6. back = seen.zero
  BY <1>1
<1> HIDE DEF back
<1>7. full = [owner |-> u, deleted |-> gone, zero |-> seen.zero,
              refs |-> seen.refs, files |-> mapped]
  BY <1>5, <1>6
<1>8. mapped \subseteq Path /\ (seen.files = {} => mapped = {})
  BY RowFields DEF mapped, Proper, Remapped, Path
<1>9. gone => seen.deleted
  BY DEF gone, Tells
<1>10. full \in Row /\ full.zero = seen.zero /\ full.files = mapped
       /\ full.deleted = gone
  <2>1. seen.refs \subseteq Ids
    BY RowFields DEF Proper
  <2>. QED
    BY <1>1, <1>7, <1>8, <2>1 DEF Row
<1>11. Proper(i, full)
  BY <1>1, <1>8, <1>9, <1>10 DEF Proper
<1> QED
  BY <1>7, <1>11 DEF full, gone, mapped

LEMMA RestoreHolds ==
  ASSUME GraphInv, NEW u \in Tenants, NEW a \in archives, RestoreBackup(u, a)
  PROVE  GraphInv'
<1> DEFINE back == DOMAIN a.rows
<1>1. /\ back \subseteq Ids
      /\ \A i \in back : /\ Proper(i, a.seen[i]) /\ Tells(a.rows[i], a.seen[i])
                         /\ a.rows[i].refs = a.seen[i].refs
                         /\ a.rows[i].files = a.seen[i].files
                         /\ KindOf[i] \notin Evidence => a.rows[i].files = {}
  BY DEF GraphInv, ArchivesHoldRows, HoldsRows, Tells, Proper
<1>2. /\ \A i \in back : a.rows[i].refs \subseteq back
      /\ \A i \in back : Stored(i) => table[i].owner = u
      /\ FilesKnown(u, a)
  BY DEF RestoreBackup, AcceptedFile, Closed, Insertable
<1>3. /\ DOMAIN table' = Ids /\ archives' = archives
      /\ directory' = [directory EXCEPT ![u] = IF a.given THEN a.blobs ELSE @]
      /\ \A i \in Ids : table'[i] = IF i \in back
                                     THEN Inserted(u, KindOf[i], a.rows[i])
                                     ELSE IF i \in RowsOf(u) THEN NoRow
                                     ELSE table[i]
  BY DEF RestoreBackup, Cleared
<1>4. /\ DOMAIN directory' = Tenants
      /\ directory'[u] = IF a.given THEN a.blobs ELSE directory[u]
      /\ \A v \in Tenants : v # u => directory'[v] = directory[v]
  BY <1>3 DEF GraphInv, RowsAreRows
<1>5. \A i \in back : /\ Proper(i, table'[i]) /\ table'[i].owner = u
                      /\ table'[i].refs = a.rows[i].refs
                      /\ table'[i].files = Remapped(u, a.rows[i].files)
                      /\ Stored(i)'
  <2> SUFFICES ASSUME NEW i \in back
               PROVE  /\ Proper(i, table'[i]) /\ table'[i].owner = u
                      /\ table'[i].refs = a.rows[i].refs
                      /\ table'[i].files = Remapped(u, a.rows[i].files)
                      /\ Stored(i)'
    OBVIOUS
  <2> DEFINE new == Inserted(u, KindOf[i], a.rows[i])
  <2>1. table'[i] = new
    BY <1>1, <1>3
  <2>2. /\ Proper(i, new)
        /\ new = [owner |-> u, deleted |-> a.rows[i].deletion = "time",
                  zero |-> a.seen[i].zero, refs |-> a.seen[i].refs,
                  files |-> Remapped(u, a.seen[i].files)]
    BY <1>1, InsertedRow
  <2> HIDE DEF new
  <2>3. new # NoRow
    BY <2>2, RowsAreStored DEF Proper
  <2>4. /\ new.owner = u /\ new.refs = a.rows[i].refs
        /\ new.files = Remapped(u, a.rows[i].files)
    BY <1>1, <2>2
  <2> QED
    BY <2>1, <2>2, <2>3, <2>4 DEF Stored
<1>6. \A i \in Ids : i \notin back /\ Stored(i)' =>
        /\ Stored(i) /\ table'[i] = table[i] /\ table[i].owner # u
  BY <1>3 DEF Stored, RowsOf
<1>7. \A i \in Ids : Stored(i) /\ table[i].owner # u =>
        Stored(i)' /\ table'[i] = table[i]
  BY <1>2, <1>3 DEF Stored, RowsOf
<1> HIDE DEF back
<1>8. RowsAreRows' /\ ArchivesHoldRows'
  <2>1. ASSUME NEW i \in Ids, Stored(i)'
        PROVE  Proper(i, table'[i])
    <3>1. CASE i \in back
      BY <1>5, <3>1
    <3>2. CASE i \notin back
      BY <1>6, <2>1, <3>2 DEF GraphInv, RowsAreRows
    <3> QED
      BY <3>1, <3>2
  <2>2. RowsAreRows'
    BY <1>3, <1>4, <2>1 DEF RowsAreRows
  <2>3. ArchivesHoldRows'
    BY <1>3 DEF GraphInv, ArchivesHoldRows
  <2> QED
    BY <2>2, <2>3
<1>9. ReferencesResolve'
  <2> SUFFICES ASSUME NEW i \in Ids, Stored(i)', NEW r \in table'[i].refs
               PROVE  Stored(r)' /\ table'[r].owner = table'[i].owner
    BY DEF ReferencesResolve
  <2>1. CASE i \in back
    BY <1>2, <1>5, <2>1
  <2>2. CASE i \notin back
    <3>1. /\ Stored(i) /\ table'[i] = table[i] /\ table[i].owner # u
          /\ r \in table[i].refs
      BY <1>6, <2>2
    <3>2. r \in Ids
      BY <3>1, RowFields DEF GraphInv, RowsAreRows, Proper
    <3>3. Stored(r) /\ table[r].owner = table[i].owner
      BY <3>1 DEF GraphInv, LedgerIsWhole, ReferencesResolve
    <3> QED
      BY <1>7, <3>1, <3>2, <3>3
  <2> QED
    BY <2>1, <2>2
<1>10. EvidenceIsThere'
  <2> SUFFICES ASSUME NEW v \in Tenants, NEW i \in Ids, i \in LiveOf(v)',
                      NEW p \in table'[i].files
               PROVE  p.owner = v /\ p.blob \in directory'[v]
    BY DEF EvidenceIsThere, LiveOf, RowsOf
  <2>1. Stored(i)' /\ table'[i].owner = v
    BY DEF LiveOf, RowsOf
  <2>2. CASE i \in back
    <3>1. v = u /\ p \in Remapped(u, a.rows[i].files)
      BY <1>5, <2>1, <2>2
    <3>2. PICK q \in a.rows[i].files : p = [owner |-> u, blob |-> q.blob]
      BY <3>1 DEF Remapped
    <3>3. KindOf[i] \in Evidence
      BY <1>1, <2>2, <3>2
    <3>4. q.blob \in IF a.given THEN a.blobs ELSE directory[u]
      BY <1>2, <2>2, <3>2, <3>3 DEF FilesKnown, back
    <3> QED
      BY <1>4, <3>1, <3>2, <3>4
  <2>3. CASE i \notin back
    <3>1. Stored(i) /\ table'[i] = table[i] /\ v # u
      BY <1>6, <2>1, <2>3
    <3>2. i \in LiveOf(v)
      BY <2>1, <3>1 DEF LiveOf, RowsOf
    <3>3. p.owner = v /\ p.blob \in directory[v]
      BY <3>1, <3>2 DEF GraphInv, LedgerIsWhole, EvidenceIsThere
    <3> QED
      BY <1>4, <3>1, <3>3
  <2> QED
    BY <2>2, <2>3
<1> QED
  BY <1>8, <1>9, <1>10 DEF GraphInv, LedgerIsWhole

-----------------------------------------------------------------------------
LEMMA GraphStepHolds == GraphInv /\ [GraphNext]_graphVars => GraphInv'
<1> SUFFICES ASSUME GraphInv, [GraphNext]_graphVars PROVE GraphInv'
  OBVIOUS
<1>1. ASSUME UNCHANGED <<table, directory, archives>> PROVE GraphInv'
  BY <1>1 DEF GraphInv, RowsAreRows, ArchivesHoldRows, LedgerIsWhole,
              ReferencesResolve, EvidenceIsThere, Stored, LiveOf, RowsOf
<1>2. CASE UNCHANGED graphVars
  BY <1>1, <1>2 DEF graphVars
<1>3. ASSUME NEW u \in Tenants, NEW i \in Ids,
             \/ \E refs \in SUBSET Ids : AddRow(u, i, refs)
             \/ \E b \in Blobs : AttachFile(u, i, b)
             \/ \E c \in Columns : EditSwitch(u, i, c)
             \/ SoftDelete(u, i)
      PROVE  GraphInv'
  BY <1>3, AddRowHolds, AttachFileHolds, EditSwitchHolds, SoftDeleteHolds
<1>4. ASSUME NEW u \in Tenants, NEW mail, SaveProfile(u, mail) PROVE GraphInv'
  BY <1>1, <1>4 DEF SaveProfile
<1>5. ASSUME NEW u \in Tenants, NEW channel, SaveChannel(u, channel)
      PROVE  GraphInv'
  BY <1>1, <1>5 DEF SaveChannel
<1> QED
  BY <1>2, <1>3, <1>4, <1>5, CollectFilesHolds, BackupsHold, RelabelHolds,
     RestoreHolds
  DEF GraphNext

\* Whatever is written, deleted, collected, saved by old and new releases and
\* restored, by however many users, no row ever names a row that is gone or
\* another user's, and no live row a file that is not there (LedgerIsWhole).
THEOREM LedgerStaysWhole == GraphSpec => []LedgerIsWhole
<1>1. GraphInv => LedgerIsWhole
  BY DEF GraphInv
<1> QED
  BY GraphInitHolds, GraphStepHolds, <1>1, PTL DEF GraphSpec
-----------------------------------------------------------------------------
(***************************************************************************)
(* What a restore gives back.                                              *)
(***************************************************************************)
\* A file that is restored as one of the current format brings back the rows
\* as they were, deleted ones and zero columns included, and nothing else is
\* left of the user's: what the codec leaves out is refused or was never so,
\* and the second write undoes what Create did.
THEOREM RestoresGiveBack == GraphSpec => RestoreGivesBack
<1> DEFINE back(row, u) ==
      [row EXCEPT !.owner = u, !.files = {[owner |-> u, blob |-> p.blob] : p \in @}]
    GivesBack ==
      \A u \in Tenants, a \in archives :
        RestoreBackup(u, a) /\ a.version = "2.4" =>
          \A i \in Ids :
            /\ i \in DOMAIN a.seen => table'[i] = back(a.seen[i], u)
            /\ i \notin DOMAIN a.seen =>
                 table'[i] = NoRow \/ table'[i].owner # u
<1>1. ASSUME GraphInv
      PROVE  GivesBack
  <2> SUFFICES ASSUME NEW u \in Tenants, NEW a \in archives,
                      RestoreBackup(u, a), a.version = "2.4", NEW i \in Ids
               PROVE  /\ i \in DOMAIN a.seen => table'[i] = back(a.seen[i], u)
                      /\ i \notin DOMAIN a.seen =>
                           table'[i] = NoRow \/ table'[i].owner # u
    OBVIOUS
  <2>1. DOMAIN a.seen = DOMAIN a.rows
    BY <1>1 DEF GraphInv, ArchivesHoldRows, HoldsRows
  <2>2. table'[i] = IF i \in DOMAIN a.rows THEN Inserted(u, KindOf[i], a.rows[i])
                    ELSE IF i \in Cleared(u) THEN NoRow ELSE table[i]
    BY DEF RestoreBackup
  <2>3. CASE i \in DOMAIN a.rows
    <3> DEFINE seen == a.seen[i]
               w == a.rows[i]
    <3>1. Proper(i, seen) /\ Tells(w, seen)
      BY <1>1, <2>3 DEF GraphInv, ArchivesHoldRows, HoldsRows
    <3>2. w.deletion = "time" <=> seen.deleted
      <4>1. CASE KindOf[i] = "account_logs"
        BY <3>1, <4>1 DEF Proper, Tells
      <4>2. CASE KindOf[i] # "account_logs"
        <5>1. w.deletion # "absent"
          BY <2>3, <4>2 DEF RestoreBackup, AcceptedFile, ValidTombstones,
             StatesDeletion
        <5>. QED
          BY <3>1, <5>1 DEF Tells, Wire
      <4>. QED
        BY <4>1, <4>2
    <3>3. /\ table'[i] = Inserted(u, KindOf[i], w)
          /\ Inserted(u, KindOf[i], w) =
               [owner |-> u, deleted |-> w.deletion = "time", zero |-> seen.zero,
                refs |-> seen.refs, files |-> Remapped(u, seen.files)]
      BY <2>2, <2>3, <3>1, InsertedRow
    <3> HIDE DEF seen, w
    <3>4. seen \in Row /\ seen.deleted \in BOOLEAN
      BY <3>1 DEF Proper, Row
    <3>5. (w.deletion = "time") = seen.deleted
      BY <3>2, <3>4
    <3>6. table'[i] = [owner |-> u, deleted |-> seen.deleted, zero |-> seen.zero,
                       refs |-> seen.refs, files |-> Remapped(u, seen.files)]
      BY <3>3, <3>5
    <3>7. back(seen, u) =
            [owner |-> u, deleted |-> seen.deleted, zero |-> seen.zero,
             refs |-> seen.refs, files |-> Remapped(u, seen.files)]
      <4>1. back(seen, u) = [seen EXCEPT !.owner = u, !.files = Remapped(u, @)]
        BY DEF Remapped
      <4> DEFINE mapped == Remapped(u, seen.files)
      <4>2. [seen EXCEPT !.owner = u, !.files = Remapped(u, @)] =
              [seen EXCEPT !.owner = u, !.files = mapped]
        OBVIOUS
      <4> HIDE DEF mapped
      <4>3. [seen EXCEPT !.owner = u, !.files = mapped] =
              [owner |-> u, deleted |-> seen.deleted, zero |-> seen.zero,
               refs |-> seen.refs, files |-> mapped]
        BY <3>4, ReplacedFiles
      <4>. QED
        BY <4>1, <4>2, <4>3 DEF mapped
    <3>8. table'[i] = back(a.seen[i], u)
      BY <3>6, <3>7 DEF seen
    <3>. QED
      BY <2>1, <2>3, <3>8
  <2>4. CASE i \notin DOMAIN a.rows
    BY <2>1, <2>2, <2>4 DEF Cleared, RowsOf, Stored
  <2>. QED
    BY <2>3, <2>4
<1>2. GraphInv /\ [GraphNext]_graphVars => [GivesBack]_graphVars
  BY <1>1
<1>. QED
  BY <1>2, GraphInitHolds, GraphStepHolds, PTL DEF GraphSpec, RestoreGivesBack

-----------------------------------------------------------------------------
\* The address of a profile is one, in the ledger and in every backup that has
\* a profile, and the channels are channels.
MailInv ==
  /\ delivery \in [Tenants -> Channel]
  /\ profile \in [Tenants -> Mails \cup {NoMail}]
  /\ \A a \in archives : a.mail \in Mails \cup {NoMail, NoProfile}

LEMMA MailInitHolds == GraphInit => MailInv
BY DEF GraphInit, MailInv, NoChannel, Channel

LEMMA KeepMails ==
  ASSUME MailInv, NEW a, Keep(a), a.mail \in Mails \cup {NoMail, NoProfile}
  PROVE  MailInv'
BY DEF Keep, MailInv

LEMMA BackupsKeepMails ==
  ASSUME MailInv, NEW u \in Tenants,
         CreateBackup(u) \/ \E ver \in {"2.1", "2.2", "2.3"} :
                              LegacyBackup(u, ver)
  PROVE  MailInv'
<1>1. profile[u] \in Mails \cup {NoMail}
  BY DEF MailInv
<1>2. PICK ver \in {"2.1", "2.2", "2.3", "2.4"},
           ids \in {LiveOf(u), RowsOf(u)}, given \in BOOLEAN,
           mail \in {profile[u], NoProfile} :
        Keep(Archive(u, ver, ids, given, mail))
  BY BackupIsArchive, Zenon
<1> DEFINE a == Archive(u, ver, ids, given, mail)
<1>3. Keep(a) /\ a.mail = mail
  BY <1>2 DEF Archive
<1> HIDE DEF a
<1>. QED
  BY <1>1, <1>3, KeepMails

LEMMA PinnedIsChannel ==
  ASSUME MailInv, NEW u \in Tenants
  PROVE  Pinned(u) \in Channel
<1>1. delivery[u] \in Channel /\ profile[u] \in Mails \cup {NoMail}
  BY DEF MailInv
<1>. QED
  BY <1>1 DEF Pinned, Channel

LEMMA RestoreMails ==
  ASSUME MailInv, NEW u \in Tenants, NEW a \in archives, RestoreBackup(u, a)
  PROVE  MailInv'
<1>1. UNCHANGED archives
  BY DEF RestoreBackup
<1>2. CASE a.mail = NoProfile
  BY <1>1, <1>2 DEF RestoreBackup, MailInv
<1>3. CASE a.mail # NoProfile
  <2>1. /\ profile' = [profile EXCEPT ![u] = a.mail]
        /\ delivery' = [delivery EXCEPT ![u] = Pinned(u)]
    BY <1>3 DEF RestoreBackup
  <2>2. a.mail \in Mails \cup {NoMail} /\ Pinned(u) \in Channel
    BY <1>3, PinnedIsChannel DEF MailInv
  <2>. QED
    BY <1>1, <2>1, <2>2 DEF MailInv
<1>. QED
  BY <1>2, <1>3

LEMMA MailNextHolds == MailInv /\ [GraphNext]_graphVars => MailInv'
<1> SUFFICES ASSUME MailInv, [GraphNext]_graphVars PROVE MailInv'
  OBVIOUS
<1>1. ASSUME UNCHANGED <<archives, profile, delivery>> PROVE MailInv'
  BY <1>1 DEF MailInv
<1>2. CASE UNCHANGED graphVars
  BY <1>1, <1>2 DEF graphVars
<1>3. ASSUME NEW u \in Tenants, NEW i \in Ids,
             \/ \E refs \in SUBSET Ids : AddRow(u, i, refs)
             \/ \E b \in Blobs : AttachFile(u, i, b)
             \/ \E c \in Columns : EditSwitch(u, i, c)
             \/ SoftDelete(u, i)
      PROVE  MailInv'
  BY <1>1, <1>3 DEF AddRow, AttachFile, EditSwitch, SoftDelete
<1>4. ASSUME NEW u \in Tenants, CollectFiles(u)
      PROVE  MailInv'
  BY <1>1, <1>4 DEF CollectFiles
<1>5. ASSUME NEW u \in Tenants, NEW mail \in Mails \cup {NoMail},
             SaveProfile(u, mail)
      PROVE  MailInv'
  BY <1>5 DEF SaveProfile, MailInv
<1>6. ASSUME NEW u \in Tenants, NEW channel \in Channel, SaveChannel(u, channel)
      PROVE  MailInv'
  BY <1>6 DEF SaveChannel, MailInv
<1>7. ASSUME NEW a \in archives, Relabel(a)
      PROVE  MailInv'
  <2> DEFINE b == [a EXCEPT !.version = "2.4"]
  <2>1. Keep(b) /\ b.mail = a.mail
    BY <1>7 DEF Relabel
  <2> HIDE DEF b
  <2>. QED
    BY <2>1, KeepMails DEF MailInv
<1> QED
  BY <1>2, <1>3, <1>4, <1>5, <1>6, <1>7, BackupsKeepMails, RestoreMails
  DEF GraphNext

\* No restore makes the mail of a user go somewhere else.
THEOREM MailIsNeverRedirected == GraphSpec => MailIsNotRedirected
<1> DEFINE Stays ==
      \A u \in Tenants, a \in archives :
        RestoreBackup(u, a) /\ delivery'[u].mail =>
          delivery[u].mail /\ Recipient(u)' = Recipient(u)
<1>1. ASSUME MailInv
      PROVE  Stays
  <2> SUFFICES ASSUME NEW u \in Tenants, NEW a \in archives,
                      RestoreBackup(u, a), delivery'[u].mail
               PROVE  delivery[u].mail /\ Recipient(u)' = Recipient(u)
    OBVIOUS
  <2>0. CASE a.mail = NoProfile
    BY <2>0 DEF RestoreBackup, Recipient
  <2>1. delivery[u] \in Channel /\ (a.mail # NoProfile => delivery'[u] = Pinned(u))
    BY <1>1 DEF RestoreBackup, MailInv
  <2>3. CASE a.mail # NoProfile /\ ~delivery[u].mail
    BY <2>1, <2>3 DEF Pinned
  <2>4. CASE a.mail # NoProfile /\ delivery[u].mail /\ delivery[u].to # NoMail
    BY <2>1, <2>4 DEF Pinned, Recipient
  <2>5. CASE a.mail # NoProfile /\ delivery[u].mail /\ delivery[u].to = NoMail
    <3>1. profile[u] # NoMail
      BY <2>1, <2>5 DEF Pinned, Channel
    <3>2. delivery'[u].to = profile[u]
      BY <2>1, <2>5, <3>1 DEF Pinned, Channel
    <3>. QED
      BY <2>5, <3>1, <3>2 DEF Recipient
  <2>. QED
    BY <2>0, <2>1, <2>3, <2>4, <2>5 DEF Channel
<1>2. MailInv /\ [GraphNext]_graphVars => [Stays]_graphVars
  BY <1>1
<1>. QED
  BY <1>2, MailInitHolds, MailNextHolds, PTL DEF GraphSpec, MailIsNotRedirected

-----------------------------------------------------------------------------
(***************************************************************************)
(* Upgrades carry every amount over, for any releases, rows, amounts,      *)
(* starts and failures, on an engine that rolls a migration back and on    *)
(* one that keeps half of it.                                              *)
(***************************************************************************)
\* A table at version n, whose rows are worth w.  Before the version that
\* carries the amounts over they are told from the old column, which is there
\* if any row uses it; from then on the new column holds them.
TableCarried(t, n, tbl, w) ==
  /\ tbl = Table(tbl.columns, tbl.rows)
  /\ w \in [DOMAIN w -> Int \cup {Null}]
  /\ tbl.rows \in [DOMAIN w -> Cells]
  /\ n < Since(t) => \A r \in DOMAIN w :
       /\ w[r] = Worth(t, tbl.rows[r].old)
       /\ tbl.rows[r].old # Null => t \in MoneyTables /\ "old" \in tbl.columns
       /\ tbl.rows[r].old = Null /\ "new" \in tbl.columns
            => tbl.rows[r].new = DefaultOf(t)
  /\ n >= Since(t) => /\ "new" \in tbl.columns
                      /\ \A r \in DOMAIN w : tbl.rows[r].new = w[r]

DatabaseCarried(db, w) ==
  /\ db = [recorded |-> db.recorded, tables |-> db.tables]
  /\ db.recorded \in Nat
  /\ db.tables = [t \in LedgerTables |-> db.tables[t]]
  /\ \A t \in LedgerTables : TableCarried(t, db.recorded, db.tables[t], w[t])

\* What the migration under way has done so far.
Progress ==
  /\ phase = "alter" => \A t \in Altered(version) \ toAlter :
                          "new" \in working.tables[t].columns
  /\ phase = "fill" =>
       /\ \A t \in Altered(version) : "new" \in working.tables[t].columns
       /\ toFill # {} => version = 8
       /\ version = 8 => \A t \in MoneyTables \ toFill : \A r \in DOMAIN amounts[t] :
                           working.tables[t].rows[r].new = amounts[t][r]

\* Where the start is, against the versions of the two databases.
Position ==
  /\ phase \in {"down", "between", "alter", "fill", "serving"}
  /\ version \in Int
  /\ saved.recorded = working.recorded
  /\ ~held => working = saved
  /\ held \in BOOLEAN
  /\ held => phase \in {"alter", "fill"}
  /\ phase \in {"between", "serving"} => version = saved.recorded
  /\ phase \in {"alter", "fill"} => version = saved.recorded + 1
  /\ phase = "serving" => version = Latest
  /\ toFill \subseteq MoneyTables

MigrationInv ==
  /\ amounts = [t \in LedgerTables |-> amounts[t]]
  /\ DatabaseCarried(saved, amounts)
  /\ DatabaseCarried(working, amounts)
  /\ Position
  /\ Progress

-----------------------------------------------------------------------------
LEMMA CentsType == \A m \in Int : Cents(m) \in Int
  BY DEF Cents

LEMMA WorthType ==
  ASSUME NEW t \in LedgerTables, NEW old \in OldAmounts \cup {Null}
  PROVE  Worth(t, old) \in Int \cup {Null}
  BY CentsType, MigrationAssumption DEF Worth, DefaultOf

\* A version carries over exactly the tables it alters.
LEMMA SinceIsAltered ==
  ASSUME NEW t \in LedgerTables
  PROVE  /\ Since(t) \in {8, 11}
         /\ t \in Altered(Since(t))
         /\ t \in MoneyTables <=> Since(t) = 8
  BY DEF Since, Altered, LedgerTables, MoneyTables

LEMMA InitInv == MigrationInit => MigrationInv
<1> SUFFICES ASSUME MigrationInit PROVE MigrationInv
  OBVIOUS
<1>1. /\ amounts = [t \in LedgerTables |-> amounts[t]]
      /\ Position /\ Progress
  <2>2. amounts = [t \in LedgerTables |-> amounts[t]]
    BY DEF MigrationInit
  <2>3. /\ phase = "down" /\ version = 0 /\ toFill = {}
        /\ working = saved
    BY DEF MigrationInit
  <2>4. held \in BOOLEAN /\ ~held
    BY Zenon DEF MigrationInit
  <2>5. Progress
    BY <2>3 DEF Progress
  <2>6. Position
    BY <2>3, <2>4 DEF Position
  <2> QED BY <2>2, <2>5, <2>6
<1>2. DatabaseCarried(saved, amounts)
  <2>1. CASE saved = [recorded |-> 0, tables |-> [t \in LedgerTables |-> Table({}, NoRows)]]
    <3> SUFFICES ASSUME NEW t \in LedgerTables
                 PROVE  TableCarried(t, 0, saved.tables[t], amounts[t])
      BY <2>1 DEF DatabaseCarried
    <3>1. saved.tables[t] = [columns |-> {}, rows |-> NoRows] /\ DOMAIN NoRows = {}
      BY <2>1 DEF Table, NoRows
    <3>2. amounts[t] = [r \in {} |-> Worth(t, saved.tables[t].rows[r].old)]
      BY <3>1 DEF MigrationInit
    <3>3. /\ DOMAIN amounts[t] = {}
          /\ amounts[t] = [r \in DOMAIN amounts[t] |-> amounts[t][r]]
      BY <3>2
    <3>4. NoRows \in [{} -> Cells]
      BY DEF NoRows
    <3>5. /\ amounts[t] \in [DOMAIN amounts[t] -> Int \cup {Null}]
          /\ saved.tables[t].rows \in [DOMAIN amounts[t] -> Cells]
      <4>1. amounts[t] \in [{} -> Int \cup {Null}]
        BY <3>2
      <4> QED BY <3>1, <3>3, <3>4, <4>1
    <3>6. saved.tables[t] = Table(saved.tables[t].columns, saved.tables[t].rows)
      BY <3>1 DEF Table
    <3> QED BY <3>3, <3>5, <3>6, SinceIsAltered DEF TableCarried
  <2>2. CASE \E n \in Releases, filled \in SUBSET LedgerTables, old \in EarlierAmounts :
               saved = [recorded |-> n, tables |-> LeftBehind(n, filled, old)]
    <3>1. PICK n \in Releases, filled \in SUBSET LedgerTables, old \in EarlierAmounts :
            saved = [recorded |-> n, tables |-> LeftBehind(n, filled, old)]
      BY <2>2
    <3>2. n \in Nat
      BY MigrationAssumption
    <3> SUFFICES ASSUME NEW t \in LedgerTables
                 PROVE  TableCarried(t, n, saved.tables[t], amounts[t])
      BY <3>1, <3>2 DEF DatabaseCarried, LeftBehind
    <3> DEFINE S == {r \in RowIds : t \in filled /\ \A q \in RowIds : r <= q}
               new == IF n >= Since(t) THEN Worth(t, old[t]) ELSE Null
               cell == [old |-> old[t], new |-> new]
    <3>3. saved.tables[t] = [columns |-> {"old"} \cup {c \in {"new"} : n >= Since(t)},
                             rows |-> [r \in S |-> cell]]
      BY <3>1, Zenon DEF LeftBehind, Table
    <3>4. amounts[t] = [r \in S |-> Worth(t, old[t])]
      <4>1. amounts[t] = [r \in DOMAIN saved.tables[t].rows |->
                            Worth(t, saved.tables[t].rows[r].old)]
        BY DEF MigrationInit
      <4> QED BY <4>1, <3>3
    <3>5. /\ old[t] \in OldAmounts \cup {Null}
          /\ old[t] # Null => t \in MoneyTables
      <4>1. /\ old \in [LedgerTables -> OldAmounts \cup {Null}]
            /\ \A u \in LedgerTables : u \notin MoneyTables => old[u] = Null
        BY DEF EarlierAmounts
      <4> QED BY <4>1
    <3>6. Worth(t, old[t]) \in Int \cup {Null}
      BY <3>5, WorthType
    <3>7. cell \in Cells
      BY <3>5, <3>6 DEF Cells
    <3>8. Since(t) \in {8, 11}
      BY SinceIsAltered
    <3> HIDE DEF S, cell
    <3>9. /\ DOMAIN amounts[t] = S
          /\ amounts[t] \in [S -> Int \cup {Null}]
          /\ \A r \in S : amounts[t][r] = Worth(t, old[t])
      BY <3>4, <3>6
    <3>10. /\ saved.tables[t].rows \in [S -> Cells]
           /\ \A r \in S : saved.tables[t].rows[r] = cell
           /\ saved.tables[t].columns = {"old"} \cup {c \in {"new"} : n >= Since(t)}
           /\ saved.tables[t] = Table(saved.tables[t].columns, saved.tables[t].rows)
      BY <3>3, <3>7 DEF Table
    <3>11. cell.old = old[t] /\ (n >= Since(t) => cell.new = Worth(t, old[t]))
      BY DEF cell
    <3>12. n < Since(t) <=> ~(n >= Since(t))
      BY <3>2, <3>8
    <3> QED
      BY <3>5, <3>9, <3>10, <3>11, <3>12 DEF TableCarried
  <2> QED BY <2>1, <2>2 DEF MigrationInit
<1>3. working = saved
  BY DEF MigrationInit
<1> QED BY <1>1, <1>2, <1>3 DEF MigrationInv

-----------------------------------------------------------------------------
\* A table of the database may be replaced by another that is worth the same.
LEMMA ReplaceTable ==
  ASSUME NEW db, NEW w, DatabaseCarried(db, w), NEW t \in LedgerTables, NEW tbl,
         TableCarried(t, db.recorded, tbl, w[t])
  PROVE  LET new == [db EXCEPT !.tables[t] = tbl] IN
         /\ DatabaseCarried(new, w)
         /\ new.recorded = db.recorded
         /\ new.tables[t] = tbl
         /\ \A u \in LedgerTables : u # t => new.tables[u] = db.tables[u]
<1> DEFINE new == [db EXCEPT !.tables[t] = tbl]
<1>1. /\ new.recorded = db.recorded
      /\ new.tables = [db.tables EXCEPT ![t] = tbl]
      /\ new = [recorded |-> new.recorded, tables |-> new.tables]
  BY DEF DatabaseCarried
<1>2. /\ new.tables[t] = tbl
      /\ \A u \in LedgerTables : u # t => new.tables[u] = db.tables[u]
      /\ new.tables = [u \in LedgerTables |-> new.tables[u]]
  BY <1>1 DEF DatabaseCarried
<1> HIDE DEF new
<1>3. DatabaseCarried(new, w)
  BY <1>1, <1>2 DEF DatabaseCarried
<1> QED BY <1>1, <1>2, <1>3 DEF new

\* The new column starts with its default, and takes nothing from the old one.
LEMMA AddingCarries ==
  ASSUME MigrationInv, NEW t \in LedgerTables, "new" \notin working.tables[t].columns
  PROVE  TableCarried(t, working.recorded, WithNewColumn(t), amounts[t])
<1> DEFINE tbl == working.tables[t]
           added == WithNewColumn(t)
           n == working.recorded
<1>1. TableCarried(t, n, tbl, amounts[t]) /\ n \in Nat
  BY DEF MigrationInv, DatabaseCarried
<1>2. Since(t) \in {8, 11}
  BY SinceIsAltered
<1>3. n < Since(t)
  BY <1>1, <1>2 DEF TableCarried
<1>4. /\ tbl.rows \in [DOMAIN amounts[t] -> Cells]
      /\ DOMAIN tbl.rows = DOMAIN amounts[t]
  BY <1>1 DEF TableCarried
<1>5. DefaultOf(t) \in Int \cup {Null}
  BY DEF DefaultOf
<1>6. /\ added.columns = tbl.columns \cup {"new"}
      /\ added.rows = [r \in DOMAIN amounts[t] |-> [tbl.rows[r] EXCEPT !.new = DefaultOf(t)]]
      /\ added = Table(added.columns, added.rows)
  BY <1>4 DEF WithNewColumn, Table, RowsIn
<1>7. \A r \in DOMAIN amounts[t] :
        /\ added.rows[r] \in Cells
        /\ added.rows[r].old = tbl.rows[r].old
        /\ added.rows[r].new = DefaultOf(t)
  BY <1>4, <1>5, <1>6 DEF Cells
<1> HIDE DEF added, tbl, n
<1>8. added.rows \in [DOMAIN amounts[t] -> Cells]
  BY <1>6, <1>7
<1>9. TableCarried(t, n, added, amounts[t])
  BY <1>1, <1>2, <1>3, <1>6, <1>7, <1>8 DEF TableCarried
<1> QED BY <1>9 DEF added, n

\* Filling the new column makes it say what the rows are worth.
LEMMA FillingCarries ==
  ASSUME MigrationInv, NEW t \in MoneyTables, working.recorded = 7,
         "new" \in working.tables[t].columns
  PROVE  LET tbl == [working.tables[t] EXCEPT !.rows = Filled(working.tables[t].rows)] IN
         /\ TableCarried(t, working.recorded, tbl, amounts[t])
         /\ tbl.columns = working.tables[t].columns
         /\ \A r \in DOMAIN amounts[t] : tbl.rows[r].new = amounts[t][r]
<1> DEFINE tbl == working.tables[t]
           filled == [tbl EXCEPT !.rows = Filled(tbl.rows)]
<1>0. t \in LedgerTables
  BY DEF LedgerTables
<1>1. TableCarried(t, 7, tbl, amounts[t])
  BY <1>0 DEF MigrationInv, DatabaseCarried
<1>2. 7 < Since(t)
  BY <1>0, SinceIsAltered
<1>3. /\ tbl = Table(tbl.columns, tbl.rows)
      /\ tbl.rows \in [DOMAIN amounts[t] -> Cells]
      /\ DOMAIN tbl.rows = DOMAIN amounts[t]
      /\ "new" \in tbl.columns
      /\ \A r \in DOMAIN amounts[t] :
           /\ amounts[t][r] = Worth(t, tbl.rows[r].old)
           /\ tbl.rows[r].old # Null => "old" \in tbl.columns
           /\ tbl.rows[r].old = Null => tbl.rows[r].new = DefaultOf(t)
  BY <1>1, <1>2 DEF TableCarried
<1>4. /\ filled.columns = tbl.columns
      /\ filled.rows = Filled(tbl.rows)
      /\ filled = Table(filled.columns, filled.rows)
  BY <1>3 DEF Table
<1>5. \A r \in DOMAIN amounts[t] :
        /\ filled.rows[r] \in Cells
        /\ filled.rows[r].old = tbl.rows[r].old
        /\ filled.rows[r].new = amounts[t][r]
  <2> SUFFICES ASSUME NEW r \in DOMAIN amounts[t]
               PROVE  /\ filled.rows[r] \in Cells
                      /\ filled.rows[r].old = tbl.rows[r].old
                      /\ filled.rows[r].new = amounts[t][r]
    OBVIOUS
  <2>1. tbl.rows[r] \in Cells
    BY <1>3
  <2>2. filled.rows[r] = IF tbl.rows[r].old = Null THEN tbl.rows[r]
                         ELSE [tbl.rows[r] EXCEPT !.new = Cents(tbl.rows[r].old)]
    BY <1>3, <1>4 DEF Filled
  <2>3. CASE tbl.rows[r].old = Null
    BY <1>3, <2>1, <2>2, <2>3 DEF Worth
  <2>4. CASE tbl.rows[r].old # Null
    <3>1. tbl.rows[r].old \in Int
      BY <2>1, <2>4, MigrationAssumption DEF Cells
    <3>2. amounts[t][r] = Cents(tbl.rows[r].old)
      BY <1>3, <2>4 DEF Worth
    <3> QED BY <2>1, <2>2, <2>4, <3>1, <3>2, CentsType DEF Cells
  <2> QED BY <2>3, <2>4
<1> HIDE DEF filled, tbl
<1>6. filled.rows \in [DOMAIN amounts[t] -> Cells]
  <2>1. DOMAIN filled.rows = DOMAIN amounts[t] /\ filled.rows = [r \in DOMAIN filled.rows |-> filled.rows[r]]
    BY <1>3, <1>4 DEF Filled
  <2> QED BY <1>5, <2>1
<1>7. TableCarried(t, 7, filled, amounts[t])
  <2>1. amounts[t] \in [DOMAIN amounts[t] -> Int \cup {Null}]
    BY <1>1 DEF TableCarried
  <2>2. ~(7 >= Since(t))
    BY <1>0, SinceIsAltered
  <2>3. \A r \in DOMAIN amounts[t] :
          /\ amounts[t][r] = Worth(t, filled.rows[r].old)
          /\ filled.rows[r].old # Null => t \in MoneyTables /\ "old" \in filled.columns
          /\ filled.rows[r].old = Null => filled.rows[r].new = DefaultOf(t)
    <3>1. Worth(t, Null) = DefaultOf(t)
      BY DEF Worth
    <3> QED BY <1>3, <1>4, <1>5, <3>1
  <2> QED BY <1>4, <1>6, <2>1, <2>2, <2>3 DEF TableCarried
<1>8. /\ TableCarried(t, working.recorded, filled, amounts[t])
      /\ filled.columns = tbl.columns
      /\ \A r \in DOMAIN amounts[t] : filled.rows[r].new = amounts[t][r]
  BY <1>4, <1>5, <1>7
<1> QED BY <1>8, Zenon DEF filled, tbl


LEMMA StepInv == MigrationInv /\ [MigrationNext]_openVars => MigrationInv'
<1> SUFFICES ASSUME MigrationInv, [MigrationNext]_openVars
             PROVE  MigrationInv'
  OBVIOUS
<1> USE DEF MigrationInv
\* Steps that leave the tables and what they are worth alone.
<1>a. ASSUME UNCHANGED <<saved, amounts>>, working' \in {working, saved}
      PROVE  /\ amounts' = [t \in LedgerTables |-> amounts'[t]]
             /\ DatabaseCarried(saved', amounts')
             /\ DatabaseCarried(working', amounts')
  BY <1>a
<1>b. ASSUME NEW why, StartFails(why)
      PROVE  MigrationInv'
  <2>1. Position'
    <3>1. held' \in BOOLEAN /\ ~held'
      BY <1>b, Zenon DEF StartFails
    <3> QED BY <1>b, <3>1 DEF StartFails, Position
  <2>2. Progress'
    BY <1>b DEF StartFails, Progress
  <2> QED BY <1>a, <1>b, <2>1, <2>2 DEF StartFails
<1>1. CASE OpenDatabase
  <2>1. Position'
    BY <1>1 DEF OpenDatabase, Position, DatabaseCarried
  <2>2. Progress'
    BY <1>1 DEF OpenDatabase, Progress, Position
  <2> QED BY <1>1, <1>a, <2>1, <2>2 DEF OpenDatabase
<1>2. CASE BeginMigration
  <2>1. Position'
    <3>1. held' \in BOOLEAN /\ held'
      BY <1>2, Zenon DEF BeginMigration
    <3> QED BY <1>2, <3>1 DEF BeginMigration, Position, Begun
  <2>2. Progress'
    BY <1>2 DEF BeginMigration, Progress
  <2> QED BY <1>2, <1>a, <2>1, <2>2 DEF BeginMigration, Begun
<1>3. CASE EndAlter
  <2>1. Position'
    BY <1>3 DEF EndAlter, Position
  <2>2. Progress'
    <3>1. ASSUME version = 8, NEW t \in MoneyTables \ toFill', NEW r \in DOMAIN amounts[t]
          PROVE  working.tables[t].rows[r].new = amounts[t][r]
      <4>1. t \in LedgerTables /\ 7 < Since(t) /\ working.recorded = 7
        BY <1>3, <3>1, SinceIsAltered DEF LedgerTables, EndAlter, Position, DatabaseCarried
      <4>2. TableCarried(t, 7, working.tables[t], amounts[t])
        BY <4>1 DEF DatabaseCarried
      <4>3. "old" \notin working.tables[t].columns
        BY <1>3, <3>1 DEF EndAlter
      <4>4. t \in Altered(8) /\ "new" \in working.tables[t].columns
        BY <1>3, <3>1 DEF EndAlter, Progress, Altered
      <4> QED BY <4>1, <4>2, <4>3, <4>4 DEF TableCarried, Worth
    <3> QED BY <1>3, <3>1 DEF EndAlter, Progress
  <2> QED BY <1>3, <1>a, <2>1, <2>2 DEF EndAlter
<1>4. CASE RecordMigration
  <2> DEFINE db == [working EXCEPT !.recorded = version]
  <2>1. /\ phase = "fill" /\ toFill = {} /\ working' = db /\ saved' = db
        /\ phase' = "between" /\ UNCHANGED <<version, toFill, amounts>>
    BY <1>4 DEF RecordMigration, Executed
  <2>2. /\ db.recorded = version /\ db.tables = working.tables
        /\ db = [recorded |-> db.recorded, tables |-> db.tables]
    BY DEF DatabaseCarried
  <2>3. /\ version = working.recorded + 1 /\ version \in Nat /\ working.recorded \in Nat
    BY <2>1 DEF Position, DatabaseCarried
  <2>4. ASSUME NEW t \in LedgerTables
        PROVE  TableCarried(t, version, working.tables[t], amounts[t])
    <3>1. TableCarried(t, working.recorded, working.tables[t], amounts[t])
      BY DEF DatabaseCarried
    <3>2. Since(t) \in {8, 11}
      BY SinceIsAltered
    <3>3. CASE version # Since(t)
      BY <2>3, <3>1, <3>2, <3>3 DEF TableCarried
    <3>4. CASE version = Since(t)
      <4>1. "new" \in working.tables[t].columns
        BY <2>1, <3>4, SinceIsAltered DEF Progress
      <4>2. CASE t \in MoneyTables
        <5>1. version = 8 /\ ~(version < Since(t))
          BY <2>3, <3>4, <4>2, SinceIsAltered
        <5>2. \A r \in DOMAIN amounts[t] : working.tables[t].rows[r].new = amounts[t][r]
          BY <2>1, <4>2, <5>1 DEF Progress
        <5> QED BY <3>1, <4>1, <5>1, <5>2 DEF TableCarried
      <4>3. CASE t \notin MoneyTables
        <5>1. \A r \in DOMAIN amounts[t] :
                /\ amounts[t][r] = Worth(t, working.tables[t].rows[r].old)
                /\ working.tables[t].rows[r].new = DefaultOf(t)
          BY <2>3, <3>1, <3>4, <4>1, <4>3 DEF TableCarried
        <5> QED BY <2>3, <3>1, <3>4, <4>1, <4>3, <5>1 DEF TableCarried, Worth
      <4> QED BY <4>2, <4>3
    <3> QED BY <3>3, <3>4
  <2>5. DatabaseCarried(db, amounts)
    BY <2>2, <2>3, <2>4 DEF DatabaseCarried
  <2>6. Position'
    <3>1. held' \in BOOLEAN /\ ~held'
      BY <1>4, Zenon DEF RecordMigration, Executed
    <3> QED BY <2>1, <2>2, <2>3, <3>1 DEF Position
  <2>7. Progress'
    BY <2>1 DEF Progress
  <2> HIDE DEF db
  <2> QED BY <2>1, <2>5, <2>6, <2>7
<1>5. CASE Serve
  <2>1. Position'
    BY <1>5 DEF Serve, Position
  <2> QED BY <1>5, <1>a, <2>1 DEF Serve, Progress
<1>6. CASE StopServing
  <2>1. Position'
    BY <1>6 DEF StopServing, Position
  <2> QED BY <1>6, <1>a, <2>1 DEF StopServing, Progress
<1>7. CASE FailStart
  BY <1>7, <1>b DEF FailStart
<1>8. ASSUME NEW t \in LedgerTables, AlterTable(t)
      PROVE  MigrationInv'
  <2>1. /\ phase = "alter" /\ phase' = "alter"
        /\ UNCHANGED <<version, toFill, amounts>>
        /\ toAlter' = toAlter \ {t}
    BY <1>8 DEF AlterTable
  <2>2. CASE "new" \in working.tables[t].columns
    <3>1. UNCHANGED <<saved, working, held>>
      BY <1>8, <2>2 DEF AlterTable
    <3>2. Position'
      BY <2>1, <3>1 DEF Position
    <3>3. Progress'
      BY <2>1, <2>2, <3>1 DEF Progress
    <3> QED BY <1>a, <2>1, <3>1, <3>2, <3>3
  <2>3. CASE "new" \notin working.tables[t].columns
    <3> DEFINE db == [working EXCEPT !.tables[t] = WithNewColumn(t)]
    <3>1. /\ DatabaseCarried(db, amounts)
          /\ db.recorded = working.recorded
          /\ db.tables[t] = WithNewColumn(t)
          /\ \A u \in LedgerTables : u # t => db.tables[u] = working.tables[u]
      <4>1. TableCarried(t, working.recorded, WithNewColumn(t), amounts[t])
        BY <2>3, AddingCarries
      <4> QED BY <4>1, ReplaceTable
    <3>2. "new" \in db.tables[t].columns
      BY <3>1 DEF WithNewColumn, Table
    <3>3. /\ working' = db
          /\ held' = (held /\ engine # "mysql")
          /\ saved' = IF held /\ engine # "mysql" THEN saved ELSE db
      BY <1>8, <2>3 DEF AlterTable, Executed
    <3> HIDE DEF db
    <3>4. /\ held' \in BOOLEAN
          /\ held' => held /\ saved' = saved
          /\ ~held' => saved' = db
      <4>1. CASE held /\ engine # "mysql"
        BY <3>3, <4>1, Zenon
      <4>2. CASE ~(held /\ engine # "mysql")
        BY <3>3, <4>2, Zenon
      <4> QED BY <4>1, <4>2
    <3>5. Position'
      BY <2>1, <3>1, <3>3, <3>4 DEF Position
    <3>6. Progress'
      <4>1. Altered(version) \subseteq LedgerTables
        BY DEF Altered, LedgerTables, MoneyTables
      <4> QED BY <2>1, <3>1, <3>2, <3>3, <4>1 DEF Progress
    <3>7. saved' \in {saved, db}
      BY <3>4
    <3> QED BY <2>1, <3>1, <3>3, <3>5, <3>6, <3>7
  <2> QED BY <2>2, <2>3
<1>9. ASSUME NEW t \in LedgerTables, RefuseColumn(t)
      PROVE  MigrationInv'
  BY <1>9, <1>b DEF RefuseColumn
<1>10. ASSUME NEW t \in LedgerTables, FillColumn(t)
       PROVE  MigrationInv'
  <2>1. /\ phase = "fill" /\ phase' = "fill" /\ t \in toFill
        /\ UNCHANGED <<version, held, amounts>>
        /\ toFill' = toFill \ {t}
    BY <1>10, Zenon DEF FillColumn, Executed
  <2>2. /\ version = 8 /\ working.recorded = 7 /\ t \in MoneyTables
        /\ "new" \in working.tables[t].columns
    <3>1. version = 8 /\ t \in MoneyTables /\ MoneyTables = Altered(8)
      BY <2>1 DEF Progress, Position, Altered
    <3> QED BY <2>1, <3>1 DEF Progress, Position, DatabaseCarried
  <2> DEFINE tbl == [working.tables[t] EXCEPT !.rows = Filled(working.tables[t].rows)]
             db == [working EXCEPT !.tables[t] = tbl]
  <2>3. /\ TableCarried(t, working.recorded, tbl, amounts[t])
        /\ tbl.columns = working.tables[t].columns
        /\ \A r \in DOMAIN amounts[t] : tbl.rows[r].new = amounts[t][r]
    BY <2>2, FillingCarries
  <2>4. /\ working' = db
        /\ saved' = IF held THEN saved ELSE db
    <3>1. [working EXCEPT !.tables[t].rows = Filled(working.tables[t].rows)] = db
      OBVIOUS
    <3> QED BY <1>10, <3>1 DEF FillColumn, Executed
  <2> HIDE DEF tbl
  <2>5. /\ DatabaseCarried(db, amounts)
        /\ db.recorded = working.recorded
        /\ db.tables[t] = tbl
        /\ \A u \in LedgerTables : u # t => db.tables[u] = working.tables[u]
    BY <2>3, ReplaceTable
  <2> HIDE DEF db
  <2>6. saved' \in {saved, db} /\ (~held => saved' = db) /\ (held => saved' = saved)
    BY <2>4
  <2>7. Position'
    BY <2>1, <2>4, <2>5, <2>6 DEF Position
  <2>8. Progress'
    <3>1. MoneyTables \subseteq LedgerTables /\ Altered(version) = MoneyTables
      BY <2>2 DEF LedgerTables, Altered
    <3> QED BY <2>1, <2>2, <2>3, <2>4, <2>5, <3>1 DEF Progress
  <2> QED BY <2>1, <2>4, <2>5, <2>6, <2>7, <2>8
<1>11. ASSUME NEW t \in MoneyTables, NEW r \in RowIds, NEW m \in OldAmounts,
              WriteAmount(t, r, Cents(m))
       PROVE  MigrationInv'
  <2> DEFINE rows == saved.tables[t].rows
             cell == [old |-> IF r \in DOMAIN rows THEN rows[r].old ELSE Null,
                      new |-> Cents(m)]
             with == [q \in DOMAIN rows \cup {r} |-> IF q = r THEN cell ELSE rows[q]]
             tbl == [saved.tables[t] EXCEPT !.rows = with]
             worth == [q \in DOMAIN amounts[t] \cup {r} |->
                         IF q = r THEN Cents(m) ELSE amounts[t][q]]
  <2>1. /\ phase = "serving" /\ UNCHANGED <<phase, version, toFill, held>>
        /\ saved' = [saved EXCEPT !.tables[t] = tbl] /\ working' = saved'
        /\ amounts' = [amounts EXCEPT ![t] = worth]
    <3>1. [saved EXCEPT !.tables[t].rows = with] = [saved EXCEPT !.tables[t] = tbl]
      OBVIOUS
    <3>2. /\ saved' = [saved EXCEPT !.tables[t].rows = with] /\ working' = saved'
          /\ amounts' = [amounts EXCEPT ![t] = worth]
      BY <1>11, Zenon DEF WriteAmount
    <3>3. phase = "serving" /\ UNCHANGED <<phase, version, toFill, held>>
      BY <1>11, Zenon DEF WriteAmount
    <3> QED BY <3>1, <3>2, <3>3
  <2>2. t \in LedgerTables /\ saved.recorded = Latest /\ Latest >= Since(t)
        /\ ~(Latest < Since(t))
    BY <2>1, SinceIsAltered DEF Position, Latest, LedgerTables
  <2>3. /\ saved.tables[t] = Table(saved.tables[t].columns, rows)
        /\ amounts[t] \in [DOMAIN amounts[t] -> Int \cup {Null}]
        /\ rows \in [DOMAIN amounts[t] -> Cells]
        /\ "new" \in saved.tables[t].columns
        /\ \A q \in DOMAIN amounts[t] : rows[q].new = amounts[t][q]
    <3>1. TableCarried(t, Latest, saved.tables[t], amounts[t])
      BY <2>2 DEF DatabaseCarried
    <3> QED BY <2>2, <3>1 DEF TableCarried
  <2>4. Cents(m) \in Int
    BY CentsType, MigrationAssumption
  <2>5. cell \in Cells /\ cell.new = Cents(m)
    BY <2>3, <2>4 DEF Cells
  <2> HIDE DEF cell
  <2>6. /\ tbl.rows = with /\ tbl.columns = saved.tables[t].columns
        /\ tbl = Table(tbl.columns, tbl.rows)
    BY <2>3 DEF Table
  <2>7. TableCarried(t, Latest, tbl, worth)
    <3>1. /\ DOMAIN worth = DOMAIN amounts[t] \cup {r}
          /\ worth \in [DOMAIN worth -> Int \cup {Null}]
      BY <2>3, <2>4
    <3>2. with \in [DOMAIN worth -> Cells]
      BY <2>3, <2>5, <3>1
    <3>3. \A q \in DOMAIN worth : with[q].new = worth[q]
      BY <2>3, <2>5, <3>1
    <3> HIDE DEF worth, with, tbl
    <3> QED BY <2>2, <2>3, <2>6, <3>1, <3>2, <3>3 DEF TableCarried
  <2> HIDE DEF tbl, worth
  <2>8. /\ amounts' = [u \in LedgerTables |-> amounts'[u]]
        /\ amounts'[t] = worth
        /\ \A u \in LedgerTables : u # t => amounts'[u] = amounts[u]
    BY <2>1, <2>2
  <2>9. /\ saved'.recorded = Latest
        /\ saved' = [recorded |-> saved'.recorded, tables |-> saved'.tables]
        /\ saved'.tables = [u \in LedgerTables |-> saved'.tables[u]]
        /\ saved'.tables[t] = tbl
        /\ \A u \in LedgerTables : u # t => saved'.tables[u] = saved.tables[u]
    <3>1. /\ saved'.recorded = saved.recorded
          /\ saved'.tables = [saved.tables EXCEPT ![t] = tbl]
          /\ saved' = [recorded |-> saved'.recorded, tables |-> saved'.tables]
      BY <2>1 DEF DatabaseCarried
    <3> QED BY <2>2, <3>1 DEF DatabaseCarried
  <2>10. DatabaseCarried(saved', amounts')
    BY <2>2, <2>7, <2>8, <2>9 DEF DatabaseCarried, Latest
  <2>11. Position'
    BY <2>1, <2>2, <2>9 DEF Position
  <2>12. Progress'
    BY <2>1 DEF Progress
  <2> QED BY <2>1, <2>8, <2>10, <2>11, <2>12
<1>12. CASE UNCHANGED openVars
  BY <1>12 DEF openVars, Position, Progress, DatabaseCarried
<1> QED
  BY <1>1, <1>2, <1>3, <1>4, <1>5, <1>6, <1>7, <1>8, <1>9, <1>10, <1>11, <1>12
     DEF MigrationNext

-----------------------------------------------------------------------------
(* A server that serves has every amount as it was or as it was last        *)
(* written, for any releases, rows and amounts, and any number of starts    *)
(* and failures, also where half a migration stays.                         *)
THEOREM UpgradesCarryAmounts == MigrationSpec => []AmountsAreCarriedOver
<1>1. MigrationInv => AmountsAreCarriedOver
  <2> SUFFICES ASSUME MigrationInv, phase = "serving", NEW t \in LedgerTables
               PROVE  /\ saved.recorded = Latest
                      /\ "new" \in saved.tables[t].columns
                      /\ amounts[t] = [r \in DOMAIN saved.tables[t].rows |->
                                         saved.tables[t].rows[r].new]
    <3>1. LedgerTables # {}
      BY DEF LedgerTables
    <3> QED BY <3>1, Zenon DEF AmountsAreCarriedOver
  <2>1. saved.recorded = Latest
    BY DEF MigrationInv, Position
  <2>2. TableCarried(t, Latest, saved.tables[t], amounts[t])
    BY <2>1 DEF MigrationInv, DatabaseCarried
  <2>3. Latest >= Since(t)
    BY SinceIsAltered DEF Latest
  <2> QED BY <2>1, <2>2, <2>3 DEF TableCarried
<1> QED BY <1>1, InitInv, StepInv, PTL DEF MigrationSpec

=============================================================================
