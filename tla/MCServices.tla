----------------------------- MODULE MCServices -----------------------------
(***************************************************************************)
(* One instance of the services that work in the background, hold secrets  *)
(* or look after the database: automatic backups, scheduled notices,       *)
(* stored credentials, backup files and upgrades.  They share no state     *)
(* that either of them changes, so a behaviour exercises one of them while *)
(* the others rest.                                                        *)
(***************************************************************************)
EXTENDS BackupScheduler, Notifications, Credentials, MCBackupGraph, Migrations

VARIABLE focus  \* the service a behaviour exercises

serviceVars ==
  <<focus, backupVars, noticeVars, credVars, graphVars, openVars>>

\* A reminder and a lending due on the second day, a budget that is exceeded
\* and the yearly report.
OneOfEach ==
  {[owner |-> u, kind |-> kind, day |-> 2, advance |-> 1] :
     u \in Owners, kind \in {"payment", "lending", "budget", "annual"}}

ShortMonths == <<3, 2, 3, 3>>

NoSecrets ==
  /\ entered = [url |-> None, secret |-> None] /\ aiProvider.key = None
  /\ openedBy = {Plain}

\* Of the edits, those that touch a notice the instance may send.
NoticeScenario ==
  /\ NoticeNext
  /\ active' \subseteq active
  /\ \A u \in Owners :
       settings[u].kinds \ settings'[u].kinds \subseteq {i.kind : i \in active}

\* An amount that is rounded, and another to write.
TwoAmounts == {12345, -5}

\* An earlier release left the first of them, in reports and accounts alike.
OneAmount ==
  /\ RowsIn("ai_reports") = RowsIn("accounts")
  /\ \A t \in MoneyTables : \A r \in RowsIn(t) :
       working.tables[t].rows[r].old \in {12345, Null}

NewDatabase == engine = "sqlite" /\ \A t \in LedgerTables : ~Made(saved.tables[t])

ServiceInit ==
  /\ focus \in {"backups", "notices", "credentials", "upgrade",
                "entry files", "reminder files", "profile files"}
  /\ MigrationInit
  /\ IF focus = "upgrade" THEN OneAmount ELSE NewDatabase
  /\ BackupInit /\ NoticeInit /\ CredentialInit /\ GraphInit
  /\ focus # "credentials" => NoSecrets
  /\ {i.kind : i \in active} \in {{"payment", "budget"}, {"lending"}, {"annual"}}
  /\ focus # "notices" => \E i \in active : i.kind = "budget"

RestoreScenario ==
  /\ \/ focus = "entry files" /\ EntryFiles
     \/ focus = "reminder files" /\ ReminderFiles
     \/ focus = "profile files" /\ ProfileFiles
  /\ OneLedger

ServiceNext ==
  /\ UNCHANGED focus
  /\ \/ /\ UNCHANGED <<graphVars, openVars>>
        /\ \/ focus = "backups" /\ BackupNext /\ UNCHANGED <<noticeVars, credVars>>
           \/ focus = "notices" /\ NoticeScenario /\ UNCHANGED <<backupVars, credVars>>
           \/ focus = "credentials" /\ CredentialNext
              /\ UNCHANGED <<backupVars, noticeVars>>
     \/ RestoreScenario /\ UNCHANGED <<backupVars, noticeVars, credVars, openVars>>
     \/ focus = "upgrade" /\ MigrationNext
          /\ UNCHANGED <<backupVars, noticeVars, credVars, graphVars>>

\* The fairness of each service, where it is the one exercised.
ServiceFairness ==
  /\ \A a \in Actors : WF_backupVars(focus = "backups" /\ RunStep(a))
  /\ WF_noticeVars(focus = "notices" /\ CheckStep)
  /\ WF_noticeVars(focus = "notices" /\ TimePasses)

ServiceSpec == ServiceInit /\ [][ServiceNext]_serviceVars /\ ServiceFairness

\* Both schedulers finish what they have to do: see RunsFinish and
\* RetriedUntilSent.
BackgroundWorkEnds ==
  /\ focus = "backups" => RunsFinish
  /\ focus = "notices" => RetriedUntilSent
=============================================================================
