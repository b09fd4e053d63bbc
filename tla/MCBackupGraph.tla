---------------------------- MODULE MCBackupGraph ----------------------------
(***************************************************************************)
(* Constants for TLC, and the parts of GraphNext a run confines itself to. *)
(* The rows are those of one user; any user may restore a file.            *)
(***************************************************************************)
EXTENDS BackupGraph

\* One account, one reminder and one transaction.
OneRowPerTable ==
  [i \in Ids |-> CASE i = "a" -> "accounts"
                   [] i = "r" -> "reminders"
                   [] OTHER -> "transactions"]

\* Without edits of profiles the files hold the one there is.
NoEdits == profiles' = 0 /\ \A a \in archives' : a.mail # NoProfile

\* A ledger without reminders, and two files of it.
EntryFiles == GraphNext /\ table'["r"] = NoRow /\ NoEdits

\* A ledger without transactions, a column of its reminder edited, and one
\* file of it, perhaps labelled anew.
ReminderFiles ==
  /\ GraphNext /\ table'["t"] = NoRow /\ NoEdits
  /\ table'["r"] # NoRow => table'["r"].zero \subseteq {"advance_days"}
  /\ \A b, c \in archives' :
       b.version \in {"2.3", "2.4"} /\ b.rows = c.rows /\ b.blobs = c.blobs

\* Profiles and channels of users without a ledger, and one file.
ProfileFiles == GraphNext /\ table' = table /\ Cardinality(archives') <= 1

OneLedger ==
  LET first == CHOOSE u \in Tenants : TRUE IN
  \A i \in Ids : ~Stored(i) /\ restores' = restores =>
                 table'[i] = NoRow \/ table'[i].owner = first

EntryFilesSpec == GraphInit /\ [][EntryFiles /\ OneLedger]_graphVars
=============================================================================
