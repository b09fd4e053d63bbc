----------------------------- MODULE BackupGraph -----------------------------
(***************************************************************************)
(* What a backup holds and what a restore puts back: service/backup.go,    *)
(* backup_codec.go, backup_json.go, backup_guard.go, backup_references.go, *)
(* backup_notification.go and the manifest of backup_attachments.go.  A    *)
(* user's ledger is a graph of rows, deleted ones included, that name each *)
(* other and name uploaded files; the collector removes the files that     *)
(* only deleted rows name.                                                 *)
(*                                                                         *)
(* Creation holds the storage barrier around one snapshot, and a restore   *)
(* is one database transaction, so each is one step here.  The directories *)
(* a restore swaps, with its faults and crashes, are in AttachmentRestore. *)
(***************************************************************************)
EXTENDS Integers, FiniteSets

CONSTANTS Tenants,        \* users of the server
          Ids,            \* primary keys, of all tables
          KindOf,         \* the table of each key
          Blobs,          \* uploaded files, by their path below the user's
          Mails, NoMail,  \* e-mail addresses
          MaxArchives, MaxRestores, MaxProfiles      \* bounds

Evidence == {"reminders", "lendings", "transactions", "lending_records"}
Tables == Evidence \cup {"accounts", "categories", "family_members", "budgets",
                         "templates", "tags", "ai_reports", "account_logs"}

ASSUME GraphAssumption ==
  /\ KindOf \in [Ids -> Tables]
  /\ IsFiniteSet(Tenants) /\ IsFiniteSet(Ids) /\ IsFiniteSet(Blobs)
  /\ NoMail \notin Mails
  /\ {MaxArchives, MaxRestores, MaxProfiles} \subseteq Nat

VARIABLES
  table,      \* the row of each key
  directory,  \* the files of each user
  archives,   \* backup files, wherever their owner keeps them
  profile,    \* the e-mail address of each user's profile
  delivery,   \* the e-mail channel of each user, NoChannel if never saved
  restores, profiles

graphVars ==
  <<table, directory, archives, profile, delivery, restores, profiles>>

\* The tables a row of each table names rows of.
NamesRowsOf(kind) ==
  CASE kind \in {"reminders", "lendings"} -> {"accounts"}
    [] kind = "transactions" ->
         {"accounts", "categories", "family_members", "reminders", "lendings"}
    [] kind = "budgets" -> {"categories", "family_members"}
    [] kind = "templates" -> {"accounts", "categories"}
    [] kind = "lending_records" -> {"lendings", "accounts", "transactions"}
    [] kind = "account_logs" ->
         {"accounts", "transactions", "reminders", "lendings"}
    [] OTHER -> {}

\* The columns whose schema default is not the zero value of their type:
\* gorm's Create writes the default where the row has the zero value.
Defaulted(kind) ==
  CASE kind = "family_members" -> {"is_enabled"}
    [] kind = "transactions" -> {"source"}
    [] kind = "budgets" -> {"period", "alert_threshold", "is_active"}
    [] kind = "reminders" -> {"loan_type", "advance_days", "is_enabled"}
    [] kind = "ai_reports" -> {"status"}
    [] OTHER -> {}
Columns == UNION {Defaulted(kind) : kind \in Tables}

\* Those of them the application lets its user set to zero.
Switches(kind) ==
  IF kind \in {"family_members", "reminders"} THEN Defaulted(kind) ELSE {}

Path == [owner : Tenants, blob : Blobs]
NoRow == [owner |-> "nobody"]
\* "zero": the columns of Defaulted that hold the zero value nevertheless.
Row == [owner : Tenants, deleted : BOOLEAN, zero : SUBSET Columns,
        refs : SUBSET Ids, files : SUBSET Path]
NoChannel == [mail |-> FALSE, to |-> NoMail]
Channel == [mail : BOOLEAN, to : Mails \cup {NoMail}]

Stored(i) == table[i] # NoRow
RowsOf(u) == {i \in Ids : Stored(i) /\ table[i].owner = u}
LiveOf(u) == {i \in RowsOf(u) : ~table[i].deleted}

GraphInit ==
  /\ table = [i \in Ids |-> NoRow]
  /\ directory = [u \in Tenants |-> {}] /\ archives = {}
  /\ profile = [u \in Tenants |-> NoMail]
  /\ delivery = [u \in Tenants |-> NoChannel]
  /\ restores = 0 /\ profiles = 0

-----------------------------------------------------------------------------
(* The ledger that is backed up. *)

\* A row is written: what it names is looked up among the user's live rows.
AddRow(u, i, refs) ==
  /\ ~Stored(i)
  /\ \A r \in refs : r \in LiveOf(u) /\ KindOf[r] \in NamesRowsOf(KindOf[i])
  /\ KindOf[i] = "transactions" => \E r \in refs : KindOf[r] = "accounts"
  /\ table' = [table EXCEPT ![i] = [owner |-> u, deleted |-> FALSE,
                 zero |-> {}, refs |-> refs, files |-> {}]]
  /\ UNCHANGED <<directory, archives, profile, delivery, restores, profiles>>

\* A switch is turned off or on, or a number set to zero or to another: a
\* member is only disabled when it is deleted, a reminder may have no advance.
EditSwitch(u, i, c) ==
  /\ i \in LiveOf(u) /\ c \in Switches(KindOf[i])
  /\ \E zero \in {table[i].zero \cup {c}, table[i].zero \ {c}} :
       table' = [table EXCEPT ![i].zero = zero]
  /\ UNCHANGED <<directory, archives, profile, delivery, restores, profiles>>

\* A soft deletion, which keeps the columns of the row.
SoftDelete(u, i) ==
  /\ i \in LiveOf(u) /\ KindOf[i] \notin {"family_members", "account_logs"}
  /\ table' = [table EXCEPT ![i].deleted = TRUE]
  /\ UNCHANGED <<directory, archives, profile, delivery, restores, profiles>>

\* A file is uploaded and its path stored with a row.
AttachFile(u, i, b) ==
  /\ i \in LiveOf(u) /\ KindOf[i] \in Evidence
  /\ table' = [table EXCEPT ![i].files = @ \cup {[owner |-> u, blob |-> b]}]
  /\ directory' = [directory EXCEPT ![u] = @ \cup {b}]
  /\ UNCHANGED <<archives, profile, delivery, restores, profiles>>

\* The files no live row names.
Unreferenced(u) ==
  {b \in directory[u] :
     \A i \in LiveOf(u) : [owner |-> u, blob |-> b] \notin table[i].files}

\* The collector removes those of them that are old enough.
CollectFiles(u) ==
  \E old \in SUBSET Unreferenced(u) \ {{}} :
    /\ directory' = [directory EXCEPT ![u] = @ \ old]
    /\ UNCHANGED <<table, archives, profile, delivery, restores, profiles>>

Editable == profiles < MaxProfiles /\ profiles' = profiles + 1
SaveProfile(u, mail) ==
  /\ Editable /\ profile' = [profile EXCEPT ![u] = mail]
  /\ UNCHANGED <<table, directory, archives, delivery, restores>>
SaveChannel(u, channel) ==
  /\ Editable /\ delivery' = [delivery EXCEPT ![u] = channel]
  /\ UNCHANGED <<table, directory, archives, profile, restores>>

-----------------------------------------------------------------------------
(* Creation. *)

\* A row in a file.  A file of the current format says of each row whether it
\* is deleted; the formats before it have no such field, nor have the logs.
StatesDeletion(version, kind) == version = "2.4" /\ kind # "account_logs"
Encoded(version, kind, row) ==
  [owner    |-> row.owner,
   deletion |-> IF ~StatesDeletion(version, kind) THEN "absent"
                ELSE IF row.deleted THEN "time" ELSE "null",
   zero |-> row.zero, refs |-> row.refs, files |-> row.files]

\* createBackupAttachments: every file of the directory.
Manifest(u) == directory[u]

NoProfile == "no profile"

\* A backup file of some of the rows of u.  "seen" is how they were then, for
\* the properties.
Archive(u, version, held, given, mail) ==
  [source |-> u, version |-> version, given |-> given,
   rows |-> [i \in held |-> Encoded(version, KindOf[i], table[i])],
   blobs |-> IF given THEN Manifest(u) ELSE {}, mail |-> mail,
   seen |-> [i \in held |-> table[i]]]

Keep(a) ==
  /\ a \notin archives /\ Cardinality(archives) < MaxArchives
  /\ archives' = archives \cup {a}
  /\ UNCHANGED <<table, directory, profile, delivery, restores, profiles>>

CreateBackup(u) == Keep(Archive(u, "2.4", RowsOf(u), TRUE, profile[u]))

\* A file a release before 2.4 wrote: earlier ones wrote the live rows, which
\* may name deleted ones, later ones all rows.  2.1 has no files, 2.3 may
\* leave them out, and each may leave out the profile.
LegacyBackup(u, version) ==
  \E given \in BOOLEAN, held \in {LiveOf(u), RowsOf(u)},
     mail \in {profile[u], NoProfile} :
    /\ version = "2.1" => ~given
    /\ version = "2.2" => given
    /\ Keep(Archive(u, version, held, given, mail))

\* The owner labels a file of the last format before 2.4 as one of 2.4.
Relabel(a) == a.version = "2.3" /\ Keep([a EXCEPT !.version = "2.4"])

-----------------------------------------------------------------------------
(* Restore. *)

\* preflightBackupJSON: the versions, and what each may say of files.
ReadableFile(a) ==
  \/ a.version = "2.1" /\ ~a.given
  \/ a.version = "2.2" /\ a.given
  \/ a.version \in {"2.3", "2.4"}

\* validateTombstones: what a row of the current format has to state.
ValidTombstones(a) ==
  \A i \in DOMAIN a.rows :
    StatesDeletion(a.version, KindOf[i]) => a.rows[i].deletion # "absent"

\* normalizeBackupForRestore: every row and every path is the source user's.
\* The owners of logs are not looked at.
OneOwner(a) ==
  \A i \in DOMAIN a.rows :
    /\ KindOf[i] # "account_logs" => a.rows[i].owner = a.source
    /\ \A p \in a.rows[i].files : p.owner = a.source

\* Mutant: rows that name rows the file does not hold are accepted.
ClosedOrDangling(a) == TRUE

\* rejectCrossUserBackupReferences: the file holds every row it names.
Closed(a) == \A i \in DOMAIN a.rows : a.rows[i].refs \subseteq DOMAIN a.rows

\* validateBackupAttachmentMetadataFiles: every file a row names is in the
\* manifest or, without one, in the directory of the user.
FilesKnown(u, a) ==
  \A i \in DOMAIN a.rows : \A p \in a.rows[i].files :
    KindOf[i] \in Evidence => p.blob \in IF a.given THEN a.blobs ELSE directory[u]

\* Primary keys are unique over all users.
Insertable(u, a) == \A i \in DOMAIN a.rows : Stored(i) => table[i].owner = u

AcceptedFile(u, a) ==
  /\ ReadableFile(a) /\ ValidTombstones(a) /\ OneOwner(a) /\ Closed(a)
  /\ FilesKnown(u, a) /\ Insertable(u, a)

\* remapStoredUploadReferenceList: the same files below the directory of u.
Remapped(u, files) == {[owner |-> u, blob |-> p.blob] : p \in files}

\* UnmarshalJSON: a row that states no deletion is a live one.
Decoded(w) ==
  [owner |-> w.owner, deleted |-> w.deletion = "time", zero |-> w.zero,
   refs |-> w.refs, files |-> w.files]

\* Create: the zero values of a new row give way to the defaults.
Created(kind, row) == [row EXCEPT !.zero = @ \ Defaulted(kind)]

\* The columns a restore writes a second time, of every row it created.
WrittenAgain(kind) ==
  CASE kind = "family_members" -> {"is_enabled"}
    [] kind = "budgets" -> {"is_active", "alert_threshold", "period"}
    [] kind = "reminders" -> {"is_enabled", "advance_days", "loan_type"}
    [] OTHER -> {}

\* Mutant: without Unscoped the second write misses the deleted rows.
UpdatedIfLive(kind, created, given) ==
  IF created.deleted THEN created ELSE
  [created EXCEPT !.zero = (@ \ WrittenAgain(kind))
                             \cup (given.zero \cap WrittenAgain(kind))]

\* UpdateColumn(s), Unscoped: deleted rows too.
Updated(kind, created, given) ==
  [created EXCEPT !.zero = (@ \ WrittenAgain(kind))
                             \cup (given.zero \cap WrittenAgain(kind))]

\* A row of a file as it ends up in the ledger of u.
Inserted(u, kind, w) ==
  LET row == [Decoded(w) EXCEPT !.owner = u, !.files = Remapped(u, @)]
  IN Updated(kind, Created(kind, row), row)

\* Mutant: the profile is restored without looking at the channel.
NotPinned(u) == delivery[u]

\* pinNotificationEmailRecipientBeforeProfileRestoreTx: a channel that sends
\* to the address of the profile keeps sending to the address before.
Pinned(u) ==
  IF ~delivery[u].mail \/ delivery[u].to # NoMail THEN delivery[u]
  ELSE IF profile[u] = NoMail THEN [delivery[u] EXCEPT !.mail = FALSE]
  ELSE [delivery[u] EXCEPT !.to = profile[u]]

\* clearUserDataTx, deleted rows too.
Cleared(u) == RowsOf(u)

RestoreBackup(u, a) ==
  /\ restores < MaxRestores /\ restores' = restores + 1
  /\ AcceptedFile(u, a)
  /\ table' = [i \in Ids |->
       IF i \in DOMAIN a.rows THEN Inserted(u, KindOf[i], a.rows[i])
       ELSE IF i \in Cleared(u) THEN NoRow ELSE table[i]]
  /\ directory' = [directory EXCEPT ![u] = IF a.given THEN a.blobs ELSE @]
  /\ IF a.mail = NoProfile THEN UNCHANGED <<profile, delivery>>
     ELSE /\ profile' = [profile EXCEPT ![u] = a.mail]
          /\ delivery' = [delivery EXCEPT ![u] = Pinned(u)]
  /\ UNCHANGED <<archives, profiles>>

GraphNext ==
  \/ \E u \in Tenants, i \in Ids :
       \/ \E refs \in SUBSET Ids : AddRow(u, i, refs)
       \/ \E b \in Blobs : AttachFile(u, i, b)
       \/ \E c \in Columns : EditSwitch(u, i, c)
       \/ SoftDelete(u, i)
  \/ \E u \in Tenants :
       \/ CollectFiles(u)
       \/ CreateBackup(u)
       \/ \E version \in {"2.1", "2.2", "2.3"} : LegacyBackup(u, version)
       \/ \E a \in archives : RestoreBackup(u, a)
       \/ \E mail \in Mails \cup {NoMail} : SaveProfile(u, mail)
       \/ \E channel \in Channel : SaveChannel(u, channel)
  \/ \E a \in archives : Relabel(a)

GraphSpec == GraphInit /\ [][GraphNext]_graphVars

-----------------------------------------------------------------------------
\* Every row is a row of its user, every file one of its directory.
GraphTypeOK ==
  /\ table \in [Ids -> Row \cup {NoRow}]
  /\ directory \in [Tenants -> SUBSET Blobs]
  /\ profile \in [Tenants -> Mails \cup {NoMail}]
  /\ delivery \in [Tenants -> Channel]
  /\ restores \in 0..MaxRestores /\ profiles \in 0..MaxProfiles

\* Every row a row names exists and is the same user's.
ReferencesResolve ==
  \A i \in Ids : Stored(i) =>
    \A r \in table[i].refs : Stored(r) /\ table[r].owner = table[i].owner

\* Every file a live row names is its user's own and is there.
EvidenceIsThere ==
  \A u \in Tenants : \A i \in LiveOf(u) : \A p \in table[i].files :
    p.owner = u /\ p.blob \in directory[u]

\* Whatever is deleted, collected, saved by old and new releases and restored
\* by either user, no row of the ledger names a row or a file that is missing
\* or another user's.
LedgerIsWhole == ReferencesResolve /\ EvidenceIsThere

\* A file that is restored as one of the current format brings back exactly
\* the rows as they were when it was made, live or deleted, with the columns
\* that were zero, whatever happened since and whoever labelled it.
RestoreGivesBack ==
  [][\A u \in Tenants, a \in archives :
       RestoreBackup(u, a) /\ a.version = "2.4" =>
         \A i \in Ids :
           /\ i \in DOMAIN a.seen =>
                table'[i] = [a.seen[i] EXCEPT !.owner = u, !.files =
                               {[owner |-> u, blob |-> p.blob] : p \in @}]
           /\ i \notin DOMAIN a.seen =>
                table'[i] = NoRow \/ table'[i].owner # u]_graphVars

Recipient(u) == IF delivery[u].to # NoMail THEN delivery[u].to ELSE profile[u]

\* Notices that are sent by mail go to the address they went to before a
\* restore, although the restore replaces the address of the profile.
MailIsNotRedirected ==
  [][\A u \in Tenants, a \in archives : RestoreBackup(u, a) /\ delivery'[u].mail =>
       delivery[u].mail /\ Recipient(u)' = Recipient(u)]_graphVars

\* docs/architecture/backup-scope.md on creation: "it cannot emit a file
\* restore would reject".  A file that states no deletions was not created by
\* this release.
BackupsAreRestorable ==
  \A a \in archives : a.version = "2.4" /\ ValidTombstones(a) /\ Insertable(a.source, a) =>
    AcceptedFile(a.source, a)
=============================================================================
