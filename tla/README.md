# PersonalLedger: a TLA+ model of the backend

PersonalLedger is a self-hosted bookkeeping server (Go, `backend/`) with a web
client (`web/`) and a mobile client (`mobile/`). One process serves one user,
"admin", from SQLite, PostgreSQL or MySQL and a directory of uploaded files.
This directory models the parts of the server whose correctness depends on
more than one call: money that moves between rows, sessions that race with each
other, files that have to stay in step with a database, schedulers that compete
with requests, credentials that survive a change of keys, and backups that have
to come back as what they were.

Run everything from this directory:

    tlc -workers 2 -config MCLedger.cfg MCLedger.tla
    tlapm LedgerProofs.tla

## 1. Inventory

State and operations are those of `backend/internal/`; line numbers are in
`PROJECT.json` ("map" and "hazards").

| Component | State it keeps | Operations | What is hard | What makes it correct |
|---|---|---|---|---|
| Accounts, account log (`service/account.go`) | balance, opening balance, archived/deleted, append-only log rows with before/after | create with opening balance, archive, delete, metadata edits | every other component moves its balance | log replays the balance; a deleted account never moves |
| Transactions (`transaction*.go`) | type, two legs, amount, principal/interest, source, link to lending or reminder, soft delete | create, update, delete, batch delete | edit = revert + post; undo goes through lending and reminder; batch is all or nothing | log nets to the row; balance is the sum of the live rows |
| Lendings (`lending.go`) | principal, balance, repaid, settled, repayment records | create, repay, delete, each with or without a transaction | any order of repaying, settling and deleting | owed + repaid = principal; settled means nothing owed |
| Reminders (`reminder.go`) | link to an account, cached balance, totals, paid off | create, update/patch, pay (with or without transaction), delete | cached balance against the account's, relinking between payment and undo | totals cover the payments left; a payment takes its principal |
| Sessions (`auth.go`, `refresh_token.go`, `pkg/jwt`) | password hash, failure count, lock; one row per refresh session | init, login, change password, refresh, browser logout, logout | bcrypt and JWT validation run outside the lock | one successor per token; logout and password change are final; bounded guesses |
| Attachment restore (`backup.go`, `backup_attachments.go`, `backup_attachment_recovery.go`, `attachment_barrier.go`) | marker row; active, stage and previous directories; pending flag | restore, recover at startup | two stores, I/O errors, crash or power loss between any two steps | served files belong to the rows; recovery can always go forward |
| Backup format (`backup.go`, `backup_codec.go`, `backup_json.go`, `backup_guard.go`, `backup_references.go`, `backup_notification.go`) | none; the backup files lie with the user | create, restore | deleted rows, files of old releases, another user's rows, defaults of the schema | a restore gives back what was there; no dangling or foreign reference |
| Uploads, garbage collection (`upload*.go`) | files below the user's directory | upload, attach, delete, collect daily | barrier shared with restore, references in many tables, two uploads of one name | no referenced file is collected; every orphan is |
| Transaction import (`transaction_import.go`) | batch: previewed, validated, committing, committed, rolling_back, rolled_back; fingerprints | preview, validate, commit, rollback | validation outside the transaction, expiry, rows edited by hand | a batch is imported at most once, and undone whole or not at all |
| Backup scheduler (`backup_scheduler.go`) | settings with last run, files | hourly check, manual run, retention, settings | settings read before the lock, failure of the second user, record and then retention | the settings are the user's; the last backup is complete and stays |
| AI reports and scheduler (`ai_report*.go`) | settings with run marks, reports, locks made on demand, usage counters | generate, delete, hourly check, manual run, edit of settings | a lock dropped while another looks it up, reuse while figures change, marks merged after a long run | one generation per report, answers no older than the question, one automatic run a day |
| Notification scheduler (`notification_scheduler.go`) | delivery log keyed by type, channel, key | hourly check, settings | send then record, months of different length | nothing passed over; repeated only when its trace was lost |
| Channels, providers, credentials (`notification.go`, `ai_provider.go`, `credential_*.go`) | endpoint and secret of a channel, key of a provider, keyring | update, start with another keyring, restore of preferences | update is read, then save; a start dies half way | no credential is lost or paired with another endpoint |
| Database, migrations (`database/database.go`) | schema version, columns, rows | open: refuse, migrate version by version | a migration of several statements, three engines, a start that dies half way | every amount survives an upgrade; a start that fails can be repeated |
| Rate limiters (`middleware/rate_limiter.go`) | attempts and locks per address and account, at most 10000; request times | check, record, reset, cleanup | checked before bcrypt and recorded after, eviction, window edges | bounded failures and requests; locks hold |
| API tokens, budgets, categories, tags, templates, family members, system settings, setup | one row each | single-row edits | tag renames recount | - |
| Statistics, export, read snapshots | none | queries | snapshot consistency | - |
| Network clients, money, dates | none | conversion and validation | parsing | - |
| Web client, mobile client | session, request queue | refresh coordination, retry | a late answer of an earlier session | one refresh at a time |

How they interact. Transactions, lendings and reminders all post through
`applyAccountBalanceMutationTx`, inside the one database transaction of the
call. Deleting a transaction calls back into the lending or reminder that owns
it. A restore replaces the rows of all components in one transaction, and takes
the write side of the storage barrier that uploads, attachments, downloads and
garbage collection share. Startup re-encrypts the credentials and runs the
attachment recovery before routes and schedulers start. The schedulers read
what the requests write, each under a lock of its own: `backupMu`, `runMu` and
the map of report locks, `secretMu`. Handlers add no state of their own but the
rate limiters.

## 2. Modules

| Module | Models |
|---|---|
| `Ledger`, `LedgerProperties` | the four money-bearing tables and every call that moves money; its properties |
| `AuthSession` | credentials and refresh sessions |
| `AttachmentRestore` | restore, recovery and uploads |
| `BackupGraph` | what a backup holds and what a restore puts back |
| `UploadFiles` | uploads, the rows that name them, the garbage collector |
| `TransactionImport` | import batches |
| `BackupScheduler` | automatic backups |
| `BackupContract` | what automatic backups promise: the abstract specification `BackupScheduler` implements |
| `AIReports` | generation of reports and its schedule |
| `Notifications` | scheduled notices and their delivery log |
| `Credentials` | credentials at rest |
| `RateLimiters` | the in-memory limiters |
| `Migrations` | opening the database: versions, columns and rows |
| `LedgerProofs`, `LedgerSumProofs` | theorems about `Ledger`: types, logs and deleted accounts; everything that is a sum |
| `AuthSessionProofs`, `AttachmentRestoreProofs`, `TransactionImportProofs` | theorems about the module each is named for |
| `ServiceProofs` | theorems about `BackupScheduler`, `Notifications`, `Credentials`, `BackupGraph`, `Migrations` |
| `PlatformProofs` | theorems about `UploadFiles`, `RateLimiters`, `AIReports` |
| `SumLemmas` | facts about sums over finite sets, for the proofs |
| `MCLedger`, `MCAuthSession`, `MCAttachmentRestore`, `MCTransactionImport`, `MCBackupGraph`, `MCNotifications` | constants, symmetry and restricted next-state relations for TLC |
| `MCServices`, `MCPlatform` | one instance of several services at once |

`MCServices` puts automatic backups, notices, credentials, backup files and
upgrades together, `MCPlatform` the AI reports, uploaded files and limiters. These
components read each other's tables but change no state of each other that a
property looks at; interleaving them would multiply the states and show
nothing, so a behaviour has a `focus`, chosen at the start, and the other
components rest. Where components do change each other's state, they are
composed in one module: money in `Ledger`, uploads and restores in
`AttachmentRestore`, rows, files, collection and restores in `BackupGraph`.

### Ledger

Four functions from ids to rows: `accounts`, `transactions`, `lendings`,
`reminders`. A row is "absent" until its id is drawn, and "deleted" after a soft
delete, because a deleted row is still reachable through a link. The log rows of
an account and the records of a lending are sequences inside their row. An
action is a service call: a call runs in one database transaction that commits
as a whole, so a call that fails is simply not enabled. Deletion is a function
from state to state (`Deleted`), because a batch applies it again and again
inside one transaction; `DeleteBatch` is the composition for two ids.

Three places deserve a note.

* `ReminderService.Create`, `Update` and `Patch` read the linked account's
  balance before their transaction and then compare-and-swap on the reminder's
  `updated_at`. Nothing else of the reminder's depends on the account, so the
  call is the same as one that is atomic at the time of the read.
* Amounts are integers because `money.Amount` is in cents. The bound checks
  of `money` are left out: the small amounts here never reach them.
* Row locks are taken for granted: a transaction is one step. The order in
  which they are taken (and so deadlock) is the subject of a planned module.

Edits that move no money (names, icons, tags, images, categories, sort order,
toggles) are left out, which is why these components are listed as "partly".

### AuthSession

`user` is the users row, `issued` every refresh JWT signed so far (a token is
its index), `live` the ones that have a row. Init, login and change of password
read, run bcrypt, and lock later; refresh and browser logout validate the JWT,
and lock later. Each is therefore a `Begin...` and a `Finish...` action, and
`calls` holds what the request remembers in between. `withAuthUserTransaction`
serialises the second parts, by a mutex on SQLite and by a row lock elsewhere.
`revoked` and `guesses` are history variables that no action reads.

A hash is told apart by its salt: a change to the same password is a new hash.
`FinishInit` counts the users again under `authInitMu`, and `FinishChangePassword`
compares the stored hash with the one it proved: `PasswordChangesAreProven` is
about these two. An initialisation that finds a user is refused, so a second one
that counted none can only be a step that changes nothing.
Left out: the profile columns, access tokens (stateless, and documented to
outlive a logout), tokens from releases before session ids.

### AttachmentRestore

`desired` is the generation of the permanent marker, written by the same
transaction that replaces the rows. `root` holds the active directory and, per
generation, the stage and previous directories. `survivors` is the set of roots
a power loss may leave: the changes made since the last sync of the root may be
lost, from the last one backwards, and a sync leaves the current root only. The
database commit is durable by itself. `pc` is the step of the request or of the
startup recovery under way; everything from `prepareAttachmentRestore` to the
last cleanup runs under the write side of the barrier, so there is one at a
time. `Fault` is an I/O call that fails; every step that makes a call has that
branch, including a rename that succeeds and whose sync fails, a transaction
that commits and reports an error, and a RemoveAll that stops part way
(`Damaged`). `Crash` loses the process, `PowerLoss` the unsynced changes too.

A restore of a backup without a manifest replaces no file and no marker: it is a
stuttering step here. An upload is not synced by the code, so `PowerLoss` resets
`acked`. The outcome of the database transaction is settled when the marker is
read, which holds for the embedded SQLite; with a remote database, a commit may
still land after the connection broke (see the hazard at `backup.go:490`).

### TransactionImport

`batches` is the table of import batches, `transactions` the imported rows of
the ledger, `accounts` what the rows refer to. `Validate`, `Commit` and
`Rollback` hold one mutex (`call`), but are a `Begin`, a `CheckRows` and a
`Finish...` each, because the rows are validated in a transaction of their own;
previews (`uploads`) run beside them, check their rows first and store later.
Between the steps anything may happen: `DeleteTransaction`, `DeleteAccount`,
`RestoreBackup`, `Restart`, `Tick`. The statuses "committing" and "rolling_back"
live and die inside one database transaction and are not states.

A row is its file and its number; that pair is also its fingerprint. Of what is
on a row only the account counts, which stands for categories and members, too.
An edit by hand keeps a row's source and fingerprint and so is no action here;
one that moves a row to another account is left out. The
transaction that stores a preview counts and inserts in one step, which holds
for the embedded SQLite. The amounts and balances are `Ledger`'s.

"undone" is a deletion by a rollback. No action tells it from "deleted"; the
invariant `RollbackIsAllOrNothing` does.

### BackupScheduler and BackupContract

Time is hours; a tick is a channel of capacity one. The timer and the triggers
(`Actors`) compete for `runLock` (backupMu). `job` holds what a run remembers: the
settings as they were before it waited, its number, which is the timestamp in
its file names, and the files made. A run writes one file per user, records
itself (`RecordBackup` merges last_backup only), and then cleans. `Fail` is any
error before the record, with the removal of what was made; a renamed file whose
directory could not be synced is not among it, and a removal may fail. `leaked`
is the history of such files, and of what a restart interrupts.

`BackupContract` knows only what a user sees: the chosen settings, the last
backup, and the runs all of whose files are there. `Choose`, `Complete` and
`Keep` say that settings change by the user's choice only, that the last backup
moves forward to a complete run, and that its files stay. `BackupScheduler`
implements it under `choice <- config`, `last <- last`, `usable <- Usable`.

A manual run reads the settings like the timer does, and a run that waited for
the lock works with settings that are outdated by then. It may make a second
backup within the period: the contract does not forbid that, and no document
does. What it may not do is move the last backup back, take its files, or undo
an edit of the settings.

### AIReports

Generation is one step per lock operation, database call and provider call:
`AskReport`, `Enter` (the entry of the lock map), `Lock`, `Look` (snapshot and
reuse), `Permit`, `Answer`, `Unlock`, `DropReference`. A ledger and a provider
configuration are version numbers, and a report remembers the ones it was made
from. The scheduler's `round` goes through the kinds under `runMu`, and merges
its marks at the end. `automatic` counts, as history, the automatic runs of a
kind on a day, so `OneAutomaticRunPerDay` may allow one more for each restart:
the marks are written only when a round ends.

### Notifications

A check goes user by user, kind by kind, delivery by delivery; the day is read
once. `NoticeDue` is translated with the calendar arithmetic of the code
(`time.Date` overflows a day that a month does not have), `MonthLengths` being
a constant. Sending has three outcomes, taken, refused and failed, and the ones
a sender without a verdict cannot tell apart. `taken` and `lost` are history:
what receivers took, and how often no trace of it was kept, because the process
died between sending and recording or the insert failed.

### Credentials

A ciphertext is a value with the key that opens it. `server` is the phase of a
start: `Start` takes the keyring of the environment, `PrepareSettings` and
`PrepareProviders` read and re-encrypt in memory, each refusing the start when a
value cannot be opened, `WriteSettings` and `WriteProviders` write on the one
transaction of `MigrateStoredCredentials` (`tx`, which nobody else sees),
`CommitMigration` makes it the rows, and `Listen` is the rest of the start. `Stop`
is possible at every phase: a refused or failed write, a failure of a later part
of the start, the death of the process. A commit that took place and is reported
as failed is `CommitMigration` followed by `Stop`.

Settings and providers are one row each here, and a row's two secrets stand for
its six. An update of a channel holds `secretMu`, reads the row, then saves; an
update of a provider reads and saves without a lock. `entered`, `enteredFor` and
`openedBy` are history: what was typed last and acknowledged, for which endpoint
the stored secret was, and the keys of the last start that committed.

### UploadFiles

The barrier is `readers` and `writer`. An upload copies into its final name,
which is visible while it is incomplete (`whole`); attaching checks the paths
and commits under the shared side, which is two steps, since a deletion of a
row and the choice of an avatar do not take the barrier. The collector reads the
references and walks the directory under the exclusive side, one file a step.
`retracted` is the history of paths that were visible during a copy that failed.

### RateLimiters

A login checks its address, then its account, is judged by bcrypt outside, and
is recorded, so logins overlap. Keys expire and are cleaned up; at capacity the
one seen longest ago is evicted, locked or not, which the history forgets with
it. `refusedTill` remembers the lock a key was told of, `allowed` the requests
let through. The code keeps lists of times, appends to them in the order of the
clock and only counts and cuts them by age; a list is therefore how many of its
times fall in each minute (`Number`, `Recent`, `WithNow`), and the last request of
an address is compared with another's by `NoneAfter`.

### BackupGraph

A user's ledger is a graph: rows with a kind, names of other rows, and names of
files. Of the other columns a row has those whose schema default is not the zero
value of their type (`Defaulted`), and `zero` says which of them are zero all the
same. `EditSwitch` sets and clears the ones the application lets its user set.

A row passes a backup and a restore through what the code does to it. `Encoded`
writes it with a deletion time, a null, or, before 2.4 and for account logs, no
such field; `ValidTombstones` refuses a file of the current format without it;
`Decoded` reads a missing field as live; `Created` is gorm's `Create`, which puts
the default where a column is zero; `Updated` is the second write, which restores
the columns of members, budgets and reminders (`WrittenAgain`) on live and deleted
rows. Transactions and reports have defaults too, without a second write: their
source and status are never empty.

`Closed`, `OneOwner`, `FilesKnown` and `Insertable` are the guards of a restore;
`OneOwner` does not look at the owner of account logs, which the insert overwrites.
The profile and the channel change only when the file has a profile. Files of
older releases (`LegacyBackup`) hold the live rows, or all rows without their
deletion state, which come back live, as `docs/architecture/backup-scope.md:42-47`
says; `Relabel` is an owner who labels such a file as 2.4.

A backup is made in one step because creation holds the storage
barrier around one snapshot; a restore is one database transaction here, and its
directories and crashes are `AttachmentRestore`'s. The comment at
`backup_guard.go:11-14` says dangling legacy references remain accepted; the
code refuses a file that omits a row it names, and so does `Closed`.

### Migrations

`saved` is the database: the highest version recorded, and per table its columns
of money ("old" decimals in thousandths, "new" cents) and its rows. `working` is
what the transaction of a migration sees; `held` says whether the engine holds
its changes back until the commit, which MySQL does not once a statement changes
the schema. Three tables stand for the three ways the models declare a column of
cents: with a default (`accounts`), nullable (`reminders`), NOT NULL without a
default (`transactions`); `ai_reports` stands for a column added by itself. Each
statement is a step, and a start fails or the process dies at any of them. The
engine is "sqlite" for PostgreSQL, too: both roll back changes of the schema,
and both refuse a NOT NULL column without a default on a table with rows.
`amounts` is history: what every amount is worth, carried over or written last.

A database from an earlier release has at most one row per table, the old
columns and, from version 8 on, the new ones filled. Renamed, widened and indexed
columns, and drivers' own errors beyond one nondeterministic failure, are left out.

## 3. What the runs check

| Run | Instance | Distinct states | Checks |
|---|---|---|---|
| `ledger` | an asset and a debt account; entries: 2 transactions of 1 or 2, opening 0 or -2; lendings: 4 transactions of 1 to 3 on the debt account; reminders: 3 transactions of 1 or 2, 2 cents paid at most | 272,417 | `LogReplaysBalance`, `LogNetsToTransaction`, `BalanceIsSumOfTransactions`, `RepaidIsSumOfRecords`, `LendingAddsUp`, `TotalsCoverPayments`, `DeletedAccountsFrozen`, `SettledReopensByDeletion` |
| `auth_sessions` | 3 clients, 2 passwords, limit 2, lock of 2 ticks; sessions: 2 requests in flight, 2 hashes, 4 tokens, a clock of 0..1; lockout: 3 in flight, 2 hashes, 2 tokens, a clock of 0..3; passwords: 3 hashes, 1 token, no clock | 1,454,200 | `OneRowPerSession`, `SessionsHaveCurrentPassword`, `PasswordChangesAreProven`, `NoTokenExchangedTwice`, `RevokedFamiliesStayDead`, `GuessesAreBounded` |
| `restore_recovery` | 3 restores, 2 faults, 2 crashes, 2 uploads | 287,590 | `ServedFilesMatchDatabase`, `RecoveryCanGoForward`, `AckedUploadsStay`, `ServerComesBack` |
| `import_batches` | 2 files of 2 rows, 3 batches over time for 2 places, 2 commits, a clock of 0..1, one restored backup | 3,272,674 | `NoRowImportedTwice`, `RollbackIsAllOrNothing`, `UndoWindowIsKept`, `CommitLosesNoRow` |
| `services` | backups: 2 users, timer and one trigger, 2 runs, 4 hours with days of 2, one fault, one edit; notices: a reminder and a budget, a lending, or the yearly report on 2 channels over 2 days, one mishap, one edit; credentials: 2 keys, 2 values, 2 requests, 2 starts, 2 updates; files: 2 users, 2 restores and, by focus, an account and a transaction with one upload and 2 backups, an account and a reminder with its advance and one backup labelled anew, or profiles and channels and one backup; upgrades: releases at version 0, 7, 10 and 12 and an empty database, both engines, one row per table and another amount written, 2 starts, one failure | 406,894 | `KeepsContract`, `NoPartialRun`, `NoticesAreAccounted`, `CredentialsAreKept`, `LastKeysStillOpen`, `LedgerIsWhole`, `RestoreGivesBack`, `MailIsNotRedirected`, `AmountsAreCarriedOver`, `BackgroundWorkEnds` |
| `platform` | reports: one request and the scheduler, 2 kinds, 1 slot, 2 reports, one edit of each kind, one restart, 2 days; uploads: 2 requests, a row and an avatar, one name, 2 uploads, one break, 3 days; limiters: 2 logins, 2 addresses, one account, limit 2, room for one key, 6 minutes | 259,311 | `GenerationsAreCounted`, `AnswersAreFresh`, `OneAutomaticRunPerDay`, `AttachmentRowsHaveFiles`, `CompleteFilesStay`, `LimitsHold`, `LocksHold`, `PlatformWorkEnds` |
| `payment_undo` (violation) | an asset and two debt accounts, a reminder linked to either debt | - | `PaymentLeavesNoTrace` |
| `restore_cleanup` (violation) | 2 restores, 2 faults, 2 crashes | - | `ObsoleteFilesAreRetried` |
| `import_again` (violation) | one file of one row, 2 previews | - | `OfferedRowsAreImportable` |
| `due_date` (violation) | one reminder on the 3rd with 3 days' notice, months of 31, 28, 31 and 30 days | - | `AdvanceNoticeInTime` |
| `backup_refused` (violation) | two users, two backups | - | `BackupsAreRestorable` |
| `upgrade` (violation) | a database of version 7, a row at most in each table, one start | - | `UpgradesSucceed` |

Why the bounds are enough.

* Two accounts are one per convention (asset and debt), and the two legs of a
  transfer. Two transactions are a row that is edited and one that is not, or
  both ids of a batch. Two amounts tell an edit from a repetition. The bound on
  the log rows (4 each, 5 together) allows a transfer and its edit or rollback.
* Four transactions on the lending are the origin, two repayments, and one
  more after a deletion; amounts up to 3 leave a lending partly repaid, settled
  by one or by two repayments, and reopened.
* Two requests are enough for every race between two; the lock
  needs a third (two in flight when the first failure counts, and one that
  began before the lock and ends after it has run out). Three hashes are a password
  and two changes of it, so that a change may be proved against the one before. A clock of 0..3 holds a
  lock period, its end, and a period that straddles it.
* Two files are the same content twice and a different one, two rows a batch
  that is partly invalid, partly duplicate or partly deleted. One tick is enough
  for a batch to expire between two steps of a call and to be renewed by a
  validation.
* Later restores meet what the first left behind; the faults are both
  attempts of a restore and one in the recovery after it.
* Two users' files are what a failing run has to take back; two runs are a
  manual one that finishes while the timer waits, and one to be retained or
  removed (max_backups is 1). Days of two hours, weeks and months of two days
  let all three frequencies fall due within four hours, or not.
* One slot, one room in the map and a limit of two put the limits within reach
  of two callers. Two reports of two kinds are one reused or remade; one edit is
  enough for an answer to be stale.
* A grace of one day within three has a file be too young, old enough, and
  referenced again in between.
* Two users tell a foreign row from one's own; a transaction and its account are
  a row that names a live or a deleted one, of each table that is treated alike;
  two backups are one before and one after a deletion. A reminder has columns that
  may be zero and is restored live or deleted, so one file of it, of this release
  or the one before and perhaps labelled anew, is every way through the codec and
  both writes. A profile needs no rows.
* Version 7 is before cents and has every later migration left, version 10 has
  one left, version 12 is too new, version 0 has tables but no record. Two starts
  are one that dies at any statement and one that finds what it left. The
  amount left is one that is rounded; a request may write it or another.

Deadlock is checked in the authentication run. The other configurations turn
it off: a server nobody calls stops, and so does one at its bounds.

Fairness, stated only where a liveness property needs it.

* `ServerComesBack`: weak fairness of the server's own steps, since a Go request
  or a startup that runs is not abandoned, and of `Startup`, since
  `docker-compose.yml` restarts the container unless it was stopped by hand.
* `RunsFinish` and `RetriedUntilSent` (together `BackgroundWorkEnds`): a run
  that was started goes on; the hourly check and the clock go on.
* `GenerationsEnd` and `OrphansAreCollected` (together `PlatformWorkEnds`): a
  call goes on, the provider answers or times out after 30 seconds, the
  collector and the clock go on; strong fairness for whoever waits for a
  `sync.Mutex` or `sync.RWMutex`, which starve no waiter.

No client step and no fault is fair, and faults and crashes are bounded, which
is what "once the failures end" means.

Every passing property has a mutant in `PROJECT.json`: an operator next to the
definition it would replace, that differs as a plausible bug would. No action
uses them.

## 4. What disagrees with the code's own words

* `payment_undo`: an interest-only payment (principal 0) takes nothing off the
  linked debt, but deleting its transaction gives back its whole amount, because
  `revertReminderPaymentTx` reads a principal of 0 as "not split".
  This is the shortest way to break `PaymentLeavesNoTrace`, and not the only one: a
  payment does not store which debt it reduced, so that when its reminder is linked
  to another debt and the payment is then deleted, the principal is added to that
  other debt and the one that was paid stays reduced. With `principal` restricted to
  the whole amount, the same run ends there; with links that never change as well,
  it ends without an error.
* `restore_cleanup`: a previous directory whose removal failed is retried at
  startup only while the marker names it; after another restore nobody does.
* `import_again`: the check for duplicates does not see deleted transactions, the
  unique index does. After a rollback, the same file is offered as importable
  and every commit of it fails.
* `due_date`: "next month" is computed by adding a month to today, so that on the
  29th to 31st of January it is March, and a reminder for the first days of
  February gives no advance notice in a short year.
* `backup_refused`: a deleted transaction keeps the path of its attachment, the
  collector removes the file, and every backup made from then on names a file
  it does not hold and is refused by a restore.
* `upgrade`: migration 8 adds columns that are NOT NULL without a default. SQLite
  and PostgreSQL refuse that for a table with rows, so a ledger of an earlier
  release that holds a transaction, a budget or a lending cannot be opened. MySQL
  puts zeros there, which the backfill then replaces.

Each is listed under "findings" with the lines it quotes.

## 5. What is proved

`LedgerProofs` (for any accounts, ids, amounts and bounds that satisfy
`LedgerAssumption`):

* `TypeCorrect`: `Spec => []TypeOK`. This carries weight, because the types say
  that a lending's balance and totals are never negative.
* `LogAlwaysReplaysBalance`: `Spec => []LogReplaysBalance`.
* `DeletedAccountsStayFrozen`: `Spec => DeletedAccountsFrozen`.

The inductive invariant is `Inv == Sound(Now)`: every account row is of its type
and its log replays its balance, and the other rows are of their types. Types
and replay are proved together since the step from one log row to the next needs
both. It is a predicate on a state record, so that the lemma about `Deleted`
(`DeletedSound`) can be applied twice for a batch. `PostedSound` is the heart:
one posting keeps an account sound whatever the amount. The frozen accounts need
`TypeOK` and, per action, that every account it posts to was looked up alive.

`LedgerSumProofs` (for any accounts and amounts and any finite set of transaction
ids): everything the run `ledger` checks that is a sum, and two action properties.

* `LogAlwaysNetsToTransaction`: `Spec => []LogNetsToTransaction`,
  `BalanceIsAlwaysSumOfTransactions`: `Spec => []BalanceIsSumOfTransactions`.
* `RepaidIsAlwaysSumOfRecords`: `Spec => []RepaidIsSumOfRecords`,
  `LendingAlwaysAddsUp`: `Spec => []LendingAddsUp`,
  `SettledOnlyReopensByDeletion`: `Spec => SettledReopensByDeletion`.
* `TotalsAlwaysCoverPayments`: `Spec => []TotalsCoverPayments`,
  `PaymentAlwaysTakesItsPrincipal`: `Spec => PaymentTakesItsPrincipal`, which no run
  repeats.

A step of the ledger moves one term of a sum, so each proof names the term.
What the sums need besides is `Rooted`: rows name rows that have been drawn, so
that a fresh transaction is in nobody's log and in nobody's records yet. Without
it a new transaction could find log rows that already carry its id. `Nets`,
`Balances`, `Lent` and `Covers` are the properties of a state record, each kept by
`Deleted`, so that a batch is the same lemma twice. `Lent` takes both properties
of a lending together: its balance and its total move by the same amount, the one
of the record that comes or goes. `Covers` says of a reminder that its totals are
never below what its payments come to, so that taking one off never reaches the
floor at zero of `revertReminderPaymentTx`.

`SumLemmas` is what these and other proofs share. `SumFunctionOnSet` is a fold, which
the library defines by recursion over subsets, and its induction theorems cannot
be instantiated by the provers here. Both facts needed, that the recursion has a
solution and that a sum is the sum of the rest plus one element, are argued with
a smallest counterexample instead: in the order of the naturals (`LeastNumber`) for
the first, among subsets (`SmallestSet`) for the second. `SumTakeOut`, `SumPutIn`
and `SumChange` then say how a sum moves when one element, or one term, does.

`AuthSessionProofs` (for any number of clients, passwords, tokens and periods):

* `TypeCorrect`, `SessionHasOneRow`, `SessionsFollowThePassword`,
  `TokensAreSpentOnce`, `LogoutIsFinal`.
* `GuessesStayBounded`: `Spec => []GuessesAreBounded`.
* `PasswordNeedsProof`: `Spec => PasswordChangesAreProven`.

Of these none but the first and the last is inductive alone. `Inv` adds `Lineage` (a
token's session id is the first token of its family, and a token that was
exchanged has no row), `RevokedWereIssued` (a new family is never revoked yet),
`CallsSound` (a request in flight names a token that was issued, and no login
began before there was a user) and `NoTokenBeforeInit`; `PasswordNeedsProof`
follows from it and the case analysis of `Next`. Opening, continuing and
removing a session are one lemma each; the actions then only say which of them
they do.

The guesses need a second invariant, `GuessesSound`. The count of failures outlives
the lock: once it has reached `MaxFailures` every further wrong password locks
again, so the last guess lies one `LockPeriod` before the end of the last lock, and
no period holds two of them. Before that, the guesses since the last login are
at most the count.

`AttachmentRestoreProofs` (for any number of restores, uploads, I/O faults and
crashes, in particular power losses):

* `FilesFollowTheDatabase`: `Spec => []ServedFilesMatchDatabase`.
* `RecoveryIsNeverStuck`: `Spec => []RecoveryCanGoForward`.
* `UploadsSurvive`: `Spec => []AckedUploadsStay`.

`RestoreInv` is about every root in `survivors`, never about the current one
alone, because a power loss may bring any of them back. `RootsSound` says that
each leads to the desired generation (`Recoverable`): its complete directory is
active, or staged with the way free. `StageIsMade` carries the argument up to the
commit: when the database is about to desire a generation, its staged tree is
complete and synced, so there is one survivor and it holds it. `ForwardIsMade`
carries it afterwards: neither rename runs unless the one before it was synced.
`RowsHaveTheirFiles` says that until the commit the active directory still is the
one of the rows, in every survivor.

`TransactionImportProofs` (for any files, rows and accounts, and any number of
previews, calls, deletions, restores and restarts): all that the run
`import_batches` checks, the types and the limit of the table.

* `TypeCorrect`, `ImportsAreUnique`: `Spec => []NoRowImportedTwice`,
  `RollbacksAreWhole`: `Spec => []RollbackIsAllOrNothing`.
* `UndoWindowHolds`: `Spec => UndoWindowIsKept`, `TableStaysWithinLimit`:
  `Spec => []TableWithinLimit`, `CommitsAreComplete`: `Spec => CommitLosesNoRow`.

`Free` are the batches that may still be committed. `ImportInv` says, of the
ledger and of the backup file alike, that no transaction belongs to a free batch,
that those of a committed batch are exactly the ones it names (`Owned`), that
fingerprints are unique (`Indexed`) and that a batch is undone whole (`Whole`).
Ids come from the number of the commit, so a commit writes where nothing was; a
rollback that finds all its transactions live has found all there are. A call
may hold an outdated copy of its batch, but a rollback does not (`CallIsCurrent`):
that is what the check of the status in the writing transaction is for. The limit
needs that a full table has a batch to evict, and that the oldest of a set of
batches is one of them (`LeastExists`, from the well-foundedness of the naturals).

In `PlatformProofs`, about `UploadFiles` (for any number of requests, rows, names,
uploads and crashes):

* `RowsKeepTheirFiles`: `UploadSpec => []AttachmentRowsHaveFiles`.
* `FilesAreNeverOverwritten`: `UploadSpec => CompleteFilesStay`.

`UploadInv` says what each holder of the barrier may count on. Who is about to
write a reference has seen its file and shares the barrier, so nobody can remove
it (`WritersMayCount`). Who is about to remove a file holds the barrier alone and
has seen that no live row names it, so nobody can come to name it, though rows
may still be deleted and an avatar chosen (`RemoversMayCount`). An upload's
number, its suffix and the file it copies into are its own (`NamesAreOwn`), so a
failed copy takes away nobody else's file.

In `ServiceProofs`, about `BackupGraph` (for any finite set of users, keys and
files, and any number of backups and restores):

* `LedgerStaysWhole`: `GraphSpec => []LedgerIsWhole`.
* `RestoresGiveBack`: `GraphSpec => RestoreGivesBack`, `MailIsNeverRedirected`:
  `GraphSpec => MailIsNotRedirected`.

`GraphInv` adds that every stored row is a row and that the backup files hold
rows only: what a restore inserts comes from a file, and `Closed`, `OneOwner` and
`FilesKnown` are all that is known of it. Most actions leave what rows name
alone (`SameNames`); a restore splits rows into those of the file, whose names
are in the file, and those of other users, whose names are their owner's and so
were not cleared.

`GraphInv` also says what a backup file tells of its rows (`Tells`): their deletion
truly or not at all, whichever release wrote the file and whoever labelled it. So
`ValidTombstones` is what makes a file of the current format give the deletions
back. Of the columns it says that none is zero but those a restore writes again
(`Proper`), without which `Create` would replace it for good. Logs have no
deletion to give back and are never deleted. `RestoresGiveBack` is then the way of
one row through `Encoded`, `Decoded`, `Created` and `Updated`. `MailInv` says that an
address in a profile or in a file is one.

About `BackupScheduler` (for any users, triggers, lengths of day, week and month,
retention limits, faults and edits):

* `SchedulerKeepsContract`: `BackupSpec => KeepsContract`, the refinement of
  `BackupContract`: the initial state maps to its initial state and each action
  to one of its steps or to a stutter.
* `NoPartialRunEver`: `BackupSpec => []NoPartialRun`.

`SchedInv` says of every actor what it holds (`Running`): who writes or cleans has
the lock, its run is the newest there is, and its files are those it made; a run
that cleans was recorded and is `last`. `LastIsUsable` is what the contract needs
of a retention step and of a failure that removes files, and it holds because a
keep limit is positive and the last run is the newest one recorded. `Unstored`
says that settings which were never stored are the default, with no last backup.

About `Migrations` (for any releases, rows and amounts, any number of starts and
failures, and on both kinds of engine):

* `UpgradesCarryAmounts`: `MigrationSpec => []AmountsAreCarriedOver`.

`MigrationInv` holds of the stored database and of what the open transaction sees
alike, because on MySQL the first becomes the second at any statement. By version
(`TableCarried`): before the one that carries a table over, the old column tells
what its rows are worth, and a row without an old value has the default; from it
on, the new column does. `Progress` bridges the two inside version 8: the columns
already filled say what their rows are worth. Filling is only ever done at
version 7, before any request wrote, so that a repeated start overwrites nothing.

About `Notifications` (for any owners, items, channels, days, failures, crashes
and edits):

* `NoticesAreAlwaysAccounted`: `NoticeSpec => []NoticesAreAccounted`.

There is one moment when a message was taken and the log does not know: between
the send and its record. `NoticeInv` says that this is the only one (`Unrecorded`),
so that what is taken there without a record is counted as lost exactly once, and
that a delivery is only ever tried when the log does not call it sent.

About `Credentials` (for any values, keys, requests and starts):

* `CredentialsAreAlwaysKept`: `CredentialSpec => []CredentialsAreKept`.
* `LastKeysAlwaysOpen`: `CredentialSpec => []LastKeysStillOpen`.

`CredInv` adds what a request has in hand: between reading the settings row and
saving it, it holds `secretMu`, so the row it read is the row that is stored; the key
of a provider is under the first key of the ring; and no request outlives the
server. Of a start it says (`StartSound`) that nothing changes under it: what it
commits is what it prepared from the rows as they still are. `OpenInv` adds to
`LastKeysStillOpen` that, from the commit of a start on, its first key is one of
those that open everything, since everything written from then on is under it. That
a running server has a first key comes from `PrimaryIsConfigured`, the lemma about
the ring that a start builds.

About `RateLimiters`, in `PlatformProofs` (for any finite sets of addresses,
accounts and logins, any limits, windows and clock):

* `LimitsAlwaysHold`: `LimiterSpec => []LimitsHold`.
* `LocksAlwaysHold`: `LimiterSpec => LocksHold`.

None of the bounds is inductive alone. A failure is counted by a login that passed
the check earlier, so `FailuresCounted` bounds the failures of a key together with
the logins that may still add one (`Passed`). The requests of a window are bounded
because what was let through within the window is remembered (`Remembers`), also
after a cleanup; the history may hold less than the map, never more. `LocksKept`
says that a lock a key was told of is in the map until it ends, and not shortened
by a second one.

About `AIReports` (for any finite set of requests, any number of reports, versions
of the ledger, days and restarts):

* `GenerationsAreAlwaysCounted`: `AISpec => []GenerationsAreCounted`.
* `AnswersAreAlwaysFresh`: `AISpec => []AnswersAreFresh`.
* `ScheduleRunsOnceADay`: `AISpec => []OneAutomaticRunPerDay`.

The lock of a report is made on demand and dropped with its last reference, so
that two callers could hold two locks of one report. `LockInv` is why they do not:
who uses a lock uses the one the map holds, the references of a lock are its users,
and who is past it is its holder. `CallersFresh` carries the age of the figures from
where they are read to the answer. For the schedule, a kind that is not marked for
a day has run on that day only in the round that is on, or before a restart
(`RunsAreMarked`), and what a round is yet to do is not marked (`RoundIsDue`).

So every invariant and every safety property the passing runs check is a theorem.
The assumptions on constants are those the modules declare; they say that sets of
ids, requests, addresses and keys are finite where something is counted, that
limits are positive, and that the values that stand for "none" are none of the
others.

Only model-checked:

* `ServerComesBack`, `BackgroundWorkEnds`, `PlatformWorkEnds`: liveness under
  fairness is out of this prover's reach, as is ENABLED.
* The runs that end in a violation, which a proof cannot show.

No module declares a RECURSIVE operator.

## 6. Plan

In this order, the most important behaviour first.

1. `Bookkeeping`, an abstract specification (accounts with a balance; a call
   moves balances by a bag of entries, and an undo by its negation), implemented
   by `Ledger` under a refinement mapping that forgets reminders and lendings.
2. `FinanceLocks`: the order of row locks of the money-moving calls on
   PostgreSQL and MySQL, and which pairs of calls can wait on each other.
3. `ClientSession` (refresh coordinator and request queue of the web client,
   controller of the mobile client), `Tags`, `ApiTokens`.

## 7. Not modelled, and why

Codecs and validation of imports and uploads, the limits on the size and number
of records of a backup and the strict reading of its JSON are functions on data
with no state between calls. The wording of notices, reports and prompts, and the
calls to providers and senders beyond their outcome, are outside what a finite
model can say; so is the strength of the encryption. Statistics, export and
handlers read. Budgets, categories, templates, family members, API tokens and
system settings are edits of single rows; a budget and a member appear where
another component reads them. Outside `Migrations`, which has MySQL commit at
changes of the schema, a database transaction is taken to be atomic, isolated
and durable. Screens and views are presentation.
The components of the plan above are listed as not modelled until their module
exists.
