-------------------------- MODULE TransactionImport --------------------------
(***************************************************************************)
(* The import of transactions from a file (service/transaction_import.go): *)
(* a preview stores a batch, which is validated, committed to the ledger   *)
(* and rolled back by later calls, against everything that may happen to   *)
(* the ledger in between: a row or an account is deleted by hand, a backup *)
(* is restored, the process restarts, the batch expires or is evicted.     *)
(*                                                                         *)
(* Validate, Commit and Rollback hold the service's mutex from end to end, *)
(* but read the batch, check its rows and write in three steps of their    *)
(* own; nothing else takes that mutex.  A database transaction is one      *)
(* step, so the statuses "committing" and "rolling_back", set and replaced *)
(* in one transaction, are never seen.                                     *)
(*                                                                         *)
(* A row of a file is known by its file and its number.  What is on it is  *)
(* left out, but for the account it names: an account stands for all that  *)
(* a row refers to.                                                        *)
(***************************************************************************)
EXTENDS Integers, FiniteSets

CONSTANTS
  Files,        \* contents of files, told apart by their digest
  Rows,         \* the numbers of the rows of a file
  Accounts,
  AccountOf,    \* the account each row of each file names
  MaxSessions,  \* batches a user may have, 64 in the code
  PreviewTTL,   \* life of a batch that is not committed, 30 minutes
  RollbackTTL,  \* life of a committed batch, 24 hours
  MaxTime,      \* bound on the clock
  MaxBatches,   \* bound on the previews
  MaxCommits,   \* bound on the commits that succeed
  MaxRestores   \* bound on the backups restored

ASSUME ImportAssumption ==
  /\ AccountOf \in [Files -> [Rows -> Accounts]]
  /\ MaxSessions \in Nat \ {0}
  /\ PreviewTTL \in Nat \ {0} /\ RollbackTTL \in Nat \ {0}
  /\ MaxTime \in Nat /\ MaxBatches \in Nat
  /\ MaxCommits \in Nat /\ MaxRestores \in Nat

VARIABLES
  now,           \* the clock
  accounts,      \* the accounts that are not deleted
  transactions,  \* the imported rows of the transactions table, by id
  batches,       \* the transaction_import_batches table, by id
  previewed,     \* how many previews have begun; a batch id is its number
  uploads,       \* previews whose rows are checked but not stored yet
  call,          \* the call that holds the mutex
  commits,       \* how many commits succeeded
  backup,        \* a backup file the user took
  restores       \* how many backups were restored

vars == <<now, accounts, transactions, batches, previewed, uploads, call,
          commits, backup, restores>>

-----------------------------------------------------------------------------
(* Types.                                                                  *)

BatchIds == 1..MaxBatches

\* A transaction's id is drawn by the commit that creates it.
Ids == (1..MaxCommits) \X Rows

\* A bug to tell from the code: the batch takes part in the fingerprint.
FingerprintPerBatch(b, file, row) == <<file, row, b>>

\* A bug to tell from the code: the file does not take part in it.
FingerprintWithoutFile(b, file, row) == <<row>>

\* The same row of the same file has the same fingerprint in every batch.
Fingerprint(b, file, row) == <<file, row>>

Fingerprints ==
  {Fingerprint(b, f, r) : b \in BatchIds, f \in Files, r \in Rows}
NoFingerprint == <<>>

\* "undone" is "deleted" by a rollback; the code tells no difference, and
\* neither does any action.  "absent" has no row in the table at all.
Absent == [state |-> "absent"]
Transaction ==
  [state: {"live", "deleted", "undone"}, batch: BatchIds, file: Files,
   row: Rows, fingerprint: Fingerprints \cup {NoFingerprint}]

NoBatch == [status |-> "none"]
Open == {"previewed", "validated"}
Batch ==
  [status: Open \cup {"committed", "rolled_back"}, file: Files,
   created: SUBSET Ids, expires: Nat]

Idle == [op |-> "none"]
Call ==
  [op: {"Validate", "Commit", "Rollback"}, stage: {"check", "write"},
   batch: BatchIds, session: Batch, invalid: SUBSET Rows,
   duplicate: SUBSET Rows]

Upload == [id: BatchIds, file: Files, expires: Nat]

NoBackup == [taken |-> FALSE]
Snapshot ==
  [taken: {TRUE}, accounts: SUBSET Accounts,
   transactions: [Ids -> Transaction \cup {Absent}]]

-----------------------------------------------------------------------------
(* What a call sees of the tables.                                         *)

Stored(b) == batches[b] # NoBatch
Unexpired(b) == now < batches[b].expires

AccountAlive(id) ==
  AccountOf[transactions[id].file][transactions[id].row] \in accounts

\* The rows that name something the user no longer has.
InvalidRows(file) == {r \in Rows : AccountOf[file][r] \notin accounts}

\* Deleted transactions are outside the default scope of the query ...
ExistingFingerprints ==
  {transactions[id].fingerprint :
     id \in {i \in Ids : transactions[i].state = "live"}}

DuplicateRows(b, file) ==
  {r \in Rows : Fingerprint(b, file, r) \in ExistingFingerprints}

\* ... but the unique index of the table has their fingerprints, too.
IndexedFingerprints ==
  {transactions[id].fingerprint :
     id \in {i \in Ids : transactions[i] # Absent}} \ {NoFingerprint}

Init ==
  /\ now = 0
  /\ accounts = Accounts
  /\ transactions = [id \in Ids |-> Absent]
  /\ batches = [b \in BatchIds |-> NoBatch]
  /\ previewed = 0
  /\ uploads = {}
  /\ call = Idle
  /\ commits = 0
  /\ backup = NoBackup
  /\ restores = 0

-----------------------------------------------------------------------------
(* Preview: outside the mutex, any number at a time.                       *)

BeginPreview(file) ==
  /\ previewed < MaxBatches
  /\ previewed' = previewed + 1
  /\ uploads' = uploads \cup
       {[id |-> previewed + 1, file |-> file, expires |-> now + PreviewTTL]}
  /\ UNCHANGED <<now, accounts, transactions, batches, call, commits, backup,
                 restores>>

\* A batch is as old as its preview, not as its row.
Oldest(S) == CHOOSE b \in S : \A c \in S : b <= c

\* A bug to tell from the code: the oldest batch goes, whatever its status.
EvictableAny == {b \in BatchIds : Stored(b) /\ Unexpired(b)}

\* A committed batch can still be rolled back, and is never evicted.
Evictable == {b \in BatchIds : /\ Stored(b)
                               /\ Unexpired(b)
                               /\ batches[b].status # "committed"}

\* The batches that leave the table to make room for a new one.
Removed ==
  LET expired == {b \in BatchIds : Stored(b) /\ ~Unexpired(b)}
      active  == {b \in BatchIds : Stored(b) /\ Unexpired(b)}
  IN  IF Cardinality(active) >= MaxSessions
      THEN expired \cup {Oldest(Evictable)}
      ELSE expired

HasRoom ==
  \/ Cardinality({b \in BatchIds : Stored(b) /\ Unexpired(b)}) < MaxSessions
  \/ Evictable # {}

StorePreview(u) ==
  /\ uploads' = uploads \ {u}
  /\ IF HasRoom
     THEN batches' =
            [b \in BatchIds |->
               IF b = u.id
               THEN [status |-> "previewed", file |-> u.file, created |-> {},
                     expires |-> u.expires]
               ELSE IF b \in Removed THEN NoBatch
               ELSE batches[b]]
     ELSE UNCHANGED batches
  /\ UNCHANGED <<now, accounts, transactions, previewed, call, commits,
                 backup, restores>>

-----------------------------------------------------------------------------
(* Validate, Commit and Rollback: one at a time.                           *)

Begin(op, b) ==
  /\ call = Idle
  /\ Stored(b)
  /\ Unexpired(b)
  /\ IF op = "Rollback" THEN batches[b].status = "committed"
                        ELSE batches[b].status \in Open
  /\ call' = [op |-> op, batch |-> b, session |-> batches[b],
              stage |-> IF op = "Rollback" THEN "write" ELSE "check",
              invalid |-> {}, duplicate |-> {}]
  /\ UNCHANGED <<now, accounts, transactions, batches, previewed, uploads,
                 commits, backup, restores>>

CheckRows ==
  /\ call # Idle
  /\ call.stage = "check"
  /\ call' = [call EXCEPT
                !.stage = "write",
                !.invalid = InvalidRows(call.session.file),
                !.duplicate = DuplicateRows(call.batch, call.session.file)]
  /\ UNCHANGED <<now, accounts, transactions, batches, previewed, uploads,
                 commits, backup, restores>>

Writing(op) == call # Idle /\ call.stage = "write" /\ call.op = op

\* The final status is only written over one of the statuses it may follow.
Persisted(session, allowed) ==
  IF Stored(call.batch) /\ batches[call.batch].status \in allowed
  THEN [batches EXCEPT ![call.batch] = session]
  ELSE batches

\* A commit that meets an invalid row is a validation.
FinishValidate ==
  /\ Writing("Validate") \/ (Writing("Commit") /\ call.invalid # {})
  /\ batches' = Persisted([call.session EXCEPT !.status = "validated",
                                               !.expires = now + PreviewTTL],
                          Open)
  /\ call' = Idle
  /\ UNCHANGED <<now, accounts, transactions, previewed, uploads, commits,
                 backup, restores>>

\* The batch is still there, in one of these statuses, and has not expired.
Claimed(allowed) ==
  /\ Stored(call.batch)
  /\ Unexpired(call.batch)
  /\ batches[call.batch].status \in allowed

NewRows == Rows \ call.duplicate

Creatable(row) ==
  /\ AccountOf[call.session.file][row] \in accounts
  /\ Fingerprint(call.batch, call.session.file, row)
       \notin IndexedFingerprints

Created ==
  [id \in {commits + 1} \X NewRows |->
     [state |-> "live", batch |-> call.batch, file |-> call.session.file,
      row |-> id[2],
      fingerprint |-> Fingerprint(call.batch, call.session.file, id[2])]]

CommitStands == Claimed(Open) /\ \A row \in NewRows : Creatable(row)

\* A commit that fails leaves nothing behind, its claim included.
Refused == batches

FinishCommit ==
  /\ Writing("Commit")
  /\ call.invalid = {}
  /\ commits < MaxCommits
  /\ IF CommitStands
     THEN /\ transactions' =
               [id \in Ids |-> IF id \in DOMAIN Created THEN Created[id]
                               ELSE transactions[id]]
          /\ batches' =
               [batches EXCEPT ![call.batch] =
                  [call.session EXCEPT !.status = "committed",
                                       !.created = DOMAIN Created,
                                       !.expires = now + RollbackTTL]]
          /\ commits' = commits + 1
     ELSE /\ batches' = Refused
          /\ UNCHANGED <<transactions, commits>>
  /\ call' = Idle
  /\ UNCHANGED <<now, accounts, previewed, uploads, backup, restores>>

\* A bug to tell from the code: a transaction that is gone is skipped.
UndoableIfFound(id) ==
  transactions[id].state = "live" =>
    transactions[id].fingerprint # NoFingerprint /\ AccountAlive(id)

\* A transaction is deleted with its posting, which needs its account.
Undoable(id) ==
  /\ transactions[id].state = "live"
  /\ transactions[id].fingerprint # NoFingerprint
  /\ AccountAlive(id)

RollbackStands ==
  Claimed({"committed"}) /\ \A id \in call.session.created : Undoable(id)

\* Only a transaction that is not deleted yet is found and deleted.
Undone(ids) ==
  [id \in Ids |-> IF id \in ids /\ transactions[id].state = "live"
                 THEN [transactions[id] EXCEPT !.state = "undone"]
                 ELSE transactions[id]]

FinishRollback ==
  /\ Writing("Rollback")
  /\ IF RollbackStands
     THEN /\ transactions' = Undone(call.session.created)
          /\ batches' =
               [batches EXCEPT ![call.batch] =
                  [call.session EXCEPT !.status = "rolled_back",
                                       !.expires = now + PreviewTTL]]
     ELSE UNCHANGED <<transactions, batches>>
  /\ call' = Idle
  /\ UNCHANGED <<now, accounts, previewed, uploads, commits, backup, restores>>

-----------------------------------------------------------------------------
(* The rest of the ledger, and the process.                                *)

\* An edit by hand keeps the source and the fingerprint: no action for it.
DeleteTransaction(id) ==
  /\ transactions[id].state = "live"
  /\ AccountAlive(id)
  /\ transactions' = [transactions EXCEPT ![id].state = "deleted"]
  /\ UNCHANGED <<now, accounts, batches, previewed, uploads, call, commits,
                 backup, restores>>

\* An account with a balance has to be archived first, which is always
\* possible.
DeleteAccount(a) ==
  /\ a \in accounts
  /\ accounts' = accounts \ {a}
  /\ UNCHANGED <<now, transactions, batches, previewed, uploads, call,
                 commits, backup, restores>>

\* A backup holds the deleted transactions, and no fingerprint.
WithoutFingerprint(t) ==
  IF t = Absent THEN Absent ELSE [t EXCEPT !.fingerprint = NoFingerprint]

TakeBackup ==
  /\ backup = NoBackup
  /\ restores < MaxRestores
  /\ backup' =
       [taken |-> TRUE, accounts |-> accounts,
        transactions |-> [id \in Ids |-> WithoutFingerprint(transactions[id])]]
  /\ UNCHANGED <<now, accounts, transactions, batches, previewed, uploads,
                 call, commits, restores>>

\* Every row of the user's is replaced; the import batches are not.
RestoreBackup ==
  /\ backup # NoBackup
  /\ restores < MaxRestores
  /\ restores' = restores + 1
  /\ accounts' = backup.accounts
  /\ transactions' = backup.transactions
  /\ UNCHANGED <<now, batches, previewed, uploads, call, commits, backup>>

\* What is in memory is lost; the batches are rows and survive.
Restart ==
  /\ call' = Idle
  /\ uploads' = {}
  /\ UNCHANGED <<now, accounts, transactions, batches, previewed, commits,
                 backup, restores>>

Tick ==
  /\ now < MaxTime
  /\ now' = now + 1
  /\ UNCHANGED <<accounts, transactions, batches, previewed, uploads, call,
                 commits, backup, restores>>

Next ==
  \/ \E file \in Files : BeginPreview(file)
  \/ \E u \in uploads : StorePreview(u)
  \/ \E op \in {"Validate", "Commit", "Rollback"}, b \in BatchIds : Begin(op, b)
  \/ CheckRows
  \/ FinishValidate
  \/ FinishCommit
  \/ FinishRollback
  \/ \E id \in Ids : DeleteTransaction(id)
  \/ \E a \in Accounts : DeleteAccount(a)
  \/ TakeBackup
  \/ RestoreBackup
  \/ Restart
  \/ Tick

Spec == Init /\ [][Next]_vars
-----------------------------------------------------------------------------
(* Properties.                                                             *)

\* Every variable has its type; a call in flight names a batch that was
\* read, and a stored batch was previewed.
TypeOK ==
  /\ now \in 0..MaxTime
  /\ accounts \subseteq Accounts
  /\ transactions \in [Ids -> Transaction \cup {Absent}]
  /\ batches \in [BatchIds -> Batch \cup {NoBatch}]
  /\ previewed \in 0..MaxBatches
  /\ uploads \subseteq Upload
  /\ call \in Call \cup {Idle}
  /\ commits \in 0..MaxCommits
  /\ backup \in Snapshot \cup {NoBackup}
  /\ restores \in 0..MaxRestores
  /\ \A b \in BatchIds : Stored(b) => b <= previewed

\* However previews and commits of the same file interleave, no row of it is
\* in the ledger twice: the mutex, the check of the fingerprints and the
\* unique index together.  A row from a backup has lost its fingerprint, and
\* may be imported once more (backup_codec.go leaves it out on purpose).
NoRowImportedTwice ==
  \A i, j \in Ids :
    /\ i # j
    /\ transactions[i].state = "live" /\ transactions[j].state = "live"
    /\ transactions[i].file = transactions[j].file
    /\ transactions[i].row = transactions[j].row
    => NoFingerprint \in {transactions[i].fingerprint,
                          transactions[j].fingerprint}

\* A rollback takes every transaction of its batch or none, whatever was
\* deleted by hand before, and also after a backup was restored.
RollbackIsAllOrNothing ==
  \A i, j \in Ids :
    /\ transactions[i] # Absent /\ transactions[j] # Absent
    /\ transactions[i].batch = transactions[j].batch
    => (transactions[i].state = "undone") <=> (transactions[j].state = "undone")

\* The table never holds more batches than the limit, although previews
\* store without the mutex and a validation may renew a batch that has
\* expired in the meantime.
TableWithinLimit == Cardinality({b \in BatchIds : Stored(b)}) <= MaxSessions

\* The window in which an import can be undone is kept: a committed batch
\* stays as it is until it expires or is rolled back, however many previews
\* and calls on other batches come after it.
UndoWindowIsKept ==
  [][\A b \in BatchIds :
       /\ Stored(b) /\ Unexpired(b) /\ batches[b].status = "committed"
       => \/ batches'[b] = batches[b]
          \/ batches'[b].status = "rolled_back"]_vars

\* A commit that succeeds leaves no row of its file out, and skips one only
\* if its fingerprint is taken: the row is in the ledger, or was until
\* somebody deleted it during the commit.  A backup restored during the
\* commit may take the skipped rows away.
CommitLosesNoRow ==
  [][commits' = commits + 1 /\ restores = 0 =>
       \A r \in Rows : \E id \in Ids :
         /\ transactions'[id] # Absent
         /\ transactions'[id].file = call.session.file
         /\ transactions'[id].row = r]_vars

\* What the preview offers as importable can be imported: no row that was
\* just found valid and new has a fingerprint that the index refuses.
OfferedRowsAreImportable ==
  Writing("Commit") /\ call.invalid = {} =>
    \A r \in Rows \ call.duplicate :
      Fingerprint(call.batch, call.session.file, r) \notin IndexedFingerprints

=============================================================================
