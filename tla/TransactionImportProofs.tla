----------------------- MODULE TransactionImportProofs -----------------------
(***************************************************************************)
(* An import is in the ledger once, and is rolled back whole, for any      *)
(* files, rows and accounts and any number of previews, calls, commits,    *)
(* deletions, restores and restarts.                                       *)
(*                                                                         *)
(* The argument is that a batch that may still be committed owns no        *)
(* transaction, neither in the ledger nor in the backup file, and that a   *)
(* committed one owns exactly those it created.  So what a rollback finds  *)
(* live is all there is of the batch.                                      *)
(***************************************************************************)
EXTENDS TransactionImport, FiniteSetTheorems, WellFoundedInduction, TLAPS

\* Batches that may be committed one day: not yet previewed, not yet stored, or
\* stored and open.
Free ==
  {b \in BatchIds : \/ b > previewed
                    \/ \E u \in uploads : u.id = b
                    \/ batches[b].status \in Open}

\* The transactions of table t were created by one of n commits, none of them
\* for a batch that is free, and those of a committed batch are those it names.
Owned(t, n, free, bt) ==
  /\ \A b \in BatchIds, id \in Ids :
       bt[b].status = "committed" /\ id \in bt[b].created => id[1] <= n
  /\ \A id \in Ids : t[id] # Absent =>
       /\ id[1] <= n
       /\ t[id].batch \notin free
       /\ \A b \in BatchIds : bt[b].status = "committed" =>
            (t[id].batch = b <=> id \in bt[b].created)

\* What the unique index keeps.
Indexed(t) ==
  /\ \A id \in Ids : t[id] # Absent =>
       t[id].fingerprint \in {<<t[id].file, t[id].row>>, NoFingerprint}
  /\ \A i, j \in Ids :
       /\ i # j /\ t[i] # Absent /\ t[j] # Absent
       /\ t[i].fingerprint = t[j].fingerprint
       => t[i].fingerprint = NoFingerprint

Whole(t) ==
  \A i, j \in Ids :
    /\ t[i] # Absent /\ t[j] # Absent
    /\ t[i].batch = t[j].batch
    => (t[i].state = "undone" <=> t[j].state = "undone")

Tables == [Ids -> Transaction \cup {Absent}]

LedgerSound ==
  /\ transactions \in Tables
  /\ Owned(transactions, commits, Free, batches)
  /\ Indexed(transactions)
  /\ Whole(transactions)

BackupSound ==
  backup # NoBackup =>
    /\ backup.transactions \in Tables
    /\ Owned(backup.transactions, commits, Free, batches)
    /\ Indexed(backup.transactions)
    /\ Whole(backup.transactions)

\* A preview that is not stored yet has an id of its own, which no row of the
\* table has had before.
UploadsAreNew ==
  /\ \A u \in uploads : u.id <= previewed /\ batches[u.id] = NoBatch
  /\ \A u, v \in uploads : u.id = v.id => u = v

\* What a call has read of its batch may be outdated, but for a rollback.
CallIsCurrent ==
  call # Idle =>
    /\ call.batch <= previewed
    /\ \A u \in uploads : u.id # call.batch
    /\ call.op = "Rollback" =>
         /\ call.session.status = "committed"
         /\ batches[call.batch] \in {NoBatch, call.session}

ImportInv ==
  /\ TypeOK
  /\ LedgerSound
  /\ BackupSound
  /\ UploadsAreNew
  /\ CallIsCurrent

-----------------------------------------------------------------------------
LEMMA OwnedKept ==
  ASSUME NEW t, NEW n \in Nat, NEW m \in Nat, NEW free, NEW left, NEW bt, NEW bu,
         Owned(t, n, free, bt), n <= m, left \subseteq free, Ids \subseteq Nat \X Rows,
         \A b \in BatchIds : bu[b].status = "committed" =>
           bt[b].status = "committed" /\ bu[b].created = bt[b].created
  PROVE  Owned(t, m, left, bu)
<1>1. ASSUME NEW b \in BatchIds, NEW id \in Ids,
             bu[b].status = "committed", id \in bu[b].created
      PROVE  id[1] <= m
  <2>1. id[1] <= n /\ id[1] \in Nat
    BY <1>1 DEF Owned
  <2> QED
    BY <2>1
<1>2. ASSUME NEW id \in Ids, t[id] # Absent
      PROVE  /\ id[1] <= m
             /\ t[id].batch \notin left
             /\ \A b \in BatchIds : bu[b].status = "committed" =>
                  (t[id].batch = b <=> id \in bu[b].created)
  <2>1. id[1] <= n /\ id[1] \in Nat
    BY <1>2 DEF Owned
  <2>2. t[id].batch \notin left
    BY <1>2 DEF Owned
  <2>3. \A b \in BatchIds : bu[b].status = "committed" =>
          (t[id].batch = b <=> id \in bu[b].created)
    BY <1>2 DEF Owned
  <2> QED
    BY <2>1, <2>2, <2>3
<1> QED
  BY <1>1, <1>2 DEF Owned

LEMMA IdsAreNumbered ==
  /\ Ids \subseteq Nat \X Rows
  /\ \A id \in Ids : id[1] \in Nat /\ id[2] \in Rows /\ id = <<id[1], id[2]>>
BY DEF Ids

LEMMA Counters ==
  ASSUME TypeOK
  PROVE  /\ commits \in Nat /\ previewed \in Nat /\ now \in Nat
         /\ BatchIds \subseteq Nat
BY ImportAssumption DEF TypeOK, BatchIds

LEMMA NoBatchIsNone ==
  /\ NoBatch.status = "none"
  /\ \A s \in Batch : s # NoBatch /\ s.status # "none"
BY DEF NoBatch, Batch, Open

LEMMA PairsAreFingerprints == ASSUME NEW file, NEW row PROVE <<file, row>> # NoFingerprint
<1>1. DOMAIN <<file, row>> = {1, 2} /\ DOMAIN NoFingerprint = {}
  BY DEF NoFingerprint
<1> QED
  BY <1>1

LEMMA PairsAreTold ==
  ASSUME NEW file, NEW row, NEW other, NEW more, <<file, row>> = <<other, more>>
  PROVE  row = more
OBVIOUS

LEMMA CallFields ==
  ASSUME TypeOK, call # Idle
  PROVE  /\ call \in Call /\ call.batch \in BatchIds /\ call.session \in Batch
         /\ call.op \in {"Validate", "Commit", "Rollback"}
         /\ call.session.created \subseteq Ids /\ call.session.file \in Files
         /\ call.duplicate \subseteq Rows
BY DEF TypeOK, Call, Batch

LEMMA TransactionFields ==
  ASSUME NEW t \in Tables, NEW id \in Ids, t[id] # Absent
  PROVE  /\ t[id] \in Transaction /\ t[id].batch \in BatchIds
         /\ t[id].state \in {"live", "deleted", "undone"}
         /\ t[id].file \in Files /\ t[id].row \in Rows
BY DEF Tables, Transaction

\* A step that leaves the ledger, the backup and the commits alone, makes no
\* batch free and none committed, keeps the tables sound.
LEMMA TablesKept ==
  ASSUME ImportInv, UNCHANGED <<transactions, backup>>, Free' \subseteq Free,
         commits' = commits,
         \A b \in BatchIds : batches'[b].status = "committed" =>
           batches[b].status = "committed" /\ batches'[b].created = batches[b].created
  PROVE  LedgerSound' /\ BackupSound'
<1>1. commits \in Nat /\ Ids \subseteq Nat \X Rows
  BY Counters, IdsAreNumbered DEF ImportInv
<1>2. Owned(transactions, commits, Free', batches')
  BY <1>1, OwnedKept DEF ImportInv, LedgerSound
<1>3. backup # NoBackup => Owned(backup.transactions, commits, Free', batches')
  BY <1>1, OwnedKept DEF ImportInv, BackupSound
<1>4. LedgerSound'
  BY <1>2 DEF ImportInv, LedgerSound
<1>5. BackupSound'
  BY <1>3 DEF ImportInv, BackupSound
<1> QED
  BY <1>4, <1>5

LEMMA InitHolds == Init => ImportInv
<1> SUFFICES ASSUME Init PROVE ImportInv
  OBVIOUS
<1>1. TypeOK
  BY ImportAssumption, NoBatchIsNone DEF Init, TypeOK, Stored
<1>2. LedgerSound
  <2>1. \A id \in Ids : transactions[id] = Absent
    BY DEF Init
  <2>2. transactions \in Tables
    BY DEF Init, Tables
  <2>3. \A b \in BatchIds : batches[b].status # "committed"
    BY NoBatchIsNone DEF Init
  <2> QED
    BY <2>1, <2>2, <2>3 DEF LedgerSound, Owned, Indexed, Whole
<1> QED
  BY <1>1, <1>2 DEF Init, ImportInv, BackupSound, UploadsAreNew, CallIsCurrent

-----------------------------------------------------------------------------
LEMMA BeginPreviewHolds ==
  ASSUME ImportInv, NEW file \in Files, BeginPreview(file)
  PROVE  ImportInv'
<1> DEFINE u == [id |-> previewed + 1, file |-> file, expires |-> now + PreviewTTL]
<1> USE DEF ImportInv
<1>1. /\ previewed < MaxBatches /\ previewed' = previewed + 1
      /\ uploads' = uploads \cup {u}
      /\ UNCHANGED <<now, accounts, transactions, batches, call, commits, backup,
                     restores>>
  BY DEF BeginPreview
<1>2. /\ previewed \in Nat /\ previewed + 1 \in BatchIds /\ BatchIds \subseteq Nat
      /\ previewed + 1 \in 0..MaxBatches
  BY <1>1, Counters, ImportAssumption DEF BatchIds
<1>3. u \in Upload /\ u.id = previewed + 1
  BY <1>2, Counters, ImportAssumption DEF Upload
<1>4. batches[previewed + 1] = NoBatch
  BY <1>2, NoBatchIsNone DEF TypeOK, Stored
<1>5. TypeOK'
  BY <1>1, <1>2, <1>3 DEF TypeOK, Stored
<1> HIDE DEF u
<1>6. Free' \subseteq Free
  <2>1. \A b \in BatchIds : b > previewed + 1 \/ b = u.id => b > previewed
    BY <1>2, <1>3
  <2> QED
    BY <1>1, <2>1 DEF Free
<1>7. LedgerSound' /\ BackupSound'
  BY <1>1, <1>6, TablesKept
<1>8. \A v \in uploads : v.id # u.id /\ v.id <= previewed + 1 /\ v.id \in Nat
  <2> SUFFICES ASSUME NEW v \in uploads
               PROVE  v.id # u.id /\ v.id <= previewed + 1 /\ v.id \in Nat
    OBVIOUS
  <2>1. v.id \in Nat /\ v.id <= previewed
    BY <1>2 DEF UploadsAreNew, TypeOK, Upload
  <2> QED
    BY <1>2, <1>3, <2>1
<1>9. UploadsAreNew'
  BY <1>1, <1>2, <1>3, <1>4, <1>8 DEF UploadsAreNew
<1>10. CallIsCurrent'
  <2>1. call # Idle => call.batch \in Nat /\ call.batch <= previewed
    BY <1>2, CallFields DEF CallIsCurrent
  <2> QED
    BY <1>1, <1>2, <1>3, <2>1 DEF CallIsCurrent
<1> QED
  BY <1>5, <1>7, <1>9, <1>10

LEMMA StorePreviewHolds ==
  ASSUME ImportInv, NEW u \in uploads, StorePreview(u)
  PROVE  ImportInv'
<1> USE DEF ImportInv
<1>1. /\ uploads' = uploads \ {u}
      /\ UNCHANGED <<now, accounts, transactions, previewed, call, commits, backup,
                     restores>>
  BY DEF StorePreview
<1>2. /\ u \in Upload /\ u.id \in BatchIds /\ u.file \in Files /\ u.expires \in Nat
      /\ u.id <= previewed /\ batches[u.id] = NoBatch
  BY DEF TypeOK, Upload, UploadsAreNew
<1>3. PICK s \in Batch : s.status = "previewed" /\
        \A b \in BatchIds :
          batches'[b] \in IF b = u.id THEN {NoBatch, s} ELSE {NoBatch, batches[b]}
  <2> DEFINE s == [status |-> "previewed", file |-> u.file, created |-> {},
                   expires |-> u.expires]
  <2>1. s \in Batch
    BY <1>2 DEF Batch, Open
  <2>2. \A b \in BatchIds :
          batches'[b] \in IF b = u.id THEN {NoBatch, s} ELSE {NoBatch, batches[b]}
    BY <1>2 DEF StorePreview
  <2> QED
    BY <2>1, <2>2
<1>4. batches' \in [BatchIds -> Batch \cup {NoBatch}]
  <2>1. \A b \in BatchIds : batches'[b] \in Batch \cup {NoBatch}
    BY <1>3 DEF TypeOK
  <2>2. batches' = [b \in BatchIds |-> batches'[b]]
    BY DEF StorePreview, TypeOK
  <2> QED
    BY <2>1, <2>2
<1>5. TypeOK'
  <2>1. \A b \in BatchIds : Stored(b)' => b <= previewed
    BY <1>2, <1>3 DEF TypeOK, Stored
  <2> QED
    BY <1>1, <1>4, <2>1 DEF TypeOK, Stored
<1>6. Free' \subseteq Free
  BY <1>1, <1>3, NoBatchIsNone DEF Free, Open
<1>7. \A b \in BatchIds : batches'[b].status = "committed" =>
        batches[b].status = "committed" /\ batches'[b].created = batches[b].created
  BY <1>3, NoBatchIsNone
<1>8. LedgerSound' /\ BackupSound'
  BY <1>1, <1>6, <1>7, TablesKept
<1>9. UploadsAreNew'
  <2>1. \A v \in uploads \ {u} : v.id \in BatchIds /\ v.id # u.id
    BY DEF UploadsAreNew, TypeOK, Upload
  <2>2. \A v \in uploads \ {u} : batches'[v.id] = NoBatch
    BY <1>3, <2>1 DEF UploadsAreNew
  <2> QED
    BY <1>1, <2>2 DEF UploadsAreNew
<1>10. CallIsCurrent'
  <2>1. call # Idle => call.batch # u.id /\ call.batch \in BatchIds
    BY CallFields DEF CallIsCurrent
  <2>2. call # Idle => batches'[call.batch] \in {NoBatch, batches[call.batch]}
    BY <1>3, <2>1
  <2> QED
    BY <1>1, <2>2 DEF CallIsCurrent
<1> QED
  BY <1>5, <1>8, <1>9, <1>10

-----------------------------------------------------------------------------
LEMMA BeginHolds ==
  ASSUME ImportInv, NEW op \in {"Validate", "Commit", "Rollback"}, NEW b \in BatchIds,
         Begin(op, b)
  PROVE  ImportInv'
<1> USE DEF ImportInv
<1>1. /\ UNCHANGED <<now, accounts, transactions, batches, previewed, uploads,
                     commits, backup, restores>>
      /\ Stored(b) /\ (op = "Rollback" => batches[b].status = "committed")
      /\ call' = [op |-> op, batch |-> b, session |-> batches[b],
                  stage |-> IF op = "Rollback" THEN "write" ELSE "check",
                  invalid |-> {}, duplicate |-> {}]
  BY DEF Begin
<1>2. batches[b] \in Batch /\ b <= previewed
  BY <1>1 DEF TypeOK, Stored
<1>3. call' \in Call
  BY <1>1, <1>2 DEF Call
<1>4. TypeOK'
  BY <1>1, <1>3 DEF TypeOK, Stored
<1>5. Free' \subseteq Free
  BY <1>1 DEF Free
<1>6. LedgerSound' /\ BackupSound'
  BY <1>1, <1>5, TablesKept
<1>7. UploadsAreNew' /\ CallIsCurrent'
  BY <1>1, <1>2 DEF UploadsAreNew, CallIsCurrent, Stored
<1> QED
  BY <1>4, <1>6, <1>7

LEMMA CheckRowsHolds == ImportInv /\ CheckRows => ImportInv'
<1> SUFFICES ASSUME ImportInv, CheckRows PROVE ImportInv'
  OBVIOUS
<1> USE DEF ImportInv
<1>1. /\ UNCHANGED <<now, accounts, transactions, batches, previewed, uploads,
                     commits, backup, restores>>
      /\ call # Idle
      /\ call' = [call EXCEPT
                    !.stage = "write",
                    !.invalid = InvalidRows(call.session.file),
                    !.duplicate = DuplicateRows(call.batch, call.session.file)]
  BY DEF CheckRows
<1>2. /\ InvalidRows(call.session.file) \subseteq Rows
      /\ DuplicateRows(call.batch, call.session.file) \subseteq Rows
  BY DEF InvalidRows, DuplicateRows
<1>3. call' \in Call /\ call'.op = call.op /\ call'.batch = call.batch
      /\ call'.session = call.session
  BY <1>1, <1>2, CallFields DEF Call
<1>4. TypeOK'
  BY <1>1, <1>3 DEF TypeOK, Stored
<1>5. Free' \subseteq Free
  BY <1>1 DEF Free
<1>6. LedgerSound' /\ BackupSound'
  BY <1>1, <1>5, TablesKept
<1>7. UploadsAreNew' /\ CallIsCurrent'
  BY <1>1, <1>3 DEF UploadsAreNew, CallIsCurrent
<1> QED
  BY <1>4, <1>6, <1>7

LEMMA FinishValidateHolds == ImportInv /\ FinishValidate => ImportInv'
<1> SUFFICES ASSUME ImportInv, FinishValidate PROVE ImportInv'
  OBVIOUS
<1> USE DEF ImportInv
<1>1. /\ call # Idle /\ call' = Idle
      /\ UNCHANGED <<now, accounts, transactions, previewed, uploads, commits, backup,
                     restores>>
  BY DEF FinishValidate, Writing
<1>2. PICK s \in Batch : s.status = "validated" /\ batches' = Persisted(s, Open)
  <2>1. call.session \in Batch /\ now + PreviewTTL \in Nat
    BY <1>1, CallFields, Counters, ImportAssumption
  <2>2. [call.session EXCEPT !.status = "validated", !.expires = now + PreviewTTL]
          \in Batch
    BY <2>1 DEF Batch, Open
  <2>3. [call.session EXCEPT !.status = "validated",
                             !.expires = now + PreviewTTL].status = "validated"
    BY <2>1 DEF Batch
  <2> QED
    BY <2>2, <2>3 DEF FinishValidate
<1>3. call.batch \in BatchIds
  BY <1>1, CallFields
<1>4. CASE Stored(call.batch) /\ batches[call.batch].status \in Open
  <2>1. batches' = [batches EXCEPT ![call.batch] = s]
    BY <1>2, <1>4 DEF Persisted
  <2>2. /\ batches' \in [BatchIds -> Batch \cup {NoBatch}]
        /\ batches'[call.batch] = s
        /\ \A b \in BatchIds : b # call.batch => batches'[b] = batches[b]
    BY <1>3, <2>1 DEF TypeOK
  <2>3. TypeOK'
    BY <1>1, <1>4, <2>2 DEF TypeOK, Stored
  <2>4. Free' \subseteq Free
    BY <1>1, <1>4, <2>2 DEF Free
  <2>5. LedgerSound' /\ BackupSound'
    BY <1>1, <1>2, <2>2, <2>4, TablesKept
  <2>6. UploadsAreNew'
    <3>1. \A u \in uploads : u.id # call.batch /\ u.id \in BatchIds
      BY <1>1 DEF CallIsCurrent, TypeOK, Upload
    <3> QED
      BY <1>1, <2>2, <3>1 DEF UploadsAreNew
  <2> QED
    BY <1>1, <2>3, <2>5, <2>6 DEF CallIsCurrent
<1>5. CASE ~(Stored(call.batch) /\ batches[call.batch].status \in Open)
  <2>1. batches' = batches
    BY <1>2, <1>5 DEF Persisted
  <2>2. TypeOK' /\ UploadsAreNew' /\ CallIsCurrent'
    BY <1>1, <2>1 DEF TypeOK, Stored, UploadsAreNew, CallIsCurrent
  <2>3. Free' \subseteq Free
    BY <1>1, <2>1 DEF Free
  <2> QED
    BY <1>1, <2>1, <2>2, <2>3, TablesKept
<1> QED
  BY <1>4, <1>5

\* What a commit creates: a row that is new has no transaction yet, and the
\* index refuses the fingerprints it has.
LEMMA FinishCommitHolds == ImportInv /\ FinishCommit => ImportInv'
<1> SUFFICES ASSUME ImportInv, FinishCommit PROVE ImportInv'
  OBVIOUS
<1> USE DEF ImportInv
<1>1. /\ call # Idle /\ call' = Idle /\ commits < MaxCommits
      /\ UNCHANGED <<now, accounts, previewed, uploads, backup, restores>>
  BY DEF FinishCommit, Writing
<1>2. /\ call.batch \in BatchIds /\ call.session \in Batch
      /\ call.session.file \in Files /\ call.duplicate \subseteq Rows
  BY <1>1, CallFields
<1>3. CASE ~CommitStands
  <2>1. UNCHANGED <<transactions, batches, commits>>
    BY <1>3 DEF FinishCommit, Refused
  <2>2. TypeOK' /\ UploadsAreNew' /\ CallIsCurrent'
    BY <1>1, <2>1 DEF TypeOK, Stored, UploadsAreNew, CallIsCurrent
  <2>3. Free' \subseteq Free
    BY <1>1, <2>1 DEF Free
  <2> QED
    BY <1>1, <2>1, <2>2, <2>3, TablesKept
<1>4. CASE CommitStands
  <2> DEFINE b == call.batch
             new == {commits + 1} \X NewRows
             old == Ids \ new
  <2>1. /\ Stored(b) /\ batches[b].status \in Open /\ commits' = commits + 1
        /\ \A row \in NewRows : <<call.session.file, row>> \notin IndexedFingerprints
    BY <1>4 DEF CommitStands, Claimed, Creatable, FinishCommit, Fingerprint
  <2>2. /\ commits \in Nat /\ commits + 1 \in 1..MaxCommits /\ NewRows \subseteq Rows
        /\ new \subseteq Ids
    BY <1>1, Counters, ImportAssumption DEF NewRows, Ids
  <2>3. PICK t : t = transactions
    OBVIOUS
  <2>4. PICK q : q = transactions'
    OBVIOUS
  <2>5. t \in Tables
    BY <2>3 DEF LedgerSound
  <2>6. /\ DOMAIN Created = new
        /\ q = [id \in Ids |-> IF id \in new THEN Created[id] ELSE t[id]]
    BY <1>4, <2>3, <2>4 DEF FinishCommit, Created
  <2>7. \A id \in new :
          /\ q[id] \in Transaction /\ q[id] # Absent
          /\ q[id].state = "live" /\ q[id].batch = b
          /\ q[id].fingerprint = <<q[id].file, q[id].row>>
          /\ <<q[id].file, q[id].row>> \notin IndexedFingerprints /\ q[id].row = id[2]
    <3> SUFFICES ASSUME NEW id \in new
                 PROVE  /\ q[id] \in Transaction /\ q[id] # Absent
                        /\ q[id].state = "live" /\ q[id].batch = b
                        /\ q[id].fingerprint = <<q[id].file, q[id].row>>
                        /\ <<q[id].file, q[id].row>> \notin IndexedFingerprints
                        /\ q[id].row = id[2]
      OBVIOUS
    <3>1. id[2] \in NewRows /\ id[2] \in Rows
      BY <2>2
    <3>2. q[id] = [state |-> "live", batch |-> b, file |-> call.session.file,
                   row |-> id[2], fingerprint |-> <<call.session.file, id[2]>>]
      BY <2>2, <2>6 DEF Created, Fingerprint
    <3>3. <<call.session.file, id[2]>> \in Fingerprints
      BY <1>2, <3>1 DEF Fingerprints, Fingerprint
    <3>4. q[id] \in Transaction
      BY <1>2, <3>1, <3>2, <3>3 DEF Transaction
    <3>5. q[id] # Absent
      BY <3>2 DEF Absent
    <3> QED
      BY <2>1, <3>1, <3>2, <3>4, <3>5
  <2>8. \A id \in old : q[id] = t[id]
    BY <2>6
  <2>9. q \in Tables
    BY <2>5, <2>6, <2>7, <2>8 DEF Tables
  <2>10. PICK s \in Batch : /\ s.status = "committed" /\ s.created = new
                           /\ batches' = [batches EXCEPT ![b] = s]
    <3> DEFINE s == [call.session EXCEPT !.status = "committed", !.created = new,
                                         !.expires = now + RollbackTTL]
    <3>1. now + RollbackTTL \in Nat
      BY Counters, ImportAssumption
    <3>2. s \in Batch /\ s.status = "committed" /\ s.created = new
      BY <1>2, <2>2, <3>1 DEF Batch
    <3>3. batches' = [batches EXCEPT ![b] = s]
      BY <1>4, <2>6 DEF FinishCommit
    <3> QED
      BY <3>2, <3>3
  <2>11. /\ batches' \in [BatchIds -> Batch \cup {NoBatch}] /\ batches'[b] = s
         /\ \A c \in BatchIds : c # b => batches'[c] = batches[c]
    BY <1>2, <2>10 DEF TypeOK
  <2>12. b \in Free /\ Free' \subseteq Free /\ b \notin Free'
    <3>1. b \in Free
      BY <1>2, <2>1 DEF Free
    <3>2. b <= previewed /\ \A u \in uploads : u.id # b
      BY <1>1 DEF CallIsCurrent
    <3>3. ~(b > previewed)
      BY <1>2, <3>2, Counters
    <3> QED
      BY <1>1, <1>2, <2>1, <2>10, <2>11, <3>1, <3>2, <3>3 DEF Free, Open
  <2>20. /\ new \subseteq Ids /\ old = Ids \ new
         /\ \A id \in new : id[1] = commits + 1
    BY <2>2
  <2>21. \A i, j \in new : i # j => q[i].row # q[j].row
    <3>1. \A i \in new : q[i].row = i[2]
      BY ONLY <2>7
    <3>2. \A i, j \in new : i[2] = j[2] => i = j
      OBVIOUS
    <3> HIDE DEF new
    <3> QED
      BY Zenon, <3>1, <3>2
  <2>22. \A i \in new : /\ q[i] # Absent /\ q[i].batch = b
                        /\ q[i].fingerprint = <<q[i].file, q[i].row>>
                        /\ q[i].fingerprint \notin IndexedFingerprints \cup {NoFingerprint}
    <3>1. \A i \in new : /\ q[i] # Absent /\ q[i].batch = b
                         /\ q[i].fingerprint = <<q[i].file, q[i].row>>
                         /\ q[i].fingerprint \notin IndexedFingerprints
      BY Zenon, <2>7
    <3> HIDE DEF new
    <3> QED
      BY Zenon, <3>1, PairsAreFingerprints
  <2> HIDE DEF b, new, old
  <2>13. Owned(q, commits + 1, Free', batches')
    <3>1. Owned(t, commits + 1, Free', batches)
      BY <2>2, <2>3, <2>12, OwnedKept, IdsAreNumbered DEF LedgerSound
    <3>3. \A c \in BatchIds, id \in Ids :
            batches[c].status = "committed" /\ id \in batches[c].created => id \notin new
      <4>1. \A c \in BatchIds, id \in Ids :
              batches[c].status = "committed" /\ id \in batches[c].created =>
                id[1] <= commits
        BY DEF LedgerSound, Owned
      <4> QED
        BY <2>2, <2>20, <4>1
    <3>4. ASSUME NEW id \in Ids, q[id] # Absent
          PROVE  /\ id[1] <= commits + 1
                 /\ q[id].batch \notin Free'
                 /\ \A c \in BatchIds : batches'[c].status = "committed" =>
                      (q[id].batch = c <=> id \in batches'[c].created)
      <4>1. CASE id \in new
        BY <2>2, <2>10, <2>11, <2>12, <2>20, <2>22, <3>3, <4>1
      <4>2. CASE id \notin new
        <5>1. q[id] = t[id] /\ t[id].batch \notin Free /\ t[id].batch # b
          BY <2>3, <2>8, <2>12, <2>20, <3>4, <4>2 DEF LedgerSound, Owned
        <5> QED
          BY <2>10, <2>11, <3>1, <3>4, <4>2, <5>1 DEF Owned
      <4> QED
        BY <4>1, <4>2
    <3>5. ASSUME NEW c \in BatchIds, NEW id \in Ids,
                 batches'[c].status = "committed", id \in batches'[c].created
          PROVE  id[1] <= commits + 1
      <4>1. CASE c = b
        BY <2>2, <2>10, <2>11, <2>20, <3>5, <4>1
      <4>2. CASE c # b
        BY <2>11, <3>1, <3>5, <4>2 DEF Owned
      <4> QED
        BY <4>1, <4>2
    <3> QED
      BY <3>4, <3>5 DEF Owned
  <2>14. Indexed(q)
    <3>1. Indexed(t)
      BY <2>3 DEF LedgerSound
    <3>2. \A i \in old : t[i] # Absent =>
            t[i].fingerprint \in IndexedFingerprints \cup {NoFingerprint}
      BY <2>3, <2>20 DEF IndexedFingerprints
    <3>5. \A i \in Ids : q[i] # Absent =>
            q[i].fingerprint \in {<<q[i].file, q[i].row>>, NoFingerprint}
      BY <2>7, <2>8, <2>20, <3>1 DEF Indexed
    <3>6. ASSUME NEW i \in Ids, NEW j \in Ids, i # j, q[i] # Absent, q[j] # Absent,
                 q[i].fingerprint = q[j].fingerprint
          PROVE  q[i].fingerprint = NoFingerprint
      <4>1. CASE i \in new /\ j \in new
        <5>1. q[i].fingerprint = <<q[i].file, q[i].row>>
              /\ q[j].fingerprint = <<q[j].file, q[j].row>>
          BY <2>7, <4>1
        <5>2. q[i].row = q[j].row
          BY Zenon, <3>6, <5>1, PairsAreTold
        <5> QED
          BY <2>21, <3>6, <4>1, <5>2
      <4>2. CASE i \in new /\ j \in old
        <5>1. q[i].fingerprint \notin IndexedFingerprints \cup {NoFingerprint}
          BY <2>22, <4>2
        <5> QED
          BY <2>8, <3>2, <3>6, <4>2, <5>1
      <4>3. CASE i \in old /\ j \in new
        <5>1. q[j].fingerprint \notin IndexedFingerprints \cup {NoFingerprint}
          BY <2>22, <4>3
        <5> QED
          BY <2>8, <3>2, <3>6, <4>3, <5>1
      <4>4. CASE i \in old /\ j \in old
        BY <2>8, <2>20, <3>1, <3>6, <4>4 DEF Indexed
      <4> QED
        BY <2>20, <4>1, <4>2, <4>3, <4>4
    <3> QED
      BY <3>5, <3>6 DEF Indexed
  <2>15. Whole(q)
    <3>1. \A i \in old : t[i] # Absent => t[i].batch # b
      BY <2>3, <2>12, <2>20 DEF LedgerSound, Owned
    <3>2. Whole(t)
      BY <2>3 DEF LedgerSound
    <3> SUFFICES ASSUME NEW i \in Ids, NEW j \in Ids, q[i] # Absent, q[j] # Absent,
                        q[i].batch = q[j].batch
                 PROVE  q[i].state = "undone" <=> q[j].state = "undone"
      BY DEF Whole
    <3>3. CASE i \in new /\ j \in new
      BY <2>7, <3>3
    <3>4. CASE i \in old /\ j \in old
      BY <2>8, <2>20, <3>2, <3>4 DEF Whole
    <3>5. CASE (i \in new /\ j \in old) \/ (i \in old /\ j \in new)
      BY <2>7, <2>8, <3>1, <3>5
    <3> QED
      BY <2>20, <3>3, <3>4, <3>5
  <2>16. LedgerSound'
    BY <2>1, <2>4, <2>9, <2>13, <2>14, <2>15 DEF LedgerSound
  <2>17. BackupSound'
    <3> SUFFICES ASSUME backup # NoBackup
                 PROVE  Owned(backup.transactions, commits + 1, Free', batches')
      BY <1>1, <2>1 DEF BackupSound
    <3>1. PICK k : k = backup.transactions
      OBVIOUS
    <3>2. Owned(k, commits, Free, batches)
      BY <3>1 DEF BackupSound
    <3>3. Owned(k, commits + 1, Free', batches)
      BY <2>2, <2>12, <3>2, OwnedKept, IdsAreNumbered
    <3>5. \A id \in Ids : k[id] # Absent => id \notin new /\ k[id].batch # b
      BY <2>2, <2>12, <2>20, <3>2 DEF Owned
    <3>6. ASSUME NEW c \in BatchIds, NEW id \in Ids,
                 batches'[c].status = "committed", id \in batches'[c].created
          PROVE  id[1] <= commits + 1
      <4>1. CASE c = b
        BY <2>2, <2>10, <2>11, <2>20, <3>6, <4>1
      <4>2. CASE c # b
        BY <2>11, <3>3, <3>6, <4>2 DEF Owned
      <4> QED
        BY <4>1, <4>2
    <3>7. ASSUME NEW id \in Ids, k[id] # Absent
          PROVE  /\ id[1] <= commits + 1
                 /\ k[id].batch \notin Free'
                 /\ \A c \in BatchIds : batches'[c].status = "committed" =>
                      (k[id].batch = c <=> id \in batches'[c].created)
      BY <2>10, <2>11, <3>3, <3>5, <3>7 DEF Owned
    <3> QED
      BY <3>1, <3>6, <3>7 DEF Owned
  <2>18. TypeOK'
    <3>1. \A c \in BatchIds : Stored(c)' => c <= previewed
      BY <2>1, <2>11 DEF TypeOK, Stored
    <3> QED
      BY <1>1, <2>1, <2>2, <2>4, <2>9, <2>11, <3>1 DEF TypeOK, Stored, Tables
  <2>19. UploadsAreNew' /\ CallIsCurrent'
    <3>1. \A u \in uploads : u.id # b /\ u.id \in BatchIds
      BY <1>1 DEF CallIsCurrent, TypeOK, Upload, b
    <3> QED
      BY <1>1, <2>11, <3>1 DEF UploadsAreNew, CallIsCurrent
  <2> QED
    BY <2>16, <2>17, <2>18, <2>19
<1> QED
  BY <1>3, <1>4

-----------------------------------------------------------------------------
LEMMA FinishRollbackHolds == ImportInv /\ FinishRollback => ImportInv'
<1> SUFFICES ASSUME ImportInv, FinishRollback PROVE ImportInv'
  OBVIOUS
<1> USE DEF ImportInv
<1>1. /\ call # Idle /\ call' = Idle
      /\ UNCHANGED <<now, accounts, previewed, uploads, commits, backup, restores>>
      /\ call.op = "Rollback"
  BY DEF FinishRollback, Writing
<1>2. /\ call.batch \in BatchIds /\ call.session \in Batch
      /\ call.session.created \subseteq Ids
  BY <1>1, CallFields
<1>3. CASE ~RollbackStands
  <2>1. UNCHANGED <<transactions, batches>>
    BY <1>3 DEF FinishRollback
  <2>2. TypeOK' /\ UploadsAreNew' /\ CallIsCurrent'
    BY <1>1, <2>1 DEF TypeOK, Stored, UploadsAreNew, CallIsCurrent
  <2>3. Free' \subseteq Free
    BY <1>1, <2>1 DEF Free
  <2> QED
    BY <1>1, <2>1, <2>2, <2>3, TablesKept
<1>4. CASE RollbackStands
  <2> DEFINE b == call.batch
             gone == call.session.created
  <2>1. /\ Stored(b) /\ batches[b] = call.session /\ batches[b].status = "committed"
        /\ \A id \in gone : transactions[id].state = "live"
        /\ transactions' = Undone(gone)
    BY <1>1, <1>4 DEF RollbackStands, Claimed, Undoable, CallIsCurrent, Stored,
       FinishRollback
  <2>2. PICK t : t = transactions
    OBVIOUS
  <2>3. PICK q : q = transactions'
    OBVIOUS
  <2>4. t \in Tables /\ Indexed(t) /\ Whole(t) /\ Owned(t, commits, Free, batches)
    BY <2>2 DEF LedgerSound
  <2>5. q = [id \in Ids |-> IF id \in gone THEN [t[id] EXCEPT !.state = "undone"]
                            ELSE t[id]]
    BY <1>2, <2>1, <2>2, <2>3 DEF Undone
  <2>6. \A id \in gone :
          /\ t[id] # Absent /\ q[id] \in Transaction /\ q[id] # Absent
          /\ q[id].state = "undone" /\ q[id].batch = t[id].batch
          /\ q[id].file = t[id].file /\ q[id].row = t[id].row
          /\ q[id].fingerprint = t[id].fingerprint
    <3> SUFFICES ASSUME NEW id \in gone
                 PROVE  /\ t[id] # Absent /\ q[id] \in Transaction /\ q[id] # Absent
                        /\ q[id].state = "undone" /\ q[id].batch = t[id].batch
                        /\ q[id].file = t[id].file /\ q[id].row = t[id].row
                        /\ q[id].fingerprint = t[id].fingerprint
      OBVIOUS
    <3>1. id \in Ids /\ t[id] # Absent
      BY <1>2, <2>1, <2>2 DEF Absent
    <3>2. t[id] \in Transaction
      BY <2>4, <3>1, TransactionFields
    <3>3. q[id] = [t[id] EXCEPT !.state = "undone"]
      BY <2>5, <3>1
    <3>4. /\ q[id] \in Transaction /\ q[id].state = "undone"
          /\ q[id].batch = t[id].batch
          /\ q[id].file = t[id].file /\ q[id].row = t[id].row
          /\ q[id].fingerprint = t[id].fingerprint
      BY <3>2, <3>3 DEF Transaction
    <3>5. q[id] # Absent
      BY <3>4 DEF Absent
    <3> QED
      BY <3>1, <3>4, <3>5
  <2>7. \A id \in Ids \ gone : q[id] = t[id]
    BY <2>5
  <2>8. q \in Tables
    BY <2>4, <2>5, <2>6, <2>7 DEF Tables
  <2>9. /\ \A id \in Ids : (q[id] # Absent) <=> (t[id] # Absent)
        /\ \A id \in Ids : t[id] # Absent =>
             /\ q[id].batch = t[id].batch /\ q[id].file = t[id].file
             /\ q[id].row = t[id].row /\ q[id].fingerprint = t[id].fingerprint
    BY <2>6, <2>7
  <2>10. Indexed(q)
    BY <2>4, <2>9 DEF Indexed
  <2>11. \A id \in Ids : t[id] # Absent => (t[id].batch = b <=> id \in gone)
    BY <1>2, <2>1, <2>4 DEF Owned
  <2>12. Whole(q)
    BY <2>4, <2>6, <2>7, <2>9, <2>11 DEF Whole
  <2>13. PICK s \in Batch : /\ s.status = "rolled_back"
                           /\ batches' = [batches EXCEPT ![b] = s]
    <3> DEFINE s == [call.session EXCEPT !.status = "rolled_back",
                                         !.expires = now + PreviewTTL]
    <3>1. now + PreviewTTL \in Nat
      BY Counters, ImportAssumption
    <3>2. s \in Batch /\ s.status = "rolled_back"
      BY <1>2, <3>1 DEF Batch
    <3>3. batches' = [batches EXCEPT ![b] = s]
      BY <1>4 DEF FinishRollback
    <3> QED
      BY <3>2, <3>3
  <2>14. /\ batches' \in [BatchIds -> Batch \cup {NoBatch}] /\ batches'[b] = s
         /\ \A c \in BatchIds : c # b => batches'[c] = batches[c]
    BY <1>2, <2>13 DEF TypeOK
  <2>15. Free' \subseteq Free
    BY <1>1, <2>13, <2>14 DEF Free, Open
  <2>16. \A c \in BatchIds : batches'[c].status = "committed" =>
           batches[c].status = "committed" /\ batches'[c].created = batches[c].created
    BY <2>13, <2>14
  <2>17. commits \in Nat /\ Ids \subseteq Nat \X Rows
    BY Counters, IdsAreNumbered
  <2>18. Owned(t, commits, Free', batches')
    BY <2>4, <2>15, <2>16, <2>17, OwnedKept
  <2>19. Owned(q, commits, Free', batches')
    BY <2>9, <2>18 DEF Owned
  <2>20. LedgerSound'
    BY <1>1, <2>3, <2>8, <2>10, <2>12, <2>19 DEF LedgerSound
  <2>21. backup # NoBackup => Owned(backup.transactions, commits, Free', batches')
    BY <2>15, <2>16, <2>17, OwnedKept DEF BackupSound
  <2>22. BackupSound'
    BY <1>1, <2>21 DEF BackupSound
  <2>23. TypeOK'
    <3>1. \A c \in BatchIds : Stored(c)' => c <= previewed
      BY <2>1, <2>14 DEF TypeOK, Stored
    <3> QED
      BY <1>1, <2>3, <2>8, <2>14, <3>1 DEF TypeOK, Stored, Tables
  <2>24. UploadsAreNew' /\ CallIsCurrent'
    <3>1. \A u \in uploads : u.id # b /\ u.id \in BatchIds
      BY <1>1 DEF CallIsCurrent, TypeOK, Upload
    <3> QED
      BY <1>1, <2>14, <3>1 DEF UploadsAreNew, CallIsCurrent
  <2> QED
    BY <2>20, <2>22, <2>23, <2>24
<1> QED
  BY <1>3, <1>4

-----------------------------------------------------------------------------
\* Nothing of these tells an undone transaction from a deleted one.
LEMMA DeleteTransactionHolds ==
  ASSUME ImportInv, NEW id \in Ids, DeleteTransaction(id)
  PROVE  ImportInv'
<1> USE DEF ImportInv
<1>1. /\ transactions[id].state = "live"
      /\ transactions' = [transactions EXCEPT ![id].state = "deleted"]
      /\ UNCHANGED <<now, accounts, batches, previewed, uploads, call, commits, backup,
                     restores>>
  BY DEF DeleteTransaction
<1>2. transactions \in Tables /\ transactions[id] # Absent
  BY <1>1 DEF LedgerSound, Absent
<1>3. PICK d \in Transaction :
        /\ transactions' = [transactions EXCEPT ![id] = d] /\ d # Absent
        /\ d.state = "deleted" /\ d.batch = transactions[id].batch
        /\ d.file = transactions[id].file /\ d.row = transactions[id].row
        /\ d.fingerprint = transactions[id].fingerprint
  <2> DEFINE d == [transactions[id] EXCEPT !.state = "deleted"]
  <2>1. transactions[id] \in Transaction
    BY <1>2, TransactionFields
  <2>2. /\ d \in Transaction /\ d.state = "deleted" /\ d.batch = transactions[id].batch
        /\ d.file = transactions[id].file /\ d.row = transactions[id].row
        /\ d.fingerprint = transactions[id].fingerprint
    BY <2>1 DEF Transaction
  <2>3. d # Absent
    BY <2>2 DEF Absent
  <2>4. transactions' = [transactions EXCEPT ![id] = d]
    BY <1>1, <1>2 DEF Tables
  <2> QED
    BY <2>2, <2>3, <2>4
<1>4. PICK t : t = transactions
  OBVIOUS
<1>5. PICK q : q = transactions'
  OBVIOUS
<1>6. /\ q \in Tables /\ \A i \in Ids : (q[i] # Absent) <=> (t[i] # Absent)
      /\ \A i \in Ids : t[i] # Absent =>
           /\ q[i].batch = t[i].batch /\ q[i].file = t[i].file /\ q[i].row = t[i].row
           /\ q[i].fingerprint = t[i].fingerprint
           /\ (q[i].state = "undone") <=> (t[i].state = "undone")
  BY <1>1, <1>2, <1>3, <1>4, <1>5 DEF Tables
<1>7. Indexed(q) /\ Whole(q)
  BY <1>4, <1>6 DEF LedgerSound, Indexed, Whole
<1>8. Free' = Free
  BY <1>1 DEF Free
<1>9. Owned(q, commits, Free, batches)
  BY <1>4, <1>6 DEF LedgerSound, Owned
<1>10. LedgerSound'
  BY <1>1, <1>5, <1>6, <1>7, <1>8, <1>9 DEF LedgerSound
<1>11. BackupSound'
  BY <1>1, <1>8 DEF BackupSound
<1>12. TypeOK' /\ UploadsAreNew' /\ CallIsCurrent'
  BY <1>1, <1>5, <1>6 DEF TypeOK, Stored, UploadsAreNew, CallIsCurrent, Tables
<1> QED
  BY <1>10, <1>11, <1>12

LEMMA TakeBackupHolds == ImportInv /\ TakeBackup => ImportInv'
<1> SUFFICES ASSUME ImportInv, TakeBackup PROVE ImportInv'
  OBVIOUS
<1> USE DEF ImportInv
<1>1. /\ UNCHANGED <<now, accounts, transactions, batches, previewed, uploads, call,
                     commits, restores>>
      /\ backup' = [taken |-> TRUE, accounts |-> accounts,
                    transactions |->
                      [id \in Ids |-> WithoutFingerprint(transactions[id])]]
  BY DEF TakeBackup
<1>2. PICK t : t = transactions /\ t \in Tables
  BY DEF LedgerSound
<1>3. PICK q : q = [id \in Ids |-> WithoutFingerprint(t[id])]
  OBVIOUS
<1>4. \A id \in Ids :
        IF t[id] = Absent THEN q[id] = Absent
        ELSE /\ q[id] \in Transaction /\ q[id] # Absent
             /\ q[id].batch = t[id].batch /\ q[id].state = t[id].state
             /\ q[id].fingerprint = NoFingerprint
  <2> SUFFICES ASSUME NEW id \in Ids, t[id] # Absent
               PROVE  /\ q[id] \in Transaction /\ q[id] # Absent
                      /\ q[id].batch = t[id].batch /\ q[id].state = t[id].state
                      /\ q[id].fingerprint = NoFingerprint
    BY <1>3 DEF WithoutFingerprint
  <2>1. q[id] = [t[id] EXCEPT !.fingerprint = NoFingerprint]
    BY <1>3 DEF WithoutFingerprint
  <2>2. t[id] \in Transaction
    BY <1>2, TransactionFields
  <2>3. /\ q[id] \in Transaction
        /\ q[id].batch = t[id].batch /\ q[id].state = t[id].state
        /\ q[id].fingerprint = NoFingerprint
    BY <2>1, <2>2 DEF Transaction
  <2>4. q[id] # Absent
    BY <2>3 DEF Absent, Transaction
  <2> QED
    BY <2>3, <2>4
<1>5. q \in Tables
  BY <1>3, <1>4 DEF Tables
<1>6. Indexed(q) /\ Whole(q) /\ Owned(q, commits, Free, batches)
  <2>1. Owned(t, commits, Free, batches) /\ Whole(t)
    BY <1>2 DEF LedgerSound
  <2>2. Indexed(q)
    BY <1>4 DEF Indexed
  <2>3. Whole(q)
    BY <1>4, <2>1 DEF Whole
  <2>4. Owned(q, commits, Free, batches)
    BY <1>4, <2>1 DEF Owned
  <2> QED
    BY <2>2, <2>3, <2>4
<1>7. Free' = Free
  BY <1>1 DEF Free
<1>8. backup'.transactions = q
  BY <1>1, <1>2, <1>3
<1>9. LedgerSound' /\ BackupSound'
  BY <1>1, <1>5, <1>6, <1>7, <1>8 DEF LedgerSound, BackupSound
<1>10. backup' \in Snapshot
  BY <1>1, <1>5, <1>8 DEF Snapshot, Tables, TypeOK
<1>11. TypeOK' /\ UploadsAreNew' /\ CallIsCurrent'
  BY <1>1, <1>10 DEF TypeOK, Stored, UploadsAreNew, CallIsCurrent
<1> QED
  BY <1>9, <1>11

LEMMA RestoreBackupHolds == ImportInv /\ RestoreBackup => ImportInv'
<1> SUFFICES ASSUME ImportInv, RestoreBackup PROVE ImportInv'
  OBVIOUS
<1> USE DEF ImportInv
<1>1. /\ backup # NoBackup /\ restores < MaxRestores /\ restores' = restores + 1
      /\ accounts' = backup.accounts /\ transactions' = backup.transactions
      /\ UNCHANGED <<now, batches, previewed, uploads, call, commits, backup>>
  BY DEF RestoreBackup
<1>2. Free' = Free
  BY <1>1 DEF Free
<1>3. LedgerSound' /\ BackupSound'
  BY <1>1, <1>2 DEF LedgerSound, BackupSound
<1>4. backup \in Snapshot /\ restores + 1 \in 0..MaxRestores
  BY <1>1, ImportAssumption DEF TypeOK
<1>5. TypeOK' /\ UploadsAreNew' /\ CallIsCurrent'
  BY <1>1, <1>4 DEF TypeOK, Stored, UploadsAreNew, CallIsCurrent, Snapshot
<1> QED
  BY <1>3, <1>5

LEMMA OtherStepsHold ==
  ASSUME ImportInv, (\E a \in Accounts : DeleteAccount(a)) \/ Restart \/ Tick
  PROVE  ImportInv'
<1> USE DEF ImportInv
<1>1. /\ UNCHANGED <<transactions, batches, previewed, commits, backup, restores>>
      /\ accounts' \subseteq accounts /\ uploads' \subseteq uploads
      /\ call' \in {call, Idle} /\ now' \in 0..MaxTime
  <2>1. CASE \E a \in Accounts : DeleteAccount(a)
    BY <2>1 DEF DeleteAccount, TypeOK
  <2>2. CASE Restart
    BY <2>2 DEF Restart, TypeOK
  <2>3. CASE Tick
    BY <2>3, ImportAssumption DEF Tick, TypeOK
  <2> QED
    BY <2>1, <2>2, <2>3
<1>2. Free' \subseteq Free
  BY <1>1 DEF Free
<1>3. LedgerSound' /\ BackupSound'
  BY <1>1, <1>2, TablesKept
<1>4. TypeOK'
  BY <1>1 DEF TypeOK, Stored
<1>5. UploadsAreNew' /\ CallIsCurrent'
  BY <1>1 DEF UploadsAreNew, CallIsCurrent
<1> QED
  BY <1>3, <1>4, <1>5

-----------------------------------------------------------------------------
LEMMA StepHolds == ImportInv /\ [Next]_vars => ImportInv'
<1> SUFFICES ASSUME ImportInv, [Next]_vars PROVE ImportInv'
  OBVIOUS
<1>1. CASE UNCHANGED vars
  <2>1. Free' = Free
    BY <1>1 DEF vars, Free
  <2> QED
    BY <1>1, <2>1 DEF vars, ImportInv, TypeOK, Stored, LedgerSound, BackupSound,
       UploadsAreNew, CallIsCurrent
<1>2. CASE Next
  BY <1>2, BeginPreviewHolds, StorePreviewHolds, BeginHolds, CheckRowsHolds,
     FinishValidateHolds, FinishCommitHolds, FinishRollbackHolds,
     DeleteTransactionHolds, OtherStepsHold, TakeBackupHolds, RestoreBackupHolds
     DEF Next
<1> QED
  BY <1>1, <1>2

LEMMA InvariantHolds == Spec => []ImportInv
BY InitHolds, StepHolds, PTL DEF Spec

\* Every variable keeps its type: in particular a call that writes over its
\* batch leaves a batch that was previewed.
THEOREM TypeCorrect == Spec => []TypeOK
<1>1. ImportInv => TypeOK
  BY DEF ImportInv
<1> QED
  BY <1>1, InvariantHolds, PTL

\* However the previews and commits of a file interleave, and whatever is
\* deleted or restored meanwhile, a row of it is in the ledger once.
THEOREM ImportsAreUnique == Spec => []NoRowImportedTwice
<1>1. ImportInv => NoRowImportedTwice
  <2> SUFFICES ASSUME ImportInv, NEW i \in Ids, NEW j \in Ids, i # j,
                      transactions[i].state = "live", transactions[j].state = "live",
                      transactions[i].file = transactions[j].file,
                      transactions[i].row = transactions[j].row
               PROVE  NoFingerprint \in {transactions[i].fingerprint,
                                        transactions[j].fingerprint}
    BY DEF NoRowImportedTwice
  <2>1. transactions[i] # Absent /\ transactions[j] # Absent
    BY DEF Absent
  <2> QED
    BY <2>1 DEF ImportInv, LedgerSound, Indexed
<1> QED
  BY <1>1, InvariantHolds, PTL

\* A rollback takes all that an import created, or nothing.
THEOREM RollbacksAreWhole == Spec => []RollbackIsAllOrNothing
<1>1. ImportInv => RollbackIsAllOrNothing
  BY DEF ImportInv, LedgerSound, Whole, RollbackIsAllOrNothing
<1> QED
  BY <1>1, InvariantHolds, PTL

-----------------------------------------------------------------------------
(* What the table of batches keeps.                                        *)

LEMMA LeastExists ==
  ASSUME NEW S \in SUBSET Nat, S # {}
  PROVE  \E m \in S : \A k \in S : m <= k
<1> DEFINE R == {p \in Nat \X Nat : p[1] < p[2]}
<1>1. IsWellFoundedOn(R, Nat)
  BY NatLessThanWellFounded DEF OpToRel
<1>2. PICK m \in S : \A k \in S : ~(<<k, m>> \in R)
  BY <1>1, WFMin
<1>3. \A k \in S : <<k, m>> \notin R => m <= k
  OBVIOUS
<1> QED
  BY <1>2, <1>3

LEMMA OldestIsOne == ASSUME NEW S \in SUBSET BatchIds, S # {} PROVE Oldest(S) \in S
<1>1. S \in SUBSET Nat
  BY DEF BatchIds
<1> QED
  BY <1>1, LeastExists DEF Oldest

StoredIds == {b \in BatchIds : Stored(b)}
ActiveIds == {b \in BatchIds : Stored(b) /\ Unexpired(b)}

LEMMA OneMore ==
  ASSUME NEW S, NEW x, IsFiniteSet(S)
  PROVE  /\ IsFiniteSet(S \cup {x}) /\ Cardinality(S \cup {x}) \in Nat
         /\ Cardinality(S \cup {x}) <= Cardinality(S) + 1
<1>1. IsFiniteSet(S \cup {x}) /\ Cardinality(S \cup {x}) \in {Cardinality(S), Cardinality(S) + 1}
  BY FS_AddElement
<1>2. Cardinality(S \cup {x}) \in Nat /\ Cardinality(S) \in Nat
  BY <1>1, FS_CardinalityType
<1> QED
  BY <1>1, <1>2

LEMMA BatchIdsAreFinite == IsFiniteSet(BatchIds)
BY ImportAssumption, FS_Interval DEF BatchIds

LEMMA EvictedIsEvictable ==
  ASSUME HasRoom, Cardinality(ActiveIds) >= MaxSessions
  PROVE  /\ Oldest(Evictable) \in Evictable
         /\ Evictable \subseteq ActiveIds
<1>1. Cardinality(ActiveIds) \in Nat
  BY BatchIdsAreFinite, FS_Subset, FS_CardinalityType DEF ActiveIds
<1>2. Evictable # {}
  BY <1>1, ImportAssumption DEF HasRoom, ActiveIds
<1>3. Evictable \in SUBSET BatchIds /\ Evictable \subseteq ActiveIds
  BY DEF Evictable, ActiveIds
<1> QED
  BY <1>2, <1>3, OldestIsOne

\* A committed batch can be rolled back for as long as it was promised:
\* neither a full table nor a late validation takes it away.
THEOREM UndoWindowHolds == Spec => UndoWindowIsKept
<1> DEFINE Kept(b) ==
      Stored(b) /\ Unexpired(b) /\ batches[b].status = "committed" =>
        batches'[b] = batches[b] \/ batches'[b].status = "rolled_back"
<1>1. ASSUME ImportInv, Next, NEW b \in BatchIds PROVE Kept(b)
  <2> SUFFICES ASSUME Stored(b), Unexpired(b), batches[b].status = "committed"
               PROVE  batches'[b] = batches[b] \/ batches'[b].status = "rolled_back"
    OBVIOUS
  <2> USE <1>1
  <2>1. batches[b] \in Batch /\ batches \in [BatchIds -> Batch \cup {NoBatch}]
    BY DEF ImportInv, TypeOK, Stored
  <2>2. ASSUME NEW u \in uploads, StorePreview(u) PROVE batches'[b] = batches[b]
    <3>1. b # u.id
      BY DEF ImportInv, UploadsAreNew, Stored
    <3>2. HasRoom => b \notin Removed
      BY EvictedIsEvictable DEF Removed, Evictable, ActiveIds
    <3> QED
      BY <2>2, <3>1, <3>2 DEF StorePreview
  <2>3. CASE FinishValidate
    <3>1. call # Idle /\ call.batch \in BatchIds
      BY <2>3, CallFields DEF FinishValidate, Writing, ImportInv
    <3> QED
      BY <2>1, <2>3, <3>1 DEF FinishValidate, Persisted, Open
  <2>4. CASE FinishCommit
    <3>1. call # Idle /\ call.batch \in BatchIds
      BY <2>4, CallFields DEF FinishCommit, Writing, ImportInv
    <3> QED
      BY <2>1, <2>4, <3>1 DEF FinishCommit, CommitStands, Claimed, Open, Refused
  <2>5. CASE FinishRollback
    <3>1. call # Idle /\ call.batch \in BatchIds /\ call.session \in Batch
      BY <2>5, CallFields DEF FinishRollback, Writing, ImportInv
    <3> QED
      BY <2>1, <2>5, <3>1 DEF FinishRollback, Batch
  <2>6. CASE \/ \E file \in Files : BeginPreview(file)
             \/ \E op \in {"Validate", "Commit", "Rollback"}, c \in BatchIds : Begin(op, c)
             \/ CheckRows
             \/ \E id \in Ids : DeleteTransaction(id)
             \/ \E a \in Accounts : DeleteAccount(a)
             \/ TakeBackup \/ RestoreBackup \/ Restart \/ Tick
    BY <2>6 DEF BeginPreview, Begin, CheckRows, DeleteTransaction, DeleteAccount,
       TakeBackup, RestoreBackup, Restart, Tick
  <2> QED
    BY <2>2, <2>3, <2>4, <2>5, <2>6 DEF Next
<1>2. ImportInv /\ [Next]_vars =>
        [\A b \in BatchIds :
           /\ Stored(b) /\ Unexpired(b) /\ batches[b].status = "committed"
           => \/ batches'[b] = batches[b]
              \/ batches'[b].status = "rolled_back"]_vars
  BY <1>1
<1> QED
  BY <1>2, InvariantHolds, PTL DEF Spec, UndoWindowIsKept

-----------------------------------------------------------------------------
LEMMA StoringKeepsLimit ==
  ASSUME ImportInv, TableWithinLimit, NEW u \in uploads, StorePreview(u)
  PROVE  TableWithinLimit'
<1>1. /\ u.id \in BatchIds /\ batches[u.id] = NoBatch
      /\ batches \in [BatchIds -> Batch \cup {NoBatch}] /\ u \in Upload
  BY DEF ImportInv, TypeOK, Upload, UploadsAreNew
<1>2. /\ IsFiniteSet(ActiveIds) /\ Cardinality(ActiveIds) \in Nat
      /\ IsFiniteSet(StoredIds) /\ Cardinality(StoredIds) \in Nat
      /\ IsFiniteSet(StoredIds') /\ MaxSessions \in Nat
  BY BatchIdsAreFinite, ImportAssumption, FS_Subset, FS_CardinalityType
     DEF ActiveIds, StoredIds
<1>3. CASE ~HasRoom
  BY <1>3 DEF StorePreview, TableWithinLimit, Stored
<1>4. CASE HasRoom
  <2>1. StoredIds' \subseteq (StoredIds \ Removed) \cup {u.id}
    BY <1>4 DEF StorePreview, StoredIds, Stored
  <2>2. CASE Cardinality(ActiveIds) < MaxSessions
    <3>1. StoredIds' \subseteq ActiveIds \cup {u.id}
      <4>1. StoredIds \ Removed \subseteq ActiveIds
        BY DEF Removed, StoredIds, ActiveIds
      <4> QED
        BY <2>1, <4>1
    <3>2. /\ IsFiniteSet(ActiveIds \cup {u.id})
          /\ Cardinality(ActiveIds \cup {u.id}) <= Cardinality(ActiveIds) + 1
          /\ Cardinality(ActiveIds \cup {u.id}) \in Nat
      BY <1>2, OneMore
    <3>3. Cardinality(StoredIds') <= Cardinality(ActiveIds \cup {u.id})
      BY <3>1, <3>2, FS_Subset
    <3>4. Cardinality(StoredIds') \in Nat
      BY <1>2, FS_CardinalityType
    <3> QED
      BY <1>2, <2>2, <3>2, <3>3, <3>4 DEF TableWithinLimit, StoredIds
  <2>3. CASE Cardinality(ActiveIds) >= MaxSessions
    <3> DEFINE o == Oldest(Evictable)
    <3>1. o \in ActiveIds
      BY <1>4, <2>3, EvictedIsEvictable
    <3>2. StoredIds \ Removed \subseteq ActiveIds \ {o}
      BY <2>3 DEF Removed, StoredIds, ActiveIds
    <3> HIDE DEF o
    <3>3. ActiveIds \subseteq StoredIds
      BY DEF ActiveIds, StoredIds
    <3>4. Cardinality(ActiveIds) <= Cardinality(StoredIds)
      BY <1>2, <3>3, FS_Subset
    <3>5. /\ IsFiniteSet(ActiveIds \ {o})
          /\ Cardinality(ActiveIds \ {o}) = Cardinality(ActiveIds) - 1
      BY <1>2, <3>1, FS_RemoveElement
    <3>6. /\ IsFiniteSet((ActiveIds \ {o}) \cup {u.id})
          /\ Cardinality((ActiveIds \ {o}) \cup {u.id}) <= Cardinality(ActiveIds)
          /\ Cardinality((ActiveIds \ {o}) \cup {u.id}) \in Nat
      <4>1. /\ IsFiniteSet((ActiveIds \ {o}) \cup {u.id})
            /\ Cardinality((ActiveIds \ {o}) \cup {u.id}) \in Nat
            /\ Cardinality((ActiveIds \ {o}) \cup {u.id}) <=
                 Cardinality(ActiveIds \ {o}) + 1
        BY <3>5, OneMore
      <4> QED
        BY <1>2, <3>5, <4>1
    <3>7. Cardinality(StoredIds') <= Cardinality((ActiveIds \ {o}) \cup {u.id})
      <4>1. StoredIds' \subseteq (ActiveIds \ {o}) \cup {u.id}
        BY <2>1, <3>2
      <4> QED
        BY <3>6, <4>1, FS_Subset
    <3>8. Cardinality(StoredIds') \in Nat
      BY <1>2, FS_CardinalityType
    <3>9. Cardinality(StoredIds) <= MaxSessions
      BY DEF TableWithinLimit, StoredIds
    <3> QED
      BY <1>2, <3>4, <3>6, <3>7, <3>8, <3>9 DEF TableWithinLimit, StoredIds
  <2> QED
    BY <1>2, <2>2, <2>3
<1> QED
  BY <1>3, <1>4

\* Nothing but a stored preview adds a batch: the calls write over one that
\* is still there.
LEMMA CallsKeepLimit ==
  ASSUME ImportInv, TableWithinLimit, Next,
         ~\E u \in uploads : StorePreview(u)
  PROVE  TableWithinLimit'
<1>1. \A b \in BatchIds : Stored(b)' => Stored(b)
  <2>1. CASE FinishValidate
    <3>1. call # Idle /\ call.batch \in BatchIds
      BY <2>1, CallFields DEF FinishValidate, Writing, ImportInv
    <3> QED
      BY <2>1, <3>1 DEF FinishValidate, Persisted, Stored, ImportInv, TypeOK
  <2>2. CASE FinishCommit
    BY <2>2 DEF FinishCommit, CommitStands, Claimed, Refused, Stored, ImportInv, TypeOK
  <2>3. CASE FinishRollback
    BY <2>3 DEF FinishRollback, RollbackStands, Claimed, Stored, ImportInv, TypeOK
  <2>4. CASE UNCHANGED batches
    BY <2>4 DEF Stored
  <2> QED
    BY <2>1, <2>2, <2>3, <2>4 DEF Next, BeginPreview, Begin, CheckRows,
       DeleteTransaction, DeleteAccount, TakeBackup, RestoreBackup, Restart, Tick
<1>2. StoredIds' \subseteq StoredIds
  BY <1>1 DEF StoredIds
<1>3. /\ IsFiniteSet(StoredIds) /\ Cardinality(StoredIds) \in Nat
      /\ Cardinality(StoredIds') <= Cardinality(StoredIds)
      /\ Cardinality(StoredIds') \in Nat
  BY <1>2, BatchIdsAreFinite, FS_Subset, FS_CardinalityType DEF StoredIds
<1> QED
  BY <1>3, ImportAssumption DEF TableWithinLimit, StoredIds

\* The table never grows past its limit, although previews are stored beside
\* the mutex and a late validation renews what had expired.
THEOREM TableStaysWithinLimit == Spec => []TableWithinLimit
<1>1. Init => TableWithinLimit
  <2> SUFFICES ASSUME Init PROVE TableWithinLimit
    OBVIOUS
  <2>1. {b \in BatchIds : Stored(b)} = {}
    BY DEF Init, Stored
  <2> QED
    BY <2>1, FS_EmptySet, ImportAssumption DEF TableWithinLimit
<1>2. ImportInv /\ TableWithinLimit /\ [Next]_vars => TableWithinLimit'
  <2> SUFFICES ASSUME ImportInv, TableWithinLimit, [Next]_vars PROVE TableWithinLimit'
    OBVIOUS
  <2>1. CASE UNCHANGED vars
    BY <2>1 DEF vars, TableWithinLimit, Stored
  <2>2. CASE Next
    BY <2>2, StoringKeepsLimit, CallsKeepLimit
  <2> QED
    BY <2>1, <2>2
<1> QED
  BY <1>1, <1>2, InvariantHolds, PTL DEF Spec

-----------------------------------------------------------------------------
(* What a commit skips.                                                    *)

RowIsThere(file, r) ==
  \E id \in Ids : /\ transactions[id] # Absent
                  /\ transactions[id].file = file
                  /\ transactions[id].row = r

\* A row that was found to be a duplicate stays in the table, be it as a
\* deleted one, until the call is over or a backup is restored.
DuplicatesAreThere ==
  call # Idle /\ restores = 0 =>
    \A r \in call.duplicate : RowIsThere(call.session.file, r)

LEMMA FoundIsThere ==
  ASSUME ImportInv, NEW b, NEW file, NEW r \in DuplicateRows(b, file)
  PROVE  RowIsThere(file, r)
<1>1. PICK id \in Ids : /\ transactions[id].state = "live"
                       /\ transactions[id].fingerprint = <<file, r>>
  BY DEF DuplicateRows, Fingerprint, ExistingFingerprints
<1>2. transactions[id] # Absent
  BY <1>1 DEF Absent
<1>3. <<file, r>> = <<transactions[id].file, transactions[id].row>>
  <2>1. transactions[id].fingerprint \in
          {<<transactions[id].file, transactions[id].row>>, NoFingerprint}
    BY <1>2 DEF ImportInv, LedgerSound, Indexed
  <2> QED
    BY <1>1, <2>1, PairsAreFingerprints
<1>4. file = transactions[id].file /\ r = transactions[id].row
  BY <1>3
<1> QED
  BY <1>2, <1>4 DEF RowIsThere

LEMMA DuplicatesStay ==
  ASSUME ImportInv, DuplicatesAreThere, [Next]_vars
  PROVE  DuplicatesAreThere'
<1>1. CASE call' = Idle
  BY <1>1 DEF DuplicatesAreThere
<1>2. CASE UNCHANGED <<call, transactions, restores>>
  BY <1>2 DEF DuplicatesAreThere, RowIsThere
<1>3. ASSUME NEW op \in {"Validate", "Commit", "Rollback"}, NEW b \in BatchIds,
             Begin(op, b)
      PROVE  DuplicatesAreThere'
  BY <1>3 DEF Begin, DuplicatesAreThere
<1>4. CASE CheckRows
  <2>1. /\ call \in Call /\ UNCHANGED <<transactions, restores>>
        /\ call' = [call EXCEPT
                      !.stage = "write",
                      !.invalid = InvalidRows(call.session.file),
                      !.duplicate = DuplicateRows(call.batch, call.session.file)]
    BY <1>4, CallFields DEF CheckRows, ImportInv
  <2>2. /\ call'.session = call.session
        /\ call'.duplicate = DuplicateRows(call.batch, call.session.file)
    BY <2>1 DEF Call
  <2>3. \A r \in call'.duplicate : RowIsThere(call'.session.file, r)
    BY <2>2, FoundIsThere
  <2> QED
    BY <2>1, <2>3 DEF DuplicatesAreThere, RowIsThere
<1>5. ASSUME NEW id \in Ids, DeleteTransaction(id)
      PROVE  DuplicatesAreThere'
  <2>1. /\ UNCHANGED <<call, restores>> /\ transactions[id].state = "live"
        /\ transactions' = [transactions EXCEPT ![id].state = "deleted"]
    BY <1>5 DEF DeleteTransaction
  <2>2. transactions[id] \in Transaction /\ transactions \in Tables
    BY <2>1, TransactionFields DEF ImportInv, LedgerSound, Absent
  <2>3. \A i \in Ids : transactions[i] # Absent =>
          /\ transactions'[i] # Absent
          /\ transactions'[i].file = transactions[i].file
          /\ transactions'[i].row = transactions[i].row
    <3>1. /\ transactions'[id] = [transactions[id] EXCEPT !.state = "deleted"]
          /\ \A i \in Ids : i # id => transactions'[i] = transactions[i]
      BY <2>1, <2>2 DEF Tables
    <3>2. /\ transactions'[id].file = transactions[id].file
          /\ transactions'[id].row = transactions[id].row
          /\ transactions'[id].state = "deleted"
      BY <2>2, <3>1 DEF Transaction
    <3>3. transactions'[id] # Absent
      BY <3>2 DEF Absent
    <3> QED
      BY <3>1, <3>2, <3>3
  <2> QED
    BY <2>1, <2>3 DEF DuplicatesAreThere, RowIsThere
<1>6. CASE RestoreBackup
  BY <1>6 DEF RestoreBackup, DuplicatesAreThere, ImportInv, TypeOK
<1> QED
  BY <1>1, <1>2, <1>3, <1>4, <1>5, <1>6 DEF Next, vars, BeginPreview, StorePreview,
     FinishValidate, FinishCommit, FinishRollback, DeleteAccount, TakeBackup, Restart,
     Tick

\* A commit leaves no row of its file out that the ledger does not have.
THEOREM CommitsAreComplete == Spec => CommitLosesNoRow
<1>1. ASSUME ImportInv, DuplicatesAreThere, Next, commits' = commits + 1, restores = 0,
             NEW r \in Rows
      PROVE  \E id \in Ids : /\ transactions'[id] # Absent
                             /\ transactions'[id].file = call.session.file
                             /\ transactions'[id].row = r
  <2> USE <1>1
  <2>1. commits \in Nat /\ commits' # commits
    BY Counters DEF ImportInv
  <2>2. FinishCommit
    BY <2>1 DEF Next, BeginPreview, StorePreview, Begin, CheckRows, FinishValidate,
       FinishRollback, DeleteTransaction, DeleteAccount, TakeBackup, RestoreBackup,
       Restart, Tick
  <2>3. /\ call # Idle /\ commits < MaxCommits
        /\ transactions' = [id \in Ids |-> IF id \in DOMAIN Created THEN Created[id]
                                          ELSE transactions[id]]
    BY <2>1, <2>2 DEF FinishCommit, Writing
  <2>4. DOMAIN Created = {commits + 1} \X NewRows
    BY DEF Created
  <2>5. CASE r \in NewRows
    <3> DEFINE id == <<commits + 1, r>>
    <3>1. id \in {commits + 1} \X NewRows /\ id \in Ids /\ id[2] = r
      BY <2>1, <2>3, <2>5, ImportAssumption DEF Ids
    <3>2. transactions'[id] = Created[id]
      BY <2>3, <2>4, <3>1
    <3>3. Created[id] = [state |-> "live", batch |-> call.batch,
                         file |-> call.session.file, row |-> id[2],
                         fingerprint |-> Fingerprint(call.batch, call.session.file, id[2])]
      BY <3>1 DEF Created
    <3>4. transactions'[id].state = "live" /\ transactions'[id].row = r
          /\ transactions'[id].file = call.session.file
      BY <3>1, <3>2, <3>3
    <3>5. transactions'[id] # Absent
      BY <3>4 DEF Absent
    <3> QED
      BY <3>1, <3>4, <3>5
  <2>6. CASE r \notin NewRows
    <3>1. PICK id \in Ids : /\ transactions[id] # Absent
                           /\ transactions[id].file = call.session.file
                           /\ transactions[id].row = r
      BY <2>3, <2>6 DEF NewRows, DuplicatesAreThere, RowIsThere
    <3>2. id \notin DOMAIN Created
      <4>1. id[1] <= commits /\ id[1] \in Nat
        BY <3>1, IdsAreNumbered DEF ImportInv, LedgerSound, Owned
      <4> QED
        BY <2>1, <2>4, <4>1
    <3> QED
      BY <2>3, <3>1, <3>2
  <2> QED
    BY <2>5, <2>6
<1>2. ImportInv /\ DuplicatesAreThere /\ [Next]_vars =>
        [commits' = commits + 1 /\ restores = 0 =>
           \A r \in Rows : \E id \in Ids :
             /\ transactions'[id] # Absent
             /\ transactions'[id].file = call.session.file
             /\ transactions'[id].row = r]_vars
  BY <1>1
<1>3. Init => DuplicatesAreThere
  BY DEF Init, DuplicatesAreThere
<1>4. ImportInv /\ DuplicatesAreThere /\ [Next]_vars => DuplicatesAreThere'
  BY DuplicatesStay
<1> QED
  BY <1>2, <1>3, <1>4, InvariantHolds, PTL DEF Spec, CommitLosesNoRow
=============================================================================
