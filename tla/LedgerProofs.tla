---------------------------- MODULE LedgerProofs ----------------------------
(***************************************************************************)
(* Proofs that every reachable ledger is well typed and that the log of    *)
(* every account replays its balance, for any accounts, transactions,      *)
(* lendings, reminders, amounts and bounds.                                *)
(*                                                                         *)
(* The two are proved together.  An account is sound when it is well typed *)
(* and its log replays its balance; every posting of the code keeps an     *)
(* account sound, whatever transaction it is for.                          *)
(***************************************************************************)
EXTENDS LedgerProperties, TLAPS

SoundAccount == {row \in Account : ReplaysBalance(row)}

Sound(s) ==
  /\ s.accounts \in [Accounts -> SoundAccount]
  /\ s.transactions \in [TxIds -> Transaction]
  /\ s.lendings \in [Lendings -> Lending]
  /\ s.reminders \in [Reminders -> Reminder]

Inv == Sound(Now)

-----------------------------------------------------------------------------
(***************************************************************************)
(* Postings.                                                               *)
(***************************************************************************)

LEMMA AtLeastZeroNat ==
  ASSUME NEW n \in Int
  PROVE  AtLeastZero(n) \in Nat
BY DEF AtLeastZero

\* The fields a posting does not touch may change without harm.
LEMMA SoundSideFields ==
  ASSUME NEW row \in SoundAccount, NEW total \in Nat, NEW off \in BOOLEAN
  PROVE  [row EXCEPT !.totalPaid = total, !.paidOff = off] \in SoundAccount
<1>1. row \in Account
  BY DEF SoundAccount
<1> DEFINE new == [row EXCEPT !.totalPaid = total, !.paidOff = off]
<1>2. new \in Account
  BY <1>1 DEF Account
<1>3. new.log = row.log /\ new.balance = row.balance
      /\ new.initial = row.initial
  BY <1>1 DEF Account
<1>4. ReplaysBalance(new)
  BY <1>3 DEF SoundAccount, ReplaysBalance, BalanceBefore
<1>. QED
  BY <1>2, <1>4 DEF SoundAccount

LEMMA PostedSound ==
  ASSUME NEW row \in SoundAccount, NEW t \in TxIds \cup {None},
         NEW delta \in Int
  PROVE  Posted(row, t, delta) \in SoundAccount
<1> DEFINE entry == [tx |-> t, before |-> row.balance,
                     after |-> row.balance + delta]
           new == Posted(row, t, delta)
<1>1. row \in Account /\ ReplaysBalance(row)
  BY DEF SoundAccount
<1>2. row.log \in Seq(LogEntry) /\ row.balance \in Int /\ row.initial \in Int
  BY <1>1 DEF Account
<1>3. entry \in LogEntry
  BY <1>2 DEF LogEntry
<1>4. Append(row.log, entry) \in Seq(LogEntry)
  BY <1>2, <1>3
<1>5. new \in Account
  <2>1. new = [row EXCEPT !.balance = row.balance + delta,
                          !.log = Append(row.log, entry)]
    BY DEF Posted
  <2>2. row.balance + delta \in Int
    BY <1>2
  <2> HIDE DEF entry, new
  <2>. QED
    BY <2>1, <2>2, <1>1, <1>4 DEF Account
<1>6. /\ new.log = Append(row.log, entry)
      /\ new.initial = row.initial
      /\ new.balance = row.balance + delta
  BY <1>1 DEF Posted, Account
<1>7. /\ Len(new.log) = Len(row.log) + 1
      /\ \A i \in 1..Len(row.log) : new.log[i] = row.log[i]
      /\ new.log[Len(row.log) + 1] = entry
      /\ Len(row.log) \in Nat
  BY <1>2, <1>3, <1>6
<1>8. \A i \in 1..(Len(row.log) + 1) :
        BalanceBefore(new, i) = BalanceBefore(row, i)
  BY <1>6, <1>7 DEF BalanceBefore
<1>9. \A i \in 1..Len(new.log) : new.log[i].before = BalanceBefore(new, i)
  <2> TAKE i \in 1..Len(new.log)
  <2>1. CASE i \in 1..Len(row.log)
    BY <2>1, <1>1, <1>7, <1>8 DEF ReplaysBalance
  <2>2. CASE i = Len(row.log) + 1
    BY <2>2, <1>1, <1>7, <1>8 DEF ReplaysBalance
  <2>. QED
    BY <2>1, <2>2, <1>7
<1>10. new.balance = BalanceBefore(new, Len(new.log) + 1)
  BY <1>6, <1>7, <1>2 DEF BalanceBefore
<1>. QED
  BY <1>5, <1>9, <1>10 DEF SoundAccount, ReplaysBalance

LEMMA BalanceDeltaInt ==
  ASSUME NEW x \in Transaction, NEW a
  PROVE  BalanceDelta(x, a) \in Int /\ -BalanceDelta(x, a) \in Int
<1>1. x.amount \in Int
  BY DEF Transaction
<1>. QED
  BY <1>1 DEF BalanceDelta, CashFlow

LEMMA AppliedSound ==
  ASSUME NEW acc \in [Accounts -> SoundAccount], NEW t \in TxIds,
         NEW x \in Transaction
  PROVE  Applied(acc, t, x) \in [Accounts -> SoundAccount]
BY PostedSound, BalanceDeltaInt DEF Applied

LEMMA RevertedSound ==
  ASSUME NEW acc \in [Accounts -> SoundAccount], NEW t \in TxIds,
         NEW x \in Transaction
  PROVE  Reverted(acc, t, x) \in [Accounts -> SoundAccount]
BY PostedSound, BalanceDeltaInt DEF Reverted

LEMMA PaidSound ==
  ASSUME NEW row \in SoundAccount, NEW t \in TxIds \cup {None},
         NEW principal \in Nat
  PROVE  Paid(row, t, principal) \in SoundAccount
<1> DEFINE next == AtLeastZero(row.balance - principal)
           posted == Posted(row, t, next - row.balance)
<1>1. /\ row.balance \in Int /\ row.totalPaid \in Nat
      /\ row.paidOff \in BOOLEAN
  BY DEF SoundAccount, Account
<1>2. next \in Nat
  BY <1>1, AtLeastZeroNat
<1>3. posted \in SoundAccount
  BY <1>1, <1>2, PostedSound
<1>4. row.totalPaid + principal \in Nat
  BY <1>1
<1>5. (row.paidOff \/ next <= 0) \in BOOLEAN
  OBVIOUS
<1>6. [posted EXCEPT !.totalPaid = row.totalPaid + principal,
                     !.paidOff = row.paidOff \/ next <= 0] \in SoundAccount
  BY <1>3, <1>4, <1>5, SoundSideFields
<1>. QED
  BY <1>6 DEF Paid

LEMMA UnpaidSound ==
  ASSUME NEW row \in SoundAccount, NEW t \in TxIds, NEW principal \in Nat
  PROVE  Unpaid(row, t, principal) \in SoundAccount
<1>1. row.totalPaid \in Nat
  BY DEF SoundAccount, Account
<1>2. Posted(row, t, principal) \in SoundAccount
  BY PostedSound
<1>3. AtLeastZero(row.totalPaid - principal) \in Nat
  BY <1>1, AtLeastZeroNat
<1>4. (row.paidOff /\ row.balance + principal <= 0) \in BOOLEAN
  OBVIOUS
<1>. QED
  BY <1>2, <1>3, <1>4, SoundSideFields DEF Unpaid

-----------------------------------------------------------------------------
(***************************************************************************)
(* Deleting a transaction, for the state a batch is in when it gets to it. *)
(***************************************************************************)

LEMMA RevertedPrincipalNat ==
  ASSUME NEW x \in Transaction
  PROVE  RevertedPrincipal(x) \in Nat /\ RevertedInterest(x) \in Int
BY DEF Transaction, RevertedPrincipal, RevertedInterest

LEMMA ReminderRevertedType ==
  ASSUME NEW row \in Reminder, NEW x \in Transaction
  PROVE  ReminderReverted(row, x) \in Reminder
<1> DEFINE next == IF row.balance = None THEN None
                   ELSE row.balance + RevertedPrincipal(x)
           total == AtLeastZero(row.totalPaid - x.amount)
           interest == AtLeastZero(row.interestPaid - RevertedInterest(x))
           off == row.paidOff /\ (next = None \/ next <= 0)
<1>1. row.balance \in Int \cup {None} /\ row.totalPaid \in Nat
      /\ row.interestPaid \in Nat /\ x.amount \in Nat
  BY DEF Reminder, Transaction
<1>2. next \in Int \cup {None}
  BY <1>1, RevertedPrincipalNat
<1>3. total \in Nat /\ interest \in Nat
  BY <1>1, RevertedPrincipalNat, AtLeastZeroNat
<1>4. ReminderReverted(row, x) =
        [row EXCEPT !.totalPaid = total, !.interestPaid = interest,
                    !.balance = next, !.paidOff = off]
  BY DEF ReminderReverted
<1>5. off \in BOOLEAN
  OBVIOUS
<1> HIDE DEF next, total, interest, off
<1>. QED
  BY <1>2, <1>3, <1>4, <1>5 DEF Reminder

LEMMA LendingRevertedType ==
  ASSUME NEW row \in Lending, NEW t \in TxIds, NEW x \in Transaction
  PROVE  LendingReverted(row, t, x) \in Lending
<1>1. row.balance \in Nat /\ row.repaid \in Nat /\ x.amount \in Nat
      /\ row.records \in Seq(LendingRecord)
  BY DEF Lending, Transaction
<1>2. /\ AtLeastZero(row.repaid - x.amount) \in Nat
      /\ AtLeastZero(row.balance - x.amount) \in Nat
      /\ row.balance + x.amount \in Nat
  BY <1>1 DEF AtLeastZero
<1>3. WithoutRepayment(row.records, t) \in Seq(LendingRecord)
  <2>1. \A i \in 1..Len(row.records) : row.records[i] \in LendingRecord
    BY <1>1
  <2>2. \A i \in 1..Len(row.records) :
          WithoutRepayment(row.records, t)[i] \in LendingRecord
    BY <2>1 DEF WithoutRepayment, LendingRecord, Status
  <2>3. Len(row.records) \in Nat
    BY <1>1
  <2>4. WithoutRepayment(row.records, t)
          \in [1..Len(row.records) -> LendingRecord]
    BY <2>2 DEF WithoutRepayment
  <2>. QED
    BY <2>3, <2>4
<1>4. CASE IsRepayment(row, x)
  <2> DEFINE repaid == AtLeastZero(row.repaid - x.amount)
             records == WithoutRepayment(row.records, t)
  <2>1. LendingReverted(row, t, x) =
          [row EXCEPT !.repaid = repaid, !.balance = row.balance + x.amount,
             !.settled = row.settled /\ row.balance + x.amount <= 0,
             !.records = records]
    BY <1>4 DEF LendingReverted
  <2>2. repaid \in Nat /\ records \in Seq(LendingRecord)
    BY <1>2, <1>3
  <2> HIDE DEF repaid, records
  <2>. QED
    BY <2>1, <2>2, <1>2 DEF Lending
<1>5. CASE ~IsRepayment(row, x)
  <2> DEFINE balance == AtLeastZero(row.balance - x.amount)
  <2>1. LendingReverted(row, t, x) = [row EXCEPT !.balance = balance]
    BY <1>5 DEF LendingReverted
  <2>2. balance \in Nat
    BY <1>2
  <2> HIDE DEF balance
  <2>. QED
    BY <2>1, <2>2 DEF Lending
<1>. QED
  BY <1>4, <1>5

LEMMA DeletedSound ==
  ASSUME NEW s, Sound(s), NEW t \in TxIds
  PROVE  Sound(Deleted(s, t))
<1> DEFINE x == s.transactions[t]
           acc == Reverted(s.accounts, t, x)
           d == Deleted(s, t)
<1>1. x \in Transaction
  BY DEF Sound
<1>2. acc \in [Accounts -> SoundAccount]
  BY <1>1, RevertedSound DEF Sound
<1>3. \A a \in Accounts :
        Unpaid(acc[a], t, RevertedPrincipal(x)) \in SoundAccount
  BY <1>1, <1>2, UnpaidSound, RevertedPrincipalNat
<1>4. d.accounts \in [Accounts -> SoundAccount]
  <2>1. d.accounts = [a \in Accounts |->
          IF a = LinkedAccount(s, x)
          THEN Unpaid(acc[a], t, RevertedPrincipal(x)) ELSE acc[a]]
    BY DEF Deleted, AccountsAfterDelete
  <2> HIDE DEF acc, d, x
  <2>. QED
    BY <2>1, <1>2, <1>3
<1>5. d.transactions \in [TxIds -> Transaction]
  <2>1. d.transactions = [s.transactions EXCEPT ![t].status = "deleted"]
    BY DEF Deleted
  <2>2. [x EXCEPT !.status = "deleted"] \in Transaction
    BY <1>1 DEF Transaction, Status
  <2> HIDE DEF d
  <2>. QED
    BY <2>1, <2>2 DEF Sound
<1>6. d.lendings \in [Lendings -> Lending]
  <2>1. d.lendings = [l \in Lendings |->
          IF x.source = "lending" /\ l = x.link
          THEN LendingReverted(s.lendings[l], t, x) ELSE s.lendings[l]]
    BY DEF Deleted
  <2> HIDE DEF d, x
  <2>. QED
    BY <2>1, <1>1, LendingRevertedType DEF Sound
<1>7. d.reminders \in [Reminders -> Reminder]
  <2>1. d.reminders = [r \in Reminders |->
          IF x.source = "reminder" /\ r = x.link
          THEN ReminderReverted(s.reminders[r], x) ELSE s.reminders[r]]
    BY DEF Deleted
  <2> HIDE DEF d, x
  <2>. QED
    BY <2>1, <1>1, ReminderRevertedType DEF Sound
<1>. QED
  BY <1>4, <1>5, <1>6, <1>7 DEF Sound

LEMMA CommitSound ==
  ASSUME NEW s, Sound(s), Commit(s)
  PROVE  Inv'
BY DEF Commit, Sound, Inv, Now

-----------------------------------------------------------------------------
(***************************************************************************)
(* One lemma per operation.                                                *)
(***************************************************************************)

\* The rows of a fresh database.
LEMMA NoRowsType ==
  /\ NoAccount \in Account
  /\ NoTransaction \in Transaction
  /\ NoLending \in Lending
  /\ NoReminder \in Reminder
<1>1. /\ \A S : <<>> \in Seq(S)
      /\ 0 \in Int /\ 0 \in Nat /\ FALSE \in BOOLEAN
      /\ None \in Accounts \cup {None} /\ None \in Int \cup {None}
      /\ None \in Lendings \cup Reminders \cup {None}
  OBVIOUS
<1>2. "absent" \in Status
  BY DEF Status
<1>3. NoAccount \in Account
  BY <1>1, <1>2 DEF NoAccount, Account
<1>4. NoTransaction \in Transaction
  BY <1>1, <1>2 DEF NoTransaction, Transaction
<1>5. NoLending \in Lending
  BY <1>1, <1>2 DEF NoLending, Lending
<1>6. NoReminder \in Reminder
  BY <1>1, <1>2 DEF NoReminder, Reminder
<1>. QED
  BY <1>3, <1>4, <1>5, <1>6

LEMMA CreateAccountInv ==
  ASSUME Inv, NEW a \in Accounts, NEW opening \in OpeningBalances,
         CreateAccount(a, opening)
  PROVE  Inv'
<1> DEFINE row == [NoAccount EXCEPT !.status = "live", !.initial = opening,
                                    !.balance = opening]
<1>1. opening \in Int
  BY LedgerAssumption
<1>2. row \in Account
  BY <1>1, NoRowsType DEF Account, Status
<1>3. ReplaysBalance(row)
  BY <1>1 DEF NoAccount, ReplaysBalance, BalanceBefore
<1>4. accounts' = [accounts EXCEPT ![a] = row]
  BY DEF CreateAccount
<1>5. row \in SoundAccount
  BY <1>2, <1>3 DEF SoundAccount
<1>6. accounts' \in [Accounts -> SoundAccount]
  <2> HIDE DEF row
  <2>. QED
    BY <1>4, <1>5 DEF Inv, Sound, Now
<1>7. transactions' \in [TxIds -> Transaction]
  <2>1. CASE UNCHANGED transactions
    BY <2>1 DEF Inv, Sound, Now
  <2>2. CASE \E t \in TxIds : transactions' = [transactions EXCEPT
                                 ![t] = OpeningTransaction(a, opening)]
    <3>1. OpeningTransaction(a, opening) \in Transaction
      <4> DEFINE type == IF (a \in DebtAccounts) = (opening > 0)
                         THEN "expense" ELSE "income"
                 amount == IF opening > 0 THEN opening ELSE -opening
      <4>1. type \in {"income", "expense", "transfer"} /\ amount \in Nat
        BY <1>1
      <4>2. OpeningTransaction(a, opening) =
              [NoTransaction EXCEPT !.status = "live", !.type = type,
                 !.account = a, !.amount = amount, !.source = "system"]
        BY DEF OpeningTransaction
      <4> HIDE DEF type, amount
      <4>. QED
        BY <4>1, <4>2, NoRowsType DEF Transaction, Status
    <3>. QED
      BY <2>2, <3>1 DEF Inv, Sound, Now
  <2>. QED
    BY <2>1, <2>2 DEF CreateAccount
<1>. QED
  BY <1>6, <1>7 DEF CreateAccount, Inv, Sound, Now

LEMMA RowFlagsSound ==
  ASSUME NEW row \in SoundAccount, NEW new \in Account,
         new.initial = row.initial, new.balance = row.balance,
         new.log = row.log
  PROVE  new \in SoundAccount
BY DEF SoundAccount, ReplaysBalance, BalanceBefore

LEMMA ArchiveAccountInv ==
  ASSUME Inv, NEW a \in Accounts, NEW isArchived \in BOOLEAN,
         ArchiveAccount(a, isArchived)
  PROVE  Inv'
<1> DEFINE new == [accounts[a] EXCEPT !.archived = isArchived]
<1>1. accounts[a] \in SoundAccount /\ accounts[a] \in Account
  BY DEF Inv, Sound, Now, SoundAccount
<1>2. /\ new \in Account
      /\ new.initial = accounts[a].initial
      /\ new.balance = accounts[a].balance
      /\ new.log = accounts[a].log
  BY <1>1 DEF Account
<1>3. new \in SoundAccount
  BY <1>1, <1>2, RowFlagsSound
<1>4. accounts' = [accounts EXCEPT ![a] = new]
  BY DEF ArchiveAccount
<1> HIDE DEF new
<1>. QED
  BY <1>3, <1>4 DEF ArchiveAccount, Inv, Sound, Now

LEMMA DeleteAccountInv ==
  ASSUME Inv, NEW a \in Accounts, DeleteAccount(a)
  PROVE  Inv'
<1> DEFINE new == [accounts[a] EXCEPT !.status = "deleted"]
<1>1. accounts[a] \in SoundAccount /\ accounts[a] \in Account
  BY DEF Inv, Sound, Now, SoundAccount
<1>2. /\ new \in Account
      /\ new.initial = accounts[a].initial
      /\ new.balance = accounts[a].balance
      /\ new.log = accounts[a].log
  BY <1>1 DEF Account, Status
<1>3. new \in SoundAccount
  BY <1>1, <1>2, RowFlagsSound
<1>4. accounts' = [accounts EXCEPT ![a] = new]
  BY DEF DeleteAccount
<1> HIDE DEF new
<1>. QED
  BY <1>3, <1>4 DEF DeleteAccount, Inv, Sound, Now

LEMMA RequestsType ==
  ASSUME NEW x \in Requests
  PROVE  x \in Transaction
<1>1. Amounts \subseteq Nat
  BY LedgerAssumption
<1>2. x \in [status : {"live"}, type : {"income", "expense", "transfer"},
             account : Accounts, to : Accounts \cup {None}, amount : Amounts,
             principal : {0}, interest : {0}, source : {"manual"},
             link : {None}]
  BY DEF Requests
<1>3. /\ x.status = "live" /\ x.source = "manual" /\ x.link = None
      /\ x.principal = 0 /\ x.interest = 0 /\ x.amount \in Amounts
      /\ x.type \in {"income", "expense", "transfer"}
      /\ x.account \in Accounts /\ x.to \in Accounts \cup {None}
  BY <1>2
<1>4. x = [status |-> x.status, type |-> x.type, account |-> x.account,
           to |-> x.to, amount |-> x.amount, principal |-> x.principal,
           interest |-> x.interest, source |-> x.source, link |-> x.link]
  BY <1>2
<1>. QED
  BY <1>1, <1>3, <1>4 DEF Transaction, Status

LEMMA CreateTransactionInv ==
  ASSUME Inv, NEW t \in TxIds, NEW x \in Requests, CreateTransaction(t, x)
  PROVE  Inv'
<1>1. x \in Transaction
  BY RequestsType
<1>2. accounts' \in [Accounts -> SoundAccount]
  BY <1>1, AppliedSound DEF CreateTransaction, Inv, Sound, Now
<1>. QED
  BY <1>1, <1>2 DEF CreateTransaction, Inv, Sound, Now

LEMMA UpdateTransactionInv ==
  ASSUME Inv, NEW t \in TxIds, NEW x \in Requests, UpdateTransaction(t, x)
  PROVE  Inv'
<1> DEFINE reverted == Reverted(accounts, t, transactions[t])
<1>1. x \in Transaction /\ transactions[t] \in Transaction
  BY RequestsType DEF Inv, Sound, Now
<1>2. reverted \in [Accounts -> SoundAccount]
  BY <1>1, RevertedSound DEF Inv, Sound, Now
<1>3. Applied(reverted, t, x) \in [Accounts -> SoundAccount]
  <2> HIDE DEF reverted
  <2>. QED
    BY <1>1, <1>2, AppliedSound
<1>. QED
  BY <1>1, <1>3 DEF UpdateTransaction, Inv, Sound, Now

LEMMA DeleteTransactionInv ==
  ASSUME Inv, NEW t \in TxIds, DeleteTransaction(t)
  PROVE  Inv'
BY DeletedSound, CommitSound DEF DeleteTransaction, Inv

LEMMA DeleteBatchInv ==
  ASSUME Inv, NEW t \in TxIds, NEW u \in TxIds, DeleteBatch(t, u)
  PROVE  Inv'
<1>1. Sound(Deleted(Now, t))
  BY DeletedSound DEF Inv
<1>2. Sound(Deleted(Deleted(Now, t), u))
  BY <1>1, DeletedSound
<1>. QED
  BY <1>2, CommitSound DEF DeleteBatch

LEMMA LendingTransactionType ==
  ASSUME NEW l \in Lendings, NEW a \in Accounts, NEW amount \in Nat,
         NEW type \in {"income", "expense", "transfer"}
  PROVE  LendingTransaction(l, type, a, amount) \in Transaction
BY NoRowsType DEF LendingTransaction, Transaction, Status

LEMMA PostManagedSound ==
  ASSUME Inv, NEW t \in TxIds, NEW x \in Transaction, PostManaged(t, x)
  PROVE  /\ accounts' \in [Accounts -> SoundAccount]
         /\ transactions' \in [TxIds -> Transaction]
<1>1. Applied(accounts, t, x) \in [Accounts -> SoundAccount]
  BY AppliedSound DEF Inv, Sound, Now
<1>. QED
  BY <1>1 DEF PostManaged, Inv, Sound, Now

LEMMA NewLendingType ==
  ASSUME NEW type \in {"lend_out", "borrow_in"}, NEW principal \in Nat
  PROVE  NewLending(type, principal) \in Lending
BY NoRowsType DEF NewLending, Lending, Status

LEMMA CreateLendingInv ==
  ASSUME Inv, NEW l \in Lendings, NEW type \in {"lend_out", "borrow_in"},
         NEW principal \in Amounts, CreateLending(l, type, principal)
  PROVE  Inv'
<1>1. NewLending(type, principal) \in Lending
  BY NewLendingType, LedgerAssumption
<1>. QED
  BY <1>1 DEF CreateLending, Inv, Sound, Now

LEMMA CreateLendingWithTransactionInv ==
  ASSUME Inv, NEW l \in Lendings, NEW type \in {"lend_out", "borrow_in"},
         NEW principal \in Amounts, NEW t \in TxIds, NEW a \in Accounts,
         CreateLendingWithTransaction(l, type, principal, t, a)
  PROVE  Inv'
<1> DEFINE x == LendingTransaction(l,
                  IF type = "lend_out" THEN "expense" ELSE "income",
                  a, principal)
<1>1. principal \in Nat
  BY LedgerAssumption
<1>2. NewLending(type, principal) \in Lending
  BY <1>1, NewLendingType
<1>3. x \in Transaction
  BY <1>1, LendingTransactionType
<1>4. PostManaged(t, x)
  BY DEF CreateLendingWithTransaction
<1>5. /\ accounts' \in [Accounts -> SoundAccount]
      /\ transactions' \in [TxIds -> Transaction]
  BY <1>3, <1>4, PostManagedSound
<1>. QED
  BY <1>2, <1>5 DEF CreateLendingWithTransaction, Inv, Sound, Now

LEMMA DeleteLendingInv ==
  ASSUME Inv, NEW l \in Lendings, DeleteLending(l)
  PROVE  Inv'
<1>1. lendings[l] \in Lending
  BY DEF Inv, Sound, Now
<1>2. [lendings[l] EXCEPT !.status = "deleted"] \in Lending
  BY <1>1 DEF Lending, Status
<1>. QED
  BY <1>2 DEF DeleteLending, Inv, Sound, Now

\* The overpayment guard is what keeps the balance of a lending natural.
LEMMA RepaidType ==
  ASSUME Inv, NEW l \in Lendings, NEW amount \in Amounts,
         NEW t \in TxIds \cup {None}, Repayable(l, amount)
  PROVE  Repaid(lendings[l], amount, t) \in Lending
<1> DEFINE row == lendings[l]
           entry == [status |-> "live", tx |-> t, amount |-> amount]
<1>1. row \in Lending
  BY DEF Inv, Sound, Now
<1>2. amount \in Nat /\ row.balance \in Nat /\ row.repaid \in Nat
      /\ row.records \in Seq(LendingRecord)
  BY <1>1, LedgerAssumption DEF Lending
<1>3. row.balance - amount \in Nat /\ row.repaid + amount \in Nat
  BY <1>2 DEF Repayable
<1>4. entry \in LendingRecord
  BY <1>2 DEF LendingRecord, Status
<1>5. Append(row.records, entry) \in Seq(LendingRecord)
  BY <1>2, <1>4
<1>6. Repaid(row, amount, t) =
        [row EXCEPT !.balance = row.balance - amount,
                    !.repaid = row.repaid + amount,
                    !.settled = row.settled \/ row.balance - amount = 0,
                    !.records = Append(row.records, entry)]
  BY DEF Repaid
<1> HIDE DEF row, entry
<1>7. Repaid(row, amount, t) \in Lending
  BY <1>1, <1>3, <1>5, <1>6 DEF Lending
<1>. QED
  BY <1>7 DEF row

LEMMA RecordRepaymentInv ==
  ASSUME Inv, NEW l \in Lendings, NEW amount \in Amounts,
         RecordRepayment(l, amount)
  PROVE  Inv'
<1>1. Repaid(lendings[l], amount, None) \in Lending
  BY RepaidType DEF RecordRepayment
<1>. QED
  BY <1>1 DEF RecordRepayment, Inv, Sound, Now

LEMMA RecordRepaymentWithTransactionInv ==
  ASSUME Inv, NEW l \in Lendings, NEW amount \in Amounts, NEW t \in TxIds,
         NEW a \in Accounts, RecordRepaymentWithTransaction(l, amount, t, a)
  PROVE  Inv'
<1> DEFINE x == LendingTransaction(l,
                  IF lendings[l].type = "lend_out" THEN "income" ELSE "expense",
                  a, amount)
<1>1. Repaid(lendings[l], amount, t) \in Lending
  BY RepaidType DEF RecordRepaymentWithTransaction
<1>2. amount \in Nat
  BY LedgerAssumption
<1>3. x \in Transaction
  BY <1>2, LendingTransactionType
<1>4. PostManaged(t, x)
  BY DEF RecordRepaymentWithTransaction
<1>5. /\ accounts' \in [Accounts -> SoundAccount]
      /\ transactions' \in [TxIds -> Transaction]
  BY <1>3, <1>4, PostManagedSound
<1>. QED
  BY <1>1, <1>5 DEF RecordRepaymentWithTransaction, Inv, Sound, Now

LEMMA LinkedBalanceType ==
  ASSUME Inv, NEW a, NEW requested \in Int \cup {None}
  PROVE  LinkedBalance(a, requested) \in Int \cup {None}
<1>1. CASE a \in DebtAccounts
  <2>1. accounts[a] \in Account
    BY <1>1, LedgerAssumption DEF Inv, Sound, Now, SoundAccount
  <2>. QED
    BY <1>1, <2>1 DEF LinkedBalance, Account
<1>2. CASE a \notin DebtAccounts
  BY <1>2 DEF LinkedBalance
<1>. QED
  BY <1>1, <1>2

LEMMA CreateReminderInv ==
  ASSUME Inv, NEW r \in Reminders, NEW a \in Accounts \cup {None},
         NEW requested \in Amounts \cup {None}, CreateReminder(r, a, requested)
  PROVE  Inv'
<1>1. LinkedBalance(a, requested) \in Int \cup {None}
  BY LinkedBalanceType, LedgerAssumption
<1>2. [NoReminder EXCEPT !.status = "live", !.account = a,
                         !.balance = LinkedBalance(a, requested)] \in Reminder
  BY <1>1, NoRowsType DEF Reminder, Status
<1>. QED
  BY <1>2 DEF CreateReminder, Inv, Sound, Now

LEMMA UpdateReminderInv ==
  ASSUME Inv, NEW r \in Reminders, NEW a \in Accounts \cup {None},
         NEW requested \in Amounts \cup {None, reminders[r].balance},
         UpdateReminder(r, a, requested)
  PROVE  Inv'
<1>1. reminders[r] \in Reminder
  BY DEF Inv, Sound, Now
<1>2. requested \in Int \cup {None}
  BY <1>1, LedgerAssumption DEF Reminder
<1>3. LinkedBalance(a, requested) \in Int \cup {None}
  BY <1>2, LinkedBalanceType
<1>4. [reminders[r] EXCEPT !.account = a,
                           !.balance = LinkedBalance(a, requested)] \in Reminder
  BY <1>1, <1>3 DEF Reminder
<1>5. reminders' = [reminders EXCEPT
        ![r] = [reminders[r] EXCEPT
                  !.account = a, !.balance = LinkedBalance(a, requested)]]
  BY <1>1 DEF UpdateReminder, Inv, Sound, Now
<1>. QED
  BY <1>4, <1>5 DEF UpdateReminder, Inv, Sound, Now

LEMMA DeleteReminderInv ==
  ASSUME Inv, NEW r \in Reminders, DeleteReminder(r)
  PROVE  Inv'
<1>1. [reminders[r] EXCEPT !.status = "deleted"] \in Reminder
  BY DEF Inv, Sound, Now, Reminder, Status
<1>. QED
  BY <1>1 DEF DeleteReminder, Inv, Sound, Now

LEMMA ReminderPaidType ==
  ASSUME NEW row \in Reminder, NEW amount \in Nat, NEW principal \in 0..amount
  PROVE  ReminderPaid(row, amount, principal) \in Reminder
<1> DEFINE next == IF row.balance = None THEN None
                   ELSE AtLeastZero(row.balance - principal)
           off == row.paidOff \/ next = 0
<1>1. /\ row.balance \in Int \cup {None}
      /\ row.totalPaid \in Nat /\ row.interestPaid \in Nat
  BY DEF Reminder
<1>2. next \in Int \cup {None}
  BY <1>1 DEF AtLeastZero
<1>3. /\ row.totalPaid + amount \in Nat
      /\ row.interestPaid + (amount - principal) \in Nat
  BY <1>1
<1>4. off \in BOOLEAN
  OBVIOUS
<1>5. ReminderPaid(row, amount, principal) =
        [row EXCEPT !.totalPaid = row.totalPaid + amount,
                    !.interestPaid = row.interestPaid + (amount - principal),
                    !.balance = next, !.paidOff = off]
  BY DEF ReminderPaid
<1> HIDE DEF next, off
<1>. QED
  BY <1>2, <1>3, <1>4, <1>5 DEF Reminder

LEMMA WithDebtPaidSound ==
  ASSUME NEW acc \in [Accounts -> SoundAccount], NEW debt,
         NEW t \in TxIds \cup {None}, NEW principal \in Nat
  PROVE  WithDebtPaid(acc, debt, t, principal) \in [Accounts -> SoundAccount]
BY PaidSound DEF WithDebtPaid

LEMMA RecordPaymentInv ==
  ASSUME Inv, NEW r \in Reminders, NEW amount \in Amounts,
         NEW principal \in 0..amount, RecordPayment(r, amount, principal)
  PROVE  Inv'
<1>1. amount \in Nat /\ principal \in Nat
  BY LedgerAssumption
<1>2. ReminderPaid(reminders[r], amount, principal) \in Reminder
  BY <1>1, ReminderPaidType DEF Inv, Sound, Now
<1>3. accounts' \in [Accounts -> SoundAccount]
  BY <1>1, WithDebtPaidSound DEF RecordPayment, Inv, Sound, Now
<1>. QED
  BY <1>2, <1>3 DEF RecordPayment, Inv, Sound, Now

LEMMA PaymentTransactionType ==
  ASSUME NEW r \in Reminders, NEW source \in Accounts, NEW amount \in Nat,
         NEW principal \in 0..amount
  PROVE  PaymentTransaction(r, source, amount, principal) \in Transaction
<1>1. principal \in Nat /\ amount - principal \in Nat
  OBVIOUS
<1>. QED
  BY <1>1, NoRowsType DEF PaymentTransaction, Transaction, Status

LEMMA RecordPaymentFromInv ==
  ASSUME Inv, NEW r \in Reminders, NEW source \in Accounts,
         NEW amount \in Amounts, NEW principal \in 0..amount, NEW t \in TxIds,
         RecordPaymentFrom(r, source, amount, principal, t)
  PROVE  Inv'
<1> DEFINE x == PaymentTransaction(r, source, amount, principal)
           acc == Applied(accounts, t, x)
<1>1. amount \in Nat /\ principal \in Nat
  BY LedgerAssumption
<1>2. x \in Transaction
  BY <1>1, PaymentTransactionType
<1>3. ReminderPaid(reminders[r], amount, principal) \in Reminder
  BY <1>1, ReminderPaidType DEF Inv, Sound, Now
<1>4. acc \in [Accounts -> SoundAccount]
  BY <1>2, AppliedSound DEF Inv, Sound, Now
<1>5. accounts' \in [Accounts -> SoundAccount]
  <2>1. accounts' = WithDebtPaid(acc, reminders[r].account, t, principal)
    BY DEF RecordPaymentFrom
  <2> HIDE DEF acc
  <2>. QED
    BY <2>1, <1>1, <1>4, WithDebtPaidSound
<1>6. /\ transactions' = [transactions EXCEPT ![t] = x]
      /\ reminders' = [reminders EXCEPT
           ![r] = ReminderPaid(reminders[r], amount, principal)]
      /\ UNCHANGED lendings
  BY DEF RecordPaymentFrom
<1> HIDE DEF x, acc
<1>. QED
  BY <1>2, <1>3, <1>5, <1>6 DEF Inv, Sound, Now

-----------------------------------------------------------------------------
LEMMA InitInv ==
  Init => Inv
<1> SUFFICES ASSUME Init PROVE Inv
  OBVIOUS
<1>1. ReplaysBalance(NoAccount)
  BY DEF ReplaysBalance, BalanceBefore, NoAccount
<1>. QED
  BY <1>1, NoRowsType DEF Init, Inv, Sound, Now, SoundAccount

LEMMA NextInv ==
  Inv /\ [Next]_vars => Inv'
<1> SUFFICES ASSUME Inv, [Next]_vars PROVE Inv'
  OBVIOUS
<1>1. CASE AccountNext
  BY <1>1, CreateAccountInv, ArchiveAccountInv, DeleteAccountInv
  DEF AccountNext
<1>2. CASE EntryNext
  BY <1>2, CreateTransactionInv, UpdateTransactionInv DEF EntryNext
<1>3. CASE DeletionNext
  BY <1>3, DeleteTransactionInv, DeleteBatchInv DEF DeletionNext
<1>4. CASE LendingNext
  BY <1>4, DeleteLendingInv, RecordRepaymentInv, CreateLendingInv,
     RecordRepaymentWithTransactionInv, CreateLendingWithTransactionInv
  DEF LendingNext
<1>5. CASE ReminderNext
  BY <1>5, DeleteReminderInv, CreateReminderInv, UpdateReminderInv,
     RecordPaymentInv, RecordPaymentFromInv
  DEF ReminderNext
<1>6. CASE UNCHANGED vars
  BY <1>6 DEF vars, Inv, Sound, Now
<1>. QED
  BY <1>1, <1>2, <1>3, <1>4, <1>5, <1>6 DEF Next

LEMMA AlwaysInv ==
  Spec => []Inv
BY InitInv, NextInv, PTL DEF Spec

LEMMA InvMeans ==
  Inv => TypeOK /\ LogReplaysBalance
BY DEF Inv, Sound, Now, SoundAccount, TypeOK, LogReplaysBalance

\* Every row is always a row of its table: no balance of a lending, no total
\* of a reminder or of an account ever goes below zero, however its payments
\* and repayments are recorded and deleted (transaction_rollback.go).
THEOREM TypeCorrect ==
  Spec => []TypeOK
BY AlwaysInv, InvMeans, PTL

\* The log of every account always replays its balance from the opening one:
\* the code never moves a balance without the log row that shows the move
\* (applyAccountBalanceMutationTx, applyDebtAccountPaymentTx and the rollback).
THEOREM LogAlwaysReplaysBalance ==
  Spec => []LogReplaysBalance
BY AlwaysInv, InvMeans, PTL

-----------------------------------------------------------------------------
(***************************************************************************)
(* Deleted accounts.                                                       *)
(***************************************************************************)

LEMMA PostingSkips ==
  ASSUME NEW acc, NEW t, NEW x, NEW a \in Accounts, a \notin Legs(x)
  PROVE  Applied(acc, t, x)[a] = acc[a] /\ Reverted(acc, t, x)[a] = acc[a]
BY DEF Applied, Reverted

LEMMA DeletionSkips ==
  ASSUME NEW s, NEW t \in TxIds, Deletable(s, t), NEW a \in Accounts,
         ~Live(s.accounts[a])
  PROVE  Deleted(s, t).accounts[a] = s.accounts[a]
<1> DEFINE x == s.transactions[t]
<1>1. a \notin Legs(x)
  BY DEF Deletable
<1>2. a # LinkedAccount(s, x)
  <2>1. a # None
    BY LedgerAssumption
  <2>. QED
    BY <2>1 DEF Deletable
<1>3. Deleted(s, t).accounts[a] = Reverted(s.accounts, t, x)[a]
  BY <1>2 DEF Deleted, AccountsAfterDelete
<1>. QED
  BY <1>1, <1>3, PostingSkips

LEMMA DebtPaymentSkips ==
  ASSUME NEW acc, NEW debt, NEW t, NEW principal, NEW a \in Accounts, a # debt
  PROVE  WithDebtPaid(acc, debt, t, principal)[a] = acc[a]
BY DEF WithDebtPaid

LEMMA NextSkipsDeleted ==
  ASSUME Inv, Next, NEW a \in Accounts, accounts[a].status = "deleted"
  PROVE  accounts'[a] = accounts[a]
<1>1. ~Live(accounts[a]) /\ ~AccountUsable(a)
      /\ accounts \in [Accounts -> SoundAccount]
  BY DEF Live, AccountUsable, Inv, Sound, Now
<1>2. CASE AccountNext
  BY <1>1, <1>2 DEF AccountNext, CreateAccount, ArchiveAccount, DeleteAccount
<1>3. CASE EntryNext
  <2>1. PICK t \in TxIds, x \in Requests :
          CreateTransaction(t, x) \/ UpdateTransaction(t, x)
    BY <1>3 DEF EntryNext
  <2>2. a \notin Legs(x)
    BY <1>1, <2>1 DEF CreateTransaction, UpdateTransaction, LegsUsable
  <2>3. CASE CreateTransaction(t, x)
    BY <2>2, <2>3, PostingSkips DEF CreateTransaction
  <2>4. CASE UpdateTransaction(t, x)
    <3>1. a \notin Legs(transactions[t])
      BY <1>1, <2>4 DEF UpdateTransaction, LegsUsable
    <3>. QED
      BY <2>2, <2>4, <3>1, PostingSkips DEF UpdateTransaction
  <2>. QED
    BY <2>1, <2>3, <2>4
<1>4. CASE DeletionNext
  <2>1. Now.accounts = accounts
    BY DEF Now
  <2>2. ASSUME NEW t \in TxIds, DeleteTransaction(t)
        PROVE  accounts'[a] = accounts[a]
    BY <1>1, <2>1, <2>2, DeletionSkips DEF DeleteTransaction, Commit
  <2>3. ASSUME NEW t \in TxIds, NEW u \in TxIds, DeleteBatch(t, u)
        PROVE  accounts'[a] = accounts[a]
    <3>1. Deletable(Now, t) /\ Deletable(Deleted(Now, t), u)
      BY <2>3 DEF DeleteBatch
    <3>2. Deleted(Now, t).accounts[a] = accounts[a]
      BY <1>1, <2>1, <3>1, DeletionSkips
    <3>3. Deleted(Deleted(Now, t), u).accounts[a] = accounts[a]
      BY <1>1, <3>1, <3>2, DeletionSkips
    <3>. QED
      BY <2>3, <3>3 DEF DeleteBatch, Commit
  <2>. QED
    BY <1>4, <2>2, <2>3 DEF DeletionNext
<1>5. CASE LendingNext
  <2>1. ASSUME NEW t, NEW x, x.type # "transfer", x.account # a \/ ~LegsUsable(x),
               PostManaged(t, x)
        PROVE  accounts'[a] = accounts[a]
    BY <2>1, PostingSkips DEF PostManaged, Legs
  <2>2. ASSUME NEW l \in Lendings, NEW b \in Accounts, NEW amount \in Amounts,
               NEW type \in {"income", "expense"}, NEW t \in TxIds,
               PostManaged(t, LendingTransaction(l, type, b, amount))
        PROVE  accounts'[a] = accounts[a]
    <3> DEFINE x == LendingTransaction(l, type, b, amount)
    <3>1. x.type = type /\ x.account = b
      BY DEF LendingTransaction, NoTransaction
    <3>2. b # a
      BY <1>1, <2>2, <3>1 DEF PostManaged, LegsUsable, Legs
    <3>. QED
      BY <2>1, <2>2, <3>1, <3>2
  <2>. QED
    BY <1>5, <2>2 DEF LendingNext, DeleteLending, RecordRepayment,
       CreateLending, RecordRepaymentWithTransaction,
       CreateLendingWithTransaction
<1>6. CASE ReminderNext
  <2>1. ASSUME NEW r \in Reminders, NEW principal, Payable(r, principal)
        PROVE  a # reminders[r].account
    BY <1>1, <2>1, LedgerAssumption DEF Payable
  <2>2. ASSUME NEW r \in Reminders, NEW amount, NEW principal,
               RecordPayment(r, amount, principal)
        PROVE  accounts'[a] = accounts[a]
    BY <2>1, <2>2, DebtPaymentSkips DEF RecordPayment
  <2>3. ASSUME NEW r \in Reminders, NEW source \in Accounts, NEW amount,
               NEW principal, NEW t \in TxIds,
               RecordPaymentFrom(r, source, amount, principal, t)
        PROVE  accounts'[a] = accounts[a]
    <3> DEFINE x == PaymentTransaction(r, source, amount, principal)
    <3>1. x.type = "expense" /\ x.account = source
      BY DEF PaymentTransaction, NoTransaction
    <3>2. a # source
      BY <1>1, <2>3 DEF RecordPaymentFrom
    <3>3. a \notin Legs(x)
      BY <3>1, <3>2 DEF Legs
    <3>4. a # reminders[r].account
      BY <2>1, <2>3 DEF RecordPaymentFrom
    <3>. QED
      BY <2>3, <3>3, <3>4, PostingSkips, DebtPaymentSkips
      DEF RecordPaymentFrom
  <2>. QED
    BY <1>6, <2>2, <2>3
    DEF ReminderNext, DeleteReminder, CreateReminder, UpdateReminder
<1>. QED
  BY <1>2, <1>3, <1>4, <1>5, <1>6 DEF Next

\* A deleted account never moves again: every posting looks its account up
\* among the live ones first (lockBalanceAccountsTx, getAccountForUserTx,
\* getAccountsForUserTx, revertReminderPaymentTx).
THEOREM DeletedAccountsStayFrozen ==
  Spec => DeletedAccountsFrozen
<1>1. Inv /\ [Next]_vars =>
        [\A a \in Accounts :
           accounts[a].status = "deleted" => accounts'[a] = accounts[a]]_vars
  BY NextSkipsDeleted
<1>. QED
  BY <1>1, AlwaysInv, PTL DEF Spec, DeletedAccountsFrozen
=============================================================================
