--------------------------- MODULE LedgerSumProofs ---------------------------
(***************************************************************************)
(* Proofs about the sums of Ledger: what an account's log and balance, a   *)
(* lending's and a reminder's totals add up to, for any set of accounts,   *)
(* amounts, lendings and reminders and any finite set of transaction ids.  *)
(*                                                                         *)
(* Each sum is moved by one term per step, so each proof says which term   *)
(* that is (SumLemmas does the arithmetic of it).  That no other term is   *)
(* moved takes a fact about what rows name, Rooted: a fresh id is named by *)
(* no row yet, and what a live row names has been drawn.                   *)
(*                                                                         *)
(*   Rooted    rows name drawn rows only                                   *)
(*   Nets      the log of an account nets to what each transaction says    *)
(*   Balances  its balance is the sum of the transactions                  *)
(*   Lent      a lending matches its records and its transactions          *)
(*   Covers    a reminder's totals cover its payments                      *)
(***************************************************************************)
EXTENDS LedgerProofs, SumLemmas

-----------------------------------------------------------------------------
(***************************************************************************)
(* What rows name.                                                         *)
(***************************************************************************)
Drawn(row) == row.status # "absent"

\* Every transaction the rows of a log or of a list of records name is drawn.
Named(entries, rows) ==
  \A i \in 1..Len(entries) :
    entries[i].tx # None => Drawn(rows[entries[i].tx])

AccountRooted(row, rows) ==
  (row = NoAccount \/ Drawn(row)) /\ Named(row.log, rows)

LendingRooted(row, rows) ==
  (row = NoLending \/ Drawn(row)) /\ Named(row.records, rows)

ReminderRooted(row) == row = NoReminder \/ Drawn(row)

TransactionRooted(x, s) ==
  \/ x = NoTransaction
  \/ /\ Drawn(x)
     /\ \A a \in Accounts \cap Legs(x) : Drawn(s.accounts[a])
     /\ x.source = "lending" =>
          x.link \in Lendings /\ Drawn(s.lendings[x.link])
     /\ x.source = "reminder" =>
          /\ x.link \in Reminders /\ Drawn(s.reminders[x.link])
          /\ x.interest = x.amount - x.principal

Rooted(s) ==
  /\ \A a \in Accounts : AccountRooted(s.accounts[a], s.transactions)
  /\ \A t \in TxIds : TransactionRooted(s.transactions[t], s)
  /\ \A l \in Lendings : LendingRooted(s.lendings[l], s.transactions)
  /\ \A r \in Reminders : ReminderRooted(s.reminders[r])

\* A row that was drawn in s is drawn in d.
Later(s, d) ==
  /\ \A a \in Accounts : Drawn(s.accounts[a]) => Drawn(d.accounts[a])
  /\ \A t \in TxIds : Drawn(s.transactions[t]) => Drawn(d.transactions[t])
  /\ \A l \in Lendings : Drawn(s.lendings[l]) => Drawn(d.lendings[l])
  /\ \A r \in Reminders : Drawn(s.reminders[r]) => Drawn(d.reminders[r])

LEMMA NoneIsNoId ==
  None \notin TxIds
<1>1. None \notin Int /\ TxIds \subseteq Int
  BY LedgerAssumption
<1>. QED
  BY <1>1

LEMMA NamedLater ==
  ASSUME NEW s, NEW d, NEW entries,
         \A i \in 1..Len(entries) : entries[i].tx \in TxIds \cup {None},
         Later(s, d), Named(entries, s.transactions)
  PROVE  Named(entries, d.transactions)
BY DEF Named, Later

LEMMA EntriesTyped ==
  ASSUME NEW s, Sound(s)
  PROVE  /\ \A a \in Accounts : \A i \in 1..Len(s.accounts[a].log) :
              s.accounts[a].log[i].tx \in TxIds \cup {None}
         /\ \A l \in Lendings : \A i \in 1..Len(s.lendings[l].records) :
              s.lendings[l].records[i].tx \in TxIds \cup {None}
<1>1. ASSUME NEW a \in Accounts, NEW i \in 1..Len(s.accounts[a].log)
      PROVE  s.accounts[a].log[i].tx \in TxIds \cup {None}
  <2>1. s.accounts[a].log \in Seq(LogEntry)
    BY DEF Sound, SoundAccount, Account
  <2>2. s.accounts[a].log[i] \in LogEntry
    BY <2>1, <1>1
  <2>. QED
    BY <2>2 DEF LogEntry
<1>2. ASSUME NEW l \in Lendings, NEW i \in 1..Len(s.lendings[l].records)
      PROVE  s.lendings[l].records[i].tx \in TxIds \cup {None}
  <2>1. s.lendings[l].records \in Seq(LendingRecord)
    BY DEF Sound, Lending
  <2>2. s.lendings[l].records[i] \in LendingRecord
    BY <2>1, <1>2
  <2>. QED
    BY <2>2 DEF LendingRecord
<1>. QED
  BY <1>1, <1>2

\* It is enough to look at the rows a step changes.
LEMMA RootedStep ==
  ASSUME NEW s, NEW d, Sound(s), Rooted(s), Later(s, d),
         \A a \in Accounts : \/ d.accounts[a] = s.accounts[a]
                             \/ AccountRooted(d.accounts[a], d.transactions),
         \A t \in TxIds : \/ d.transactions[t] = s.transactions[t]
                          \/ TransactionRooted(d.transactions[t], d),
         \A l \in Lendings : \/ d.lendings[l] = s.lendings[l]
                             \/ LendingRooted(d.lendings[l], d.transactions),
         \A r \in Reminders : \/ d.reminders[r] = s.reminders[r]
                              \/ ReminderRooted(d.reminders[r])
  PROVE  Rooted(d)
<1>1. ASSUME NEW a \in Accounts
      PROVE  AccountRooted(d.accounts[a], d.transactions)
  <2>1. Named(s.accounts[a].log, d.transactions)
    BY EntriesTyped, NamedLater DEF Rooted, AccountRooted
  <2>. QED
    BY <2>1 DEF Rooted, AccountRooted
<1>2. ASSUME NEW t \in TxIds
      PROVE  TransactionRooted(d.transactions[t], d)
  <2>1. TransactionRooted(s.transactions[t], d)
    BY DEF Rooted, TransactionRooted, Later
  <2>. QED
    BY <2>1
<1>3. ASSUME NEW l \in Lendings
      PROVE  LendingRooted(d.lendings[l], d.transactions)
  <2>1. Named(s.lendings[l].records, d.transactions)
    BY EntriesTyped, NamedLater DEF Rooted, LendingRooted
  <2>. QED
    BY <2>1 DEF Rooted, LendingRooted
<1>4. \A r \in Reminders : ReminderRooted(d.reminders[r])
  BY DEF Rooted
<1>. QED
  BY <1>1, <1>2, <1>3, <1>4 DEF Rooted

-----------------------------------------------------------------------------
(***************************************************************************)
(* What a posting does to a row.                                           *)
(***************************************************************************)
LEMMA PostedRow ==
  ASSUME NEW row \in Account, NEW t \in TxIds \cup {None}, NEW delta \in Int
  PROVE  /\ Posted(row, t, delta).status = row.status
         /\ Posted(row, t, delta).balance = row.balance + delta
BY DEF Posted, Account

\* Row i of log i is the old one, or the one row a posting appends.
Grown(new, old, t, delta) ==
  /\ Len(new) = Len(old) + 1 /\ Len(old) \in Nat
  /\ \A i \in 1..Len(old) : new[i] = old[i]
  /\ new[Len(old) + 1].tx = t
  /\ new[Len(old) + 1].after - new[Len(old) + 1].before = delta

LEMMA PostedGrows ==
  ASSUME NEW row \in Account, NEW t \in TxIds \cup {None}, NEW delta \in Int
  PROVE  Grown(Posted(row, t, delta).log, row.log, t, delta)
<1> DEFINE entry == [tx |-> t, before |-> row.balance,
                     after |-> row.balance + delta]
           new == Posted(row, t, delta)
<1>1. row.log \in Seq(LogEntry) /\ row.balance \in Int
  BY DEF Account
<1>2. entry \in LogEntry
  BY <1>1 DEF LogEntry
<1>3. new.log = Append(row.log, entry)
  BY DEF Posted, Account
<1>4. /\ Len(new.log) = Len(row.log) + 1
      /\ \A i \in 1..Len(row.log) : new.log[i] = row.log[i]
      /\ new.log[Len(row.log) + 1] = entry
      /\ Len(row.log) \in Nat
  BY <1>1, <1>2, <1>3
<1>5. entry.tx = t /\ entry.after - entry.before = delta
  BY <1>1
<1> HIDE DEF entry, new
<1>6. Grown(new.log, row.log, t, delta)
  BY <1>4, <1>5 DEF Grown
<1>. QED
  BY <1>6 DEF new

LEMMA PaidRow ==
  ASSUME NEW row \in Account, NEW t \in TxIds \cup {None}, NEW principal \in Nat,
         principal # 0
  PROVE  \E delta \in Int :
           /\ Paid(row, t, principal).status = row.status
           /\ Paid(row, t, principal).log = Posted(row, t, delta).log
<1> DEFINE next == AtLeastZero(row.balance - principal)
<1>1. row.balance \in Int
  BY DEF Account
<1>2. next - row.balance \in Int
  BY <1>1 DEF AtLeastZero
<1>3. /\ Paid(row, t, principal).status = row.status
      /\ Paid(row, t, principal).log = Posted(row, t, next - row.balance).log
  BY DEF Paid, Posted, Account
<1>. QED
  BY <1>2, <1>3

LEMMA UnpaidRow ==
  ASSUME NEW row \in Account, NEW t, NEW principal
  PROVE  /\ Unpaid(row, t, principal).status = row.status
         /\ Unpaid(row, t, principal).log = Posted(row, t, principal).log
BY DEF Unpaid, Posted, Account

\* A row whose log is the old one, or the old one and a row about a drawn
\* transaction.
LEMMA PostedRooted ==
  ASSUME NEW row \in Account, NEW t \in TxIds \cup {None}, NEW delta \in Int,
         NEW rows, NEW new,
         new.log = Posted(row, t, delta).log, new.status = row.status,
         Drawn(row), Named(row.log, rows), t # None => Drawn(rows[t])
  PROVE  AccountRooted(new, rows)
<1>0. Grown(new.log, row.log, t, delta)
  BY PostedGrows
<1>1. /\ Len(new.log) = Len(row.log) + 1 /\ Len(row.log) \in Nat
      /\ \A i \in 1..Len(row.log) : new.log[i] = row.log[i]
      /\ new.log[Len(row.log) + 1].tx = t
  BY <1>0 DEF Grown
<1>2. Named(new.log, rows)
  <2> SUFFICES ASSUME NEW i \in 1..Len(new.log), new.log[i].tx # None
               PROVE  Drawn(rows[new.log[i].tx])
    BY DEF Named
  <2>1. i \in 1..Len(row.log) \/ i = Len(row.log) + 1
    BY <1>1
  <2>. QED
    BY <1>1, <2>1 DEF Named
<1>3. Drawn(new)
  BY DEF Drawn
<1>. QED
  BY <1>2, <1>3 DEF AccountRooted

\* A posting of a drawn transaction to drawn accounts.
LEMMA PostingRooted ==
  ASSUME NEW acc \in [Accounts -> SoundAccount], NEW t \in TxIds,
         NEW x \in Transaction, NEW rows, NEW a \in Accounts,
         a \in Legs(x) => Drawn(acc[a]),
         AccountRooted(acc[a], rows), Drawn(rows[t])
  PROVE  /\ AccountRooted(Applied(acc, t, x)[a], rows)
         /\ AccountRooted(Reverted(acc, t, x)[a], rows)
         /\ Drawn(acc[a]) => /\ Drawn(Applied(acc, t, x)[a])
                             /\ Drawn(Reverted(acc, t, x)[a])
<1>1. acc[a] \in Account
  BY DEF SoundAccount
<1>2. BalanceDelta(x, a) \in Int /\ -BalanceDelta(x, a) \in Int
  BY BalanceDeltaInt
<1>3. CASE a \in Legs(x)
  <2>1. /\ Applied(acc, t, x)[a] = Posted(acc[a], t, BalanceDelta(x, a))
        /\ Reverted(acc, t, x)[a] = Posted(acc[a], t, -BalanceDelta(x, a))
    BY <1>3 DEF Applied, Reverted
  <2>2. Named(acc[a].log, rows) /\ Drawn(acc[a])
    BY <1>3 DEF AccountRooted
  <2>3. /\ Posted(acc[a], t, BalanceDelta(x, a)).status = acc[a].status
        /\ Posted(acc[a], t, -BalanceDelta(x, a)).status = acc[a].status
    BY <1>1, <1>2, PostedRow
  <2>. QED
    BY <1>1, <1>2, <2>1, <2>2, <2>3, PostedRooted DEF Drawn
<1>4. CASE a \notin Legs(x)
  BY <1>4, PostingSkips
<1>. QED
  BY <1>3, <1>4

LEMMA DebtPaymentRooted ==
  ASSUME NEW acc \in [Accounts -> SoundAccount], NEW t \in TxIds \cup {None},
         NEW debt, NEW principal \in Nat, NEW rows, NEW a \in Accounts,
         a = debt => Drawn(acc[a]),
         AccountRooted(acc[a], rows), t # None => Drawn(rows[t])
  PROVE  /\ AccountRooted(WithDebtPaid(acc, debt, t, principal)[a], rows)
         /\ Drawn(acc[a]) => Drawn(WithDebtPaid(acc, debt, t, principal)[a])
<1>1. acc[a] \in Account
  BY DEF SoundAccount
<1>2. CASE a = debt /\ principal # 0
  <2>1. WithDebtPaid(acc, debt, t, principal)[a] = Paid(acc[a], t, principal)
    BY <1>2 DEF WithDebtPaid
  <2>2. PICK delta \in Int :
          /\ Paid(acc[a], t, principal).status = acc[a].status
          /\ Paid(acc[a], t, principal).log = Posted(acc[a], t, delta).log
    BY <1>1, <1>2, PaidRow
  <2>3. Named(acc[a].log, rows) /\ Drawn(acc[a])
    BY <1>2 DEF AccountRooted
  <2>. QED
    BY <1>1, <2>1, <2>2, <2>3, PostedRooted DEF Drawn
<1>3. CASE ~(a = debt /\ principal # 0)
  BY <1>3 DEF WithDebtPaid, Paid
<1>. QED
  BY <1>2, <1>3

-----------------------------------------------------------------------------
(***************************************************************************)
(* Every operation leaves the rows rooted.                                 *)
(***************************************************************************)
LEMMA LegsDrawn ==
  ASSUME NEW x, LegsUsable(x), NEW a \in Accounts, a \in Legs(x)
  PROVE  Drawn(accounts[a])
BY DEF LegsUsable, AccountUsable, Live, Drawn

LEMMA CreateAccountRooted ==
  ASSUME Inv, Rooted(Now), NEW a \in Accounts, NEW opening \in OpeningBalances,
         CreateAccount(a, opening)
  PROVE  Rooted(Now)'
<1> DEFINE row == [NoAccount EXCEPT !.status = "live", !.initial = opening,
                                    !.balance = opening]
<1>1. Drawn(row) /\ row.log = <<>>
  BY DEF NoAccount, Drawn
<1>2. \A rows : AccountRooted(row, rows)
  BY <1>1 DEF AccountRooted, Named
<1> HIDE DEF row
<1>3. /\ accounts' = [accounts EXCEPT ![a] = row]
      /\ UNCHANGED <<lendings, reminders>>
  BY DEF CreateAccount, row
<1>4. /\ accounts \in [Accounts -> SoundAccount]
      /\ transactions \in [TxIds -> Transaction]
  BY DEF Inv, Sound, Now
<1>5. CASE opening = 0
  <2>1. transactions' = transactions
    BY <1>5 DEF CreateAccount
  <2>2. Later(Now, Now')
    BY <1>1, <1>3, <1>4, <2>1 DEF Later, Now
  <2>. QED
    BY <1>2, <1>3, <1>4, <2>1, <2>2, RootedStep DEF Now, Inv
<1>6. CASE opening # 0
  <2>1. PICK t \in TxIds :
          transactions' = [transactions EXCEPT
            ![t] = OpeningTransaction(a, opening)]
    BY <1>6 DEF CreateAccount
  <2> DEFINE x == OpeningTransaction(a, opening)
  <2>2. /\ Drawn(x) /\ Legs(x) = {a} /\ x.source = "system"
    BY DEF OpeningTransaction, NoTransaction, Drawn, Legs
  <2> HIDE DEF x
  <2>3. /\ transactions' = [transactions EXCEPT ![t] = x]
        /\ Drawn(accounts'[a])
    BY <1>1, <1>3, <1>4, <2>1 DEF x
  <2>4. Later(Now, Now')
    BY <1>1, <1>3, <1>4, <2>2, <2>3 DEF Later, Now
  <2>5. TransactionRooted(x, Now')
    BY <2>2, <2>3 DEF TransactionRooted, Now
  <2>. QED
    BY <1>2, <1>3, <1>4, <2>3, <2>4, <2>5, RootedStep DEF Now, Inv
<1>. QED
  BY <1>5, <1>6

LEMMA AccountFlagsRooted ==
  ASSUME Inv, Rooted(Now), NEW a \in Accounts, NEW new,
         accounts' = [accounts EXCEPT ![a] = new],
         Drawn(new), new.log = accounts[a].log,
         UNCHANGED <<transactions, lendings, reminders>>
  PROVE  Rooted(Now)'
<1>1. accounts \in [Accounts -> SoundAccount]
  BY DEF Inv, Sound, Now
<1>2. Later(Now, Now')
  BY <1>1 DEF Later, Now
<1>3. AccountRooted(new, transactions')
  BY DEF Rooted, Now, AccountRooted
<1>. QED
  BY <1>1, <1>2, <1>3, RootedStep DEF Now, Inv

\* A transaction on usable accounts, posted and stored.
LEMMA StoredRooted ==
  ASSUME Inv, Rooted(Now), NEW t \in TxIds, NEW x \in Transaction,
         NEW acc \in [Accounts -> SoundAccount],
         \A a \in Accounts : Drawn(accounts[a]) => Drawn(acc[a]),
         \A a \in Accounts : AccountRooted(acc[a], transactions')
                               \/ acc[a] = accounts[a],
         accounts' = acc,
         transactions' = [transactions EXCEPT ![t] = x],
         Drawn(x), TransactionRooted(x, Now'),
         \A l \in Lendings : \/ lendings'[l] = lendings[l]
                             \/ LendingRooted(lendings'[l], transactions'),
         \A l \in Lendings : Drawn(lendings[l]) => Drawn(lendings'[l]),
         \A r \in Reminders : \/ reminders'[r] = reminders[r]
                              \/ Drawn(reminders'[r])
  PROVE  Rooted(Now)'
<1>1. transactions \in [TxIds -> Transaction]
  BY DEF Inv, Sound, Now
<1>2. Later(Now, Now')
  BY <1>1 DEF Later, Now
<1>3. /\ \A a \in Accounts :
           \/ Now'.accounts[a] = Now.accounts[a]
           \/ AccountRooted(Now'.accounts[a], Now'.transactions)
      /\ \A u \in TxIds :
           \/ Now'.transactions[u] = Now.transactions[u]
           \/ TransactionRooted(Now'.transactions[u], Now')
      /\ \A l \in Lendings :
           \/ Now'.lendings[l] = Now.lendings[l]
           \/ LendingRooted(Now'.lendings[l], Now'.transactions)
      /\ \A r \in Reminders :
           \/ Now'.reminders[r] = Now.reminders[r]
           \/ ReminderRooted(Now'.reminders[r])
  BY <1>1 DEF Now, ReminderRooted
<1>. QED
  BY <1>2, <1>3, RootedStep DEF Inv

\* Storing a row as transaction t keeps what the other tables name drawn.
LEMMA StillRooted ==
  ASSUME Inv, Rooted(Now), NEW t \in TxIds, NEW x, Drawn(x),
         transactions' = [transactions EXCEPT ![t] = x]
  PROVE  /\ \A a \in Accounts : AccountRooted(accounts[a], transactions')
         /\ \A l \in Lendings : LendingRooted(lendings[l], transactions')
<1> DEFINE d == [Now EXCEPT !.transactions = transactions']
<1>1. transactions \in [TxIds -> Transaction]
  BY DEF Inv, Sound, Now
<1>2. /\ d.accounts = accounts /\ d.transactions = transactions'
      /\ d.lendings = lendings /\ d.reminders = reminders
      /\ Now.accounts = accounts /\ Now.transactions = transactions
      /\ Now.lendings = lendings /\ Now.reminders = reminders
  BY DEF Now
<1> HIDE DEF d
<1>3. Later(Now, d)
  BY <1>1, <1>2 DEF Later
<1>4. \A a \in Accounts : Named(accounts[a].log, transactions')
  <2> TAKE a \in Accounts
  <2>1. Named(Now.accounts[a].log, Now.transactions)
    BY DEF Rooted, AccountRooted
  <2>2. \A i \in 1..Len(Now.accounts[a].log) :
          Now.accounts[a].log[i].tx \in TxIds \cup {None}
    BY EntriesTyped DEF Inv
  <2>3. Named(Now.accounts[a].log, d.transactions)
    BY <1>3, <2>1, <2>2, NamedLater
  <2>. QED
    BY <1>2, <2>3
<1>5. \A l \in Lendings : Named(lendings[l].records, transactions')
  <2> TAKE l \in Lendings
  <2>1. Named(Now.lendings[l].records, Now.transactions)
    BY DEF Rooted, LendingRooted
  <2>2. \A i \in 1..Len(Now.lendings[l].records) :
          Now.lendings[l].records[i].tx \in TxIds \cup {None}
    BY EntriesTyped DEF Inv
  <2>3. Named(Now.lendings[l].records, d.transactions)
    BY <1>3, <2>1, <2>2, NamedLater
  <2>. QED
    BY <1>2, <2>3
<1>. QED
  BY <1>2, <1>4, <1>5 DEF Rooted, AccountRooted, LendingRooted

\* A new transaction on usable accounts: entered by hand or for a lending.
LEMMA PostRooted ==
  ASSUME Inv, Rooted(Now), NEW t \in TxIds, NEW x \in Transaction,
         LegsUsable(x), Live(x),
         accounts' = Applied(accounts, t, x),
         transactions' = [transactions EXCEPT ![t] = x],
         TransactionRooted(x, Now'),
         \A l \in Lendings : \/ lendings'[l] = lendings[l]
                             \/ LendingRooted(lendings'[l], transactions'),
         \A l \in Lendings : Drawn(lendings[l]) => Drawn(lendings'[l]),
         UNCHANGED reminders
  PROVE  Rooted(Now)'
<1>1. /\ accounts \in [Accounts -> SoundAccount]
      /\ transactions \in [TxIds -> Transaction]
  BY DEF Inv, Sound, Now
<1>2. Drawn(x) /\ Drawn(transactions'[t])
  BY <1>1 DEF Live, Drawn
<1>3. \A a \in Accounts : AccountRooted(accounts[a], transactions')
  BY <1>2, StillRooted
<1>4. \A a \in Accounts :
        /\ AccountRooted(Applied(accounts, t, x)[a], transactions')
        /\ Drawn(accounts[a]) => Drawn(Applied(accounts, t, x)[a])
  BY <1>1, <1>2, <1>3, LegsDrawn, PostingRooted
<1>5. Applied(accounts, t, x) \in [Accounts -> SoundAccount]
  BY <1>1, AppliedSound
<1>. QED
  BY <1>2, <1>4, <1>5, StoredRooted

LEMMA CreateTransactionRooted ==
  ASSUME Inv, Rooted(Now), NEW t \in TxIds, NEW x \in Requests,
         CreateTransaction(t, x)
  PROVE  Rooted(Now)'
<1>1. x \in Transaction /\ Live(x) /\ x.source = "manual"
  BY RequestsType DEF Requests, Live
<1>2. /\ LegsUsable(x)
      /\ accounts' = Applied(accounts, t, x)
      /\ transactions' = [transactions EXCEPT ![t] = x]
      /\ lendings' = lendings /\ reminders' = reminders
  BY DEF CreateTransaction
<1>3. \A a \in Accounts \cap Legs(x) : Drawn(accounts'[a])
  <2> TAKE a \in Accounts \cap Legs(x)
  <2>1. Drawn(accounts[a])
    BY <1>2, LegsDrawn
  <2>2. accounts \in [Accounts -> SoundAccount]
    BY DEF Inv, Sound, Now
  <2>3. /\ accounts[a] \in Account /\ BalanceDelta(x, a) \in Int
        /\ accounts'[a] = Posted(accounts[a], t, BalanceDelta(x, a))
    BY <1>1, <1>2, <2>2, BalanceDeltaInt DEF Applied, SoundAccount
  <2>4. accounts'[a].status = accounts[a].status
    BY <2>3, PostedRow
  <2>. QED
    BY <2>1, <2>4 DEF Drawn
<1>4. TransactionRooted(x, Now')
  BY <1>1, <1>3 DEF TransactionRooted, Now, Drawn, Live
<1>. QED
  BY <1>1, <1>2, <1>4, PostRooted

LEMMA UpdateTransactionRooted ==
  ASSUME Inv, Rooted(Now), NEW t \in TxIds, NEW x \in Requests,
         UpdateTransaction(t, x)
  PROVE  Rooted(Now)'
<1> DEFINE old == transactions[t]
           reverted == Reverted(accounts, t, old)
           acc == Applied(reverted, t, x)
<1>1. x \in Transaction /\ Live(x) /\ x.source = "manual" /\ Drawn(x)
  BY RequestsType DEF Requests, Live, Drawn
<1>2. /\ LegsUsable(x) /\ LegsUsable(old)
      /\ accounts' = acc
      /\ transactions' = [transactions EXCEPT ![t] = x]
      /\ lendings' = lendings /\ reminders' = reminders
  BY DEF UpdateTransaction
<1>3. /\ accounts \in [Accounts -> SoundAccount]
      /\ transactions \in [TxIds -> Transaction]
      /\ old \in Transaction
  BY DEF Inv, Sound, Now
<1>4. Drawn(transactions'[t])
  BY <1>1, <1>2, <1>3
<1> HIDE DEF old
<1>5. \A a \in Accounts :
        /\ AccountRooted(reverted[a], transactions')
        /\ Drawn(accounts[a]) => Drawn(reverted[a])
  <2>1. \A a \in Accounts : AccountRooted(accounts[a], transactions')
    BY <1>1, <1>2, StillRooted
  <2>. QED
    BY <1>2, <1>3, <1>4, <2>1, LegsDrawn, PostingRooted
<1>6. reverted \in [Accounts -> SoundAccount]
  BY <1>3, RevertedSound
<1> HIDE DEF reverted
<1>7. \A a \in Accounts :
        /\ AccountRooted(acc[a], transactions')
        /\ Drawn(reverted[a]) => Drawn(acc[a])
  BY <1>1, <1>2, <1>4, <1>5, <1>6, LegsDrawn, PostingRooted
<1>8. acc \in [Accounts -> SoundAccount]
  BY <1>1, <1>6, AppliedSound
<1> HIDE DEF acc
<1>9. TransactionRooted(x, Now')
  <2>1. \A a \in Accounts \cap Legs(x) : Drawn(accounts'[a])
    BY <1>2, <1>5, <1>7, LegsDrawn
  <2>. QED
    BY <1>1, <2>1 DEF TransactionRooted, Now
<1>. QED
  BY <1>1, <1>2, <1>5, <1>7, <1>8, <1>9, StoredRooted

LEMMA LendingRevertedRow ==
  ASSUME NEW row \in Lending, NEW t, NEW x
  PROVE  /\ LendingReverted(row, t, x).status = row.status
         /\ Len(LendingReverted(row, t, x).records) = Len(row.records)
         /\ \A i \in 1..Len(row.records) :
              LendingReverted(row, t, x).records[i].tx = row.records[i].tx
<1>1. row.records \in Seq(LendingRecord) /\ Len(row.records) \in Nat
  BY DEF Lending
<1>2. \A i \in 1..Len(row.records) : row.records[i] \in LendingRecord
  BY <1>1
<1> DEFINE records == WithoutRepayment(row.records, t)
<1>3. /\ Len(records) = Len(row.records)
      /\ \A i \in 1..Len(row.records) : records[i].tx = row.records[i].tx
  BY <1>1, <1>2 DEF WithoutRepayment, LendingRecord
<1>4. /\ LendingReverted(row, t, x).status = row.status
      /\ LendingReverted(row, t, x).records \in {records, row.records}
  BY DEF LendingReverted, Lending
<1>. QED
  BY <1>3, <1>4

LEMMA ReminderRevertedRow ==
  ASSUME NEW row \in Reminder, NEW x
  PROVE  ReminderReverted(row, x).status = row.status
BY DEF ReminderReverted, Reminder

LEMMA DeletedRooted ==
  ASSUME NEW s, NEW t \in TxIds, Sound(s), Rooted(s), Deletable(s, t)
  PROVE  Rooted(Deleted(s, t))
<1> DEFINE x == s.transactions[t]
           d == Deleted(s, t)
           acc == Reverted(s.accounts, t, x)
           debt == LinkedAccount(s, x)
           principal == RevertedPrincipal(x)
           gone == [x EXCEPT !.status = "deleted"]
<1>1. /\ s.accounts \in [Accounts -> SoundAccount]
      /\ s.transactions \in [TxIds -> Transaction]
      /\ s.lendings \in [Lendings -> Lending]
      /\ s.reminders \in [Reminders -> Reminder]
      /\ x \in Transaction
  BY DEF Sound
<1>2. /\ x.status = "live"
      /\ \A a \in Legs(x) : Drawn(s.accounts[a])
      /\ debt # None => Drawn(s.accounts[debt])
  BY DEF Deletable, Live, Drawn
<1>3. principal \in Int
  BY <1>1, RevertedPrincipalNat
<1>4. /\ d.accounts = [a \in Accounts |->
            IF a = debt THEN Unpaid(acc[a], t, principal) ELSE acc[a]]
      /\ d.transactions = [s.transactions EXCEPT ![t] = gone]
      /\ d.lendings = [l \in Lendings |->
           IF x.source = "lending" /\ l = x.link
           THEN LendingReverted(s.lendings[l], t, x) ELSE s.lendings[l]]
      /\ d.reminders = [r \in Reminders |->
           IF x.source = "reminder" /\ r = x.link
           THEN ReminderReverted(s.reminders[r], x) ELSE s.reminders[r]]
  BY DEF Deleted, AccountsAfterDelete
<1>5. Drawn(gone) /\ Drawn(d.transactions[t])
  BY <1>1, <1>4 DEF Drawn, Transaction
<1>6. TransactionRooted(x, s) /\ x # NoTransaction
  BY <1>2 DEF Rooted, NoTransaction
<1>7. acc \in [Accounts -> SoundAccount]
  BY <1>1, RevertedSound
<1> HIDE DEF d, acc, debt, principal, gone
<1>8. \A u \in TxIds : Drawn(s.transactions[u]) => Drawn(d.transactions[u])
  BY <1>1, <1>4, <1>5
<1>9. \A l \in Lendings : d.lendings[l].status = s.lendings[l].status
  BY <1>1, <1>4, LendingRevertedRow
<1>10. \A r \in Reminders : d.reminders[r].status = s.reminders[r].status
  BY <1>1, <1>4, ReminderRevertedRow
<1>11. /\ \A a \in Accounts : AccountRooted(s.accounts[a], d.transactions)
       /\ \A l \in Lendings : Named(s.lendings[l].records, d.transactions)
  BY <1>8, EntriesTyped DEF Rooted, AccountRooted, LendingRooted, Named
<1>12. \A a \in Accounts :
         /\ AccountRooted(acc[a], d.transactions)
         /\ Drawn(s.accounts[a]) => Drawn(acc[a])
  BY <1>1, <1>2, <1>5, <1>11, PostingRooted DEF acc
<1>13. ASSUME NEW a \in Accounts
       PROVE  /\ AccountRooted(d.accounts[a], d.transactions)
              /\ Drawn(s.accounts[a]) => Drawn(d.accounts[a])
  <2>1. CASE a = debt
    <3>1. Drawn(acc[a]) /\ acc[a] \in Account
      BY <2>1, <1>2, <1>7, <1>12, LedgerAssumption DEF SoundAccount
    <3>2. /\ d.accounts[a] = Unpaid(acc[a], t, principal)
          /\ d.accounts[a].status = acc[a].status
          /\ d.accounts[a].log = Posted(acc[a], t, principal).log
      BY <2>1, <1>4, <3>1, UnpaidRow
    <3>3. Named(acc[a].log, d.transactions)
      BY <1>12 DEF AccountRooted
    <3>. QED
      BY <3>1, <3>2, <3>3, <1>3, <1>5, PostedRooted DEF Drawn
  <2>2. CASE a # debt
    BY <2>2, <1>4, <1>12
  <2>. QED
    BY <2>1, <2>2
<1>14. Later(s, d)
  BY <1>8, <1>9, <1>10, <1>13 DEF Later, Drawn
<1>15. TransactionRooted(gone, d)
  <2>1. /\ Legs(gone) = Legs(x) /\ gone.source = x.source
        /\ gone.link = x.link /\ gone.interest = x.interest
        /\ gone.amount = x.amount /\ gone.principal = x.principal
    BY <1>1 DEF gone, Legs, Transaction
  <2>. QED
    BY <2>1, <1>5, <1>6, <1>14 DEF TransactionRooted, Later
<1>16. \A l \in Lendings : \/ d.lendings[l] = s.lendings[l]
                           \/ LendingRooted(d.lendings[l], d.transactions)
  <2> SUFFICES ASSUME NEW l \in Lendings, d.lendings[l] # s.lendings[l]
               PROVE  LendingRooted(d.lendings[l], d.transactions)
    OBVIOUS
  <2>1. /\ x.source = "lending" /\ l = x.link
        /\ d.lendings[l] = LendingReverted(s.lendings[l], t, x)
    BY <1>4
  <2>2. Drawn(s.lendings[l])
    BY <2>1, <1>6 DEF TransactionRooted
  <2>3. Drawn(d.lendings[l])
    BY <2>2, <1>9 DEF Drawn
  <2>4. /\ Len(d.lendings[l].records) = Len(s.lendings[l].records)
        /\ \A i \in 1..Len(s.lendings[l].records) :
             d.lendings[l].records[i].tx = s.lendings[l].records[i].tx
    <3> DEFINE row == s.lendings[l]
               new == LendingReverted(row, t, x)
    <3>1. row \in Lending
      BY <1>1
    <3> HIDE DEF row
    <3>2. /\ Len(new.records) = Len(row.records)
          /\ \A i \in 1..Len(row.records) :
               new.records[i].tx = row.records[i].tx
      BY <3>1, LendingRevertedRow
    <3> HIDE DEF new
    <3>3. d.lendings[l] = new
      BY <2>1 DEF new, row
    <3>. QED
      BY <3>2, <3>3 DEF row
  <2>5. Named(d.lendings[l].records, d.transactions)
    BY <2>4, <1>11 DEF Named
  <2>. QED
    BY <2>3, <2>5 DEF LendingRooted
<1>17. \A r \in Reminders : \/ d.reminders[r] = s.reminders[r]
                            \/ ReminderRooted(d.reminders[r])
  <2> SUFFICES ASSUME NEW r \in Reminders, d.reminders[r] # s.reminders[r]
               PROVE  ReminderRooted(d.reminders[r])
    OBVIOUS
  <2>1. x.source = "reminder" /\ r = x.link
    BY <1>4
  <2>2. Drawn(s.reminders[r])
    BY <2>1, <1>6 DEF TransactionRooted
  <2>. QED
    BY <2>2, <1>10 DEF ReminderRooted, Drawn
<1>18. \A u \in TxIds : \/ d.transactions[u] = s.transactions[u]
                        \/ TransactionRooted(d.transactions[u], d)
  BY <1>1, <1>4, <1>15
<1>. QED
  BY <1>13, <1>14, <1>16, <1>17, <1>18, RootedStep DEF d

LEMMA CommitDeleted ==
  ASSUME NEW s, NEW t, Commit(Deleted(s, t))
  PROVE  Now' = Deleted(s, t)
BY DEF Commit, Deleted, Now

LEMMA DeletionRooted ==
  ASSUME Inv, Rooted(Now), DeletionNext
  PROVE  Rooted(Now)'
<1>1. ASSUME NEW t \in TxIds, DeleteTransaction(t)
      PROVE  Rooted(Now)'
  <2>1. Deletable(Now, t) /\ Now' = Deleted(Now, t)
    BY <1>1, CommitDeleted DEF DeleteTransaction
  <2>. QED
    BY <2>1, DeletedRooted DEF Inv
<1>2. ASSUME NEW t \in TxIds, NEW u \in TxIds, DeleteBatch(t, u)
      PROVE  Rooted(Now)'
  <2> DEFINE s == Deleted(Now, t)
  <2>1. Deletable(Now, t) /\ Deletable(s, u) /\ Now' = Deleted(s, u)
    BY <1>2, CommitDeleted DEF DeleteBatch
  <2>2. Sound(s) /\ Rooted(s)
    BY <2>1, DeletedSound, DeletedRooted DEF Inv
  <2> HIDE DEF s
  <2>3. Rooted(Deleted(s, u))
    BY <2>1, <2>2, DeletedRooted
  <2>. QED
    BY <2>1, <2>3
<1>. QED
  BY <1>1, <1>2 DEF DeletionNext

\* Only the row of one lending changes.
LEMMA LendingRowRooted ==
  ASSUME Inv, Rooted(Now), NEW l \in Lendings, NEW new,
         lendings' = [lendings EXCEPT ![l] = new],
         LendingRooted(new, transactions), Drawn(new),
         UNCHANGED <<accounts, transactions, reminders>>
  PROVE  Rooted(Now)'
<1>1. lendings \in [Lendings -> Lending]
  BY DEF Inv, Sound, Now
<1>2. Later(Now, Now')
  BY <1>1 DEF Later, Now
<1>3. /\ \A a \in Accounts : Now'.accounts[a] = Now.accounts[a]
      /\ \A u \in TxIds : Now'.transactions[u] = Now.transactions[u]
      /\ \A k \in Lendings :
           \/ Now'.lendings[k] = Now.lendings[k]
           \/ LendingRooted(Now'.lendings[k], Now'.transactions)
      /\ \A r \in Reminders : Now'.reminders[r] = Now.reminders[r]
  BY <1>1 DEF Now
<1>. QED
  BY <1>2, <1>3, RootedStep DEF Inv

LEMMA NewLendingRow ==
  ASSUME NEW type, NEW principal, NEW rows
  PROVE  Drawn(NewLending(type, principal))
           /\ LendingRooted(NewLending(type, principal), rows)
BY DEF NewLending, NoLending, Drawn, LendingRooted, Named

\* What a repayment appends to the records.
LEMMA RepaidRow ==
  ASSUME NEW row \in Lending, NEW amount \in Nat, NEW t \in TxIds \cup {None}
  PROVE  LET new == Repaid(row, amount, t) IN
         /\ new.status = row.status
         /\ Len(new.records) = Len(row.records) + 1
         /\ Len(row.records) \in Nat
         /\ \A i \in 1..Len(row.records) : new.records[i] = row.records[i]
         /\ new.records[Len(row.records) + 1]
              = [status |-> "live", tx |-> t, amount |-> amount]
<1> DEFINE entry == [status |-> "live", tx |-> t, amount |-> amount]
           new == Repaid(row, amount, t)
<1>1. row.records \in Seq(LendingRecord)
  BY DEF Lending
<1>2. entry \in LendingRecord
  BY DEF LendingRecord, Status
<1>3. /\ new.records = Append(row.records, entry)
      /\ new.status = row.status
  BY DEF Repaid, Lending
<1>4. /\ Len(new.records) = Len(row.records) + 1
      /\ Len(row.records) \in Nat
      /\ \A i \in 1..Len(row.records) : new.records[i] = row.records[i]
      /\ new.records[Len(row.records) + 1] = entry
  BY <1>1, <1>2, <1>3
<1>. QED
  BY <1>3, <1>4

LEMMA RepaidRooted ==
  ASSUME NEW row \in Lending, NEW amount \in Nat, NEW t \in TxIds \cup {None},
         NEW rows, Drawn(row), Named(row.records, rows),
         t = None \/ Drawn(rows[t])
  PROVE  /\ LendingRooted(Repaid(row, amount, t), rows)
         /\ Drawn(Repaid(row, amount, t))
<1> DEFINE new == Repaid(row, amount, t)
<1>1. /\ new.status = row.status
      /\ Len(new.records) = Len(row.records) + 1 /\ Len(row.records) \in Nat
      /\ \A i \in 1..Len(row.records) : new.records[i] = row.records[i]
      /\ new.records[Len(row.records) + 1]
           = [status |-> "live", tx |-> t, amount |-> amount]
  BY RepaidRow
<1> HIDE DEF new
<1>2. Named(new.records, rows)
  <2> SUFFICES ASSUME NEW i \in 1..Len(new.records), new.records[i].tx # None
               PROVE  Drawn(rows[new.records[i].tx])
    BY DEF Named
  <2>1. i \in 1..Len(row.records) \/ i = Len(row.records) + 1
    BY <1>1
  <2>. QED
    BY <1>1, <2>1 DEF Named
<1>3. Drawn(new)
  BY <1>1 DEF Drawn
<1>. QED
  BY <1>2, <1>3 DEF LendingRooted, new

LEMMA LendingTransactionRow ==
  ASSUME NEW l \in Lendings, NEW a \in Accounts, NEW amount \in Nat,
         NEW type \in {"income", "expense"}
  PROVE  LET x == LendingTransaction(l, type, a, amount) IN
         /\ x \in Transaction
         /\ Live(x) /\ x.source = "lending" /\ x.link = l
         /\ x.type = type /\ x.amount = amount /\ x.account = a
         /\ Legs(x) = {a}
<1>1. LendingTransaction(l, type, a, amount) \in Transaction
  BY LendingTransactionType
<1>. QED
  BY <1>1 DEF LendingTransaction, NoTransaction, Live, Legs

\* A managed transaction is posted and lending l gets the row new.
LEMMA ManagedRooted ==
  ASSUME Inv, Rooted(Now), NEW l \in Lendings, NEW a \in Accounts,
         NEW amount \in Nat, NEW type \in {"income", "expense"},
         NEW t \in TxIds, NEW new,
         PostManaged(t, LendingTransaction(l, type, a, amount)),
         lendings' = [lendings EXCEPT ![l] = new],
         LendingRooted(new, transactions'), Drawn(new),
         UNCHANGED reminders
  PROVE  Rooted(Now)'
<1> DEFINE x == LendingTransaction(l, type, a, amount)
<1>1. /\ x \in Transaction /\ Live(x) /\ Drawn(x)
      /\ x.source = "lending" /\ x.link = l /\ Legs(x) = {a}
  BY LendingTransactionRow DEF Live, Drawn
<1> HIDE DEF x
<1>2. /\ LegsUsable(x)
      /\ accounts' = Applied(accounts, t, x)
      /\ transactions' = [transactions EXCEPT ![t] = x]
  BY DEF PostManaged, x
<1>3. /\ accounts \in [Accounts -> SoundAccount]
      /\ transactions \in [TxIds -> Transaction]
      /\ lendings \in [Lendings -> Lending]
  BY DEF Inv, Sound, Now
<1>4. Drawn(accounts'[a])
  <2>1. Drawn(accounts[a])
    BY <1>1, <1>2, LegsDrawn
  <2>2. AccountRooted(accounts[a], transactions')
    BY <1>1, <1>2, StillRooted
  <2>3. Drawn(transactions'[t])
    BY <1>1, <1>2, <1>3
  <2>4. Drawn(Applied(accounts, t, x)[a])
    BY <2>1, <2>2, <2>3, <1>1, <1>3, PostingRooted
  <2>. QED
    BY <2>4, <1>2
<1>5. TransactionRooted(x, Now')
  BY <1>1, <1>3, <1>4 DEF TransactionRooted, Now
<1>6. /\ \A k \in Lendings : \/ lendings'[k] = lendings[k]
                             \/ LendingRooted(lendings'[k], transactions')
      /\ \A k \in Lendings : Drawn(lendings[k]) => Drawn(lendings'[k])
  BY <1>3
<1>. QED
  BY <1>1, <1>2, <1>5, <1>6, PostRooted

LEMMA LendingNextRooted ==
  ASSUME Inv, Rooted(Now), LendingNext
  PROVE  Rooted(Now)'
<1>0. /\ lendings \in [Lendings -> Lending]
      /\ transactions \in [TxIds -> Transaction]
      /\ Amounts \subseteq Nat
  BY LedgerAssumption DEF Inv, Sound, Now
<1>1. ASSUME NEW l \in Lendings, DeleteLending(l)
      PROVE  Rooted(Now)'
  <2> DEFINE new == [lendings[l] EXCEPT !.status = "deleted"]
  <2>1. Drawn(lendings[l]) /\ LendingRooted(lendings[l], transactions)
    BY <1>1 DEF DeleteLending, Live, Drawn, Rooted, Now
  <2>2. new.records = lendings[l].records /\ Drawn(new)
    BY <1>0 DEF Lending, Drawn
  <2>3. lendings' = [lendings EXCEPT ![l] = new]
    BY <1>1 DEF DeleteLending
  <2> HIDE DEF new
  <2>4. LendingRooted(new, transactions)
    BY <2>1, <2>2 DEF LendingRooted
  <2>. QED
    BY <1>1, <2>2, <2>3, <2>4, LendingRowRooted DEF DeleteLending
<1>2. ASSUME NEW l \in Lendings, NEW type, NEW amount \in Amounts,
             CreateLending(l, type, amount)
      PROVE  Rooted(Now)'
  BY <1>2, NewLendingRow, LendingRowRooted DEF CreateLending
<1>3. ASSUME NEW l \in Lendings, NEW type \in {"lend_out", "borrow_in"},
             NEW amount \in Amounts, NEW t \in TxIds, NEW a \in Accounts,
             CreateLendingWithTransaction(l, type, amount, t, a)
      PROVE  Rooted(Now)'
  <2> DEFINE kind == IF type = "lend_out" THEN "expense" ELSE "income"
  <2>1. /\ PostManaged(t, LendingTransaction(l, kind, a, amount))
        /\ lendings' = [lendings EXCEPT ![l] = NewLending(type, amount)]
        /\ UNCHANGED reminders
    BY <1>3 DEF CreateLendingWithTransaction
  <2>2. kind \in {"income", "expense"} /\ amount \in Nat
    BY <1>0
  <2> HIDE DEF kind
  <2>. QED
    BY <2>1, <2>2, NewLendingRow, ManagedRooted
<1>4. ASSUME NEW l \in Lendings, NEW amount \in Amounts,
             RecordRepayment(l, amount)
      PROVE  Rooted(Now)'
  <2>1. lendings[l] \in Lending /\ Drawn(lendings[l])
    BY <1>0, <1>4 DEF RecordRepayment, Repayable, Live, Drawn
  <2>2. Named(lendings[l].records, transactions)
    BY DEF Rooted, LendingRooted, Now
  <2>3. /\ LendingRooted(Repaid(lendings[l], amount, None), transactions)
        /\ Drawn(Repaid(lendings[l], amount, None))
    BY <1>0, <2>1, <2>2, RepaidRooted
  <2>. QED
    BY <1>4, <2>3, LendingRowRooted DEF RecordRepayment
<1>5. ASSUME NEW l \in Lendings, NEW amount \in Amounts, NEW t \in TxIds,
             NEW a \in Accounts, RecordRepaymentWithTransaction(l, amount, t, a)
      PROVE  Rooted(Now)'
  <2> DEFINE kind == IF lendings[l].type = "lend_out" THEN "income"
                                                      ELSE "expense"
             x == LendingTransaction(l, kind, a, amount)
             row == lendings[l]
  <2>1. /\ PostManaged(t, x)
        /\ lendings' = [lendings EXCEPT ![l] = Repaid(row, amount, t)]
        /\ UNCHANGED reminders
        /\ Drawn(row) /\ row \in Lending
    BY <1>0, <1>5
    DEF RecordRepaymentWithTransaction, Repayable, Live, Drawn
  <2>2. kind \in {"income", "expense"} /\ amount \in Nat
    BY <1>0
  <2> HIDE DEF kind, row
  <2>3. Drawn(x) /\ transactions' = [transactions EXCEPT ![t] = x]
    BY <2>1, <2>2, LendingTransactionRow DEF PostManaged, Live, Drawn
  <2>4. LendingRooted(row, transactions') /\ Drawn(transactions'[t])
    BY <1>0, <2>3, StillRooted DEF row
  <2>5. Named(row.records, transactions')
    BY <2>4 DEF LendingRooted
  <2>6. /\ LendingRooted(Repaid(row, amount, t), transactions')
        /\ Drawn(Repaid(row, amount, t))
    BY <2>1, <2>2, <2>4, <2>5, RepaidRooted
  <2>. QED
    BY <2>1, <2>2, <2>6, ManagedRooted
<1>. QED
  BY <1>1, <1>2, <1>3, <1>4, <1>5 DEF LendingNext

\* Only the rows of reminders change, and no drawn one goes.
LEMMA ReminderRowsRooted ==
  ASSUME Inv, Rooted(Now), NEW r \in Reminders, NEW new,
         reminders' = [reminders EXCEPT ![r] = new], Drawn(new),
         UNCHANGED <<accounts, transactions, lendings>>
  PROVE  Rooted(Now)'
<1>1. reminders \in [Reminders -> Reminder]
  BY DEF Inv, Sound, Now
<1>2. Later(Now, Now')
  BY <1>1 DEF Later, Now
<1>3. /\ \A a \in Accounts : Now'.accounts[a] = Now.accounts[a]
      /\ \A u \in TxIds : Now'.transactions[u] = Now.transactions[u]
      /\ \A k \in Lendings : Now'.lendings[k] = Now.lendings[k]
      /\ \A k \in Reminders : \/ Now'.reminders[k] = Now.reminders[k]
                              \/ ReminderRooted(Now'.reminders[k])
  BY <1>1 DEF Now, ReminderRooted
<1>. QED
  BY <1>2, <1>3, RootedStep DEF Inv

LEMMA ReminderPaidRow ==
  ASSUME NEW row \in Reminder, NEW amount, NEW principal
  PROVE  ReminderPaid(row, amount, principal).status = row.status
BY DEF ReminderPaid, Reminder

LEMMA LinkedDrawn ==
  ASSUME NEW r \in Reminders, NEW principal, Payable(r, principal),
         NEW a \in Accounts, a = reminders[r].account
  PROVE  Drawn(accounts[a])
BY LedgerAssumption DEF Payable, AccountUsable, Live, Drawn

LEMMA PaymentRow ==
  ASSUME NEW r \in Reminders, NEW source \in Accounts, NEW amount \in Nat,
         NEW principal \in 0..amount
  PROVE  LET x == PaymentTransaction(r, source, amount, principal) IN
         /\ x \in Transaction
         /\ Live(x) /\ x.source = "reminder" /\ x.link = r
         /\ x.amount = amount /\ x.principal = principal
         /\ x.interest = amount - principal
         /\ Legs(x) = {source}
<1>1. PaymentTransaction(r, source, amount, principal) \in Transaction
  BY PaymentTransactionType
<1>. QED
  BY <1>1 DEF PaymentTransaction, NoTransaction, Live, Legs

LEMMA RecordPaymentRooted ==
  ASSUME Inv, Rooted(Now), NEW r \in Reminders, NEW amount \in Amounts,
         NEW principal \in 0..amount, RecordPayment(r, amount, principal)
  PROVE  Rooted(Now)'
<1> DEFINE debt == reminders[r].account
           acc == WithDebtPaid(accounts, debt, None, principal)
<1>1. /\ accounts \in [Accounts -> SoundAccount]
      /\ transactions \in [TxIds -> Transaction]
      /\ reminders \in [Reminders -> Reminder]
      /\ principal \in Nat
  BY LedgerAssumption DEF Inv, Sound, Now
<1>2. /\ accounts' = acc /\ transactions' = transactions
      /\ lendings' = lendings
      /\ reminders' = [reminders EXCEPT
           ![r] = ReminderPaid(reminders[r], amount, principal)]
  BY DEF RecordPayment
<1>3. \A a \in Accounts :
        /\ AccountRooted(acc[a], transactions)
        /\ Drawn(accounts[a]) => Drawn(acc[a])
  <2> TAKE a \in Accounts
  <2>1. a = debt => Drawn(accounts[a])
    BY LinkedDrawn DEF RecordPayment
  <2>2. AccountRooted(accounts[a], transactions)
    BY DEF Rooted, Now
  <2> HIDE DEF debt
  <2>. QED
    BY <1>1, <2>1, <2>2, DebtPaymentRooted
<1> HIDE DEF acc
<1>4. Drawn(reminders'[r])
  <2>1. Drawn(reminders[r]) /\ reminders[r] \in Reminder
    BY <1>1 DEF RecordPayment, Payable, Live, Drawn
  <2>. QED
    BY <1>1, <1>2, <2>1, ReminderPaidRow DEF Drawn
<1>5. /\ \A k \in Reminders : k # r => reminders'[k] = reminders[k]
  BY <1>1, <1>2
<1>6. Later(Now, Now')
  BY <1>2, <1>3, <1>4, <1>5 DEF Later, Now
<1>7. /\ \A a \in Accounts : AccountRooted(Now'.accounts[a], Now'.transactions)
      /\ \A u \in TxIds : Now'.transactions[u] = Now.transactions[u]
      /\ \A k \in Lendings : Now'.lendings[k] = Now.lendings[k]
      /\ \A k \in Reminders : \/ Now'.reminders[k] = Now.reminders[k]
                              \/ ReminderRooted(Now'.reminders[k])
  BY <1>2, <1>3, <1>4, <1>5 DEF Now, ReminderRooted
<1>. QED
  BY <1>6, <1>7, RootedStep DEF Inv

LEMMA RecordPaymentFromRooted ==
  ASSUME Inv, Rooted(Now), NEW r \in Reminders, NEW source \in Accounts,
         NEW amount \in Amounts, NEW principal \in 0..amount, NEW t \in TxIds,
         RecordPaymentFrom(r, source, amount, principal, t)
  PROVE  Rooted(Now)'
<1> DEFINE x == PaymentTransaction(r, source, amount, principal)
           debt == reminders[r].account
           posted == Applied(accounts, t, x)
           acc == WithDebtPaid(posted, debt, t, principal)
<1>1. /\ accounts \in [Accounts -> SoundAccount]
      /\ transactions \in [TxIds -> Transaction]
      /\ reminders \in [Reminders -> Reminder]
      /\ principal \in Nat /\ amount \in Nat
  BY LedgerAssumption DEF Inv, Sound, Now
<1>2. /\ accounts' = acc /\ lendings' = lendings
      /\ transactions' = [transactions EXCEPT ![t] = x]
      /\ reminders' = [reminders EXCEPT
           ![r] = ReminderPaid(reminders[r], amount, principal)]
      /\ Drawn(accounts[source]) /\ Drawn(reminders[r])
      /\ \A a \in Accounts : a = debt => Drawn(accounts[a])
  BY LinkedDrawn
  DEF RecordPaymentFrom, AccountUsable, Payable, Live, Drawn
<1>3. /\ x \in Transaction /\ Live(x) /\ Drawn(x)
      /\ x.source = "reminder" /\ x.link = r
      /\ x.interest = x.amount - x.principal
      /\ Legs(x) = {source}
  BY <1>1, PaymentRow DEF Live, Drawn
<1> HIDE DEF x, debt
<1>4. \A a \in Accounts : AccountRooted(accounts[a], transactions')
  BY <1>2, <1>3, StillRooted
<1>5. Drawn(transactions'[t])
  BY <1>1, <1>2, <1>3
<1>6. \A a \in Accounts :
        /\ AccountRooted(posted[a], transactions')
        /\ Drawn(accounts[a]) => Drawn(posted[a])
  BY <1>1, <1>2, <1>3, <1>4, <1>5, PostingRooted
<1>7. posted \in [Accounts -> SoundAccount]
  BY <1>1, <1>3, AppliedSound
<1> HIDE DEF posted
<1>8. \A a \in Accounts :
        /\ AccountRooted(acc[a], transactions')
        /\ Drawn(posted[a]) => Drawn(acc[a])
  BY <1>1, <1>2, <1>5, <1>6, <1>7, DebtPaymentRooted
<1>9. acc \in [Accounts -> SoundAccount]
  BY <1>1, <1>7, WithDebtPaidSound
<1> HIDE DEF acc
<1>10. Drawn(reminders'[r])
  BY <1>1, <1>2, ReminderPaidRow DEF Drawn
<1>11. \A k \in Reminders : k # r => reminders'[k] = reminders[k]
  BY <1>1, <1>2
<1>12. TransactionRooted(x, Now')
  <2>1. \A a \in Accounts \cap Legs(x) : Drawn(accounts'[a])
    BY <1>2, <1>3, <1>6, <1>8
  <2>. QED
    BY <1>3, <1>10, <2>1 DEF TransactionRooted, Now
<1>. QED
  BY <1>2, <1>3, <1>6, <1>8, <1>9, <1>10, <1>11, <1>12, StoredRooted

LEMMA ReminderNextRooted ==
  ASSUME Inv, Rooted(Now), ReminderNext
  PROVE  Rooted(Now)'
<1>0. reminders \in [Reminders -> Reminder]
  BY DEF Inv, Sound, Now
<1>1. ASSUME NEW r \in Reminders, DeleteReminder(r)
      PROVE  Rooted(Now)'
  <2> DEFINE new == [reminders[r] EXCEPT !.status = "deleted"]
  <2>1. Drawn(new) /\ reminders' = [reminders EXCEPT ![r] = new]
    BY <1>0, <1>1 DEF DeleteReminder, Reminder, Drawn
  <2> HIDE DEF new
  <2>. QED
    BY <1>1, <2>1, ReminderRowsRooted DEF DeleteReminder
<1>2. ASSUME NEW r \in Reminders, NEW a, NEW requested,
             CreateReminder(r, a, requested)
      PROVE  Rooted(Now)'
  <2> DEFINE new == [NoReminder EXCEPT !.status = "live", !.account = a,
                                  !.balance = LinkedBalance(a, requested)]
  <2>1. Drawn(new) /\ reminders' = [reminders EXCEPT ![r] = new]
    BY <1>2 DEF CreateReminder, NoReminder, Drawn
  <2> HIDE DEF new
  <2>. QED
    BY <1>2, <2>1, ReminderRowsRooted DEF CreateReminder
<1>3. ASSUME NEW r \in Reminders, NEW a, NEW requested,
             UpdateReminder(r, a, requested)
      PROVE  Rooted(Now)'
  <2> DEFINE new == [reminders[r] EXCEPT
                       !.account = a, !.balance = LinkedBalance(a, requested)]
  <2>1. reminders' = [reminders EXCEPT ![r] = new]
    BY <1>0, <1>3 DEF UpdateReminder
  <2>2. Drawn(new)
    BY <1>0, <1>3 DEF UpdateReminder, Reminder, Drawn, Live
  <2> HIDE DEF new
  <2>. QED
    BY <1>3, <2>1, <2>2, ReminderRowsRooted DEF UpdateReminder
<1>. QED
  BY <1>1, <1>2, <1>3, RecordPaymentRooted, RecordPaymentFromRooted
  DEF ReminderNext

LEMMA AccountNextRooted ==
  ASSUME Inv, Rooted(Now), AccountNext
  PROVE  Rooted(Now)'
<1>0. accounts \in [Accounts -> SoundAccount]
  BY DEF Inv, Sound, Now
<1>1. ASSUME NEW a \in Accounts, NEW isArchived \in BOOLEAN,
             ArchiveAccount(a, isArchived)
      PROVE  Rooted(Now)'
  <2> DEFINE new == [accounts[a] EXCEPT !.archived = isArchived]
  <2>1. accounts' = [accounts EXCEPT ![a] = new]
    BY <1>0, <1>1 DEF ArchiveAccount
  <2>2. Drawn(new) /\ new.log = accounts[a].log
    BY <1>0, <1>1
    DEF ArchiveAccount, AccountUsable, Live, Drawn, SoundAccount, Account
  <2> HIDE DEF new
  <2>. QED
    BY <1>1, <2>1, <2>2, AccountFlagsRooted DEF ArchiveAccount
<1>2. ASSUME NEW a \in Accounts, DeleteAccount(a)
      PROVE  Rooted(Now)'
  <2> DEFINE new == [accounts[a] EXCEPT !.status = "deleted"]
  <2>1. accounts' = [accounts EXCEPT ![a] = new]
    BY <1>0, <1>2 DEF DeleteAccount
  <2>2. Drawn(new) /\ new.log = accounts[a].log
    BY <1>0, <1>2 DEF Drawn, SoundAccount, Account
  <2> HIDE DEF new
  <2>. QED
    BY <1>2, <2>1, <2>2, AccountFlagsRooted DEF DeleteAccount
<1>. QED
  BY <1>1, <1>2, CreateAccountRooted DEF AccountNext

LEMMA InitRooted ==
  ASSUME Init
  PROVE  Rooted(Now)
<1>1. \A a \in Accounts : AccountRooted(NoAccount, transactions)
  BY DEF AccountRooted, Named, NoAccount
<1>2. \A l \in Lendings : LendingRooted(NoLending, transactions)
  BY DEF LendingRooted, Named, NoLending
<1>. QED
  BY <1>1, <1>2 DEF Init, Rooted, Now, TransactionRooted, ReminderRooted

LEMMA NextRooted ==
  ASSUME Inv, Rooted(Now), [Next]_vars
  PROVE  Rooted(Now)'
<1>1. CASE UNCHANGED vars
  <2>1. Now' = Now
    BY <1>1 DEF vars, Now
  <2>. QED
    BY <2>1
<1>2. CASE EntryNext
  BY <1>2, CreateTransactionRooted, UpdateTransactionRooted DEF EntryNext
<1>. QED
  BY <1>1, <1>2, AccountNextRooted, DeletionRooted, LendingNextRooted,
     ReminderNextRooted
  DEF Next

LEMMA AlwaysRooted ==
  Spec => [](Inv /\ Rooted(Now))
<1>1. Init => Inv /\ Rooted(Now)
  BY InitInv, InitRooted
<1>2. Inv /\ Rooted(Now) /\ [Next]_vars => (Inv /\ Rooted(Now))'
  BY NextInv, NextRooted
<1>. QED
  BY <1>1, <1>2, PTL DEF Spec

-----------------------------------------------------------------------------
(***************************************************************************)
(* What a step moves.                                                      *)
(***************************************************************************)
Steps(log) == [i \in 1..Len(log) |-> log[i].after - log[i].before]
StepsOf(log, t) == {i \in 1..Len(log) : log[i].tx = t}

LEMMA StepsTyped ==
  ASSUME NEW row \in Account, NEW t
  PROVE  /\ Len(row.log) \in Nat
         /\ \A i \in 1..Len(row.log) : Steps(row.log)[i] \in Int
         /\ IsFiniteSet(StepsOf(row.log, t))
         /\ Moved(row.log, t) \in Int
<1>1. row.log \in Seq(LogEntry) /\ Len(row.log) \in Nat
  BY DEF Account
<1>2. \A i \in 1..Len(row.log) : row.log[i] \in LogEntry
  BY <1>1
<1>3. \A i \in 1..Len(row.log) : Steps(row.log)[i] \in Int
  BY <1>2 DEF Steps, LogEntry
<1>4. IsFiniteSet(StepsOf(row.log, t))
  <2>1. IsFiniteSet(1..Len(row.log))
    BY <1>1, FS_Interval
  <2>. QED
    BY <2>1, FS_Subset DEF StepsOf
<1>5. \A i \in StepsOf(row.log, t) : Steps(row.log)[i] \in Int
  BY <1>3 DEF StepsOf
<1>6. Moved(row.log, t) = SumFunctionOnSet(Steps(row.log), StepsOf(row.log, t))
  BY DEF Moved, Steps, StepsOf
<1>7. Moved(row.log, t) \in Int
  BY <1>4, <1>5, <1>6, SumInt
<1>. QED
  BY <1>1, <1>3, <1>4, <1>7

\* A posting moves its delta for its transaction and nothing for another.
LEMMA GrownMoved ==
  ASSUME NEW row \in Account, NEW t, NEW delta \in Int, NEW u, NEW log,
         Grown(log, row.log, t, delta)
  PROVE  /\ u = t => Moved(log, u) = Moved(row.log, u) + delta
         /\ u # t => Moved(log, u) = Moved(row.log, u)
<1> DEFINE n == Len(row.log)
           f == Steps(row.log)
           g == Steps(log)
           S == StepsOf(row.log, u)
           T == StepsOf(log, u)
<1>1. /\ n \in Nat /\ IsFiniteSet(S)
      /\ \A i \in 1..n : f[i] \in Int
      /\ Moved(row.log, u) \in Int
  BY StepsTyped
<1>2. /\ Len(log) = n + 1
      /\ \A i \in 1..n : log[i] = row.log[i]
      /\ log[n + 1].tx = t
      /\ log[n + 1].after - log[n + 1].before = delta
  BY DEF Grown
<1>3. /\ \A i \in 1..n : g[i] = f[i]
      /\ g[n + 1] = delta
  BY <1>1, <1>2 DEF Steps
<1>4. T = IF u = t THEN S \cup {n + 1} ELSE S
  BY <1>1, <1>2 DEF StepsOf
<1>5. S \subseteq 1..n /\ n + 1 \notin S
  BY <1>1 DEF StepsOf
<1>6. /\ Moved(row.log, u) = SumFunctionOnSet(f, S)
      /\ Moved(log, u) = SumFunctionOnSet(g, T)
  BY DEF Moved, Steps, StepsOf
<1> HIDE DEF f, g, S, T, n
<1>7. SumFunctionOnSet(g, S) = SumFunctionOnSet(f, S)
  BY <1>1, <1>3, <1>5, SumEqual
<1>8. CASE u = t
  <2>1. \A i \in S \cup {n + 1} : g[i] \in Int
    BY <1>1, <1>3, <1>5
  <2>2. SumFunctionOnSet(g, S \cup {n + 1}) = g[n + 1] + SumFunctionOnSet(g, S)
    BY <1>1, <1>5, <2>1, SumPutIn
  <2>. QED
    BY <1>1, <1>3, <1>4, <1>6, <1>7, <1>8, <2>2
<1>9. CASE u # t
  BY <1>1, <1>4, <1>6, <1>7, <1>9
<1>. QED
  BY <1>8, <1>9

\* The log of new goes on from the log of old.
Extends(new, old) ==
  /\ Len(old.log) <= Len(new.log)
  /\ \A i \in 1..Len(old.log) : new.log[i] = old.log[i]

\* From old to new, postings moved delta, all of it for t.
Carried(old, new, t, delta) ==
  /\ new.balance = old.balance + delta
  /\ Extends(new, old)
  /\ \A u \in TxIds :
       /\ u = t => Moved(new.log, u) = Moved(old.log, u) + delta
       /\ u # t => Moved(new.log, u) = Moved(old.log, u)

LEMMA CarriedSame ==
  ASSUME NEW row \in Account, NEW t
  PROVE  Carried(row, row, t, 0)
<1>1. /\ \A u : Moved(row.log, u) \in Int
      /\ Len(row.log) \in Nat
  BY StepsTyped
<1>2. row.balance \in Int
  BY DEF Account
<1>. QED
  BY <1>1, <1>2 DEF Carried, Extends

LEMMA CarriedPosted ==
  ASSUME NEW row \in Account, NEW t \in TxIds \cup {None}, NEW delta \in Int,
         NEW new, new.log = Posted(row, t, delta).log,
         new.balance = row.balance + delta
  PROVE  Carried(row, new, t, delta)
<1>1. Grown(new.log, row.log, t, delta)
  BY PostedGrows
<1>2. Extends(new, row)
  BY <1>1 DEF Extends, Grown
<1>3. \A u \in TxIds :
        /\ u = t => Moved(new.log, u) = Moved(row.log, u) + delta
        /\ u # t => Moved(new.log, u) = Moved(row.log, u)
  BY <1>1, GrownMoved
<1>. QED
  BY <1>2, <1>3 DEF Carried

LEMMA CarriedTwice ==
  ASSUME NEW old \in Account, NEW mid \in Account, NEW new \in Account, NEW t,
         NEW d \in Int, NEW e \in Int,
         Carried(old, mid, t, d), Carried(mid, new, t, e)
  PROVE  Carried(old, new, t, d + e)
<1>1. /\ \A u : Moved(old.log, u) \in Int
      /\ Len(old.log) \in Nat /\ Len(mid.log) \in Nat /\ Len(new.log) \in Nat
  BY StepsTyped
<1>2. old.balance \in Int
  BY DEF Account
<1>3. new.balance = old.balance + (d + e)
  BY <1>2 DEF Carried
<1>4. Extends(new, old)
  BY <1>1 DEF Carried, Extends
<1>5. ASSUME NEW u \in TxIds
      PROVE  /\ u = t => Moved(new.log, u) = Moved(old.log, u) + (d + e)
             /\ u # t => Moved(new.log, u) = Moved(old.log, u)
  BY <1>1 DEF Carried
<1>. QED
  BY <1>3, <1>4, <1>5 DEF Carried

LEMMA EffectInt ==
  ASSUME NEW x \in Transaction, NEW a
  PROVE  Effect(x, a) \in Int /\ -Effect(x, a) \in Int
           /\ Contribution(x, a) \in Int
BY BalanceDeltaInt DEF Effect, Contribution

LEMMA PostingCarried ==
  ASSUME NEW acc \in [Accounts -> SoundAccount], NEW t \in TxIds,
         NEW x \in Transaction, NEW a \in Accounts
  PROVE  /\ Carried(acc[a], Applied(acc, t, x)[a], t, Effect(x, a))
         /\ Carried(acc[a], Reverted(acc, t, x)[a], t, -Effect(x, a))
<1>1. acc[a] \in Account
  BY DEF SoundAccount
<1>2. BalanceDelta(x, a) \in Int /\ -BalanceDelta(x, a) \in Int
  BY BalanceDeltaInt
<1>3. CASE a \in Legs(x)
  <2>1. /\ Applied(acc, t, x)[a] = Posted(acc[a], t, BalanceDelta(x, a))
        /\ Reverted(acc, t, x)[a] = Posted(acc[a], t, -BalanceDelta(x, a))
        /\ Effect(x, a) = BalanceDelta(x, a)
    BY <1>3 DEF Applied, Reverted, Effect
  <2>2. /\ Posted(acc[a], t, BalanceDelta(x, a)).balance
             = acc[a].balance + BalanceDelta(x, a)
        /\ Posted(acc[a], t, -BalanceDelta(x, a)).balance
             = acc[a].balance + -BalanceDelta(x, a)
    BY <1>1, <1>2, PostedRow
  <2>. QED
    BY <1>1, <1>2, <2>1, <2>2, CarriedPosted
<1>4. CASE a \notin Legs(x)
  <2>1. Effect(x, a) = 0
    BY <1>4 DEF Effect
  <2>2. -Effect(x, a) = 0
    <3>1. -Effect(x, a) = 0 - Effect(x, a)
      BY EffectInt
    <3>2. 0 - Effect(x, a) = 0
      BY <2>1
    <3>. QED
      BY <3>1, <3>2, Zenon
  <2>. QED
    BY <1>1, <1>4, <2>1, <2>2, PostingSkips, CarriedSame
<1>. QED
  BY <1>3, <1>4

-----------------------------------------------------------------------------
(***************************************************************************)
(* The logs and the balances against the transactions.                     *)
(***************************************************************************)
Nets(s) ==
  \A t \in TxIds, a \in Accounts :
    s.transactions[t].source \notin {"system", "reminder"} =>
      Moved(s.accounts[a].log, t) = Contribution(s.transactions[t], a)

Balances(s) ==
  \A a \in Accounts : Unadjusted(s.accounts[a].log, s.transactions) =>
    s.accounts[a].balance = SumOfTransactions(s.transactions, a)

\* A drawn row keeps its source.
SameSources(s, d) ==
  \A t \in TxIds : Drawn(s.transactions[t]) =>
    d.transactions[t].source = s.transactions[t].source

LEMMA SumOfInt ==
  ASSUME NEW rows \in [TxIds -> Transaction], NEW a
  PROVE  SumOfTransactions(rows, a) \in Int
<1> DEFINE f == [t \in TxIds |-> Contribution(rows[t], a)]
<1>1. \A t \in TxIds : f[t] \in Int
  BY EffectInt
<1> HIDE DEF f
<1>2. SumFunctionOnSet(f, TxIds) \in Int
  BY <1>1, SumInt, LedgerAssumption
<1>. QED
  BY <1>2 DEF SumOfTransactions, f

\* Changing one row changes the sum by what the row contributes.
LEMMA SumOfChanged ==
  ASSUME NEW rows \in [TxIds -> Transaction], NEW t \in TxIds,
         NEW x \in Transaction, NEW a, NEW new,
         new = [rows EXCEPT ![t] = x]
  PROVE  SumOfTransactions(new, a) =
           SumOfTransactions(rows, a)
             + (Contribution(x, a) - Contribution(rows[t], a))
<1> DEFINE f == [u \in TxIds |-> Contribution(rows[u], a)]
           g == [u \in TxIds |-> Contribution(new[u], a)]
<1>1. /\ f[t] = Contribution(rows[t], a)
      /\ g[t] = Contribution(x, a)
      /\ \A u \in TxIds \ {t} : f[u] = g[u]
  OBVIOUS
<1>2. \A u \in TxIds : f[u] \in Int /\ g[u] \in Int
  BY EffectInt
<1>3. /\ SumOfTransactions(rows, a) = SumFunctionOnSet(f, TxIds)
      /\ SumOfTransactions(new, a) = SumFunctionOnSet(g, TxIds)
  BY DEF SumOfTransactions
<1> HIDE DEF f, g
<1>4. IsFiniteSet(TxIds) /\ \A u \in TxIds \ {t} : f[u] = g[u]
  BY <1>1, LedgerAssumption
<1>5. SumFunctionOnSet(g, TxIds) = SumFunctionOnSet(f, TxIds) + (g[t] - f[t])
  BY <1>2, <1>4, SumChange
<1>. QED
  BY <1>1, <1>3, <1>5

\* A log nobody adjusted was not adjusted before it grew.
LEMMA UnadjustedBefore ==
  ASSUME NEW s, NEW d, NEW a \in Accounts, Sound(s), Rooted(s),
         SameSources(s, d), Extends(d.accounts[a], s.accounts[a]),
         Unadjusted(d.accounts[a].log, d.transactions)
  PROVE  Unadjusted(s.accounts[a].log, s.transactions)
<1> DEFINE old == s.accounts[a].log
           new == d.accounts[a].log
<1>0. Len(old) \in Nat
  <2>1. s.accounts[a] \in Account
    BY DEF Sound, SoundAccount
  <2>. QED
    BY <2>1, StepsTyped
<1>1. /\ \A i \in 1..Len(old) : old[i].tx \in TxIds \cup {None}
      /\ Named(old, s.transactions)
  BY EntriesTyped DEF Rooted, AccountRooted
<1>2. /\ Len(old) <= Len(new)
      /\ \A i \in 1..Len(old) : new[i] = old[i]
  BY DEF Extends
<1>3. \A i \in 1..Len(new) :
        new[i].tx # None /\ d.transactions[new[i].tx].source # "reminder"
  BY DEF Unadjusted
<1> SUFFICES ASSUME NEW i \in 1..Len(old)
             PROVE  /\ old[i].tx # None
                    /\ s.transactions[old[i].tx].source # "reminder"
  BY DEF Unadjusted
<1> HIDE DEF old, new
<1>4. i \in 1..Len(new) \/ Len(new) \notin Int
  BY <1>0, <1>2
<1>5. CASE i \in 1..Len(new)
  <2>1. /\ old[i].tx # None /\ old[i].tx \in TxIds
        /\ d.transactions[old[i].tx].source # "reminder"
    BY <1>1, <1>2, <1>3, <1>5
  <2>2. Drawn(s.transactions[old[i].tx])
    BY <1>1, <2>1 DEF Named
  <2>. QED
    BY <2>1, <2>2 DEF SameSources
<1>. QED
  BY <1>4, <1>5

LEMMA NetsStep ==
  ASSUME NEW s, NEW d, Sound(s), Sound(d), Rooted(s), Nets(s),
         SameSources(s, d),
         \A t \in TxIds, a \in Accounts :
           d.transactions[t].source \notin {"system", "reminder"} =>
             Moved(d.accounts[a].log, t) = Moved(s.accounts[a].log, t)
               + (Contribution(d.transactions[t], a)
                    - Contribution(s.transactions[t], a))
  PROVE  Nets(d)
<1> SUFFICES ASSUME NEW t \in TxIds, NEW a \in Accounts,
                    d.transactions[t].source \notin {"system", "reminder"}
             PROVE  Moved(d.accounts[a].log, t)
                      = Contribution(d.transactions[t], a)
  BY DEF Nets
<1>1. s.transactions[t] \in Transaction /\ d.transactions[t] \in Transaction
  BY DEF Sound
<1>2. s.transactions[t].source \notin {"system", "reminder"}
  <2>1. CASE Drawn(s.transactions[t])
    BY <2>1 DEF SameSources
  <2>2. CASE ~Drawn(s.transactions[t])
    <3>1. s.transactions[t] = NoTransaction
      BY <2>2 DEF Rooted, TransactionRooted
    <3>. QED
      BY <3>1 DEF NoTransaction
  <2>. QED
    BY <2>1, <2>2
<1>3. Moved(s.accounts[a].log, t) = Contribution(s.transactions[t], a)
  BY <1>2 DEF Nets
<1>4. /\ Contribution(s.transactions[t], a) \in Int
      /\ Contribution(d.transactions[t], a) \in Int
  BY <1>1, EffectInt
<1>. QED
  BY <1>3, <1>4

LEMMA BalancesStep ==
  ASSUME NEW s, NEW d, Sound(s), Sound(d), Rooted(s), Balances(s),
         SameSources(s, d),
         \A a \in Accounts :
           \/ ~Unadjusted(d.accounts[a].log, d.transactions)
           \/ /\ Extends(d.accounts[a], s.accounts[a])
              /\ d.accounts[a].balance - s.accounts[a].balance
                   = SumOfTransactions(d.transactions, a)
                       - SumOfTransactions(s.transactions, a)
  PROVE  Balances(d)
<1> SUFFICES ASSUME NEW a \in Accounts,
                    Unadjusted(d.accounts[a].log, d.transactions)
             PROVE  d.accounts[a].balance
                      = SumOfTransactions(d.transactions, a)
  BY DEF Balances
<1>1. /\ Extends(d.accounts[a], s.accounts[a])
      /\ d.accounts[a].balance - s.accounts[a].balance
           = SumOfTransactions(d.transactions, a)
               - SumOfTransactions(s.transactions, a)
  OBVIOUS
<1>2. Unadjusted(s.accounts[a].log, s.transactions)
  BY <1>1, UnadjustedBefore
<1>3. s.accounts[a].balance = SumOfTransactions(s.transactions, a)
  BY <1>2 DEF Balances
<1>4. d.accounts[a].balance \in Int /\ s.accounts[a].balance \in Int
  BY DEF Sound, SoundAccount, Account
<1>5. SumOfTransactions(d.transactions, a) \in Int
  BY SumOfInt DEF Sound
<1>. QED
  BY <1>1, <1>3, <1>4, <1>5

\* From old to new only t moved, and the log is an adjusted one now.
Adjusted(old, new, t, rows) ==
  /\ \A u \in TxIds : u # t => Moved(new.log, u) = Moved(old.log, u)
  /\ ~Unadjusted(new.log, rows)

\* A posting for no transaction, or for a reminder's, adjusts the log.
LEMMA AdjustedPosted ==
  ASSUME NEW old \in Account, NEW t \in TxIds \cup {None}, NEW delta \in Int,
         NEW new, NEW rows, new.log = Posted(old, t, delta).log,
         t = None \/ rows[t].source = "reminder"
  PROVE  Adjusted(old, new, t, rows)
<1>1. Grown(new.log, old.log, t, delta)
  BY PostedGrows
<1>2. \A u \in TxIds : u # t => Moved(new.log, u) = Moved(old.log, u)
  BY <1>1, GrownMoved
<1>3. /\ Len(old.log) + 1 \in 1..Len(new.log)
      /\ new.log[Len(old.log) + 1].tx = t
  BY <1>1 DEF Grown
<1>4. ~Unadjusted(new.log, rows)
  BY <1>3 DEF Unadjusted
<1>. QED
  BY <1>2, <1>4 DEF Adjusted

\* A step that stores x as transaction t and posts the difference.
LEMMA EntryStep ==
  ASSUME NEW s, NEW d, NEW t \in TxIds, NEW x \in Transaction,
         Sound(s), Sound(d), Rooted(s), Nets(s), Balances(s),
         d.transactions = [s.transactions EXCEPT ![t] = x],
         Drawn(s.transactions[t]) => x.source = s.transactions[t].source,
         \A a \in Accounts :
           \/ Carried(s.accounts[a], d.accounts[a], t,
                      Contribution(x, a) - Contribution(s.transactions[t], a))
           \/ /\ x.source = "reminder"
              /\ Adjusted(s.accounts[a], d.accounts[a], t, d.transactions)
  PROVE  Nets(d) /\ Balances(d)
<1>1. /\ s.transactions \in [TxIds -> Transaction]
      /\ s.transactions[t] \in Transaction
      /\ \A a \in Accounts : /\ s.accounts[a] \in Account
                             /\ d.accounts[a] \in Account
  BY DEF Sound, SoundAccount
<1>2. \A a \in Accounts :
        /\ s.accounts[a].balance \in Int /\ d.accounts[a].balance \in Int
        /\ \A u : /\ Moved(s.accounts[a].log, u) \in Int
                  /\ Moved(d.accounts[a].log, u) \in Int
  BY <1>1, StepsTyped DEF Account
<1>3. \A a : /\ Contribution(x, a) \in Int
             /\ \A u \in TxIds : Contribution(s.transactions[u], a) \in Int
  BY <1>1, EffectInt
<1>4. /\ d.transactions[t] = x
      /\ \A u \in TxIds : u # t => d.transactions[u] = s.transactions[u]
  BY <1>1
<1>5. SameSources(s, d)
  BY <1>4 DEF SameSources
<1>6. ASSUME NEW u \in TxIds, NEW a \in Accounts,
             d.transactions[u].source \notin {"system", "reminder"}
      PROVE  Moved(d.accounts[a].log, u) = Moved(s.accounts[a].log, u)
               + (Contribution(d.transactions[u], a)
                    - Contribution(s.transactions[u], a))
  <2>1. CASE u = t
    <3>1. Carried(s.accounts[a], d.accounts[a], t,
                  Contribution(x, a) - Contribution(s.transactions[t], a))
      BY <1>4, <1>6, <2>1
    <3>. QED
      BY <1>4, <2>1, <3>1 DEF Carried
  <2>2. CASE u # t
    <3>1. Moved(d.accounts[a].log, u) = Moved(s.accounts[a].log, u)
      BY <2>2 DEF Carried, Adjusted
    <3>2. d.transactions[u] = s.transactions[u]
      BY <1>4, <2>2
    <3>. QED
      BY <1>2, <1>3, <3>1, <3>2
  <2>. QED
    BY <2>1, <2>2
<1>7. Nets(d)
  BY <1>5, <1>6, NetsStep
<1>8. ASSUME NEW a \in Accounts,
             Unadjusted(d.accounts[a].log, d.transactions)
      PROVE  /\ Extends(d.accounts[a], s.accounts[a])
             /\ d.accounts[a].balance - s.accounts[a].balance
                  = SumOfTransactions(d.transactions, a)
                      - SumOfTransactions(s.transactions, a)
  <2>1. Carried(s.accounts[a], d.accounts[a], t,
                Contribution(x, a) - Contribution(s.transactions[t], a))
    BY <1>8 DEF Adjusted
  <2>2. SumOfTransactions(d.transactions, a) =
          SumOfTransactions(s.transactions, a)
            + (Contribution(x, a) - Contribution(s.transactions[t], a))
    BY <1>1, SumOfChanged
  <2>3. SumOfTransactions(s.transactions, a) \in Int
    BY <1>1, SumOfInt
  <2>. QED
    BY <1>2, <1>3, <2>1, <2>2, <2>3 DEF Carried
<1>9. Balances(d)
  BY <1>5, <1>8, BalancesStep
<1>. QED
  BY <1>7, <1>9

\* A new transaction on usable accounts.
LEMMA FreshRow ==
  ASSUME Rooted(Now), NEW t \in TxIds, FreshTx(t)
  PROVE  transactions[t] = NoTransaction
BY DEF Rooted, TransactionRooted, Drawn, FreshTx, Now

LEMMA NoContribution ==
  ASSUME NEW a
  PROVE  Contribution(NoTransaction, a) = 0
BY DEF Contribution, Live, NoTransaction

LEMMA PostAddsUp ==
  ASSUME Inv, Inv', Rooted(Now), Nets(Now), Balances(Now),
         NEW t \in TxIds, NEW x \in Transaction, FreshTx(t), Live(x),
         accounts' = Applied(accounts, t, x),
         transactions' = [transactions EXCEPT ![t] = x]
  PROVE  Nets(Now') /\ Balances(Now')
<1>1. /\ Now.accounts = accounts /\ Now.transactions = transactions
      /\ Now'.accounts = accounts' /\ Now'.transactions = transactions'
      /\ accounts \in [Accounts -> SoundAccount]
  BY DEF Inv, Sound, Now
<1>2. transactions[t] = NoTransaction /\ ~Drawn(transactions[t])
  BY FreshRow DEF Drawn, NoTransaction
<1>3. ASSUME NEW a \in Accounts
      PROVE  Carried(accounts[a], accounts'[a], t,
               Contribution(x, a) - Contribution(transactions[t], a))
  <2>1. Contribution(x, a) - Contribution(transactions[t], a) = Effect(x, a)
    BY <1>2, NoContribution, EffectInt DEF Contribution
  <2>2. Carried(accounts[a], accounts'[a], t, Effect(x, a))
    BY <1>1, PostingCarried
  <2>. QED
    BY <2>1, <2>2
<1>. QED
  BY <1>1, <1>2, <1>3, EntryStep DEF Inv

LEMMA EditAddsUp ==
  ASSUME Inv, Inv', Rooted(Now), Nets(Now), Balances(Now),
         NEW t \in TxIds, NEW x \in Requests, UpdateTransaction(t, x)
  PROVE  Nets(Now') /\ Balances(Now')
<1> DEFINE old == transactions[t]
           reverted == Reverted(accounts, t, old)
<1>1. /\ Now.accounts = accounts /\ Now.transactions = transactions
      /\ Now'.accounts = accounts' /\ Now'.transactions = transactions'
      /\ accounts \in [Accounts -> SoundAccount]
      /\ transactions \in [TxIds -> Transaction]
      /\ accounts' \in [Accounts -> SoundAccount]
  BY DEF Inv, Sound, Now
<1>2. x \in Transaction /\ Live(x) /\ x.source = "manual"
  BY RequestsType DEF Requests, Live
<1>3. /\ accounts' = Applied(reverted, t, x)
      /\ transactions' = [transactions EXCEPT ![t] = x]
      /\ Live(old) /\ old.source = "manual" /\ old \in Transaction
  BY <1>1 DEF UpdateTransaction
<1>4. reverted \in [Accounts -> SoundAccount]
  BY <1>1, <1>3, RevertedSound
<1>5. ASSUME NEW a \in Accounts
      PROVE  Carried(accounts[a], accounts'[a], t,
               Contribution(x, a) - Contribution(old, a))
  <2>1. /\ Carried(accounts[a], reverted[a], t, -Effect(old, a))
        /\ Carried(reverted[a], accounts'[a], t, Effect(x, a))
    <3> HIDE DEF old
    <3>1. Carried(accounts[a], reverted[a], t, -Effect(old, a))
      BY <1>1, <1>3, PostingCarried
    <3> HIDE DEF reverted
    <3>2. Carried(reverted[a], accounts'[a], t, Effect(x, a))
      BY <1>2, <1>3, <1>4, PostingCarried
    <3>. QED
      BY <3>1, <3>2
  <2>2. /\ Effect(x, a) \in Int /\ -Effect(old, a) \in Int
        /\ Effect(old, a) \in Int
    BY <1>2, <1>3, EffectInt
  <2>3. /\ accounts[a] \in Account /\ reverted[a] \in Account
        /\ accounts'[a] \in Account
    <3> HIDE DEF reverted
    <3>. QED
      BY <1>1, <1>4 DEF SoundAccount
  <2> HIDE DEF reverted, old
  <2>4. Carried(accounts[a], accounts'[a], t, -Effect(old, a) + Effect(x, a))
    BY <2>1, <2>2, <2>3, CarriedTwice
  <2>5. Contribution(x, a) - Contribution(old, a)
          = -Effect(old, a) + Effect(x, a)
    BY <1>2, <1>3, <2>2 DEF Contribution
  <2>. QED
    BY <2>4, <2>5
<1> HIDE DEF reverted
<1>. QED
  BY <1>1, <1>2, <1>3, <1>5, EntryStep DEF Inv

LEMMA DeletedAddsUp ==
  ASSUME NEW s, NEW t \in TxIds, Sound(s), Rooted(s), Nets(s), Balances(s),
         Deletable(s, t)
  PROVE  Nets(Deleted(s, t)) /\ Balances(Deleted(s, t))
<1> DEFINE x == s.transactions[t]
           d == Deleted(s, t)
           acc == Reverted(s.accounts, t, x)
           debt == LinkedAccount(s, x)
           principal == RevertedPrincipal(x)
           gone == [x EXCEPT !.status = "deleted"]
<1>1. /\ s.accounts \in [Accounts -> SoundAccount]
      /\ x \in Transaction /\ Live(x)
      /\ Sound(d)
  BY DeletedSound DEF Sound, Deletable
<1>2. /\ d.accounts = [a \in Accounts |->
            IF a = debt THEN Unpaid(acc[a], t, principal) ELSE acc[a]]
      /\ d.transactions = [s.transactions EXCEPT ![t] = gone]
  BY DEF Deleted, AccountsAfterDelete
<1>3. /\ gone \in Transaction /\ gone.source = x.source /\ ~Live(gone)
      /\ d.transactions[t] = gone
  BY <1>1, <1>2 DEF Transaction, Status, Live, Sound
<1>4. principal \in Int
  BY <1>1, RevertedPrincipalNat
<1>5. acc \in [Accounts -> SoundAccount]
  BY <1>1, RevertedSound
<1>6. \A a \in Accounts : a = debt => x.source = "reminder"
  BY LedgerAssumption DEF LinkedAccount
<1> HIDE DEF d, debt, principal, gone
<1>7. ASSUME NEW a \in Accounts
      PROVE  /\ Carried(s.accounts[a], acc[a], t,
                        Contribution(gone, a) - Contribution(x, a))
             /\ acc[a] \in Account
  <2>1. Carried(s.accounts[a], acc[a], t, -Effect(x, a))
    BY <1>1, PostingCarried
  <2>2. Contribution(gone, a) - Contribution(x, a) = -Effect(x, a)
    <3> HIDE DEF x
    <3>. QED
      BY <1>1, <1>3, EffectInt DEF Contribution
  <2>3. acc[a] \in Account
    <3> HIDE DEF acc
    <3>. QED
      BY <1>5 DEF SoundAccount
  <2>. QED
    BY <2>1, <2>2, <2>3
<1> HIDE DEF acc, x
<1>8. ASSUME NEW a \in Accounts
      PROVE  \/ Carried(s.accounts[a], d.accounts[a], t,
                        Contribution(gone, a) - Contribution(x, a))
             \/ /\ gone.source = "reminder"
                /\ Adjusted(s.accounts[a], d.accounts[a], t, d.transactions)
  <2>1. CASE a # debt
    BY <1>2, <1>7, <2>1
  <2>2. CASE a = debt
    <3>1. d.accounts[a] = Unpaid(acc[a], t, principal)
      BY <1>2, <2>2
    <3>2. d.accounts[a].log = Posted(acc[a], t, principal).log
      BY <1>7, <3>1, UnpaidRow
    <3>3. gone.source = "reminder" /\ d.transactions[t].source = "reminder"
      BY <1>3, <1>6, <2>2
    <3>4. Adjusted(acc[a], d.accounts[a], t, d.transactions)
      BY <1>4, <1>7, <3>2, <3>3, AdjustedPosted
    <3>5. Adjusted(s.accounts[a], d.accounts[a], t, d.transactions)
      BY <1>7, <3>4 DEF Adjusted, Carried
    <3>. QED
      BY <3>3, <3>5
  <2>. QED
    BY <2>1, <2>2
<1>. QED
  BY <1>1, <1>2, <1>3, <1>8, EntryStep DEF x, d

LEMMA DeletionAddsUp ==
  ASSUME Inv, Rooted(Now), Nets(Now), Balances(Now), DeletionNext
  PROVE  Nets(Now') /\ Balances(Now')
<1>1. ASSUME NEW t \in TxIds, DeleteTransaction(t)
      PROVE  Nets(Now') /\ Balances(Now')
  <2>1. Deletable(Now, t) /\ Now' = Deleted(Now, t)
    BY <1>1, CommitDeleted DEF DeleteTransaction
  <2>. QED
    BY <2>1, DeletedAddsUp DEF Inv
<1>2. ASSUME NEW t \in TxIds, NEW u \in TxIds, DeleteBatch(t, u)
      PROVE  Nets(Now') /\ Balances(Now')
  <2> DEFINE s == Deleted(Now, t)
  <2>1. Deletable(Now, t) /\ Deletable(s, u) /\ Now' = Deleted(s, u)
    BY <1>2, CommitDeleted DEF DeleteBatch
  <2>2. Sound(s) /\ Rooted(s) /\ Nets(s) /\ Balances(s)
    BY <2>1, DeletedSound, DeletedRooted, DeletedAddsUp DEF Inv
  <2> HIDE DEF s
  <2>3. Nets(Deleted(s, u)) /\ Balances(Deleted(s, u))
    BY <2>1, <2>2, DeletedAddsUp
  <2>. QED
    BY <2>1, <2>3
<1>. QED
  BY <1>1, <1>2 DEF DeletionNext

\* The row of an opening balance brings in that balance.
LEMMA OpeningContribution ==
  ASSUME NEW a \in Accounts, NEW opening \in Int, NEW b
  PROVE  Contribution(OpeningTransaction(a, opening), b)
           = IF b = a THEN opening ELSE 0
<1> DEFINE x == OpeningTransaction(a, opening)
<1>1. /\ x.type = IF (a \in DebtAccounts) = (opening > 0) THEN "expense"
                                                          ELSE "income"
      /\ x.account = a
      /\ x.amount = IF opening > 0 THEN opening ELSE -opening
      /\ Live(x)
  BY DEF OpeningTransaction, NoTransaction, Live
<1> HIDE DEF x
<1>2. Legs(x) = {a}
  BY <1>1 DEF Legs
<1>3. Contribution(x, b) = IF b = a THEN BalanceDelta(x, b) ELSE 0
  BY <1>1, <1>2 DEF Contribution, Effect
<1>4. BalanceDelta(x, a) = opening
  <2>1. CASE a \in DebtAccounts /\ opening > 0
    BY <1>1, <2>1 DEF BalanceDelta, CashFlow
  <2>2. CASE a \in DebtAccounts /\ ~(opening > 0)
    BY <1>1, <2>2 DEF BalanceDelta, CashFlow
  <2>3. CASE a \notin DebtAccounts /\ opening > 0
    BY <1>1, <2>3 DEF BalanceDelta, CashFlow
  <2>4. CASE a \notin DebtAccounts /\ ~(opening > 0)
    BY <1>1, <2>4 DEF BalanceDelta, CashFlow
  <2>. QED
    BY <2>1, <2>2, <2>3, <2>4
<1>. QED
  BY <1>3, <1>4 DEF x

\* Steps that move no money and touch no transaction.
LEMMA QuietAddsUp ==
  ASSUME Nets(Now), Balances(Now), UNCHANGED transactions,
         \A a \in Accounts : /\ accounts'[a].log = accounts[a].log
                             /\ accounts'[a].balance = accounts[a].balance
  PROVE  Nets(Now') /\ Balances(Now')
<1>1. /\ Now.accounts = accounts /\ Now.transactions = transactions
      /\ Now'.accounts = accounts' /\ Now'.transactions = transactions'
  BY DEF Now
<1>2. Nets(Now')
  BY <1>1 DEF Nets
<1>3. Balances(Now')
  BY <1>1 DEF Balances
<1>. QED
  BY <1>2, <1>3

\* A new account has no history, whatever transactions are stored.
LEMMA CreateAccountAddsUp ==
  ASSUME Inv, Inv', Rooted(Now), Nets(Now), Balances(Now), NEW a \in Accounts,
         NEW opening \in OpeningBalances, CreateAccount(a, opening)
  PROVE  Nets(Now') /\ Balances(Now')
<1> DEFINE row == [NoAccount EXCEPT !.status = "live", !.initial = opening,
                                    !.balance = opening]
<1>1. row.log = <<>> /\ row.balance = opening /\ opening \in Int
  BY LedgerAssumption DEF NoAccount
<1> HIDE DEF row
<1>2. accounts' = [accounts EXCEPT ![a] = row]
  BY DEF CreateAccount, row
<1>3. /\ Now.accounts = accounts /\ Now.transactions = transactions
      /\ Now'.accounts = accounts' /\ Now'.transactions = transactions'
      /\ accounts \in [Accounts -> SoundAccount]
      /\ transactions \in [TxIds -> Transaction]
      /\ transactions' \in [TxIds -> Transaction]
  BY DEF Inv, Sound, Now
<1>4. accounts[a].log = <<>> /\ accounts[a].balance = 0
  <2>1. accounts[a] = NoAccount
    BY DEF CreateAccount, Rooted, AccountRooted, Drawn, Now
  <2>. QED
    BY <2>1 DEF NoAccount
<1>5. \A b \in Accounts : /\ accounts[b].balance \in Int
                          /\ Len(accounts[b].log) \in Nat
                          /\ \A u : Moved(accounts[b].log, u) \in Int
  BY <1>3, StepsTyped DEF SoundAccount, Account
<1>6. \A b \in Accounts :
        /\ accounts'[b].log = accounts[b].log
        /\ b = a => accounts'[b].balance = accounts[b].balance + opening
        /\ b # a => accounts'[b].balance = accounts[b].balance
  BY <1>1, <1>2, <1>3, <1>4, <1>5
<1>7. CASE opening = 0
  <2>1. transactions' = transactions
    BY <1>7 DEF CreateAccount
  <2>2. \A b \in Accounts : accounts'[b].balance = accounts[b].balance
    BY <1>5, <1>6, <1>7
  <2>. QED
    BY <1>6, <2>1, <2>2, QuietAddsUp
<1>8. CASE opening # 0
  <2>1. PICK t \in TxIds :
          /\ FreshTx(t)
          /\ transactions' = [transactions EXCEPT
               ![t] = OpeningTransaction(a, opening)]
    BY <1>8 DEF CreateAccount
  <2> DEFINE x == OpeningTransaction(a, opening)
  <2>2. /\ x.source = "system" /\ transactions'[t] = x
        /\ \A u \in TxIds : u # t => transactions'[u] = transactions[u]
    BY <1>3, <2>1 DEF OpeningTransaction, NoTransaction
  <2>3. transactions[t] = NoTransaction
    BY <2>1, FreshRow
  <2>4. \A b : Contribution(x, b) = IF b = a THEN opening ELSE 0
    BY <1>1, OpeningContribution
  <2> HIDE DEF x
  <2>5. x \in Transaction
    BY <1>3, <2>2
  <2>6. SameSources(Now, Now')
    BY <1>3, <2>2, <2>3 DEF SameSources, Drawn, NoTransaction
  <2>7. ASSUME NEW u \in TxIds, NEW b \in Accounts,
               transactions'[u].source \notin {"system", "reminder"}
        PROVE  Moved(accounts'[b].log, u) = Moved(accounts[b].log, u)
                 + (Contribution(transactions'[u], b)
                      - Contribution(transactions[u], b))
    <3>1. transactions'[u] = transactions[u]
      BY <2>2, <2>7
    <3>2. Contribution(transactions[u], b) \in Int
      BY <1>3, EffectInt
    <3>3. Moved(accounts'[b].log, u) = Moved(accounts[b].log, u)
      BY <1>6
    <3>4. Moved(accounts[b].log, u) \in Int
      BY <1>5
    <3>5. Contribution(transactions'[u], b) = Contribution(transactions[u], b)
      BY <3>1
    <3>. QED
      BY <3>2, <3>3, <3>4, <3>5
  <2>8. Nets(Now')
    BY <1>3, <2>6, <2>7, NetsStep DEF Inv
  <2>9. ASSUME NEW b \in Accounts
        PROVE  /\ Extends(accounts'[b], accounts[b])
               /\ accounts'[b].balance - accounts[b].balance
                    = SumOfTransactions(transactions', b)
                        - SumOfTransactions(transactions, b)
    <3>0. transactions' = [transactions EXCEPT ![t] = x]
      BY <2>1 DEF x
    <3>1. SumOfTransactions(transactions', b) =
            SumOfTransactions(transactions, b)
              + (Contribution(x, b) - Contribution(transactions[t], b))
      <4> DEFINE rows == transactions'
      <4>1. rows = [transactions EXCEPT ![t] = x]
        BY <3>0
      <4>2. transactions \in [TxIds -> Transaction]
        BY <1>3
      <4> HIDE DEF rows
      <4>3. SumOfTransactions(rows, b) =
              SumOfTransactions(transactions, b)
                + (Contribution(x, b) - Contribution(transactions[t], b))
        BY <2>5, <4>1, <4>2, SumOfChanged
      <4>. QED
        BY <4>3 DEF rows
    <3>2. SumOfTransactions(transactions, b) \in Int
      BY <1>3, SumOfInt
    <3>3. Contribution(transactions[t], b) = 0
      BY <2>3, NoContribution
    <3>4. Extends(accounts'[b], accounts[b])
      BY <1>5, <1>6 DEF Extends
    <3>. QED
      BY <1>1, <1>5, <1>6, <2>4, <3>1, <3>2, <3>3, <3>4
  <2>10. Balances(Now')
    BY <1>3, <2>6, <2>9, BalancesStep DEF Inv
  <2>. QED
    BY <2>8, <2>10
<1>. QED
  BY <1>7, <1>8

LEMMA RecordPaymentAddsUp ==
  ASSUME Inv, Inv', Rooted(Now), Nets(Now), Balances(Now), NEW r \in Reminders,
         NEW amount \in Amounts, NEW principal \in 0..amount,
         RecordPayment(r, amount, principal)
  PROVE  Nets(Now') /\ Balances(Now')
<1>1. /\ Now.accounts = accounts /\ Now.transactions = transactions
      /\ Now'.accounts = accounts' /\ Now'.transactions = transactions'
      /\ accounts \in [Accounts -> SoundAccount]
      /\ transactions \in [TxIds -> Transaction]
      /\ transactions' = transactions
      /\ accounts' = WithDebtPaid(accounts, reminders[r].account, None,
                                  principal)
      /\ principal \in Nat /\ None \notin TxIds
  <2>0. amount \in Nat
    BY LedgerAssumption
  <2>1. principal \in Nat /\ None \notin TxIds
    BY <2>0, NoneIsNoId
  <2>2. /\ transactions' = transactions
        /\ accounts' = WithDebtPaid(accounts, reminders[r].account, None,
                                    principal)
    BY DEF RecordPayment
  <2>. QED
    BY <2>1, <2>2 DEF Inv, Sound, Now
<1>2. ASSUME NEW a \in Accounts
      PROVE  \/ accounts'[a] = accounts[a]
             \/ Adjusted(accounts[a], accounts'[a], None, transactions')
  <2>1. accounts[a] \in Account
    BY <1>1 DEF SoundAccount
  <2>2. CASE a = reminders[r].account /\ principal # 0
    <3>1. accounts'[a] = Paid(accounts[a], None, principal)
      BY <1>1, <2>2 DEF WithDebtPaid
    <3>2. PICK delta \in Int :
            /\ Paid(accounts[a], None, principal).status = accounts[a].status
            /\ Paid(accounts[a], None, principal).log
                 = Posted(accounts[a], None, delta).log
      BY <1>1, <2>1, <2>2, PaidRow
    <3>. QED
      BY <2>1, <3>1, <3>2, AdjustedPosted
  <2>3. CASE ~(a = reminders[r].account /\ principal # 0)
    BY <1>1, <2>3 DEF WithDebtPaid, Paid
  <2>. QED
    BY <2>2, <2>3
<1>3. \A a \in Accounts : /\ accounts[a].balance \in Int
                          /\ Len(accounts[a].log) \in Nat
                          /\ \A u : Moved(accounts[a].log, u) \in Int
  BY <1>1, StepsTyped DEF SoundAccount, Account
<1>4. SameSources(Now, Now')
  BY <1>1 DEF SameSources
<1>5. ASSUME NEW u \in TxIds, NEW a \in Accounts
      PROVE  Moved(accounts'[a].log, u) = Moved(accounts[a].log, u)
               + (Contribution(transactions'[u], a)
                    - Contribution(transactions[u], a))
  <2>1. Moved(accounts'[a].log, u) = Moved(accounts[a].log, u)
    BY <1>1, <1>2 DEF Adjusted
  <2>2. Contribution(transactions[u], a) \in Int
    BY <1>1, EffectInt
  <2>3. Contribution(transactions'[u], a) = Contribution(transactions[u], a)
    BY <1>1
  <2>4. Moved(accounts[a].log, u) \in Int
    BY <1>3
  <2>. QED
    BY <2>1, <2>2, <2>3, <2>4
<1>6. Nets(Now')
  BY <1>1, <1>4, <1>5, NetsStep DEF Inv
<1>7. ASSUME NEW a \in Accounts, Unadjusted(accounts'[a].log, transactions')
      PROVE  /\ Extends(accounts'[a], accounts[a])
             /\ accounts'[a].balance - accounts[a].balance
                  = SumOfTransactions(transactions', a)
                      - SumOfTransactions(transactions, a)
  <2>1. accounts'[a] = accounts[a]
    BY <1>2, <1>7 DEF Adjusted
  <2>2. SumOfTransactions(transactions, a) \in Int
    BY <1>1, SumOfInt
  <2>. QED
    BY <1>1, <1>3, <2>1, <2>2 DEF Extends
<1>8. Balances(Now')
  BY <1>1, <1>4, <1>7, BalancesStep DEF Inv
<1>. QED
  BY <1>6, <1>8

LEMMA RecordPaymentFromAddsUp ==
  ASSUME Inv, Inv', Rooted(Now), Nets(Now), Balances(Now), NEW r \in Reminders,
         NEW source \in Accounts, NEW amount \in Amounts,
         NEW principal \in 0..amount, NEW t \in TxIds,
         RecordPaymentFrom(r, source, amount, principal, t)
  PROVE  Nets(Now') /\ Balances(Now')
<1> DEFINE x == PaymentTransaction(r, source, amount, principal)
           debt == reminders[r].account
           posted == Applied(accounts, t, x)
<1>1. /\ Now.accounts = accounts /\ Now.transactions = transactions
      /\ Now'.accounts = accounts' /\ Now'.transactions = transactions'
      /\ accounts \in [Accounts -> SoundAccount]
      /\ transactions \in [TxIds -> Transaction]
      /\ principal \in Nat /\ amount \in Nat
  BY LedgerAssumption DEF Inv, Sound, Now
<1>2. /\ FreshTx(t)
      /\ transactions' = [transactions EXCEPT ![t] = x]
      /\ accounts' = WithDebtPaid(posted, debt, t, principal)
  BY DEF RecordPaymentFrom
<1>3. x \in Transaction /\ Live(x) /\ x.source = "reminder"
  BY <1>1, PaymentRow DEF Live
<1> HIDE DEF x, debt
<1>4. posted \in [Accounts -> SoundAccount]
  BY <1>1, <1>3, AppliedSound
<1>5. transactions[t] = NoTransaction /\ ~Drawn(transactions[t])
  BY <1>2, FreshRow DEF Drawn, NoTransaction
<1>6. ASSUME NEW a \in Accounts
      PROVE  /\ Carried(accounts[a], posted[a], t,
                        Contribution(x, a) - Contribution(transactions[t], a))
             /\ posted[a] \in Account
  <2>1. Contribution(x, a) - Contribution(transactions[t], a) = Effect(x, a)
    BY <1>3, <1>5, NoContribution, EffectInt DEF Contribution
  <2>2. Carried(accounts[a], posted[a], t, Effect(x, a))
    BY <1>1, <1>3, PostingCarried
  <2> HIDE DEF posted
  <2>. QED
    BY <1>4, <2>1, <2>2 DEF SoundAccount
<1> HIDE DEF posted
<1>7. transactions'[t] = x
  BY <1>1, <1>2
<1>8. ASSUME NEW a \in Accounts
      PROVE  \/ Carried(accounts[a], accounts'[a], t,
                        Contribution(x, a) - Contribution(transactions[t], a))
             \/ /\ x.source = "reminder"
                /\ Adjusted(accounts[a], accounts'[a], t, transactions')
  <2>1. CASE a = debt /\ principal # 0
    <3>1. accounts'[a] = Paid(posted[a], t, principal)
      BY <1>2, <2>1 DEF WithDebtPaid
    <3>2. PICK delta \in Int :
            /\ Paid(posted[a], t, principal).status = posted[a].status
            /\ Paid(posted[a], t, principal).log
                 = Posted(posted[a], t, delta).log
      BY <1>1, <1>6, <2>1, PaidRow
    <3>3. Adjusted(posted[a], accounts'[a], t, transactions')
      BY <1>3, <1>6, <1>7, <3>1, <3>2, AdjustedPosted
    <3>. QED
      BY <1>3, <1>6, <3>3 DEF Adjusted, Carried
  <2>2. CASE ~(a = debt /\ principal # 0)
    <3>1. accounts'[a] = posted[a]
      BY <1>2, <2>2 DEF WithDebtPaid, Paid
    <3>. QED
      BY <1>6, <3>1
  <2>. QED
    BY <2>1, <2>2
<1>9. /\ Now'.transactions = [Now.transactions EXCEPT ![t] = x]
      /\ ~Drawn(Now.transactions[t])
      /\ \A a \in Accounts :
           \/ Carried(Now.accounts[a], Now'.accounts[a], t,
                Contribution(x, a) - Contribution(Now.transactions[t], a))
           \/ /\ x.source = "reminder"
              /\ Adjusted(Now.accounts[a], Now'.accounts[a], t,
                          Now'.transactions)
  BY <1>1, <1>2, <1>5, <1>8
<1>. QED
  BY <1>3, <1>9, EntryStep DEF Inv

LEMMA NextAddsUp ==
  ASSUME Inv, Rooted(Now), Nets(Now), Balances(Now), [Next]_vars
  PROVE  Nets(Now') /\ Balances(Now')
<1>0. Inv' /\ accounts \in [Accounts -> SoundAccount]
  BY NextInv DEF Inv, Sound, Now
<1>1. CASE UNCHANGED vars
  <2>1. Now' = Now
    BY <1>1 DEF vars, Now
  <2>. QED
    BY <2>1, Zenon
<1>2. CASE AccountNext
  <2>1. ASSUME NEW a \in Accounts, NEW isArchived \in BOOLEAN,
               ArchiveAccount(a, isArchived) \/ DeleteAccount(a)
        PROVE  Nets(Now') /\ Balances(Now')
    <3>1. \A b \in Accounts : /\ accounts'[b].log = accounts[b].log
                              /\ accounts'[b].balance = accounts[b].balance
      <4>0. accounts[a] \in Account
        BY <1>0 DEF SoundAccount
      <4>1. CASE ArchiveAccount(a, isArchived)
        <5>1. accounts' = [accounts EXCEPT
                ![a] = [accounts[a] EXCEPT !.archived = isArchived]]
          BY <1>0, <4>1 DEF ArchiveAccount
        <5>. QED
          BY <1>0, <4>0, <5>1 DEF Account
      <4>2. CASE DeleteAccount(a)
        <5>1. accounts' = [accounts EXCEPT
                ![a] = [accounts[a] EXCEPT !.status = "deleted"]]
          BY <1>0, <4>2 DEF DeleteAccount
        <5>. QED
          BY <1>0, <4>0, <5>1 DEF Account
      <4>. QED
        BY <2>1, <4>1, <4>2
    <3>2. UNCHANGED transactions
      BY <2>1 DEF ArchiveAccount, DeleteAccount
    <3>. QED
      BY <3>1, <3>2, QuietAddsUp
  <2>2. ASSUME NEW a \in Accounts, NEW opening \in OpeningBalances,
               CreateAccount(a, opening)
        PROVE  Nets(Now') /\ Balances(Now')
    BY <1>0, <2>2, CreateAccountAddsUp
  <2>. QED
    BY <1>2, <2>1, <2>2 DEF AccountNext
<1>3. CASE EntryNext
  <2>1. ASSUME NEW t \in TxIds, NEW x \in Requests, CreateTransaction(t, x)
        PROVE  Nets(Now') /\ Balances(Now')
    <3>1. x \in Transaction /\ Live(x)
      BY RequestsType DEF Requests, Live
    <3>. QED
      BY <1>0, <2>1, <3>1, PostAddsUp DEF CreateTransaction
  <2>2. ASSUME NEW t \in TxIds, NEW x \in Requests, UpdateTransaction(t, x)
        PROVE  Nets(Now') /\ Balances(Now')
    BY <1>0, <2>2, EditAddsUp
  <2>. QED
    BY <1>3, <2>1, <2>2 DEF EntryNext
<1>4. CASE LendingNext
  <2>1. ASSUME NEW l \in Lendings, NEW a \in Accounts, NEW amount \in Amounts,
               NEW type \in {"income", "expense"}, NEW t \in TxIds,
               PostManaged(t, LendingTransaction(l, type, a, amount))
        PROVE  Nets(Now') /\ Balances(Now')
    <3> DEFINE x == LendingTransaction(l, type, a, amount)
    <3>1. amount \in Nat
      BY LedgerAssumption
    <3>2. x \in Transaction /\ Live(x)
      BY <3>1, LendingTransactionRow DEF Live
    <3> HIDE DEF x
    <3>3. /\ FreshTx(t)
          /\ accounts' = Applied(accounts, t, x)
          /\ transactions' = [transactions EXCEPT ![t] = x]
      BY <2>1 DEF PostManaged, x
    <3>. QED
      BY <1>0, <3>2, <3>3, PostAddsUp
  <2>2. ASSUME UNCHANGED <<accounts, transactions>>
        PROVE  Nets(Now') /\ Balances(Now')
    BY <2>2, QuietAddsUp
  <2>. QED
    BY <1>4, <2>1, <2>2
    DEF LendingNext, DeleteLending, RecordRepayment, CreateLending,
        RecordRepaymentWithTransaction, CreateLendingWithTransaction
<1>5. CASE ReminderNext
  <2>1. ASSUME UNCHANGED <<accounts, transactions>>
        PROVE  Nets(Now') /\ Balances(Now')
    BY <2>1, QuietAddsUp
  <2>. QED
    BY <1>0, <1>5, <2>1, RecordPaymentAddsUp, RecordPaymentFromAddsUp
    DEF ReminderNext, CreateReminder, UpdateReminder, DeleteReminder
<1>. QED
  BY <1>1, <1>2, <1>3, <1>4, <1>5, DeletionAddsUp DEF Next

LEMMA InitAddsUp ==
  ASSUME Init
  PROVE  Nets(Now) /\ Balances(Now)
<1>1. /\ Now.accounts = [a \in Accounts |-> NoAccount]
      /\ Now.transactions = [t \in TxIds |-> NoTransaction]
  BY DEF Init, Now
<1>2. NoAccount.log = <<>> /\ NoAccount.balance = 0
  BY DEF NoAccount
<1>3. ASSUME NEW t
      PROVE  Moved(<<>>, t) = 0
  <2>1. {i \in 1..Len(<<>>) : <<>>[i].tx = t} = {}
    OBVIOUS
  <2>. QED
    BY <2>1, SumEmpty DEF Moved
<1>4. ASSUME NEW a
      PROVE  SumOfTransactions(Now.transactions, a) = 0
  <2> DEFINE f == [t \in TxIds |-> Contribution(Now.transactions[t], a)]
  <2>1. \A t \in TxIds : f[t] = 0
    BY <1>1, NoContribution
  <2> HIDE DEF f
  <2>2. SumFunctionOnSet(f, TxIds) = 0
    BY <2>1, SumZero, LedgerAssumption
  <2>. QED
    BY <2>2 DEF SumOfTransactions, f
<1>. QED
  BY <1>1, <1>2, <1>3, <1>4, NoContribution DEF Nets, Balances

LEMMA AlwaysAddsUp ==
  Spec => [](Inv /\ Rooted(Now) /\ Nets(Now) /\ Balances(Now))
<1>1. Init => Inv /\ Rooted(Now) /\ Nets(Now) /\ Balances(Now)
  BY InitInv, InitRooted, InitAddsUp
<1>2. Inv /\ Rooted(Now) /\ Nets(Now) /\ Balances(Now) /\ [Next]_vars
        => (Inv /\ Rooted(Now) /\ Nets(Now) /\ Balances(Now))'
  BY NextInv, NextRooted, NextAddsUp
<1>. QED
  BY <1>1, <1>2, PTL DEF Spec

LEMMA AddsUpMeans ==
  Nets(Now) /\ Balances(Now)
    => LogNetsToTransaction /\ BalanceIsSumOfTransactions
BY DEF Nets, Balances, LogNetsToTransaction, BalanceIsSumOfTransactions, Now

\* However a transaction is created, edited and deleted, the log of every
\* account sums to what its row now says (updateTx, deleteTx and the postings).
THEOREM LogAlwaysNetsToTransaction ==
  Spec => []LogNetsToTransaction
BY AlwaysAddsUp, AddsUpMeans, PTL

\* A balance no reminder payment adjusted is always the sum of the
\* transactions that were not deleted, through every create, edit, delete,
\* batch, lending and repayment of the services.
THEOREM BalanceIsAlwaysSumOfTransactions ==
  Spec => []BalanceIsSumOfTransactions
BY AlwaysAddsUp, AddsUpMeans, PTL

-----------------------------------------------------------------------------
(***************************************************************************)
(* The records of a lending.                                               *)
(***************************************************************************)
Records == Seq(LendingRecord)
Shares(records) == [i \in 1..Len(records) |-> records[i].amount]

LEMMA RecordsTyped ==
  ASSUME NEW records \in Records
  PROVE  /\ Len(records) \in Nat
         /\ \A i \in 1..Len(records) :
              /\ records[i] \in LendingRecord
              /\ records[i].tx \in TxIds \cup {None}
              /\ records[i].amount \in Nat
              /\ Shares(records)[i] = records[i].amount
         /\ IsFiniteSet(RecordsLeft(records))
         /\ RecordsLeft(records) \subseteq 1..Len(records)
         /\ SumOfRecords(records)
              = SumFunctionOnSet(Shares(records), RecordsLeft(records))
<1>1. Len(records) \in Nat
  BY DEF Records
<1>2. \A i \in 1..Len(records) :
        /\ records[i] \in LendingRecord
        /\ records[i].tx \in TxIds \cup {None}
        /\ records[i].amount \in Nat
        /\ Shares(records)[i] = records[i].amount
  <2> TAKE i \in 1..Len(records)
  <2>1. records[i] \in LendingRecord
    BY DEF Records
  <2>. QED
    BY <2>1 DEF LendingRecord, Shares
<1>3. RecordsLeft(records) \subseteq 1..Len(records)
  BY DEF RecordsLeft
<1>4. IsFiniteSet(RecordsLeft(records))
  <2>1. IsFiniteSet(1..Len(records))
    BY <1>1, FS_Interval
  <2>. QED
    BY <1>3, <2>1, FS_Subset
<1>5. SumOfRecords(records)
        = SumFunctionOnSet(Shares(records), RecordsLeft(records))
  BY DEF SumOfRecords, Shares
<1>. QED
  BY <1>1, <1>2, <1>3, <1>4, <1>5

\* The sum of the records is natural and covers each of them.
LEMMA SumOfRecordsCovers ==
  ASSUME NEW records \in Records
  PROVE  /\ SumOfRecords(records) \in Nat
         /\ \A i \in RecordsLeft(records) :
              records[i].amount <= SumOfRecords(records)
<1> DEFINE f == Shares(records)
           S == RecordsLeft(records)
<1>1. /\ IsFiniteSet(S) /\ S \subseteq 1..Len(records)
      /\ SumOfRecords(records) = SumFunctionOnSet(f, S)
      /\ \A i \in 1..Len(records) :
           f[i] = records[i].amount /\ records[i].amount \in Nat
  BY RecordsTyped
<1> HIDE DEF f, S
<1>2. \A i \in S : f[i] = records[i].amount /\ f[i] \in Nat
  BY <1>1
<1>3. /\ SumFunctionOnSet(f, S) \in Nat
      /\ \A i \in S : f[i] <= SumFunctionOnSet(f, S)
  BY <1>1, <1>2, SumNat
<1>4. \A i \in S : records[i].amount <= SumOfRecords(records)
  BY <1>1, <1>2, <1>3
<1>. QED
  BY <1>1, <1>3, <1>4 DEF S

\* new is old and one more live record.
Recorded(new, old, t, amount) ==
  /\ Len(new) = Len(old) + 1
  /\ \A i \in 1..Len(old) : new[i] = old[i]
  /\ new[Len(old) + 1] = [status |-> "live", tx |-> t, amount |-> amount]

LEMMA RecordedLeft ==
  ASSUME NEW old \in Records, NEW new \in Records, NEW t, NEW amount \in Nat,
         Recorded(new, old, t, amount)
  PROVE  /\ RecordsLeft(new) = RecordsLeft(old) \cup {Len(old) + 1}
         /\ t = None => Tied(new) = Tied(old)
         /\ t # None => Tied(new) = Tied(old) \cup {Len(old) + 1}
<1>1. Len(old) \in Nat
  BY RecordsTyped
<1>2. /\ Len(new) = Len(old) + 1
      /\ \A i \in 1..Len(old) : new[i] = old[i]
      /\ new[Len(old) + 1].status = "live"
      /\ new[Len(old) + 1].tx = t
  BY DEF Recorded
<1>3. RecordsLeft(new) = RecordsLeft(old) \cup {Len(old) + 1}
  BY <1>1, <1>2 DEF RecordsLeft, Live
<1>4. \A i \in RecordsLeft(old) : new[i].tx = old[i].tx
  BY <1>2 DEF RecordsLeft
<1>5. t = None => Tied(new) = Tied(old)
  BY <1>2, <1>3, <1>4 DEF Tied
<1>6. t # None => Tied(new) = Tied(old) \cup {Len(old) + 1}
  BY <1>2, <1>3, <1>4 DEF Tied
<1>. QED
  BY <1>3, <1>5, <1>6

LEMMA RecordedSum ==
  ASSUME NEW old \in Records, NEW new \in Records, NEW t, NEW amount \in Nat,
         Recorded(new, old, t, amount)
  PROVE  SumOfRecords(new) = SumOfRecords(old) + amount
<1> DEFINE n == Len(old)
           f == Shares(old)
           g == Shares(new)
           S == RecordsLeft(old)
<1>1. /\ n \in Nat /\ IsFiniteSet(S) /\ S \subseteq 1..n
      /\ SumOfRecords(old) = SumFunctionOnSet(f, S)
      /\ \A i \in 1..n : f[i] = old[i].amount /\ old[i].amount \in Nat
  BY RecordsTyped
<1>2. /\ Len(new) = n + 1
      /\ \A i \in 1..n : new[i] = old[i]
      /\ new[n + 1].amount = amount
  BY DEF Recorded
<1>3. /\ SumOfRecords(new) = SumFunctionOnSet(g, RecordsLeft(new))
      /\ \A i \in 1..Len(new) : g[i] = new[i].amount
  BY RecordsTyped
<1>4. RecordsLeft(new) = S \cup {n + 1}
  BY RecordedLeft
<1> HIDE DEF n, f, g, S
<1>5. /\ \A i \in S : f[i] \in Int /\ g[i] = f[i]
      /\ g[n + 1] = amount /\ n + 1 \notin S
  <2>1. ASSUME NEW i \in S
        PROVE  f[i] \in Int /\ g[i] = f[i]
    <3>1. i \in 1..n /\ i \in 1..Len(new)
      BY <1>1, <1>2
    <3>. QED
      BY <1>1, <1>2, <1>3, <3>1
  <2>2. n + 1 \in 1..Len(new) /\ n + 1 \notin 1..n
    BY <1>1, <1>2
  <2>3. g[n + 1] = amount
    BY <1>2, <1>3, <2>2
  <2>. QED
    BY <1>1, <2>1, <2>2, <2>3
<1>6. SumFunctionOnSet(g, S) = SumFunctionOnSet(f, S)
  BY <1>1, <1>5, SumEqual
<1>7. SumFunctionOnSet(g, S \cup {n + 1}) = g[n + 1] + SumFunctionOnSet(g, S)
  <2>1. \A i \in S \cup {n + 1} : g[i] \in Int
    BY <1>5
  <2>. QED
    BY <1>1, <1>5, <2>1, SumPutIn
<1>8. SumFunctionOnSet(f, S) \in Int
  BY <1>1, <1>5, SumInt
<1>. QED
  BY <1>1, <1>3, <1>4, <1>5, <1>6, <1>7, <1>8

\* One live record stands for t: without it the others are left.
LEMMA UnrecordedLeft ==
  ASSUME NEW old \in Records, NEW new, NEW t \in TxIds, NEW i \in Tied(old),
         old[i].tx = t, \A j \in Tied(old) : old[j].tx = t => j = i,
         new = WithoutRepayment(old, t)
  PROVE  /\ new \in Records /\ Len(new) = Len(old)
         /\ \A j \in 1..Len(old) :
              new[j].tx = old[j].tx /\ new[j].amount = old[j].amount
         /\ RecordsLeft(new) = RecordsLeft(old) \ {i}
         /\ Tied(new) = Tied(old) \ {i}
<1>1. /\ Len(old) \in Nat
      /\ \A j \in 1..Len(old) : /\ old[j] \in LendingRecord
                                /\ old[j].tx \in TxIds \cup {None}
  BY RecordsTyped
<1>2. /\ Len(new) = Len(old)
      /\ new = [j \in 1..Len(old) |->
                  IF old[j].tx = t THEN [old[j] EXCEPT !.status = "deleted"]
                                   ELSE old[j]]
  BY <1>1 DEF WithoutRepayment
<1>3. \A j \in 1..Len(old) :
        /\ new[j] \in LendingRecord
        /\ new[j].tx = old[j].tx /\ new[j].amount = old[j].amount
        /\ new[j].status = IF old[j].tx = t THEN "deleted" ELSE old[j].status
  BY <1>1, <1>2 DEF LendingRecord, Status
<1>4. new \in Records
  BY <1>1, <1>2, <1>3 DEF Records
<1>5. t # None
  BY NoneIsNoId
<1>6. RecordsLeft(new) = RecordsLeft(old) \ {i}
  BY <1>2, <1>3, <1>5 DEF RecordsLeft, Tied, Live
<1>7. Tied(new) = Tied(old) \ {i}
  <2>1. \A j \in RecordsLeft(old) : new[j].tx = old[j].tx
    BY <1>3 DEF RecordsLeft
  <2>. QED
    BY <1>6, <2>1 DEF Tied
<1>. QED
  BY <1>2, <1>3, <1>4, <1>6, <1>7

LEMMA UnrecordedSum ==
  ASSUME NEW old \in Records, NEW new \in Records, NEW i \in RecordsLeft(old),
         Len(new) = Len(old),
         \A j \in 1..Len(old) : new[j].amount = old[j].amount,
         RecordsLeft(new) = RecordsLeft(old) \ {i}
  PROVE  SumOfRecords(old) = old[i].amount + SumOfRecords(new)
<1> DEFINE f == Shares(old)
           g == Shares(new)
           S == RecordsLeft(old)
<1>1. /\ IsFiniteSet(S) /\ S \subseteq 1..Len(old)
      /\ SumOfRecords(old) = SumFunctionOnSet(f, S)
      /\ \A j \in 1..Len(old) : f[j] = old[j].amount /\ old[j].amount \in Nat
  BY RecordsTyped
<1>2. /\ SumOfRecords(new) = SumFunctionOnSet(g, S \ {i})
      /\ \A j \in 1..Len(new) : g[j] = new[j].amount
  BY RecordsTyped
<1> HIDE DEF f, g, S
<1>3. \A j \in S : f[j] \in Int /\ f[j] = g[j]
  BY <1>1, <1>2
<1>4. i \in S /\ IsFiniteSet(S \ {i})
  BY <1>1, FS_RemoveElement DEF S
<1>5. SumFunctionOnSet(f, S) = f[i] + SumFunctionOnSet(f, S \ {i})
  BY <1>1, <1>3, <1>4, SumTakeOut
<1>6. SumFunctionOnSet(f, S \ {i}) = SumFunctionOnSet(g, S \ {i})
  BY <1>3, <1>4, SumEqual
<1>. QED
  BY <1>1, <1>2, <1>4, <1>5, <1>6

-----------------------------------------------------------------------------
(***************************************************************************)
(* A lending against its records and transactions.                         *)
(***************************************************************************)
Matches(l, row, rows) ==
  RepaymentsMatch(l, row, rows) /\ AddsUp(l, row, rows)

\* A transaction that is not the lending's comes or goes.
LEMMA OtherTransaction ==
  ASSUME NEW l, NEW row, NEW rows \in [TxIds -> Transaction], NEW t \in TxIds,
         NEW x, NEW new, new = [rows EXCEPT ![t] = x],
         ~OfLending(rows[t], l), ~OfLending(x, l), Matches(l, row, rows)
  PROVE  Matches(l, row, new)
<1>1. /\ new[t] = x
      /\ \A u \in TxIds : u # t => new[u] = rows[u]
  OBVIOUS
<1>2. RepaymentsOf(l, row, new) = RepaymentsOf(l, row, rows)
  <2>1. \A u \in TxIds : OfLending(new[u], l) => new[u] = rows[u]
    BY <1>1
  <2>2. \A u \in TxIds : OfLending(rows[u], l) => new[u] = rows[u]
    BY <1>1
  <2>. QED
    BY <2>1, <2>2 DEF RepaymentsOf
<1>3. OriginDeleted(l, row, new) => OriginDeleted(l, row, rows)
  BY <1>1 DEF OriginDeleted
<1>4. OriginDeleted(l, row, rows) => OriginDeleted(l, row, new)
  BY <1>1 DEF OriginDeleted
<1>5. \A i \in Tied(row.records) :
        new[row.records[i].tx] = rows[row.records[i].tx]
  <2> TAKE i \in Tied(row.records)
  <2>1. row.records[i].tx \in RepaymentsOf(l, row, rows)
    BY DEF Matches, RepaymentsMatch
  <2>2. row.records[i].tx # t /\ row.records[i].tx \in TxIds
    BY <2>1 DEF RepaymentsOf
  <2>. QED
    BY <1>1, <2>2
<1>6. RepaymentsMatch(l, row, new)
  BY <1>2, <1>5 DEF Matches, RepaymentsMatch
<1>7. AddsUp(l, row, new)
  BY <1>3, <1>4 DEF Matches, AddsUp
<1>. QED
  BY <1>6, <1>7 DEF Matches

\* A new lending, its origin posted or not.
LEMMA NewLendingMatches ==
  ASSUME NEW l, NEW type \in {"lend_out", "borrow_in"}, NEW principal \in Nat,
         NEW rows,
         \A t \in TxIds : OfLending(rows[t], l) =>
           /\ Live(rows[t])
           /\ rows[t].type = IF type = "lend_out" THEN "expense" ELSE "income"
  PROVE  Matches(l, NewLending(type, principal), rows)
<1> DEFINE row == NewLending(type, principal)
<1>1. /\ row.type = type /\ row.records = <<>> /\ row.principal = principal
      /\ row.balance = principal /\ row.repaid = 0 /\ row.settled = FALSE
  BY DEF NewLending, NoLending
<1> HIDE DEF row
<1>2. RecordsLeft(<<>>) = {}
  BY DEF RecordsLeft
<1>3. SumOfRecords(<<>>) = 0 /\ Tied(<<>>) = {}
  BY <1>2, SumEmpty DEF SumOfRecords, Tied
<1>4. \A t \in TxIds : OfLending(rows[t], l) =>
        Live(rows[t]) /\ ~IsRepayment(row, rows[t])
  BY <1>1 DEF IsRepayment
<1>5. RepaymentsOf(l, row, rows) = {}
  BY <1>4 DEF RepaymentsOf
<1>6. RepaymentsMatch(l, row, rows)
  BY <1>1, <1>3, <1>5 DEF RepaymentsMatch
<1>7. AddsUp(l, row, rows)
  BY <1>1 DEF AddsUp
<1>. QED
  BY <1>6, <1>7 DEF Matches, row

LEMMA RepaidFields ==
  ASSUME NEW row \in Lending, NEW amount \in Nat, NEW t \in TxIds \cup {None}
  PROVE  LET new == Repaid(row, amount, t) IN
         /\ new.type = row.type /\ new.principal = row.principal
         /\ new.balance = row.balance - amount
         /\ new.repaid = row.repaid + amount
         /\ new.settled => row.settled \/ row.balance - amount = 0
BY DEF Repaid, Lending

LEMMA RepaidRecorded ==
  ASSUME NEW row \in Lending, NEW amount \in Nat, NEW t \in TxIds \cup {None}
  PROVE  Recorded(Repaid(row, amount, t).records, row.records, t, amount)
BY RepaidRow DEF Recorded

LEMMA SameTypeRepays ==
  ASSUME NEW row, NEW new, NEW l, NEW rows, new.type = row.type
  PROVE  /\ \A x : IsRepayment(new, x) <=> IsRepayment(row, x)
         /\ RepaymentsOf(l, new, rows) = RepaymentsOf(l, row, rows)
         /\ OriginDeleted(l, new, rows) <=> OriginDeleted(l, row, rows)
<1>1. \A x : IsRepayment(new, x) <=> IsRepayment(row, x)
  BY DEF IsRepayment
<1>. QED
  BY <1>1 DEF RepaymentsOf, OriginDeleted

\* What a repayment does to the numbers of a lending.
LEMMA RepaidNumbers ==
  ASSUME NEW l, NEW row \in Lending, NEW rows, NEW new \in Lending,
         NEW amount \in Nat, NEW t \in TxIds \cup {None},
         new = Repaid(row, amount, t), amount <= row.balance,
         Matches(l, row, rows)
  PROVE  /\ new.repaid = SumOfRecords(new.records)
         /\ AddsUp(l, new, rows)
<1>1. /\ new.type = row.type /\ new.principal = row.principal
      /\ new.balance = row.balance - amount
      /\ new.repaid = row.repaid + amount
      /\ new.settled => row.settled \/ row.balance - amount = 0
  BY RepaidFields
<1>2. /\ row.records \in Records /\ new.records \in Records
      /\ row.balance \in Nat /\ row.repaid \in Nat /\ row.principal \in Nat
  BY DEF Lending, Records
<1>3. Recorded(new.records, row.records, t, amount)
  BY RepaidRecorded
<1>4. SumOfRecords(new.records) = SumOfRecords(row.records) + amount
  BY <1>2, <1>3, RecordedSum
<1>5. OriginDeleted(l, new, rows) <=> OriginDeleted(l, row, rows)
  BY <1>1, SameTypeRepays
<1>6. /\ row.balance + row.repaid <= row.principal
      /\ ~OriginDeleted(l, row, rows) =>
           row.balance + row.repaid = row.principal
      /\ row.settled => row.balance = 0
  BY DEF Matches, AddsUp
<1>7. new.settled => new.balance = 0
  BY <1>1, <1>2, <1>6
<1>8. AddsUp(l, new, rows)
  BY <1>1, <1>2, <1>5, <1>6, <1>7 DEF AddsUp
<1>9. new.repaid = SumOfRecords(new.records)
  BY <1>1, <1>4 DEF Matches, RepaymentsMatch
<1>. QED
  BY <1>8, <1>9

LEMMA RepaidMatches ==
  ASSUME NEW l, NEW row \in Lending, NEW rows, NEW new \in Lending,
         NEW amount \in Nat, new = Repaid(row, amount, None),
         amount <= row.balance, Matches(l, row, rows)
  PROVE  Matches(l, new, rows)
<1>1. new.repaid = SumOfRecords(new.records) /\ AddsUp(l, new, rows)
  BY RepaidNumbers
<1>2. row.records \in Records /\ new.records \in Records
  BY DEF Lending, Records
<1>3. Recorded(new.records, row.records, None, amount)
  BY RepaidRecorded
<1>4. /\ Tied(new.records) = Tied(row.records)
      /\ \A i \in Tied(new.records) : new.records[i] = row.records[i]
  <2>1. Tied(new.records) = Tied(row.records)
    BY <1>2, <1>3, RecordedLeft
  <2>2. Tied(row.records) \subseteq 1..Len(row.records)
    BY DEF Tied, RecordsLeft
  <2>. QED
    BY <1>3, <2>1, <2>2 DEF Recorded
<1>5. new.type = row.type
  BY RepaidFields
<1>6. RepaymentsOf(l, new, rows) = RepaymentsOf(l, row, rows)
  BY <1>5, SameTypeRepays
<1>7. RepaymentsMatch(l, new, rows)
  BY <1>1, <1>4, <1>6 DEF Matches, RepaymentsMatch
<1>. QED
  BY <1>1, <1>7 DEF Matches

\* A repayment that moves money: its transaction is stored with its record.
LEMMA RepaidWithMatches ==
  ASSUME NEW l, NEW row \in Lending, NEW rows \in [TxIds -> Transaction],
         NEW new \in Lending, NEW amount \in Nat, NEW t \in TxIds, NEW x,
         NEW after, new = Repaid(row, amount, t), amount <= row.balance,
         after = [rows EXCEPT ![t] = x], ~OfLending(rows[t], l),
         OfLending(x, l), Live(x), IsRepayment(row, x), x.amount = amount,
         Matches(l, row, rows)
  PROVE  Matches(l, new, after)
<1> DEFINE n == Len(row.records)
<1>0. /\ new.repaid = SumOfRecords(new.records)
      /\ AddsUp(l, new, rows)
  BY RepaidNumbers
<1>1. /\ after[t] = x
      /\ \A u \in TxIds : u # t => after[u] = rows[u]
  OBVIOUS
<1>2. row.records \in Records /\ new.records \in Records
  BY DEF Lending, Records
<1>3. Recorded(new.records, row.records, t, amount)
  BY RepaidRecorded
<1>4. /\ Tied(new.records) = Tied(row.records) \cup {n + 1}
      /\ Tied(row.records) \subseteq 1..n
      /\ n \in Nat
  <2>1. t # None
    BY NoneIsNoId
  <2>2. Tied(new.records) = Tied(row.records) \cup {n + 1}
    BY <1>2, <1>3, <2>1, RecordedLeft
  <2>3. Tied(row.records) \subseteq 1..n
    BY DEF Tied, RecordsLeft
  <2>. QED
    BY <1>2, <2>2, <2>3, RecordsTyped
<1>5. /\ \A i \in Tied(row.records) : new.records[i] = row.records[i]
      /\ new.records[n + 1].tx = t /\ new.records[n + 1].amount = amount
  BY <1>3, <1>4 DEF Recorded
<1> HIDE DEF n
<1>6. \A i \in Tied(row.records) :
        /\ row.records[i].tx \in RepaymentsOf(l, row, rows)
        /\ row.records[i].tx # t
        /\ after[row.records[i].tx] = rows[row.records[i].tx]
  <2> TAKE i \in Tied(row.records)
  <2>1. row.records[i].tx \in RepaymentsOf(l, row, rows)
    BY DEF Matches, RepaymentsMatch
  <2>2. row.records[i].tx # t /\ row.records[i].tx \in TxIds
    BY <2>1 DEF RepaymentsOf
  <2>. QED
    BY <1>1, <2>1, <2>2
<1>7. new.type = row.type
  BY RepaidFields
<1>8. RepaymentsOf(l, new, after) = RepaymentsOf(l, row, rows) \cup {t}
  <2>1. RepaymentsOf(l, new, after) = RepaymentsOf(l, row, after)
    BY <1>7, SameTypeRepays
  <2>2. t \in RepaymentsOf(l, row, after)
    BY <1>1 DEF RepaymentsOf
  <2>3. \A u \in TxIds : u # t =>
          (u \in RepaymentsOf(l, row, after) <=> u \in RepaymentsOf(l, row, rows))
    BY <1>1 DEF RepaymentsOf
  <2>4. /\ RepaymentsOf(l, row, after) \subseteq TxIds
        /\ RepaymentsOf(l, row, rows) \subseteq TxIds
    BY DEF RepaymentsOf
  <2>. QED
    BY <2>1, <2>2, <2>3, <2>4
<1>9. {new.records[i].tx : i \in Tied(new.records)}
        = RepaymentsOf(l, new, after)
  <2>1. {row.records[i].tx : i \in Tied(row.records)}
          = RepaymentsOf(l, row, rows)
    BY DEF Matches, RepaymentsMatch
  <2>2. {new.records[i].tx : i \in Tied(new.records)}
          = {row.records[i].tx : i \in Tied(row.records)} \cup {t}
    BY <1>4, <1>5
  <2>. QED
    BY <1>8, <2>1, <2>2
<1>10. \A i, j \in Tied(new.records) :
         new.records[i].tx = new.records[j].tx => i = j
  <2>1. \A i, j \in Tied(row.records) :
          row.records[i].tx = row.records[j].tx => i = j
    BY DEF Matches, RepaymentsMatch
  <2>. QED
    BY <1>4, <1>5, <1>6, <2>1
<1>11. \A i \in Tied(new.records) :
         new.records[i].amount = after[new.records[i].tx].amount
  <2>1. \A i \in Tied(row.records) :
          row.records[i].amount = rows[row.records[i].tx].amount
    BY DEF Matches, RepaymentsMatch
  <2>. QED
    BY <1>1, <1>4, <1>5, <1>6, <2>1
<1>12. RepaymentsMatch(l, new, after)
  BY <1>0, <1>9, <1>10, <1>11 DEF RepaymentsMatch
<1>13. OriginDeleted(l, new, after) <=> OriginDeleted(l, new, rows)
  <2>1. x.status # "deleted"
    BY DEF Live
  <2>. QED
    BY <1>1, <2>1 DEF OriginDeleted
<1>14. AddsUp(l, new, after)
  BY <1>0, <1>13 DEF AddsUp
<1>. QED
  BY <1>12, <1>14 DEF Matches

LEMMA RepaymentRevertedFields ==
  ASSUME NEW row \in Lending, NEW t, NEW x, IsRepayment(row, x)
  PROVE  LET new == LendingReverted(row, t, x) IN
         /\ new.type = row.type /\ new.principal = row.principal
         /\ new.balance = row.balance + x.amount
         /\ new.repaid = AtLeastZero(row.repaid - x.amount)
         /\ new.settled => row.settled /\ row.balance + x.amount <= 0
         /\ new.records = WithoutRepayment(row.records, t)
BY DEF LendingReverted, Lending

LEMMA OriginRevertedFields ==
  ASSUME NEW row \in Lending, NEW t, NEW x, ~IsRepayment(row, x)
  PROVE  LET new == LendingReverted(row, t, x) IN
         /\ new.type = row.type /\ new.principal = row.principal
         /\ new.balance = AtLeastZero(row.balance - x.amount)
         /\ new.repaid = row.repaid
         /\ new.settled = row.settled
         /\ new.records = row.records
BY DEF LendingReverted, Lending

\* Deleting a repayment takes its record and its amount back.
LEMMA RepaymentDeletedMatches ==
  ASSUME NEW l, NEW row \in Lending, NEW rows \in [TxIds -> Transaction],
         NEW t \in TxIds, NEW x, NEW new, NEW after, NEW gone,
         x = rows[t], Live(x), OfLending(x, l), IsRepayment(row, x),
         new = LendingReverted(row, t, x),
         gone = [x EXCEPT !.status = "deleted"],
         after = [rows EXCEPT ![t] = gone],
         Matches(l, row, rows)
  PROVE  Matches(l, new, after)
<1>1. /\ new.type = row.type /\ new.principal = row.principal
      /\ new.balance = row.balance + x.amount
      /\ new.repaid = AtLeastZero(row.repaid - x.amount)
      /\ new.settled => row.settled /\ row.balance + x.amount <= 0
      /\ new.records = WithoutRepayment(row.records, t)
  BY RepaymentRevertedFields
<1>2. /\ row.records \in Records /\ x \in Transaction /\ x.amount \in Nat
      /\ row.balance \in Nat /\ row.repaid \in Nat /\ row.principal \in Nat
  BY DEF Lending, Records, Transaction
<1>3. /\ after[t] = gone
      /\ \A u \in TxIds : u # t => after[u] = rows[u]
  OBVIOUS
<1>4. gone.status = "deleted" /\ ~Live(gone)
        /\ (IsRepayment(row, gone) <=> IsRepayment(row, x))
  BY <1>2 DEF Live, IsRepayment, Transaction
<1>5. /\ {row.records[i].tx : i \in Tied(row.records)}
           = RepaymentsOf(l, row, rows)
      /\ \A i, j \in Tied(row.records) :
           row.records[i].tx = row.records[j].tx => i = j
      /\ \A i \in Tied(row.records) :
           row.records[i].amount = rows[row.records[i].tx].amount
      /\ row.repaid = SumOfRecords(row.records)
  BY DEF Matches, RepaymentsMatch
<1>6. t \in RepaymentsOf(l, row, rows)
  BY DEF RepaymentsOf
<1>7. PICK i \in Tied(row.records) : row.records[i].tx = t
  BY <1>5, <1>6
<1>8. \A j \in Tied(row.records) : row.records[j].tx = t => j = i
  BY <1>5, <1>7
<1>9. /\ new.records \in Records /\ Len(new.records) = Len(row.records)
      /\ \A j \in 1..Len(row.records) :
           /\ new.records[j].tx = row.records[j].tx
           /\ new.records[j].amount = row.records[j].amount
      /\ RecordsLeft(new.records) = RecordsLeft(row.records) \ {i}
      /\ Tied(new.records) = Tied(row.records) \ {i}
  <2> DEFINE old == row.records
             rest == new.records
  <2>1. /\ old \in Records /\ i \in Tied(old) /\ old[i].tx = t
        /\ \A j \in Tied(old) : old[j].tx = t => j = i
        /\ rest = WithoutRepayment(old, t)
    BY <1>1, <1>2, <1>7, <1>8
  <2> HIDE DEF old, rest
  <2>2. /\ rest \in Records /\ Len(rest) = Len(old)
        /\ \A j \in 1..Len(old) :
             rest[j].tx = old[j].tx /\ rest[j].amount = old[j].amount
        /\ RecordsLeft(rest) = RecordsLeft(old) \ {i}
        /\ Tied(rest) = Tied(old) \ {i}
    BY <2>1, UnrecordedLeft
  <2>. QED
    BY <2>2 DEF old, rest
<1>10. /\ i \in RecordsLeft(row.records)
       /\ Tied(row.records) \subseteq 1..Len(row.records)
  BY DEF Tied, RecordsLeft
<1>11. /\ SumOfRecords(row.records)
            = row.records[i].amount + SumOfRecords(new.records)
       /\ SumOfRecords(new.records) \in Nat
  <2> DEFINE old == row.records
             rest == new.records
  <2>1. /\ old \in Records /\ rest \in Records /\ i \in RecordsLeft(old)
        /\ Len(rest) = Len(old)
        /\ \A j \in 1..Len(old) : rest[j].amount = old[j].amount
        /\ RecordsLeft(rest) = RecordsLeft(old) \ {i}
    BY <1>2, <1>9, <1>10
  <2> HIDE DEF old, rest
  <2>2. /\ SumOfRecords(old) = old[i].amount + SumOfRecords(rest)
        /\ SumOfRecords(rest) \in Nat
    BY <2>1, UnrecordedSum, SumOfRecordsCovers
  <2>. QED
    BY <2>2 DEF old, rest
<1>12. row.records[i].amount = x.amount
  BY <1>5, <1>7
<1>13. new.repaid = SumOfRecords(new.records)
         /\ new.repaid = row.repaid - x.amount
  BY <1>1, <1>2, <1>5, <1>11, <1>12 DEF AtLeastZero
<1>14. RepaymentsOf(l, new, after) = RepaymentsOf(l, row, rows) \ {t}
  <2>1. RepaymentsOf(l, new, after) = RepaymentsOf(l, row, after)
    BY <1>1, SameTypeRepays
  <2>2. t \notin RepaymentsOf(l, row, after)
    BY <1>3, <1>4 DEF RepaymentsOf
  <2>3. \A u \in TxIds : u # t =>
          (u \in RepaymentsOf(l, row, after) <=> u \in RepaymentsOf(l, row, rows))
    BY <1>3 DEF RepaymentsOf
  <2>4. /\ RepaymentsOf(l, row, after) \subseteq TxIds
        /\ RepaymentsOf(l, row, rows) \subseteq TxIds
    BY DEF RepaymentsOf
  <2>. QED
    BY <2>1, <2>2, <2>3, <2>4
<1>15. \A j \in Tied(new.records) :
         /\ j \in Tied(row.records)
         /\ new.records[j].tx = row.records[j].tx
         /\ new.records[j].amount = row.records[j].amount
         /\ row.records[j].tx # t /\ row.records[j].tx \in TxIds
  <2> TAKE j \in Tied(new.records)
  <2>1. j \in Tied(row.records) /\ j # i
    BY <1>9
  <2>2. row.records[j].tx \in RepaymentsOf(l, row, rows)
    BY <1>5, <2>1
  <2>3. row.records[j].tx \in TxIds /\ row.records[j].tx # t
    BY <1>8, <2>1, <2>2 DEF RepaymentsOf
  <2>. QED
    BY <1>9, <1>10, <2>1, <2>3
<1>16. {new.records[j].tx : j \in Tied(new.records)}
         = RepaymentsOf(l, new, after)
  <2>1. {new.records[j].tx : j \in Tied(new.records)}
          = {row.records[j].tx : j \in Tied(row.records)} \ {t}
    BY <1>7, <1>9, <1>15
  <2>. QED
    BY <1>5, <1>14, <2>1
<1>17. \A j, k \in Tied(new.records) :
         new.records[j].tx = new.records[k].tx => j = k
  BY <1>5, <1>15
<1>18. \A j \in Tied(new.records) :
         new.records[j].amount = after[new.records[j].tx].amount
  BY <1>3, <1>5, <1>15
<1>19. RepaymentsMatch(l, new, after)
  BY <1>13, <1>16, <1>17, <1>18 DEF RepaymentsMatch
<1>20. OriginDeleted(l, new, after) <=> OriginDeleted(l, row, rows)
  <2>1. OriginDeleted(l, new, after) <=> OriginDeleted(l, row, after)
    BY <1>1, SameTypeRepays
  <2>2. x.status # "deleted"
    BY DEF Live
  <2>. QED
    BY <1>3, <1>4, <2>1, <2>2 DEF OriginDeleted
<1>21. AddsUp(l, new, after)
  <2>1. /\ row.balance + row.repaid <= row.principal
        /\ ~OriginDeleted(l, row, rows) =>
             row.balance + row.repaid = row.principal
        /\ row.settled => row.balance = 0
    BY DEF Matches, AddsUp
  <2>2. new.balance + new.repaid = row.balance + row.repaid
    BY <1>1, <1>2, <1>13
  <2>3. new.balance >= 0 /\ new.repaid >= 0
    BY <1>1, <1>2, <1>11, <1>13
  <2>4. new.settled => new.balance = 0
    BY <1>1, <1>2
  <2>. QED
    BY <1>1, <1>20, <2>1, <2>2, <2>3, <2>4 DEF AddsUp
<1>. QED
  BY <1>19, <1>21 DEF Matches

\* Deleting the origin takes what it can off the balance.
LEMMA OriginDeletedMatches ==
  ASSUME NEW l, NEW row \in Lending, NEW rows \in [TxIds -> Transaction],
         NEW t \in TxIds, NEW x, NEW new, NEW after, NEW gone,
         x = rows[t], OfLending(x, l), ~IsRepayment(row, x),
         new = LendingReverted(row, t, x),
         gone = [x EXCEPT !.status = "deleted"],
         after = [rows EXCEPT ![t] = gone],
         Matches(l, row, rows)
  PROVE  Matches(l, new, after)
<1>1. /\ new.type = row.type /\ new.principal = row.principal
      /\ new.balance = AtLeastZero(row.balance - x.amount)
      /\ new.repaid = row.repaid
      /\ new.settled = row.settled
      /\ new.records = row.records
  BY OriginRevertedFields
<1>2. /\ x \in Transaction /\ x.amount \in Nat
      /\ row.balance \in Nat /\ row.repaid \in Nat /\ row.principal \in Nat
  BY DEF Lending, Transaction
<1>3. /\ after[t] = gone
      /\ \A u \in TxIds : u # t => after[u] = rows[u]
  OBVIOUS
<1>4. /\ gone.status = "deleted" /\ OfLending(gone, l)
      /\ ~IsRepayment(row, gone)
  BY <1>2 DEF IsRepayment, Transaction, OfLending
<1>5. RepaymentsOf(l, new, after) = RepaymentsOf(l, row, rows)
  <2>1. RepaymentsOf(l, new, after) = RepaymentsOf(l, row, after)
    BY <1>1, SameTypeRepays
  <2>2. /\ t \notin RepaymentsOf(l, row, after)
        /\ t \notin RepaymentsOf(l, row, rows)
    BY <1>3, <1>4 DEF RepaymentsOf
  <2>3. \A u \in TxIds : u # t =>
          (u \in RepaymentsOf(l, row, after) <=> u \in RepaymentsOf(l, row, rows))
    BY <1>3 DEF RepaymentsOf
  <2>4. /\ RepaymentsOf(l, row, after) \subseteq TxIds
        /\ RepaymentsOf(l, row, rows) \subseteq TxIds
    BY DEF RepaymentsOf
  <2>5. RepaymentsOf(l, row, after) = RepaymentsOf(l, row, rows)
    <3>1. \A u : u \in RepaymentsOf(l, row, after)
                   <=> u \in RepaymentsOf(l, row, rows)
      BY <2>2, <2>3, <2>4
    <3>. QED
      BY <3>1
  <2>. QED
    BY <2>1, <2>5
<1>6. \A i \in Tied(row.records) :
        after[row.records[i].tx] = rows[row.records[i].tx]
  <2> TAKE i \in Tied(row.records)
  <2>1. row.records[i].tx \in RepaymentsOf(l, row, rows)
    BY DEF Matches, RepaymentsMatch
  <2>2. row.records[i].tx # t /\ row.records[i].tx \in TxIds
    BY <2>1 DEF RepaymentsOf
  <2>. QED
    BY <1>3, <2>2
<1>7. RepaymentsMatch(l, new, after)
  BY <1>1, <1>5, <1>6 DEF Matches, RepaymentsMatch
<1>8. OriginDeleted(l, new, after)
  <2>1. OriginDeleted(l, row, after)
    BY <1>3, <1>4 DEF OriginDeleted
  <2>. QED
    BY <1>1, <2>1, SameTypeRepays
<1>9. AddsUp(l, new, after)
  <2>1. /\ row.balance + row.repaid <= row.principal
        /\ row.settled => row.balance = 0
    BY DEF Matches, AddsUp
  <2>. QED
    BY <1>1, <1>2, <1>8, <2>1 DEF AddsUp, AtLeastZero
<1>. QED
  BY <1>7, <1>9 DEF Matches

\* Every lending matches its records and transactions.
Lent(s) ==
  \A l \in Lendings : Matches(l, s.lendings[l], s.transactions)

LEMMA DeletedLent ==
  ASSUME NEW s, NEW t \in TxIds, Sound(s), Lent(s), Deletable(s, t)
  PROVE  Lent(Deleted(s, t))
<1> DEFINE x == s.transactions[t]
           d == Deleted(s, t)
           gone == [x EXCEPT !.status = "deleted"]
<1>1. /\ s.transactions \in [TxIds -> Transaction]
      /\ s.lendings \in [Lendings -> Lending]
      /\ x \in Transaction /\ Live(x)
  BY DEF Sound, Deletable
<1>2. /\ d.transactions = [s.transactions EXCEPT ![t] = gone]
      /\ d.lendings = [l \in Lendings |->
           IF x.source = "lending" /\ l = x.link
           THEN LendingReverted(s.lendings[l], t, x) ELSE s.lendings[l]]
  BY DEF Deleted
<1>3. gone.source = x.source /\ gone.link = x.link
  BY <1>1 DEF Transaction
<1> SUFFICES ASSUME NEW l \in Lendings
             PROVE  Matches(l, d.lendings[l], d.transactions)
  BY DEF Lent
<1>4. /\ Matches(l, s.lendings[l], s.transactions)
      /\ s.lendings[l] \in Lending
  BY <1>1 DEF Lent
<1> DEFINE row == s.lendings[l]
           new == LendingReverted(row, t, x)
<1>5. CASE OfLending(x, l)
  <2>1. d.lendings[l] = new
    BY <1>2, <1>5 DEF OfLending
  <2> HIDE DEF x, d, gone, row, new
  <2>2. x = s.transactions[t]
    BY DEF x
  <2>3. gone = [x EXCEPT !.status = "deleted"]
    BY DEF gone
  <2>4. new = LendingReverted(row, t, x)
    BY DEF new
  <2>5. row \in Lending /\ Matches(l, row, s.transactions)
    BY <1>4 DEF row
  <2>6. Matches(l, new, d.transactions)
    <3>1. CASE IsRepayment(row, x)
      BY <1>1, <1>2, <1>5, <2>2, <2>3, <2>4, <2>5, <3>1,
         RepaymentDeletedMatches
    <3>2. CASE ~IsRepayment(row, x)
      BY <1>1, <1>2, <1>5, <2>2, <2>3, <2>4, <2>5, <3>2,
         OriginDeletedMatches
    <3>. QED
      BY <3>1, <3>2
  <2>. QED
    BY <2>1, <2>6
<1>6. CASE ~OfLending(x, l)
  <2>1. d.lendings[l] = s.lendings[l]
    BY <1>2, <1>6 DEF OfLending
  <2>2. ~OfLending(gone, l)
    BY <1>3, <1>6 DEF OfLending
  <2> HIDE DEF d, gone
  <2>3. Matches(l, s.lendings[l], d.transactions)
    BY <1>1, <1>2, <1>4, <1>6, <2>2, OtherTransaction
  <2>. QED
    BY <2>1, <2>3
<1>. QED
  BY <1>5, <1>6

LEMMA DeletionLent ==
  ASSUME Inv, Lent(Now), DeletionNext
  PROVE  Lent(Now')
<1>1. ASSUME NEW t \in TxIds, DeleteTransaction(t)
      PROVE  Lent(Now')
  <2>1. Deletable(Now, t) /\ Now' = Deleted(Now, t)
    BY <1>1, CommitDeleted DEF DeleteTransaction
  <2>. QED
    BY <2>1, DeletedLent DEF Inv
<1>2. ASSUME NEW t \in TxIds, NEW u \in TxIds, DeleteBatch(t, u)
      PROVE  Lent(Now')
  <2> DEFINE s == Deleted(Now, t)
  <2>1. Deletable(Now, t) /\ Deletable(s, u) /\ Now' = Deleted(s, u)
    BY <1>2, CommitDeleted DEF DeleteBatch
  <2>2. Sound(s) /\ Lent(s)
    BY <2>1, DeletedSound, DeletedLent DEF Inv
  <2> HIDE DEF s
  <2>3. Lent(Deleted(s, u))
    BY <2>1, <2>2, DeletedLent
  <2>. QED
    BY <2>1, <2>3
<1>. QED
  BY <1>1, <1>2 DEF DeletionNext

\* A transaction of no lending is stored.
LEMMA StoredLent ==
  ASSUME Inv, Lent(Now), NEW t \in TxIds, NEW x, UNCHANGED lendings,
         transactions' = [transactions EXCEPT ![t] = x],
         transactions[t].source # "lending", x.source # "lending"
  PROVE  Lent(Now')
<1>1. /\ Now.lendings = lendings /\ Now.transactions = transactions
      /\ Now'.lendings = lendings' /\ Now'.transactions = transactions'
      /\ transactions \in [TxIds -> Transaction]
  BY DEF Inv, Sound, Now
<1> SUFFICES ASSUME NEW l \in Lendings
             PROVE  Matches(l, lendings[l], transactions')
  BY <1>1 DEF Lent
<1>2. ~OfLending(transactions[t], l) /\ ~OfLending(x, l)
  BY DEF OfLending
<1>3. Matches(l, lendings[l], transactions)
  BY <1>1 DEF Lent
<1>. QED
  BY <1>1, <1>2, <1>3, OtherTransaction

LEMMA UnnamedLending ==
  ASSUME Rooted(Now), NEW l \in Lendings, lendings[l].status = "absent",
         NEW t \in TxIds
  PROVE  ~OfLending(transactions[t], l)
<1>1. TransactionRooted(transactions[t], Now) /\ Now.lendings = lendings
  BY DEF Rooted, Now
<1>2. NoTransaction.source # "lending"
  BY DEF NoTransaction
<1>. QED
  BY <1>1, <1>2 DEF TransactionRooted, OfLending, Drawn

\* A row that differs in nothing that counts.
LEMMA SameMatches ==
  ASSUME NEW l, NEW row, NEW new, NEW rows, Matches(l, row, rows),
         new.type = row.type, new.principal = row.principal,
         new.balance = row.balance, new.repaid = row.repaid,
         new.settled = row.settled, new.records = row.records
  PROVE  Matches(l, new, rows)
<1>1. /\ RepaymentsOf(l, new, rows) = RepaymentsOf(l, row, rows)
      /\ OriginDeleted(l, new, rows) <=> OriginDeleted(l, row, rows)
  BY SameTypeRepays
<1>2. RepaymentsMatch(l, new, rows)
  BY <1>1 DEF Matches, RepaymentsMatch
<1>3. AddsUp(l, new, rows)
  BY <1>1 DEF Matches, AddsUp
<1>. QED
  BY <1>2, <1>3 DEF Matches

\* Only the row of one lending changes.
LEMMA LendingRowLent ==
  ASSUME Inv, Lent(Now), NEW l \in Lendings, NEW new,
         lendings' = [lendings EXCEPT ![l] = new],
         UNCHANGED transactions, Matches(l, new, transactions)
  PROVE  Lent(Now')
<1>1. /\ Now.lendings = lendings /\ Now.transactions = transactions
      /\ Now'.lendings = lendings' /\ Now'.transactions = transactions'
      /\ lendings \in [Lendings -> Lending]
  BY DEF Inv, Sound, Now
<1> SUFFICES ASSUME NEW k \in Lendings
             PROVE  Matches(k, lendings'[k], transactions)
  BY <1>1 DEF Lent
<1>2. CASE k = l
  BY <1>1, <1>2
<1>3. CASE k # l
  <2>1. lendings'[k] = lendings[k]
    BY <1>1, <1>3
  <2>. QED
    BY <1>1, <2>1 DEF Lent
<1>. QED
  BY <1>2, <1>3

\* A managed transaction of l is stored and l gets the row new.
LEMMA ManagedLent ==
  ASSUME Inv, Lent(Now), NEW l \in Lendings, NEW t \in TxIds, NEW x, NEW new,
         transactions' = [transactions EXCEPT ![t] = x],
         lendings' = [lendings EXCEPT ![l] = new],
         transactions[t].source # "lending", x.link = l,
         Matches(l, new, transactions')
  PROVE  Lent(Now')
<1>1. /\ Now.lendings = lendings /\ Now.transactions = transactions
      /\ Now'.lendings = lendings' /\ Now'.transactions = transactions'
      /\ lendings \in [Lendings -> Lending]
      /\ transactions \in [TxIds -> Transaction]
  BY DEF Inv, Sound, Now
<1> SUFFICES ASSUME NEW k \in Lendings
             PROVE  Matches(k, lendings'[k], transactions')
  BY <1>1 DEF Lent
<1>2. CASE k = l
  BY <1>1, <1>2
<1>3. CASE k # l
  <2>1. ~OfLending(transactions[t], k) /\ ~OfLending(x, k)
    BY <1>3 DEF OfLending
  <2>2. lendings'[k] = lendings[k]
    BY <1>1, <1>3
  <2>3. Matches(k, lendings[k], transactions)
    BY <1>1 DEF Lent
  <2>4. Matches(k, lendings[k], transactions')
    BY <1>1, <2>1, <2>3, OtherTransaction
  <2>. QED
    BY <2>2, <2>4
<1>. QED
  BY <1>2, <1>3

LEMMA LendingNextLent ==
  ASSUME Inv, Rooted(Now), Lent(Now), LendingNext
  PROVE  Lent(Now')
<1>0. /\ lendings \in [Lendings -> Lending]
      /\ transactions \in [TxIds -> Transaction]
      /\ Amounts \subseteq Nat
      /\ \A l \in Lendings : Matches(l, lendings[l], transactions)
  BY LedgerAssumption DEF Inv, Sound, Now, Lent
<1>1. ASSUME NEW l \in Lendings, DeleteLending(l)
      PROVE  Lent(Now')
  <2> DEFINE row == lendings[l]
             new == [row EXCEPT !.status = "deleted"]
  <2>1. /\ lendings' = [lendings EXCEPT ![l] = new]
        /\ UNCHANGED transactions
    BY <1>1 DEF DeleteLending
  <2>2. row \in Lending /\ Matches(l, row, transactions)
    BY <1>0
  <2> HIDE DEF row
  <2>3. /\ new.type = row.type /\ new.principal = row.principal
        /\ new.balance = row.balance /\ new.repaid = row.repaid
        /\ new.settled = row.settled /\ new.records = row.records
    BY <2>2 DEF Lending
  <2> HIDE DEF new
  <2>4. Matches(l, new, transactions)
    BY <2>2, <2>3, SameMatches
  <2>. QED
    BY <2>1, <2>4, LendingRowLent
<1>2. ASSUME NEW l \in Lendings, NEW type \in {"lend_out", "borrow_in"},
             NEW amount \in Amounts, CreateLending(l, type, amount)
      PROVE  Lent(Now')
  <2>1. \A t \in TxIds : ~OfLending(transactions[t], l)
    BY <1>2, UnnamedLending DEF CreateLending
  <2>2. Matches(l, NewLending(type, amount), transactions)
    BY <1>0, <2>1, NewLendingMatches
  <2>. QED
    BY <1>2, <2>2, LendingRowLent DEF CreateLending
<1>3. ASSUME NEW l \in Lendings, NEW type \in {"lend_out", "borrow_in"},
             NEW amount \in Amounts, NEW t \in TxIds, NEW a \in Accounts,
             CreateLendingWithTransaction(l, type, amount, t, a)
      PROVE  Lent(Now')
  <2> DEFINE kind == IF type = "lend_out" THEN "expense" ELSE "income"
             x == LendingTransaction(l, kind, a, amount)
  <2>1. /\ FreshTx(t)
        /\ transactions' = [transactions EXCEPT ![t] = x]
        /\ lendings' = [lendings EXCEPT ![l] = NewLending(type, amount)]
    BY <1>3 DEF CreateLendingWithTransaction, PostManaged
  <2>2. kind \in {"income", "expense"} /\ amount \in Nat
    BY <1>0
  <2> HIDE DEF kind
  <2>3. Live(x) /\ x.link = l /\ x.type = kind
    BY <2>2, LendingTransactionRow DEF Live
  <2> HIDE DEF x
  <2>4. transactions[t].source # "lending"
    BY <2>1, FreshRow DEF NoTransaction
  <2>5. \A u \in TxIds : ~OfLending(transactions[u], l)
    BY <1>3, UnnamedLending DEF CreateLendingWithTransaction
  <2>6. \A u \in TxIds : OfLending(transactions'[u], l) =>
          Live(transactions'[u]) /\ transactions'[u].type = kind
    BY <1>0, <2>1, <2>3, <2>5
  <2>7. Matches(l, NewLending(type, amount), transactions')
    BY <2>2, <2>6, NewLendingMatches DEF kind
  <2>. QED
    BY <2>1, <2>3, <2>4, <2>7, ManagedLent
<1>4. ASSUME NEW l \in Lendings, NEW amount \in Amounts,
             RecordRepayment(l, amount)
      PROVE  Lent(Now')
  <2> DEFINE row == lendings[l]
             new == Repaid(row, amount, None)
  <2>1. /\ lendings' = [lendings EXCEPT ![l] = new]
        /\ UNCHANGED transactions
        /\ Repayable(l, amount) /\ amount <= row.balance
    BY <1>4 DEF RecordRepayment, Repayable
  <2>2. row \in Lending /\ new \in Lending /\ amount \in Nat
    BY <1>0, <2>1, RepaidType
  <2>3. Matches(l, row, transactions)
    BY <1>0
  <2> HIDE DEF row
  <2>4. Matches(l, new, transactions)
    BY <2>1, <2>2, <2>3, RepaidMatches
  <2> HIDE DEF new
  <2>. QED
    BY <2>1, <2>4, LendingRowLent
<1>5. ASSUME NEW l \in Lendings, NEW amount \in Amounts, NEW t \in TxIds,
             NEW a \in Accounts, RecordRepaymentWithTransaction(l, amount, t, a)
      PROVE  Lent(Now')
  <2> DEFINE row == lendings[l]
             kind == IF row.type = "lend_out" THEN "income" ELSE "expense"
             x == LendingTransaction(l, kind, a, amount)
             new == Repaid(row, amount, t)
  <2>1. /\ FreshTx(t)
        /\ transactions' = [transactions EXCEPT ![t] = x]
        /\ lendings' = [lendings EXCEPT ![l] = new]
        /\ Repayable(l, amount) /\ amount <= row.balance
    BY <1>5 DEF RecordRepaymentWithTransaction, PostManaged, Repayable
  <2>2. row \in Lending /\ new \in Lending /\ amount \in Nat
    BY <1>0, <2>1, RepaidType
  <2>3. Matches(l, row, transactions)
    BY <1>0
  <2>4. kind \in {"income", "expense"}
    OBVIOUS
  <2> HIDE DEF kind, row
  <2>5. /\ Live(x) /\ x.link = l /\ x.type = kind /\ x.amount = amount
        /\ x.source = "lending"
    BY <2>2, <2>4, LendingTransactionRow DEF Live
  <2> HIDE DEF x
  <2>6. IsRepayment(row, x) /\ OfLending(x, l)
    <3>1. row.type \in {"lend_out", "borrow_in"}
      BY <2>2 DEF Lending
    <3>. QED
      BY <2>5, <3>1 DEF IsRepayment, OfLending, kind
  <2>7. transactions[t].source # "lending"
    BY <2>1, FreshRow DEF NoTransaction
  <2>8. ~OfLending(transactions[t], l)
    BY <2>7 DEF OfLending
  <2>9. Matches(l, new, transactions')
    <3> DEFINE after == transactions'
    <3>1. after = [transactions EXCEPT ![t] = x]
      BY <2>1
    <3>2. new = Repaid(row, amount, t) /\ amount <= row.balance
      BY <2>1
    <3> HIDE DEF after, new
    <3>3. Matches(l, new, after)
      BY <1>0, <2>2, <2>3, <2>5, <2>6, <2>8, <3>1, <3>2, RepaidWithMatches
    <3>. QED
      BY <3>3 DEF after
  <2> HIDE DEF new
  <2>. QED
    BY <2>1, <2>5, <2>7, <2>9, ManagedLent
<1>. QED
  BY <1>1, <1>2, <1>3, <1>4, <1>5 DEF LendingNext

LEMMA NextLent ==
  ASSUME Inv, Rooted(Now), Lent(Now), [Next]_vars
  PROVE  Lent(Now')
<1>0. /\ Now.lendings = lendings /\ Now.transactions = transactions
      /\ Now'.lendings = lendings' /\ Now'.transactions = transactions'
  BY DEF Now
<1>1. ASSUME UNCHANGED <<lendings, transactions>>
      PROVE  Lent(Now')
  BY <1>0, <1>1 DEF Lent
<1>2. CASE UNCHANGED vars
  BY <1>1, <1>2 DEF vars
<1>3. ASSUME NEW a \in Accounts, NEW opening \in OpeningBalances,
             CreateAccount(a, opening)
      PROVE  Lent(Now')
  <2>1. CASE UNCHANGED transactions
    BY <1>1, <1>3, <2>1 DEF CreateAccount
  <2>2. ASSUME NEW t \in TxIds, FreshTx(t),
               transactions' = [transactions EXCEPT
                 ![t] = OpeningTransaction(a, opening)]
        PROVE  Lent(Now')
    <3>1. OpeningTransaction(a, opening).source = "system"
      BY DEF OpeningTransaction, NoTransaction
    <3>2. transactions[t].source = "manual"
      BY <2>2, FreshRow DEF NoTransaction
    <3>3. UNCHANGED lendings
      BY <1>3 DEF CreateAccount
    <3>. QED
      BY <2>2, <3>1, <3>2, <3>3, StoredLent
  <2>. QED
    BY <1>3, <2>1, <2>2 DEF CreateAccount
<1>4. CASE AccountNext
  BY <1>1, <1>3, <1>4 DEF AccountNext, ArchiveAccount, DeleteAccount
<1>5. CASE EntryNext
  <2>1. PICK t \in TxIds, x \in Requests :
          CreateTransaction(t, x) \/ UpdateTransaction(t, x)
    BY <1>5 DEF EntryNext
  <2>2. x.source = "manual"
    BY DEF Requests
  <2>3. transactions[t].source = "manual"
    BY <2>1, FreshRow
    DEF CreateTransaction, UpdateTransaction, NoTransaction
  <2>4. /\ UNCHANGED lendings
        /\ transactions' = [transactions EXCEPT ![t] = x]
    BY <2>1 DEF CreateTransaction, UpdateTransaction
  <2>. QED
    BY <2>2, <2>3, <2>4, StoredLent
<1>6. ASSUME NEW r \in Reminders, NEW source \in Accounts,
             NEW amount \in Amounts, NEW principal \in 0..amount,
             NEW t \in TxIds, RecordPaymentFrom(r, source, amount, principal, t)
      PROVE  Lent(Now')
  <2> DEFINE x == PaymentTransaction(r, source, amount, principal)
  <2>1. /\ FreshTx(t) /\ UNCHANGED lendings
        /\ transactions' = [transactions EXCEPT ![t] = x]
    BY <1>6 DEF RecordPaymentFrom
  <2>2. x.source = "reminder"
    BY DEF PaymentTransaction, NoTransaction
  <2>3. transactions[t].source = "manual"
    BY <2>1, FreshRow DEF NoTransaction
  <2> HIDE DEF x
  <2>. QED
    BY <2>1, <2>2, <2>3, StoredLent
<1>7. CASE ReminderNext
  BY <1>1, <1>6, <1>7
  DEF ReminderNext, DeleteReminder, CreateReminder, UpdateReminder,
      RecordPayment
<1>. QED
  BY <1>2, <1>4, <1>5, <1>7, DeletionLent, LendingNextLent DEF Next

LEMMA InitLent ==
  ASSUME Init
  PROVE  Lent(Now)
<1>1. /\ Now.lendings = [l \in Lendings |-> NoLending]
      /\ Now.transactions = [t \in TxIds |-> NoTransaction]
  BY DEF Init, Now
<1>2. ASSUME NEW l \in Lendings
      PROVE  Matches(l, NoLending, Now.transactions)
  <2>1. \A t \in TxIds : ~OfLending(Now.transactions[t], l)
    BY <1>1 DEF OfLending, NoTransaction
  <2>2. Matches(l, NewLending("lend_out", 0), Now.transactions)
    BY <2>1, NewLendingMatches
  <2> DEFINE row == NewLending("lend_out", 0)
  <2>3. /\ NoLending.type = row.type /\ NoLending.principal = row.principal
        /\ NoLending.balance = row.balance /\ NoLending.repaid = row.repaid
        /\ NoLending.settled = row.settled /\ NoLending.records = row.records
    BY DEF NewLending, NoLending
  <2> HIDE DEF row
  <2>4. Matches(l, row, Now.transactions)
    BY <2>2 DEF row
  <2>. QED
    BY <2>3, <2>4, SameMatches
<1>. QED
  BY <1>1, <1>2 DEF Lent

LEMMA AlwaysLent ==
  Spec => [](Inv /\ Rooted(Now) /\ Lent(Now))
<1>1. Init => Inv /\ Rooted(Now) /\ Lent(Now)
  BY InitInv, InitRooted, InitLent
<1>2. Inv /\ Rooted(Now) /\ Lent(Now) /\ [Next]_vars
        => (Inv /\ Rooted(Now) /\ Lent(Now))'
  BY NextInv, NextRooted, NextLent
<1>. QED
  BY <1>1, <1>2, PTL DEF Spec

LEMMA LentMeans ==
  Lent(Now) => RepaidIsSumOfRecords /\ LendingAddsUp
BY DEF Lent, Matches, Now, RepaidIsSumOfRecords, LendingAddsUp

\* total_repaid is always the sum of the records that are left, and those tied
\* to a transaction stand one for one for the live repayments, whichever are
\* recorded and deleted, alone or in a batch (lending.go,
\* revertLendingTransactionTx).
THEOREM RepaidIsAlwaysSumOfRecords ==
  Spec => []RepaidIsSumOfRecords
BY AlwaysLent, LentMeans, PTL

\* What is owed and what was repaid always add up to the principal until the
\* origin is deleted and never exceed it afterwards, neither is ever negative,
\* and a settled lending has nothing left to repay.
THEOREM LendingAlwaysAddsUp ==
  Spec => []LendingAddsUp
BY AlwaysLent, LentMeans, PTL

-----------------------------------------------------------------------------
(***************************************************************************)
(* A reminder against its payments.                                        *)
(***************************************************************************)
OfReminder(x, r) == Live(x) /\ x.source = "reminder" /\ x.link = r

Paying(rows) == [t \in TxIds |-> rows[t].amount]
Interest(rows) == [t \in TxIds |-> rows[t].interest]
TotalOf(r, rows) == SumFunctionOnSet(Paying(rows), PaymentsOf(r, rows))
InterestOf(r, rows) == SumFunctionOnSet(Interest(rows), PaymentsOf(r, rows))

LEMMA PaymentsTyped ==
  ASSUME NEW rows \in [TxIds -> Transaction], NEW r
  PROVE  /\ \A t \in TxIds : /\ Paying(rows)[t] = rows[t].amount
                             /\ Interest(rows)[t] = rows[t].interest
                             /\ rows[t].amount \in Nat
                             /\ rows[t].interest \in Nat
         /\ PaymentsOf(r, rows) = {t \in TxIds : OfReminder(rows[t], r)}
         /\ \A row : CoversPayments(r, row, rows) <=>
              /\ row.totalPaid >= TotalOf(r, rows)
              /\ row.interestPaid >= InterestOf(r, rows)
<1>1. \A t \in TxIds : /\ Paying(rows)[t] = rows[t].amount
                       /\ Interest(rows)[t] = rows[t].interest
                       /\ rows[t].amount \in Nat
                       /\ rows[t].interest \in Nat
  BY DEF Paying, Interest, Transaction
<1>2. PaymentsOf(r, rows) = {t \in TxIds : OfReminder(rows[t], r)}
  BY DEF PaymentsOf, OfReminder
<1>3. \A row : CoversPayments(r, row, rows) <=>
        /\ row.totalPaid >= TotalOf(r, rows)
        /\ row.interestPaid >= InterestOf(r, rows)
  BY DEF CoversPayments, Paying, Interest, TotalOf, InterestOf
<1>. QED
  BY <1>1, <1>2, <1>3

\* Sums over ids when the term of one of them changes.
DifferAt(f, g, t) ==
  /\ \A u \in TxIds : f[u] \in Int /\ g[u] \in Int
  /\ \A u \in TxIds : u # t => f[u] = g[u]

SumsFollow(f, g, t, S) ==
  /\ SumFunctionOnSet(f, S) \in Int
  /\ t \notin S => /\ SumFunctionOnSet(g, S) = SumFunctionOnSet(f, S)
                   /\ SumFunctionOnSet(g, S \cup {t})
                        = g[t] + SumFunctionOnSet(f, S)
  /\ t \in S => SumFunctionOnSet(f, S)
                  = f[t] + SumFunctionOnSet(g, S \ {t})

LEMMA SumsAfter ==
  ASSUME NEW S \in SUBSET TxIds, NEW f, NEW g, NEW t \in TxIds,
         DifferAt(f, g, t)
  PROVE  SumsFollow(f, g, t, S)
<1>0. /\ \A u \in TxIds : f[u] \in Int /\ g[u] \in Int
      /\ \A u \in TxIds : u # t => f[u] = g[u]
  BY DEF DifferAt
<1>1. IsFiniteSet(S) /\ IsFiniteSet(S \ {t})
  <2>1. IsFiniteSet(TxIds)
    BY LedgerAssumption
  <2>. QED
    BY <2>1, FS_Subset
<1>2. SumFunctionOnSet(f, S) \in Int
  BY <1>0, <1>1, SumInt
<1>3. ASSUME t \notin S
      PROVE  /\ SumFunctionOnSet(g, S) = SumFunctionOnSet(f, S)
             /\ SumFunctionOnSet(g, S \cup {t})
                  = g[t] + SumFunctionOnSet(f, S)
  <2>1. \A u \in S : f[u] \in Int /\ f[u] = g[u]
    BY <1>0, <1>3
  <2>2. SumFunctionOnSet(f, S) = SumFunctionOnSet(g, S)
    BY <1>1, <2>1, SumEqual
  <2>3. SumFunctionOnSet(g, S \cup {t}) = g[t] + SumFunctionOnSet(g, S)
    BY <1>0, <1>1, <1>3, SumPutIn
  <2>. QED
    BY <2>2, <2>3
<1>4. ASSUME t \in S
      PROVE  SumFunctionOnSet(f, S) = f[t] + SumFunctionOnSet(g, S \ {t})
  <2>1. \A u \in S \ {t} : f[u] \in Int /\ f[u] = g[u]
    BY <1>0
  <2>2. SumFunctionOnSet(f, S \ {t}) = SumFunctionOnSet(g, S \ {t})
    BY <1>1, <2>1, SumEqual
  <2>3. SumFunctionOnSet(f, S) = f[t] + SumFunctionOnSet(f, S \ {t})
    BY <1>0, <1>1, <1>4, SumTakeOut
  <2>. QED
    BY <2>2, <2>3
<1>. QED
  BY <1>2, <1>3, <1>4 DEF SumsFollow

\* What storing another transaction as t does to the payments of r.
LEMMA PaymentsAfter ==
  ASSUME NEW r, NEW rows \in [TxIds -> Transaction], NEW t \in TxIds,
         NEW new \in [TxIds -> Transaction],
         \A u \in TxIds : u # t => new[u] = rows[u]
  PROVE  /\ TotalOf(r, rows) \in Int /\ InterestOf(r, rows) \in Int
         /\ ~OfReminder(rows[t], r) /\ ~OfReminder(new[t], r) =>
              /\ TotalOf(r, new) = TotalOf(r, rows)
              /\ InterestOf(r, new) = InterestOf(r, rows)
         /\ ~OfReminder(rows[t], r) /\ OfReminder(new[t], r) =>
              /\ TotalOf(r, new) = new[t].amount + TotalOf(r, rows)
              /\ InterestOf(r, new) = new[t].interest + InterestOf(r, rows)
         /\ OfReminder(rows[t], r) /\ ~OfReminder(new[t], r) =>
              /\ TotalOf(r, rows) = rows[t].amount + TotalOf(r, new)
              /\ InterestOf(r, rows) = rows[t].interest + InterestOf(r, new)
<1> DEFINE S == PaymentsOf(r, rows)
           T == PaymentsOf(r, new)
           f == Paying(rows)
           g == Paying(new)
           p == Interest(rows)
           q == Interest(new)
<1>1. /\ \A u \in TxIds : /\ f[u] = rows[u].amount /\ f[u] \in Int
                          /\ p[u] = rows[u].interest /\ p[u] \in Int
      /\ S = {u \in TxIds : OfReminder(rows[u], r)}
  BY PaymentsTyped
<1>2. /\ \A u \in TxIds : /\ g[u] = new[u].amount /\ g[u] \in Int
                          /\ q[u] = new[u].interest /\ q[u] \in Int
      /\ T = {u \in TxIds : OfReminder(new[u], r)}
  BY PaymentsTyped
<1> HIDE DEF S, T, f, g, p, q
<1>3. DifferAt(f, g, t) /\ DifferAt(p, q, t) /\ S \in SUBSET TxIds
  BY <1>1, <1>2 DEF DifferAt
<1>4. SumsFollow(f, g, t, S) /\ SumsFollow(p, q, t, S)
  BY <1>3, SumsAfter
<1>5. /\ ~OfReminder(rows[t], r) /\ ~OfReminder(new[t], r) =>
           t \notin S /\ T = S
      /\ ~OfReminder(rows[t], r) /\ OfReminder(new[t], r) =>
           t \notin S /\ T = S \cup {t}
      /\ OfReminder(rows[t], r) /\ ~OfReminder(new[t], r) =>
           t \in S /\ T = S \ {t}
  BY <1>1, <1>2
<1>6. /\ f[t] = rows[t].amount /\ g[t] = new[t].amount
      /\ p[t] = rows[t].interest /\ q[t] = new[t].interest
  BY <1>1, <1>2
<1>7. /\ SumFunctionOnSet(f, S) \in Int /\ SumFunctionOnSet(p, S) \in Int
      /\ ~OfReminder(rows[t], r) /\ ~OfReminder(new[t], r) =>
           /\ SumFunctionOnSet(g, T) = SumFunctionOnSet(f, S)
           /\ SumFunctionOnSet(q, T) = SumFunctionOnSet(p, S)
      /\ ~OfReminder(rows[t], r) /\ OfReminder(new[t], r) =>
           /\ SumFunctionOnSet(g, T) = new[t].amount + SumFunctionOnSet(f, S)
           /\ SumFunctionOnSet(q, T)
                = new[t].interest + SumFunctionOnSet(p, S)
      /\ OfReminder(rows[t], r) /\ ~OfReminder(new[t], r) =>
           /\ SumFunctionOnSet(f, S)
                = rows[t].amount + SumFunctionOnSet(g, T)
           /\ SumFunctionOnSet(p, S)
                = rows[t].interest + SumFunctionOnSet(q, T)
  BY <1>4, <1>5, <1>6 DEF SumsFollow
<1>. QED
  BY <1>7 DEF S, T, f, g, p, q, TotalOf, InterestOf

\* The totals of a reminder are moved at least as far as its payments.
LEMMA CoversAfter ==
  ASSUME NEW r, NEW rows \in [TxIds -> Transaction], NEW t \in TxIds,
         NEW new \in [TxIds -> Transaction], NEW row \in Reminder,
         NEW after \in Reminder, CoversPayments(r, row, rows),
         \A u \in TxIds : u # t => new[u] = rows[u],
         \/ /\ ~OfReminder(rows[t], r) /\ ~OfReminder(new[t], r)
            /\ after.totalPaid >= row.totalPaid
            /\ after.interestPaid >= row.interestPaid
         \/ /\ ~OfReminder(rows[t], r) /\ OfReminder(new[t], r)
            /\ after.totalPaid >= row.totalPaid + new[t].amount
            /\ after.interestPaid >= row.interestPaid + new[t].interest
         \/ /\ OfReminder(rows[t], r) /\ ~OfReminder(new[t], r)
            /\ after.totalPaid >= row.totalPaid - rows[t].amount
            /\ after.interestPaid >= row.interestPaid - rows[t].interest
  PROVE  CoversPayments(r, after, new)
<1>1. /\ row.totalPaid \in Int /\ row.interestPaid \in Int
      /\ after.totalPaid \in Int /\ after.interestPaid \in Int
      /\ rows[t].amount \in Int /\ rows[t].interest \in Int
      /\ new[t].amount \in Int /\ new[t].interest \in Int
  BY DEF Reminder, Transaction
<1>2. row.totalPaid >= TotalOf(r, rows) /\ row.interestPaid >= InterestOf(r, rows)
  BY PaymentsTyped
<1>3. /\ TotalOf(r, rows) \in Int /\ InterestOf(r, rows) \in Int
      /\ TotalOf(r, new) \in Int /\ InterestOf(r, new) \in Int
  BY PaymentsAfter
<1>4. /\ after.totalPaid >= TotalOf(r, new)
      /\ after.interestPaid >= InterestOf(r, new)
  <2>1. CASE ~OfReminder(rows[t], r) /\ ~OfReminder(new[t], r)
    <3>1. /\ TotalOf(r, new) = TotalOf(r, rows)
          /\ InterestOf(r, new) = InterestOf(r, rows)
      BY <2>1, PaymentsAfter
    <3>. QED
      BY <1>1, <1>2, <1>3, <2>1, <3>1
  <2>2. CASE ~OfReminder(rows[t], r) /\ OfReminder(new[t], r)
    <3>1. /\ TotalOf(r, new) = new[t].amount + TotalOf(r, rows)
          /\ InterestOf(r, new) = new[t].interest + InterestOf(r, rows)
      BY <2>2, PaymentsAfter
    <3>. QED
      BY <1>1, <1>2, <1>3, <2>2, <3>1
  <2>3. CASE OfReminder(rows[t], r) /\ ~OfReminder(new[t], r)
    <3>1. /\ TotalOf(r, rows) = rows[t].amount + TotalOf(r, new)
          /\ InterestOf(r, rows) = rows[t].interest + InterestOf(r, new)
      BY <2>3, PaymentsAfter
    <3>. QED
      BY <1>1, <1>2, <1>3, <2>3, <3>1
  <2>. QED
    BY <2>1, <2>2, <2>3
<1>. QED
  BY <1>4, PaymentsTyped

LEMMA TotalsInt ==
  ASSUME NEW r, NEW rows \in [TxIds -> Transaction]
  PROVE  TotalOf(r, rows) \in Int /\ InterestOf(r, rows) \in Int
<1>1. IsFiniteSet(PaymentsOf(r, rows)) /\ PaymentsOf(r, rows) \subseteq TxIds
  BY LedgerAssumption, FS_Subset DEF PaymentsOf
<1>2. \A t \in PaymentsOf(r, rows) :
        Paying(rows)[t] \in Int /\ Interest(rows)[t] \in Int
  BY <1>1, PaymentsTyped
<1>. QED
  BY <1>1, <1>2, SumInt DEF TotalOf, InterestOf

\* The floor at zero is no more than what is taken off.
LEMMA ReminderRevertedNumbers ==
  ASSUME NEW row \in Reminder, NEW x \in Transaction,
         x.interest = x.amount - x.principal
  PROVE  /\ ReminderReverted(row, x).totalPaid >= row.totalPaid - x.amount
         /\ ReminderReverted(row, x).interestPaid
              >= row.interestPaid - x.interest
<1>1. /\ row.totalPaid \in Int /\ row.interestPaid \in Int
      /\ x.amount \in Int /\ x.interest \in Int /\ x.principal \in Int
  BY DEF Reminder, Transaction
<1>2. RevertedInterest(x) = x.interest
  BY <1>1 DEF RevertedInterest, RevertedPrincipal
<1>3. /\ ReminderReverted(row, x).totalPaid
           = AtLeastZero(row.totalPaid - x.amount)
      /\ ReminderReverted(row, x).interestPaid
           = AtLeastZero(row.interestPaid - RevertedInterest(x))
  BY DEF ReminderReverted, Reminder
<1>4. \A n \in Int : AtLeastZero(n) >= n
  BY DEF AtLeastZero
<1>. QED
  BY <1>1, <1>2, <1>3, <1>4

LEMMA ReminderPaidNumbers ==
  ASSUME NEW row \in Reminder, NEW amount \in Nat, NEW principal \in 0..amount
  PROVE  /\ ReminderPaid(row, amount, principal).totalPaid
              = row.totalPaid + amount
         /\ ReminderPaid(row, amount, principal).interestPaid
              = row.interestPaid + (amount - principal)
BY DEF ReminderPaid, Reminder

\* The totals of every reminder cover its payments.
Covers(s) ==
  \A r \in Reminders : CoversPayments(r, s.reminders[r], s.transactions)

LEMMA DeletedCovers ==
  ASSUME NEW s, NEW t \in TxIds, Sound(s), Rooted(s), Covers(s),
         Deletable(s, t)
  PROVE  Covers(Deleted(s, t))
<1> DEFINE x == s.transactions[t]
           d == Deleted(s, t)
           gone == [x EXCEPT !.status = "deleted"]
<1>1. /\ s.transactions \in [TxIds -> Transaction]
      /\ s.reminders \in [Reminders -> Reminder]
      /\ x \in Transaction /\ Live(x)
  BY DEF Sound, Deletable
<1>2. /\ d.transactions = [s.transactions EXCEPT ![t] = gone]
      /\ d.reminders = [r \in Reminders |->
           IF x.source = "reminder" /\ r = x.link
           THEN ReminderReverted(s.reminders[r], x) ELSE s.reminders[r]]
  BY DEF Deleted
<1>3. /\ d.transactions \in [TxIds -> Transaction]
      /\ d.reminders \in [Reminders -> Reminder]
  BY DeletedSound DEF Sound
<1>4. ~Live(gone)
  BY <1>1 DEF Live, Transaction
<1>5. x.source = "reminder" => x.interest = x.amount - x.principal
  <2>1. TransactionRooted(x, s)
    BY DEF Rooted
  <2>. QED
    BY <2>1 DEF TransactionRooted, NoTransaction
<1> SUFFICES ASSUME NEW r \in Reminders
             PROVE  CoversPayments(r, d.reminders[r], d.transactions)
  BY DEF Covers
<1> DEFINE row == s.reminders[r]
           after == d.reminders[r]
           rows == s.transactions
           new == d.transactions
<1>6. /\ row \in Reminder /\ after \in Reminder
      /\ CoversPayments(r, row, rows)
      /\ rows \in [TxIds -> Transaction] /\ new \in [TxIds -> Transaction]
  BY <1>1, <1>3 DEF Covers
<1>7. /\ \A u \in TxIds : u # t => new[u] = rows[u]
      /\ new[t] = gone /\ rows[t] = x
  BY <1>1, <1>2
<1>8. ~OfReminder(new[t], r)
  BY <1>4, <1>7 DEF OfReminder
<1>9. IF OfReminder(x, r) THEN after = ReminderReverted(row, x)
                          ELSE after = row
  BY <1>1, <1>2 DEF OfReminder
<1> HIDE DEF x, d, gone, row, after, rows, new
<1>10. CASE OfReminder(x, r)
  <2>1. x.interest = x.amount - x.principal
    BY <1>5, <1>10 DEF OfReminder
  <2>2. /\ after.totalPaid >= row.totalPaid - x.amount
        /\ after.interestPaid >= row.interestPaid - x.interest
    BY <1>1, <1>6, <1>9, <1>10, <2>1, ReminderRevertedNumbers
  <2>3. CoversPayments(r, after, new)
    BY <1>6, <1>7, <1>8, <1>10, <2>2, CoversAfter
  <2>. QED
    BY <2>3 DEF after, new
<1>11. CASE ~OfReminder(x, r)
  <2>1. /\ after.totalPaid >= row.totalPaid
        /\ after.interestPaid >= row.interestPaid
    BY <1>6, <1>9, <1>11 DEF Reminder
  <2>2. CoversPayments(r, after, new)
    BY <1>6, <1>7, <1>8, <1>11, <2>1, CoversAfter
  <2>. QED
    BY <2>2 DEF after, new
<1>. QED
  BY <1>10, <1>11

LEMMA DeletionCovers ==
  ASSUME Inv, Rooted(Now), Covers(Now), DeletionNext
  PROVE  Covers(Now')
<1>1. ASSUME NEW t \in TxIds, DeleteTransaction(t)
      PROVE  Covers(Now')
  <2>1. Deletable(Now, t) /\ Now' = Deleted(Now, t)
    BY <1>1, CommitDeleted DEF DeleteTransaction
  <2>. QED
    BY <2>1, DeletedCovers DEF Inv
<1>2. ASSUME NEW t \in TxIds, NEW u \in TxIds, DeleteBatch(t, u)
      PROVE  Covers(Now')
  <2> DEFINE s == Deleted(Now, t)
  <2>1. Deletable(Now, t) /\ Deletable(s, u) /\ Now' = Deleted(s, u)
    BY <1>2, CommitDeleted DEF DeleteBatch
  <2>2. Sound(s) /\ Rooted(s) /\ Covers(s)
    BY <2>1, DeletedSound, DeletedRooted, DeletedCovers DEF Inv
  <2> HIDE DEF s
  <2>3. Covers(Deleted(s, u))
    BY <2>1, <2>2, DeletedCovers
  <2>. QED
    BY <2>1, <2>3
<1>. QED
  BY <1>1, <1>2 DEF DeletionNext

\* A transaction of no reminder is stored.
LEMMA StoredCovers ==
  ASSUME Inv, Covers(Now), Inv', NEW t \in TxIds, NEW x,
         UNCHANGED reminders, transactions' = [transactions EXCEPT ![t] = x],
         transactions[t].source # "reminder", x.source # "reminder"
  PROVE  Covers(Now')
<1>1. /\ Now.reminders = reminders /\ Now.transactions = transactions
      /\ Now'.reminders = reminders' /\ Now'.transactions = transactions'
  BY DEF Now
<1>2. /\ transactions \in [TxIds -> Transaction]
      /\ transactions' \in [TxIds -> Transaction]
      /\ reminders \in [Reminders -> Reminder]
  BY DEF Inv, Sound, Now
<1>3. /\ \A u \in TxIds : u # t => transactions'[u] = transactions[u]
      /\ transactions'[t] = x
  BY <1>2
<1> SUFFICES ASSUME NEW r \in Reminders
             PROVE  CoversPayments(r, reminders[r], transactions')
  BY <1>1 DEF Covers
<1> DEFINE row == reminders[r]
           rows == transactions
           new == transactions'
<1>4. ~OfReminder(rows[t], r) /\ ~OfReminder(new[t], r)
  BY <1>3 DEF OfReminder
<1>5. row \in Reminder /\ CoversPayments(r, row, rows)
  BY <1>1, <1>2 DEF Covers
<1>6. row.totalPaid >= row.totalPaid /\ row.interestPaid >= row.interestPaid
  BY <1>5 DEF Reminder
<1>7. /\ rows \in [TxIds -> Transaction] /\ new \in [TxIds -> Transaction]
      /\ \A u \in TxIds : u # t => new[u] = rows[u]
  BY <1>2, <1>3
<1> HIDE DEF row, rows, new
<1>8. CoversPayments(r, row, new)
  BY <1>4, <1>5, <1>6, <1>7, CoversAfter
<1>. QED
  BY <1>8 DEF row, new

\* Only the row of one reminder changes, its totals no less than before.
LEMMA ReminderRowCovers ==
  ASSUME Inv, Covers(Now), Inv', NEW r \in Reminders, NEW new,
         reminders' = [reminders EXCEPT ![r] = new], UNCHANGED transactions,
         new.totalPaid >= reminders[r].totalPaid,
         new.interestPaid >= reminders[r].interestPaid
  PROVE  Covers(Now')
<1>1. /\ Now.reminders = reminders /\ Now.transactions = transactions
      /\ Now'.reminders = reminders' /\ Now'.transactions = transactions'
  BY DEF Now
<1>2. /\ transactions \in [TxIds -> Transaction]
      /\ reminders \in [Reminders -> Reminder]
      /\ reminders' \in [Reminders -> Reminder]
  BY DEF Inv, Sound, Now
<1>3. new \in Reminder /\ reminders'[r] = new
  BY <1>2
<1>4. CoversPayments(r, new, transactions)
  <2>1. /\ reminders[r].totalPaid >= TotalOf(r, transactions)
        /\ reminders[r].interestPaid >= InterestOf(r, transactions)
    BY <1>1, <1>2, PaymentsTyped DEF Covers
  <2>2. /\ reminders[r].totalPaid \in Int /\ new.totalPaid \in Int
        /\ reminders[r].interestPaid \in Int /\ new.interestPaid \in Int
    BY <1>2, <1>3 DEF Reminder
  <2>3. TotalOf(r, transactions) \in Int /\ InterestOf(r, transactions) \in Int
    BY <1>2, TotalsInt
  <2>4. /\ new.totalPaid >= TotalOf(r, transactions)
        /\ new.interestPaid >= InterestOf(r, transactions)
    BY <2>1, <2>2, <2>3
  <2>. QED
    BY <1>2, <2>4, PaymentsTyped
<1>5. \A k \in Reminders : k # r => reminders'[k] = reminders[k]
  BY <1>2
<1>. QED
  BY <1>1, <1>3, <1>4, <1>5 DEF Covers

LEMMA ReminderNextCovers ==
  ASSUME Inv, Rooted(Now), Covers(Now), Inv', ReminderNext
  PROVE  Covers(Now')
<1>0. /\ reminders \in [Reminders -> Reminder]
      /\ transactions \in [TxIds -> Transaction]
      /\ transactions' \in [TxIds -> Transaction]
      /\ reminders' \in [Reminders -> Reminder]
      /\ Now.reminders = reminders /\ Now.transactions = transactions
      /\ Now'.reminders = reminders' /\ Now'.transactions = transactions'
      /\ Amounts \subseteq Nat
  BY LedgerAssumption DEF Inv, Sound, Now
<1>1. ASSUME NEW r \in Reminders, DeleteReminder(r)
      PROVE  Covers(Now')
  <2> DEFINE row == reminders[r]
             new == [row EXCEPT !.status = "deleted"]
  <2>1. /\ reminders' = [reminders EXCEPT ![r] = new]
        /\ UNCHANGED transactions
    BY <1>1 DEF DeleteReminder
  <2>2. new.totalPaid >= row.totalPaid /\ new.interestPaid >= row.interestPaid
    BY <1>0 DEF Reminder
  <2>. QED
    BY <2>1, <2>2, ReminderRowCovers
<1>2. ASSUME NEW r \in Reminders, NEW a, NEW requested,
             CreateReminder(r, a, requested)
      PROVE  Covers(Now')
  <2> DEFINE new == [NoReminder EXCEPT !.status = "live", !.account = a,
                       !.balance = LinkedBalance(a, requested)]
  <2>1. /\ reminders' = [reminders EXCEPT ![r] = new]
        /\ UNCHANGED transactions
        /\ reminders[r].status = "absent"
    BY <1>2 DEF CreateReminder
  <2>2. reminders[r] = NoReminder
    BY <1>0, <2>1 DEF Rooted, ReminderRooted, Drawn
  <2>3. /\ new.totalPaid >= reminders[r].totalPaid
        /\ new.interestPaid >= reminders[r].interestPaid
    BY <2>2 DEF NoReminder
  <2>. QED
    BY <2>1, <2>3, ReminderRowCovers
<1>3. ASSUME NEW r \in Reminders, NEW a, NEW requested,
             UpdateReminder(r, a, requested)
      PROVE  Covers(Now')
  <2> DEFINE row == reminders[r]
             new == [row EXCEPT !.account = a,
                                !.balance = LinkedBalance(a, requested)]
  <2>1. /\ reminders' = [reminders EXCEPT ![r] = new]
        /\ UNCHANGED transactions
    BY <1>0, <1>3 DEF UpdateReminder
  <2>2. new.totalPaid >= row.totalPaid /\ new.interestPaid >= row.interestPaid
    BY <1>0 DEF Reminder
  <2>. QED
    BY <2>1, <2>2, ReminderRowCovers
<1>4. ASSUME NEW r \in Reminders, NEW amount \in Amounts,
             NEW principal \in 0..amount, RecordPayment(r, amount, principal)
      PROVE  Covers(Now')
  <2> DEFINE row == reminders[r]
             new == ReminderPaid(row, amount, principal)
  <2>1. /\ reminders' = [reminders EXCEPT ![r] = new]
        /\ UNCHANGED transactions
    BY <1>4 DEF RecordPayment
  <2>2. amount \in Nat /\ row \in Reminder
    BY <1>0
  <2>3. /\ new.totalPaid = row.totalPaid + amount
        /\ new.interestPaid = row.interestPaid + (amount - principal)
    BY <2>2, ReminderPaidNumbers
  <2>4. row.totalPaid \in Int /\ row.interestPaid \in Int
    BY <2>2 DEF Reminder
  <2> HIDE DEF new
  <2>5. new.totalPaid >= row.totalPaid /\ new.interestPaid >= row.interestPaid
    BY <2>2, <2>3, <2>4
  <2>. QED
    BY <2>1, <2>5, ReminderRowCovers
<1>5. ASSUME NEW r \in Reminders, NEW source \in Accounts,
             NEW amount \in Amounts, NEW principal \in 0..amount,
             NEW t \in TxIds, RecordPaymentFrom(r, source, amount, principal, t)
      PROVE  Covers(Now')
  <2> DEFINE x == PaymentTransaction(r, source, amount, principal)
             paid == ReminderPaid(reminders[r], amount, principal)
  <2>1. /\ FreshTx(t)
        /\ transactions' = [transactions EXCEPT ![t] = x]
        /\ reminders' = [reminders EXCEPT ![r] = paid]
    BY <1>5 DEF RecordPaymentFrom
  <2>2. amount \in Nat
    BY <1>0
  <2>3. /\ OfReminder(x, r) /\ x.link = r
        /\ x.amount = amount /\ x.interest = amount - principal
    BY <2>2, PaymentRow DEF OfReminder
  <2>4. /\ paid.totalPaid = reminders[r].totalPaid + amount
        /\ paid.interestPaid
             = reminders[r].interestPaid + (amount - principal)
    BY <1>0, <2>2, ReminderPaidNumbers
  <2>5. \A k \in Reminders : ~OfReminder(transactions[t], k)
    BY <2>1, FreshRow DEF NoTransaction, OfReminder, Live
  <2> HIDE DEF x, paid
  <2> SUFFICES ASSUME NEW k \in Reminders
               PROVE  CoversPayments(k, reminders'[k], transactions')
    BY <1>0 DEF Covers
  <2> DEFINE row == reminders[k]
             after == reminders'[k]
             rows == transactions
             new == transactions'
  <2>6. /\ row \in Reminder /\ after \in Reminder
        /\ CoversPayments(k, row, rows)
        /\ rows \in [TxIds -> Transaction] /\ new \in [TxIds -> Transaction]
    BY <1>0 DEF Covers
  <2>7. /\ \A u \in TxIds : u # t => new[u] = rows[u]
        /\ new[t] = x
        /\ IF k = r THEN after = paid ELSE after = row
    BY <1>0, <2>1
  <2>8. /\ row.totalPaid \in Int /\ row.interestPaid \in Int
        /\ ~OfReminder(rows[t], k)
    BY <2>5, <2>6 DEF Reminder
  <2>9. CASE k = r
    <3>1. /\ OfReminder(new[t], k)
          /\ after.totalPaid = row.totalPaid + new[t].amount
          /\ after.interestPaid = row.interestPaid + new[t].interest
      BY <2>3, <2>4, <2>7, <2>9
    <3>2. after.totalPaid \in Int /\ after.interestPaid \in Int
      BY <2>6 DEF Reminder
    <3> HIDE DEF row, after, rows, new
    <3>3. /\ after.totalPaid >= row.totalPaid + new[t].amount
          /\ after.interestPaid >= row.interestPaid + new[t].interest
      BY <3>1, <3>2
    <3>4. CoversPayments(k, after, new)
      BY <2>6, <2>7, <2>8, <3>1, <3>3, CoversAfter
    <3>. QED
      BY <3>4 DEF after, new
  <2>10. CASE k # r
    <3>1. ~OfReminder(new[t], k)
      BY <2>3, <2>7, <2>10 DEF OfReminder
    <3>2. /\ after.totalPaid >= row.totalPaid
          /\ after.interestPaid >= row.interestPaid
      BY <2>7, <2>8, <2>10
    <3> HIDE DEF row, after, rows, new
    <3>3. CoversPayments(k, after, new)
      BY <2>6, <2>7, <2>8, <3>1, <3>2, CoversAfter
    <3>. QED
      BY <3>3 DEF after, new
  <2>. QED
    BY <2>9, <2>10
<1>. QED
  BY <1>1, <1>2, <1>3, <1>4, <1>5 DEF ReminderNext

LEMMA NextCovers ==
  ASSUME Inv, Rooted(Now), Covers(Now), Inv', [Next]_vars
  PROVE  Covers(Now')
<1>0. /\ Now.reminders = reminders /\ Now.transactions = transactions
      /\ Now'.reminders = reminders' /\ Now'.transactions = transactions'
  BY DEF Now
<1>1. ASSUME UNCHANGED <<reminders, transactions>>
      PROVE  Covers(Now')
  BY <1>0, <1>1 DEF Covers
<1>2. CASE UNCHANGED vars
  BY <1>1, <1>2 DEF vars
<1>3. ASSUME NEW t \in TxIds, NEW x, FreshTx(t), UNCHANGED reminders,
             transactions' = [transactions EXCEPT ![t] = x],
             x.source # "reminder"
      PROVE  Covers(Now')
  <2>1. transactions[t].source # "reminder"
    BY <1>3, FreshRow DEF NoTransaction
  <2>. QED
    BY <1>3, <2>1, StoredCovers
<1>4. CASE AccountNext
  <2>1. ASSUME NEW a \in Accounts, NEW opening \in OpeningBalances,
               CreateAccount(a, opening)
        PROVE  Covers(Now')
    <3>1. OpeningTransaction(a, opening).source = "system"
      BY DEF OpeningTransaction, NoTransaction
    <3>2. ASSUME NEW t \in TxIds, FreshTx(t),
                 transactions' = [transactions EXCEPT
                   ![t] = OpeningTransaction(a, opening)]
          PROVE  Covers(Now')
      BY <1>3, <2>1, <3>1, <3>2 DEF CreateAccount
    <3>. QED
      BY <1>1, <2>1, <3>2 DEF CreateAccount
  <2>. QED
    BY <1>1, <1>4, <2>1 DEF AccountNext, ArchiveAccount, DeleteAccount
<1>5. CASE EntryNext
  <2>1. PICK t \in TxIds, x \in Requests :
          CreateTransaction(t, x) \/ UpdateTransaction(t, x)
    BY <1>5 DEF EntryNext
  <2>2. x.source = "manual"
    BY DEF Requests
  <2>3. transactions[t].source = "manual"
    BY <2>1, FreshRow
    DEF CreateTransaction, UpdateTransaction, NoTransaction
  <2>4. /\ UNCHANGED reminders
        /\ transactions' = [transactions EXCEPT ![t] = x]
    BY <2>1 DEF CreateTransaction, UpdateTransaction
  <2>. QED
    BY <2>2, <2>3, <2>4, StoredCovers
<1>6. CASE LendingNext
  <2>1. ASSUME NEW l, NEW type, NEW a, NEW amount, NEW t \in TxIds,
               PostManaged(t, LendingTransaction(l, type, a, amount)),
               UNCHANGED reminders
        PROVE  Covers(Now')
    <3>1. LendingTransaction(l, type, a, amount).source = "lending"
      BY DEF LendingTransaction, NoTransaction
    <3>. QED
      BY <1>3, <2>1, <3>1 DEF PostManaged
  <2>. QED
    BY <1>1, <1>6, <2>1
    DEF LendingNext, DeleteLending, RecordRepayment, CreateLending,
        RecordRepaymentWithTransaction, CreateLendingWithTransaction
<1>. QED
  BY <1>2, <1>4, <1>5, <1>6, DeletionCovers, ReminderNextCovers DEF Next

LEMMA InitCovers ==
  ASSUME Init
  PROVE  Covers(Now)
<1>1. /\ Now.reminders = [r \in Reminders |-> NoReminder]
      /\ Now.transactions = [t \in TxIds |-> NoTransaction]
  BY DEF Init, Now
<1>2. ASSUME NEW r \in Reminders
      PROVE  CoversPayments(r, NoReminder, Now.transactions)
  <2>1. PaymentsOf(r, Now.transactions) = {}
    BY <1>1 DEF PaymentsOf, NoTransaction, Live
  <2>2. NoReminder.totalPaid = 0 /\ NoReminder.interestPaid = 0
    BY DEF NoReminder
  <2>. QED
    BY <2>1, <2>2, SumEmpty DEF CoversPayments
<1>. QED
  BY <1>1, <1>2 DEF Covers

LEMMA AlwaysCovers ==
  Spec => [](Inv /\ Rooted(Now) /\ Covers(Now))
<1>1. Init => Inv /\ Rooted(Now) /\ Covers(Now)
  BY InitInv, InitRooted, InitCovers
<1>2. Inv /\ Rooted(Now) /\ Covers(Now) /\ [Next]_vars
        => (Inv /\ Rooted(Now) /\ Covers(Now))'
  BY NextInv, NextRooted, NextCovers
<1>. QED
  BY <1>1, <1>2, PTL DEF Spec

LEMMA CoversMeans ==
  Covers(Now) => TotalsCoverPayments
BY DEF Covers, Now, TotalsCoverPayments

\* The totals of a reminder always cover the payments that are left, whatever
\* was recorded, relinked and deleted in between: the floor at zero in
\* revertReminderPaymentTx never swallows a payment that still counts.
THEOREM TotalsAlwaysCoverPayments ==
  Spec => []TotalsCoverPayments
BY AlwaysCovers, CoversMeans, PTL

-----------------------------------------------------------------------------
(***************************************************************************)
(* A settled lending stays settled.                                        *)
(***************************************************************************)

\* What the step from s to d does to lending l is excused by the deletion of t.
ReopenedBy(t, l, s, d) ==
  /\ Live(s.transactions[t]) /\ ~Live(d.transactions[t])
  /\ OfLending(s.transactions[t], l)
  /\ IsRepayment(s.lendings[l], s.transactions[t])

LEMMA DeletionReopens ==
  ASSUME NEW s, NEW t \in TxIds, Sound(s), Deletable(s, t), NEW l \in Lendings
  PROVE  LET d == Deleted(s, t) IN
         /\ d.lendings[l].type = s.lendings[l].type
         /\ s.lendings[l].settled =>
              d.lendings[l].settled \/ ReopenedBy(t, l, s, d)
         /\ ~Live(d.transactions[t])
         /\ \A u \in TxIds : u # t => d.transactions[u] = s.transactions[u]
<1> DEFINE x == s.transactions[t]
           row == s.lendings[l]
           d == Deleted(s, t)
           new == LendingReverted(row, t, x)
<1>1. /\ s.transactions \in [TxIds -> Transaction] /\ row \in Lending
      /\ x \in Transaction /\ Live(x)
  BY DEF Sound, Deletable
<1>2. /\ d.transactions = [s.transactions EXCEPT ![t].status = "deleted"]
      /\ d.lendings[l] = IF x.source = "lending" /\ l = x.link
                         THEN new ELSE row
  BY DEF Deleted
<1>3. /\ ~Live(d.transactions[t])
      /\ \A u \in TxIds : u # t => d.transactions[u] = s.transactions[u]
  BY <1>1, <1>2 DEF Live, Transaction
<1>4. CASE OfLending(x, l)
  <2>1. d.lendings[l] = new
    BY <1>2, <1>4 DEF OfLending
  <2>2. CASE IsRepayment(row, x)
    <3>1. new.type = row.type
      BY <1>1, <2>2, RepaymentRevertedFields
    <3>2. ReopenedBy(t, l, s, d)
      BY <1>1, <1>3, <1>4, <2>2 DEF ReopenedBy
    <3> HIDE DEF x, d, new
    <3>. QED
      BY <1>3, <2>1, <3>1, <3>2 DEF d
  <2>3. CASE ~IsRepayment(row, x)
    <3>1. new.type = row.type /\ new.settled = row.settled
      BY <1>1, <2>3, OriginRevertedFields
    <3> HIDE DEF x, d, new
    <3>. QED
      BY <1>3, <2>1, <3>1 DEF d
  <2>. QED
    BY <2>2, <2>3
<1>5. CASE ~OfLending(x, l)
  <2>1. d.lendings[l] = row
    BY <1>2, <1>5 DEF OfLending
  <2> HIDE DEF x, d
  <2>. QED
    BY <1>3, <2>1 DEF d
<1>. QED
  BY <1>4, <1>5

\* No step but the deletion of one of its repayments opens l again.
Reopens(l) ==
  lendings[l].settled =>
    lendings'[l].settled \/ \E t \in TxIds : ReopenedBy(t, l, Now, Now')

LEMMA DeletionNextReopens ==
  ASSUME Inv, DeletionNext, NEW l \in Lendings
  PROVE  Reopens(l)
<1>0. Now.lendings = lendings /\ Now'.lendings = lendings'
  BY DEF Now
<1>1. ASSUME NEW t \in TxIds, DeleteTransaction(t)
      PROVE  Reopens(l)
  <2>1. Deletable(Now, t) /\ Now' = Deleted(Now, t)
    BY <1>1, CommitDeleted DEF DeleteTransaction
  <2>2. Now.lendings[l].settled =>
          Now'.lendings[l].settled \/ ReopenedBy(t, l, Now, Now')
    BY <2>1, DeletionReopens DEF Inv
  <2>. QED
    BY <1>0, <2>2 DEF Reopens
<1>2. ASSUME NEW t \in TxIds, NEW u \in TxIds, DeleteBatch(t, u)
      PROVE  Reopens(l)
  <2> DEFINE s == Deleted(Now, t)
  <2>1. /\ Deletable(Now, t) /\ Deletable(s, u) /\ Now' = Deleted(s, u)
        /\ t # u
    BY <1>2, CommitDeleted DEF DeleteBatch
  <2>2. Sound(s)
    BY <2>1, DeletedSound DEF Inv
  <2>3. /\ s.lendings[l].type = Now.lendings[l].type
        /\ Now.lendings[l].settled =>
             s.lendings[l].settled \/ ReopenedBy(t, l, Now, s)
        /\ ~Live(s.transactions[t])
        /\ s.transactions[u] = Now.transactions[u]
    BY <2>1, DeletionReopens DEF Inv
  <2> HIDE DEF s
  <2>4. /\ s.lendings[l].settled =>
             Now'.lendings[l].settled \/ ReopenedBy(u, l, s, Now')
        /\ ~Live(Now'.transactions[u])
        /\ Now'.transactions[t] = s.transactions[t]
    BY <2>1, <2>2, DeletionReopens
  <2>5. ReopenedBy(t, l, Now, s) => ReopenedBy(t, l, Now, Now')
    BY <2>3, <2>4 DEF ReopenedBy
  <2>6. ReopenedBy(u, l, s, Now') => ReopenedBy(u, l, Now, Now')
    BY <2>3 DEF ReopenedBy, IsRepayment
  <2>7. Now.lendings[l].settled =>
          \/ Now'.lendings[l].settled
          \/ ReopenedBy(t, l, Now, Now') \/ ReopenedBy(u, l, Now, Now')
    BY <2>3, <2>4, <2>5, <2>6
  <2>. QED
    BY <1>0, <2>7 DEF Reopens
<1>. QED
  BY <1>1, <1>2 DEF DeletionNext

LEMMA LendingNextReopens ==
  ASSUME Inv, Rooted(Now), LendingNext, NEW k \in Lendings
  PROVE  Reopens(k)
<1>1. /\ lendings \in [Lendings -> Lending] /\ Amounts \subseteq Nat
      /\ \A l \in Lendings :
           lendings[l].status = "absent" => lendings[l] = NoLending
  BY LedgerAssumption DEF Inv, Sound, Rooted, LendingRooted, Drawn, Now
<1>2. ASSUME NEW l \in Lendings, NEW new,
             lendings' = [lendings EXCEPT ![l] = new],
             lendings[l].settled => new.settled
      PROVE  Reopens(k)
  <2>1. lendings[k].settled => lendings'[k].settled
    BY <1>1, <1>2
  <2>. QED
    BY <2>1 DEF Reopens
<1>3. ASSUME NEW l \in Lendings, DeleteLending(l)
      PROVE  Reopens(k)
  <2> DEFINE row == lendings[l]
             new == [row EXCEPT !.status = "deleted"]
  <2>1. lendings' = [lendings EXCEPT ![l] = new]
    BY <1>3 DEF DeleteLending
  <2>2. new.settled = row.settled
    BY <1>1 DEF Lending
  <2> HIDE DEF new
  <2>. QED
    BY <1>2, <2>1, <2>2
<1>4. ASSUME NEW l \in Lendings, NEW type, NEW amount,
             lendings[l].status = "absent",
             lendings' = [lendings EXCEPT ![l] = NewLending(type, amount)]
      PROVE  Reopens(k)
  <2>1. ~lendings[l].settled
    BY <1>1, <1>4 DEF NoLending
  <2>. QED
    BY <1>2, <1>4, <2>1
<1>5. ASSUME NEW l \in Lendings, NEW amount, NEW t, Repayable(l, amount),
             lendings' = [lendings EXCEPT ![l] = Repaid(lendings[l], amount, t)]
      PROVE  Reopens(k)
  <2>1. ~lendings[l].settled
    BY <1>5 DEF Repayable
  <2>. QED
    BY <1>2, <1>5, <2>1
<1>. QED
  BY <1>3, <1>4, <1>5
  DEF LendingNext, RecordRepayment, CreateLending,
      RecordRepaymentWithTransaction, CreateLendingWithTransaction

LEMMA NextReopens ==
  ASSUME Inv, Rooted(Now), [Next]_vars, NEW l \in Lendings
  PROVE  Reopens(l)
<1>1. ASSUME UNCHANGED lendings
      PROVE  Reopens(l)
  BY <1>1 DEF Reopens
<1>2. CASE UNCHANGED vars
  BY <1>1, <1>2 DEF vars
<1>3. CASE AccountNext
  BY <1>1, <1>3 DEF AccountNext, CreateAccount, ArchiveAccount, DeleteAccount
<1>4. CASE EntryNext
  BY <1>1, <1>4 DEF EntryNext, CreateTransaction, UpdateTransaction
<1>5. CASE ReminderNext
  <2>1. /\ \A r : DeleteReminder(r) => UNCHANGED lendings
        /\ \A r, a, q : CreateReminder(r, a, q) => UNCHANGED lendings
        /\ \A r, a, q : UpdateReminder(r, a, q) => UNCHANGED lendings
    BY DEF DeleteReminder, CreateReminder, UpdateReminder
  <2>2. /\ \A r, m, p : RecordPayment(r, m, p) => UNCHANGED lendings
        /\ \A r, a, m, p, t :
             RecordPaymentFrom(r, a, m, p, t) => UNCHANGED lendings
    BY DEF RecordPayment, RecordPaymentFrom
  <2>. QED
    BY <1>1, <1>5, <2>1, <2>2 DEF ReminderNext
<1>. QED
  BY <1>2, <1>3, <1>4, <1>5, DeletionNextReopens, LendingNextReopens DEF Next

\* A settled lending opens again only in a step that deletes one of its
\* repayments, alone or in a batch; deleting its origin never opens it
\* (revertLendingTransactionTx).
THEOREM SettledOnlyReopensByDeletion ==
  Spec => SettledReopensByDeletion
<1>1. Inv /\ Rooted(Now) /\ [Next]_vars =>
        [\A l \in Lendings :
           lendings[l].settled /\ ~lendings'[l].settled =>
             \E t \in TxIds :
               /\ Live(transactions[t]) /\ ~Live(transactions'[t])
               /\ OfLending(transactions[t], l)
               /\ IsRepayment(lendings[l], transactions[t])]_vars
  <2>1. /\ Now.lendings = lendings /\ Now.transactions = transactions
        /\ Now'.transactions = transactions'
    BY DEF Now
  <2>. QED
    BY <2>1, NextReopens DEF Reopens, ReopenedBy
<1>. QED
  BY <1>1, AlwaysRooted, PTL DEF Spec, SettledReopensByDeletion

-----------------------------------------------------------------------------
(***************************************************************************)
(* A payment takes its principal.                                          *)
(***************************************************************************)
PrincipalTaken(old, new) ==
  LET principal == (new.totalPaid - old.totalPaid)
                     - (new.interestPaid - old.interestPaid)
  IN new.totalPaid > old.totalPaid =>
       IF old.balance = None
       THEN new.balance = None /\ new.paidOff = old.paidOff
       ELSE /\ new.balance = old.balance - principal
            /\ new.balance >= 0
            /\ new.paidOff = (old.paidOff \/ new.balance = 0)

LEMMA NothingPaid ==
  ASSUME NEW old, NEW new, ~(new.totalPaid > old.totalPaid)
  PROVE  PrincipalTaken(old, new)
BY DEF PrincipalTaken

LEMMA PaymentTakes ==
  ASSUME NEW row \in Reminder, NEW amount \in Nat, NEW principal \in 0..amount,
         row.balance # None => principal <= row.balance
  PROVE  PrincipalTaken(row, ReminderPaid(row, amount, principal))
<1> DEFINE new == ReminderPaid(row, amount, principal)
<1>1. /\ row.balance \in Int \cup {None} /\ row.totalPaid \in Int
      /\ row.interestPaid \in Int /\ principal \in Int
      /\ None \notin Int
  BY LedgerAssumption DEF Reminder
<1>2. /\ new.totalPaid = row.totalPaid + amount
      /\ new.interestPaid = row.interestPaid + (amount - principal)
  BY ReminderPaidNumbers
<1>3. (new.totalPaid - row.totalPaid) - (new.interestPaid - row.interestPaid)
        = principal
  BY <1>1, <1>2
<1>4. CASE row.balance = None
  <2>1. new.balance = None
    BY <1>4 DEF ReminderPaid, Reminder
  <2>2. new.paidOff = (row.paidOff \/ None = 0)
    BY <1>4 DEF ReminderPaid, Reminder
  <2>3. None # 0
    BY <1>1
  <2>4. row.paidOff \in BOOLEAN
    BY DEF Reminder
  <2> HIDE DEF new
  <2>5. new.paidOff = row.paidOff
    <3>1. CASE row.paidOff = TRUE
      BY <2>2, <3>1
    <3>2. CASE row.paidOff = FALSE
      BY <2>2, <2>3, <3>2
    <3>. QED
      BY <2>4, <3>1, <3>2
  <2>6. PrincipalTaken(row, new)
    BY <1>4, <2>1, <2>5 DEF PrincipalTaken
  <2>. QED
    BY <2>6 DEF new
<1>5. CASE row.balance # None
  <2> DEFINE next == AtLeastZero(row.balance - principal)
  <2>1. row.balance \in Int /\ principal <= row.balance
    BY <1>1, <1>5
  <2>2. next = row.balance - principal /\ next >= 0
    BY <1>1, <2>1 DEF AtLeastZero
  <2>3. new.balance = next
    BY <1>5 DEF ReminderPaid, Reminder
  <2>4. new.paidOff = (row.paidOff \/ next = 0)
    BY <1>5 DEF ReminderPaid, Reminder
  <2> HIDE DEF new, next
  <2>5. new.paidOff = (row.paidOff \/ new.balance = 0)
    BY <2>3, <2>4
  <2>6. PrincipalTaken(row, new)
    BY <1>3, <1>5, <2>2, <2>3, <2>5 DEF PrincipalTaken
  <2>. QED
    BY <2>6 DEF new
<1>. QED
  BY <1>4, <1>5

LEMMA DeletionPaysNothing ==
  ASSUME NEW s, NEW t \in TxIds, Sound(s), NEW r \in Reminders
  PROVE  Deleted(s, t).reminders[r].totalPaid <= s.reminders[r].totalPaid
<1> DEFINE x == s.transactions[t]
           row == s.reminders[r]
           d == Deleted(s, t)
<1>1. row \in Reminder /\ x \in Transaction
  BY DEF Sound
<1>2. row.totalPaid \in Nat /\ x.amount \in Nat
  BY <1>1 DEF Reminder, Transaction
<1>3. d.reminders[r] \in {row, ReminderReverted(row, x)}
  BY DEF Deleted
<1>4. ReminderReverted(row, x).totalPaid = AtLeastZero(row.totalPaid - x.amount)
  BY <1>1 DEF ReminderReverted, Reminder
<1>5. AtLeastZero(row.totalPaid - x.amount) <= row.totalPaid
  BY <1>2 DEF AtLeastZero
<1> HIDE DEF row, x, d
<1>6. d.reminders[r].totalPaid <= row.totalPaid
  BY <1>2, <1>3, <1>4, <1>5
<1>. QED
  BY <1>6 DEF row, d

LEMMA DeletionNextTakesNothing ==
  ASSUME Inv, DeletionNext, NEW r \in Reminders
  PROVE  PrincipalTaken(reminders[r], reminders'[r])
<1>0. /\ Now.reminders = reminders /\ Now'.reminders = reminders'
      /\ reminders[r] \in Reminder
  BY DEF Now, Inv, Sound
<1>1. ASSUME NEW t \in TxIds, DeleteTransaction(t)
      PROVE  reminders'[r].totalPaid <= reminders[r].totalPaid
  <2>1. Now' = Deleted(Now, t)
    BY <1>1, CommitDeleted DEF DeleteTransaction
  <2>2. Now'.reminders[r].totalPaid <= Now.reminders[r].totalPaid
    BY <2>1, DeletionPaysNothing DEF Inv
  <2>. QED
    BY <1>0, <2>2
<1>2. ASSUME NEW t \in TxIds, NEW u \in TxIds, DeleteBatch(t, u)
      PROVE  reminders'[r].totalPaid <= reminders[r].totalPaid
  <2> DEFINE s == Deleted(Now, t)
  <2>1. Deletable(Now, t) /\ Deletable(s, u) /\ Now' = Deleted(s, u)
    BY <1>2, CommitDeleted DEF DeleteBatch
  <2>2. Sound(s)
    BY <2>1, DeletedSound DEF Inv
  <2>3. s.reminders[r].totalPaid <= Now.reminders[r].totalPaid
    BY DeletionPaysNothing DEF Inv
  <2> HIDE DEF s
  <2>4. Now'.reminders[r].totalPaid <= s.reminders[r].totalPaid
    BY <2>1, <2>2, DeletionPaysNothing
  <2>5. /\ s.reminders[r].totalPaid \in Int
        /\ Now.reminders[r].totalPaid \in Int
        /\ Now'.reminders[r].totalPaid \in Int
    <3>1. Sound(Now')
      BY <2>1, <2>2, DeletedSound
    <3>2. \A e : Sound(e) => e.reminders[r].totalPaid \in Int
      BY DEF Sound, Reminder
    <3>. QED
      BY <2>2, <3>1, <3>2 DEF Inv
  <2>. QED
    BY <1>0, <2>3, <2>4, <2>5
<1>3. reminders'[r].totalPaid <= reminders[r].totalPaid
  BY <1>1, <1>2 DEF DeletionNext
<1>4. reminders'[r].totalPaid \in Int /\ reminders[r].totalPaid \in Int
  <2>1. Inv'
    BY NextInv DEF Next
  <2>2. reminders'[r] \in Reminder
    BY <2>1 DEF Inv, Sound, Now
  <2>. QED
    BY <1>0, <2>2 DEF Reminder
<1>. QED
  BY <1>3, <1>4, NothingPaid

LEMMA ReminderNextTakes ==
  ASSUME Inv, Rooted(Now), ReminderNext, NEW k \in Reminders
  PROVE  PrincipalTaken(reminders[k], reminders'[k])
<1>1. /\ reminders \in [Reminders -> Reminder] /\ Amounts \subseteq Nat
      /\ \A r \in Reminders :
           reminders[r].status = "absent" => reminders[r] = NoReminder
  BY LedgerAssumption DEF Inv, Sound, Rooted, ReminderRooted, Drawn, Now
<1>2. ASSUME NEW r \in Reminders, NEW new,
             reminders' = [reminders EXCEPT ![r] = new],
             PrincipalTaken(reminders[r], new)
      PROVE  PrincipalTaken(reminders[k], reminders'[k])
  <2>1. CASE k = r
    BY <1>1, <1>2, <2>1
  <2>2. CASE k # r
    <3>1. reminders'[k] = reminders[k] /\ reminders[k].totalPaid \in Int
      BY <1>1, <1>2, <2>2 DEF Reminder
    <3>2. ~(reminders'[k].totalPaid > reminders[k].totalPaid)
      BY <3>1
    <3>. QED
      BY <3>2, NothingPaid
  <2>. QED
    BY <2>1, <2>2
<1>3. ASSUME NEW r \in Reminders, NEW new,
             reminders' = [reminders EXCEPT ![r] = new],
             new.totalPaid = reminders[r].totalPaid
      PROVE  PrincipalTaken(reminders[k], reminders'[k])
  <2>1. reminders[r].totalPaid \in Int
    BY <1>1 DEF Reminder
  <2>2. ~(new.totalPaid > reminders[r].totalPaid)
    BY <1>3, <2>1
  <2>. QED
    BY <1>2, <1>3, <2>2, NothingPaid
<1>4. ASSUME NEW r \in Reminders, DeleteReminder(r)
      PROVE  PrincipalTaken(reminders[k], reminders'[k])
  <2> DEFINE row == reminders[r]
             new == [row EXCEPT !.status = "deleted"]
  <2>1. reminders' = [reminders EXCEPT ![r] = new]
    BY <1>4 DEF DeleteReminder
  <2>2. new.totalPaid = row.totalPaid
    BY <1>1 DEF Reminder
  <2> HIDE DEF new
  <2>. QED
    BY <1>3, <2>1, <2>2
<1>5. ASSUME NEW r \in Reminders, NEW a, NEW requested,
             CreateReminder(r, a, requested)
      PROVE  PrincipalTaken(reminders[k], reminders'[k])
  <2> DEFINE new == [NoReminder EXCEPT !.status = "live", !.account = a,
                       !.balance = LinkedBalance(a, requested)]
  <2>1. /\ reminders' = [reminders EXCEPT ![r] = new]
        /\ reminders[r].status = "absent"
    BY <1>5 DEF CreateReminder
  <2>2. new.totalPaid = reminders[r].totalPaid
    BY <1>1, <2>1 DEF NoReminder
  <2> HIDE DEF new
  <2>. QED
    BY <1>3, <2>1, <2>2
<1>6. ASSUME NEW r \in Reminders, NEW a, NEW requested,
             UpdateReminder(r, a, requested)
      PROVE  PrincipalTaken(reminders[k], reminders'[k])
  <2> DEFINE row == reminders[r]
             new == [row EXCEPT !.account = a,
                                !.balance = LinkedBalance(a, requested)]
  <2>1. reminders' = [reminders EXCEPT ![r] = new]
    BY <1>1, <1>6 DEF UpdateReminder
  <2>2. new.totalPaid = row.totalPaid
    BY <1>1 DEF Reminder
  <2> HIDE DEF new
  <2>. QED
    BY <1>3, <2>1, <2>2
<1>7. ASSUME NEW r \in Reminders, NEW amount \in Amounts,
             NEW principal \in 0..amount, Payable(r, principal),
             reminders' = [reminders EXCEPT
               ![r] = ReminderPaid(reminders[r], amount, principal)]
      PROVE  PrincipalTaken(reminders[k], reminders'[k])
  <2> DEFINE row == reminders[r]
  <2>1. /\ row \in Reminder /\ amount \in Nat
        /\ row.balance # None => principal <= row.balance
    BY <1>1, <1>7 DEF Payable
  <2>2. PrincipalTaken(row, ReminderPaid(row, amount, principal))
    BY <2>1, PaymentTakes
  <2>. QED
    BY <1>2, <1>7, <2>2
<1>. QED
  BY <1>4, <1>5, <1>6, <1>7
  DEF ReminderNext, RecordPayment, RecordPaymentFrom

LEMMA NextTakes ==
  ASSUME Inv, Rooted(Now), [Next]_vars, NEW r \in Reminders
  PROVE  PrincipalTaken(reminders[r], reminders'[r])
<1>1. ASSUME UNCHANGED reminders
      PROVE  PrincipalTaken(reminders[r], reminders'[r])
  <2>1. reminders[r].totalPaid \in Int
    BY DEF Inv, Sound, Now, Reminder
  <2>2. ~(reminders'[r].totalPaid > reminders[r].totalPaid)
    BY <1>1, <2>1
  <2>. QED
    BY <2>2, NothingPaid
<1>2. CASE UNCHANGED vars
  BY <1>1, <1>2 DEF vars
<1>3. CASE AccountNext
  BY <1>1, <1>3 DEF AccountNext, CreateAccount, ArchiveAccount, DeleteAccount
<1>4. CASE EntryNext
  BY <1>1, <1>4 DEF EntryNext, CreateTransaction, UpdateTransaction
<1>5. CASE LendingNext
  BY <1>1, <1>5
  DEF LendingNext, DeleteLending, RecordRepayment, CreateLending,
      RecordRepaymentWithTransaction, CreateLendingWithTransaction
<1>. QED
  BY <1>2, <1>3, <1>4, <1>5, DeletionNextTakesNothing, ReminderNextTakes
  DEF Next

\* Whenever a reminder's total grows, the principal of that payment comes off
\* its balance as a whole, the balance could bear it, and the reminder is paid
\* off exactly when nothing is left (RecordPayment in reminder.go).
THEOREM PaymentAlwaysTakesItsPrincipal ==
  Spec => PaymentTakesItsPrincipal
<1>1. Inv /\ Rooted(Now) /\ [Next]_vars =>
        [\A r \in Reminders :
           LET old == reminders[r]
               new == reminders'[r]
               principal == (new.totalPaid - old.totalPaid)
                              - (new.interestPaid - old.interestPaid)
           IN new.totalPaid > old.totalPaid =>
                IF old.balance = None
                THEN new.balance = None /\ new.paidOff = old.paidOff
                ELSE /\ new.balance = old.balance - principal
                     /\ new.balance >= 0
                     /\ new.paidOff = (old.paidOff \/ new.balance = 0)]_vars
  BY NextTakes DEF PrincipalTaken
<1>. QED
  BY <1>1, AlwaysRooted, PTL DEF Spec, PaymentTakesItsPrincipal
=============================================================================
