------------------------------- MODULE Ledger -------------------------------
(***************************************************************************)
(* The money-bearing tables of one user's ledger and every operation of    *)
(* the Go services that changes a balance: accounts (account.go),          *)
(* transactions (transaction.go, transaction_balance.go,                   *)
(* transaction_rollback.go), lendings (lending.go) and repayment           *)
(* reminders (reminder.go).                                                *)
(*                                                                         *)
(* One action is one service call.  Each of them runs its writes in one    *)
(* database transaction that either commits as a whole or leaves nothing,  *)
(* so a call that returns an error is a disabled action.  Every query of   *)
(* these services carries the caller's user_id: the model is one user.     *)
(***************************************************************************)
EXTENDS Integers, Sequences, FiniteSetsExt

CONSTANTS
  Accounts,        \* account ids
  DebtAccounts,    \* the ids whose account type satisfies IsDebtAccount
  TxIds,           \* transaction ids; uuids in the code, numbered here in
                   \* the order they are drawn
  Lendings,        \* lending ids
  Reminders,       \* reminder ids
  Amounts,         \* amounts a request may carry, in cents
  OpeningBalances, \* initial balances a request may carry, in cents
  MaxLog,          \* bound on the account_logs rows, and on those of a lending
  MaxPaid,         \* bound on the cents paid through one reminder
  None             \* a NULL column

ASSUME LedgerAssumption ==
  /\ DebtAccounts \subseteq Accounts
  /\ TxIds \subseteq Nat /\ IsFiniteSet(TxIds)
  /\ Amounts \subseteq Nat \ {0}
  /\ OpeningBalances \subseteq Int
  /\ MaxLog \in Nat
  /\ MaxPaid \in Nat
  /\ None \notin Accounts
  /\ None \notin Lendings \cup Reminders
  /\ None \notin Int

VARIABLES
  accounts,      \* accounts rows, each with its account_logs rows in order
  transactions,  \* transactions rows
  lendings,      \* lendings rows, each with its lending_records rows in order
  reminders      \* reminders rows

vars == <<accounts, transactions, lendings, reminders>>

-----------------------------------------------------------------------------
(***************************************************************************)
(* Rows.  A row is "absent" before its id is drawn and stays behind as     *)
(* "deleted" after a soft delete.                                          *)
(***************************************************************************)
Status == {"absent", "live", "deleted"}

LogEntry == [tx : TxIds \cup {None}, before : Int, after : Int]

Account ==
  [status : Status, initial : Int, balance : Int, totalPaid : Nat,
   paidOff : BOOLEAN, archived : BOOLEAN, log : Seq(LogEntry)]

Transaction ==
  [status : Status, type : {"income", "expense", "transfer"},
   account : Accounts \cup {None}, to : Accounts \cup {None},
   amount : Nat, principal : Nat, interest : Nat,
   source : {"manual", "system", "lending", "reminder"},
   link : Lendings \cup Reminders \cup {None}]

LendingRecord == [status : Status, tx : TxIds \cup {None}, amount : Nat]

Lending ==
  [status : Status, type : {"lend_out", "borrow_in"}, principal : Nat,
   balance : Nat, repaid : Nat, settled : BOOLEAN,
   records : Seq(LendingRecord)]

Reminder ==
  [status : Status, account : Accounts \cup {None}, balance : Int \cup {None},
   totalPaid : Nat, interestPaid : Nat, paidOff : BOOLEAN]

Live(row) == row.status = "live"

NoAccount ==
  [status |-> "absent", initial |-> 0, balance |-> 0, totalPaid |-> 0,
   paidOff |-> FALSE, archived |-> FALSE, log |-> <<>>]

NoTransaction ==
  [status |-> "absent", type |-> "income", account |-> None, to |-> None,
   amount |-> 0, principal |-> 0, interest |-> 0, source |-> "manual",
   link |-> None]

NoLending ==
  [status |-> "absent", type |-> "lend_out", principal |-> 0, balance |-> 0,
   repaid |-> 0, settled |-> FALSE, records |-> <<>>]

NoReminder ==
  [status |-> "absent", account |-> None, balance |-> None, totalPaid |-> 0,
   interestPaid |-> 0, paidOff |-> FALSE]

Init ==
  /\ accounts = [a \in Accounts |-> NoAccount]
  /\ transactions = [t \in TxIds |-> NoTransaction]
  /\ lendings = [l \in Lendings |-> NoLending]
  /\ reminders = [r \in Reminders |-> NoReminder]

\* Every row is a row of its table.
TypeOK ==
  /\ accounts \in [Accounts -> Account]
  /\ transactions \in [TxIds -> Transaction]
  /\ lendings \in [Lendings -> Lending]
  /\ reminders \in [Reminders -> Reminder]

-----------------------------------------------------------------------------
(***************************************************************************)
(* Balance postings.                                                       *)
(***************************************************************************)
AtLeastZero(n) == IF n < 0 THEN 0 ELSE n

\* The accounts whose balance a transaction bears on.
Legs(x) == IF x.type = "transfer" THEN {x.account, x.to} ELSE {x.account}

\* The cash a transaction brings into account a.
CashFlow(x, a) ==
  IF x.type = "income" \/ (x.type = "transfer" /\ a = x.to)
  THEN x.amount ELSE -x.amount

\* The same cash flow in the account's own convention: an asset balance is
\* money held, a debt balance money owed.
BalanceDelta(x, a) ==
  IF a \in DebtAccounts THEN -CashFlow(x, a) ELSE CashFlow(x, a)

\* A bug to tell from the code: the log row is written after the balance has
\* already moved.
PostedLate(row, t, delta) ==
  [row EXCEPT !.balance = row.balance + delta,
              !.log = Append(row.log, [tx |-> t, before |-> row.balance + delta,
                                       after |-> row.balance + 2 * delta])]

\* One balance mutation: the log row is written from the balance just read,
\* then the balance moves by the same delta.
Posted(row, t, delta) ==
  [row EXCEPT !.balance = row.balance + delta,
              !.log = Append(row.log, [tx |-> t, before |-> row.balance,
                                       after |-> row.balance + delta])]

Applied(acc, t, x) ==
  [a \in Accounts |->
     IF a \in Legs(x) THEN Posted(acc[a], t, BalanceDelta(x, a)) ELSE acc[a]]

\* A bug to tell from the code: the credit leg of a transfer is forgotten.
RevertedOneLeg(acc, t, x) ==
  [a \in Accounts |->
     IF a = x.account THEN Posted(acc[a], t, -BalanceDelta(x, a)) ELSE acc[a]]

Reverted(acc, t, x) ==
  [a \in Accounts |->
     IF a \in Legs(x) THEN Posted(acc[a], t, -BalanceDelta(x, a)) ELSE acc[a]]

\* A reminder payment on the linked account: never below zero.
Paid(row, t, principal) ==
  IF principal = 0 THEN row
  ELSE LET next == AtLeastZero(row.balance - principal) IN
       [Posted(row, t, next - row.balance) EXCEPT
          !.totalPaid = row.totalPaid + principal,
          !.paidOff = row.paidOff \/ next <= 0]

\* The linked account after the payment's transaction is deleted.
Unpaid(row, t, principal) ==
  [Posted(row, t, principal) EXCEPT
     !.totalPaid = AtLeastZero(row.totalPaid - principal),
     !.paidOff = row.paidOff /\ row.balance + principal <= 0]

-----------------------------------------------------------------------------
(***************************************************************************)
(* Accounts.                                                               *)
(***************************************************************************)
WithinLogBound(acc) ==
  MapThenSumSet(LAMBDA a : Len(acc[a].log), Accounts) <= MaxLog

AccountUsable(a) == a \in Accounts /\ Live(accounts[a])

\* Ids are drawn in order: a fresh uuid is the next unused number.
FreshTx(t) ==
  /\ transactions[t].status = "absent"
  /\ \A u \in TxIds : u < t => transactions[u].status # "absent"

\* The system row that stands for an opening balance.
OpeningTransaction(a, opening) ==
  [NoTransaction EXCEPT
     !.status = "live",
     !.type = IF (a \in DebtAccounts) = (opening > 0) THEN "expense"
                                                      ELSE "income",
     !.account = a,
     !.amount = IF opening > 0 THEN opening ELSE -opening,
     !.source = "system"]

CreateAccount(a, opening) ==
  /\ accounts[a].status = "absent"
  /\ accounts' = [accounts EXCEPT
       ![a] = [NoAccount EXCEPT !.status = "live", !.initial = opening,
                                !.balance = opening]]
  /\ \/ opening = 0 /\ UNCHANGED transactions
     \/ /\ opening # 0
        /\ \E t \in TxIds :
             /\ FreshTx(t)
             /\ transactions' = [transactions EXCEPT
                  ![t] = OpeningTransaction(a, opening)]
  /\ UNCHANGED <<lendings, reminders>>

ArchiveAccount(a, isArchived) ==
  /\ AccountUsable(a)
  /\ accounts' = [accounts EXCEPT ![a].archived = isArchived]
  /\ UNCHANGED <<transactions, lendings, reminders>>

DeleteAccount(a) ==
  /\ AccountUsable(a)
  /\ accounts[a].archived \/ accounts[a].balance = 0
  /\ accounts' = [accounts EXCEPT ![a].status = "deleted"]
  /\ UNCHANGED <<transactions, lendings, reminders>>

-----------------------------------------------------------------------------
(***************************************************************************)
(* Transactions.                                                           *)
(***************************************************************************)

\* What validateTransactionRequest and validateTransactionReferencesTx let
\* through, as a transactions row.
Requests ==
  {x \in [status : {"live"}, type : {"income", "expense", "transfer"},
          account : Accounts, to : Accounts \cup {None}, amount : Amounts,
          principal : {0}, interest : {0}, source : {"manual"},
          link : {None}] :
     IF x.type = "transfer" THEN x.to \notin {None, x.account} ELSE x.to = None}

LegsUsable(x) == \A a \in Legs(x) : AccountUsable(a)

CreateTransaction(t, x) ==
  /\ FreshTx(t)
  /\ LegsUsable(x)
  /\ accounts' = Applied(accounts, t, x)
  /\ WithinLogBound(accounts')
  /\ transactions' = [transactions EXCEPT ![t] = x]
  /\ UNCHANGED <<lendings, reminders>>

\* A bug to tell from the code: the edit only posts the new amount.
UpdateWithoutRevert(t, x) ==
  /\ Live(transactions[t])
  /\ transactions[t].source = "manual"
  /\ LegsUsable(x)
  /\ LegsUsable(transactions[t])
  /\ accounts' = Applied(accounts, t, x)
  /\ WithinLogBound(accounts')
  /\ transactions' = [transactions EXCEPT ![t] = x]
  /\ UNCHANGED <<lendings, reminders>>

UpdateTransaction(t, x) ==
  /\ Live(transactions[t])
  /\ transactions[t].source = "manual"
  /\ LegsUsable(x)
  /\ LegsUsable(transactions[t])
  /\ accounts' = Applied(Reverted(accounts, t, transactions[t]), t, x)
  /\ WithinLogBound(accounts')
  /\ transactions' = [transactions EXCEPT ![t] = x]
  /\ UNCHANGED <<lendings, reminders>>

(***************************************************************************)
(* Deleting a transaction, as a function from state to state: a batch      *)
(* applies it to each id in turn inside one database transaction.          *)
(***************************************************************************)
Now == [accounts |-> accounts, transactions |-> transactions,
        lendings |-> lendings, reminders |-> reminders]

Commit(s) ==
  /\ WithinLogBound(s.accounts)
  /\ accounts' = s.accounts
  /\ transactions' = s.transactions
  /\ lendings' = s.lendings
  /\ reminders' = s.reminders

\* The account the payment's reminder is linked to when the payment is
\* deleted, which need not be the one it was linked to when it was paid.
LinkedAccount(s, x) ==
  IF x.source = "reminder" THEN s.reminders[x.link].account ELSE None

\* revertReminderPaymentTx reads a zero principal as "all of it".
RevertedPrincipal(x) == IF x.principal = 0 THEN x.amount ELSE x.principal

RevertedInterest(x) ==
  IF x.interest = 0 THEN x.amount - RevertedPrincipal(x) ELSE x.interest

\* A bug to tell from the code: the whole payment counts as interest.
ReminderRevertedAsInterest(row, x) ==
  [row EXCEPT
     !.totalPaid = AtLeastZero(row.totalPaid - x.amount),
     !.interestPaid = AtLeastZero(row.interestPaid - x.amount),
     !.balance = IF row.balance = None THEN None
                 ELSE row.balance + RevertedPrincipal(x)]

ReminderReverted(row, x) ==
  LET next == IF row.balance = None THEN None
              ELSE row.balance + RevertedPrincipal(x)
  IN [row EXCEPT
        !.totalPaid = AtLeastZero(row.totalPaid - x.amount),
        !.interestPaid = AtLeastZero(row.interestPaid - RevertedInterest(x)),
        !.balance = next,
        !.paidOff = row.paidOff /\ (next = None \/ next <= 0)]

IsRepayment(lending, x) ==
  \/ lending.type = "lend_out" /\ x.type = "income"
  \/ lending.type = "borrow_in" /\ x.type = "expense"

WithoutRepayment(records, t) ==
  [i \in 1..Len(records) |->
     IF records[i].tx = t THEN [records[i] EXCEPT !.status = "deleted"]
                          ELSE records[i]]

\* Bugs to tell from the code: the repayment record stays; deleting the origin
\* opens a settled lending; the balance is not held at zero.
LendingRevertedKeepsRecord(row, t, x) ==
  IF IsRepayment(row, x)
  THEN [row EXCEPT !.repaid = AtLeastZero(row.repaid - x.amount),
                   !.balance = row.balance + x.amount,
                   !.settled = row.settled /\ row.balance + x.amount <= 0]
  ELSE [row EXCEPT !.balance = AtLeastZero(row.balance - x.amount)]

LendingRevertedReopens(row, t, x) ==
  IF IsRepayment(row, x)
  THEN [row EXCEPT !.repaid = AtLeastZero(row.repaid - x.amount),
                   !.balance = row.balance + x.amount, !.settled = FALSE,
                   !.records = WithoutRepayment(row.records, t)]
  ELSE [row EXCEPT !.balance = AtLeastZero(row.balance - x.amount),
                   !.settled = FALSE]

LendingReverted(row, t, x) ==
  IF IsRepayment(row, x)
  THEN [row EXCEPT
          !.repaid = AtLeastZero(row.repaid - x.amount),
          !.balance = row.balance + x.amount,
          !.settled = row.settled /\ row.balance + x.amount <= 0,
          !.records = WithoutRepayment(row.records, t)]
  ELSE [row EXCEPT !.balance = AtLeastZero(row.balance - x.amount)]

\* A bug to tell from the code: the accounts are not looked up first.
DeletableAnyAccount(s, t) ==
  /\ Live(s.transactions[t])
  /\ s.transactions[t].source # "system"

Deletable(s, t) ==
  LET x == s.transactions[t] IN
  /\ Live(x)
  /\ x.source # "system"
  /\ \A a \in Legs(x) : Live(s.accounts[a])
  /\ LinkedAccount(s, x) # None => Live(s.accounts[LinkedAccount(s, x)])

AccountsAfterDelete(s, t) ==
  LET x == s.transactions[t]
      debt == LinkedAccount(s, x)
      acc == Reverted(s.accounts, t, x)
  IN [a \in Accounts |->
        IF a = debt THEN Unpaid(acc[a], t, RevertedPrincipal(x)) ELSE acc[a]]

Deleted(s, t) ==
  LET x == s.transactions[t] IN
  [accounts |-> AccountsAfterDelete(s, t),
   transactions |-> [s.transactions EXCEPT ![t].status = "deleted"],
   lendings |-> [l \in Lendings |->
      IF x.source = "lending" /\ l = x.link
      THEN LendingReverted(s.lendings[l], t, x) ELSE s.lendings[l]],
   reminders |-> [r \in Reminders |->
      IF x.source = "reminder" /\ r = x.link
      THEN ReminderReverted(s.reminders[r], x) ELSE s.reminders[r]]]

DeleteTransaction(t) == Deletable(Now, t) /\ Commit(Deleted(Now, t))

\* Two ids stand for a batch of any length.  The ids are sorted, which for
\* uuids is an order unrelated to that of creation.
DeleteBatch(t, u) ==
  /\ t # u
  /\ Deletable(Now, t)
  /\ Deletable(Deleted(Now, t), u)
  /\ Commit(Deleted(Deleted(Now, t), u))

-----------------------------------------------------------------------------
(***************************************************************************)
(* Lendings.                                                               *)
(***************************************************************************)
LendingTransaction(l, type, a, amount) ==
  [NoTransaction EXCEPT !.status = "live", !.type = type, !.account = a,
                        !.amount = amount, !.source = "lending", !.link = l]

NewLending(type, principal) ==
  [NoLending EXCEPT !.status = "live", !.type = type,
                    !.principal = principal, !.balance = principal]

\* Posts a managed transaction on account a and inserts its row.
PostManaged(t, x) ==
  /\ FreshTx(t)
  /\ LegsUsable(x)
  /\ accounts' = Applied(accounts, t, x)
  /\ WithinLogBound(accounts')
  /\ transactions' = [transactions EXCEPT ![t] = x]

\* Without create_transaction, or without an account, no money moves.
CreateLending(l, type, principal) ==
  /\ lendings[l].status = "absent"
  /\ lendings' = [lendings EXCEPT ![l] = NewLending(type, principal)]
  /\ UNCHANGED <<accounts, transactions, reminders>>

CreateLendingWithTransaction(l, type, principal, t, a) ==
  /\ lendings[l].status = "absent"
  /\ lendings' = [lendings EXCEPT ![l] = NewLending(type, principal)]
  /\ PostManaged(t, LendingTransaction(l,
        IF type = "lend_out" THEN "expense" ELSE "income", a, principal))
  /\ UNCHANGED reminders

DeleteLending(l) ==
  /\ Live(lendings[l])
  /\ lendings' = [lendings EXCEPT ![l].status = "deleted"]
  /\ UNCHANGED <<accounts, transactions, reminders>>

\* A bug to tell from the code: the overpayment guard is gone.
RepayableAnyAmount(l, amount) ==
  /\ Live(lendings[l])
  /\ ~lendings[l].settled
  /\ lendings[l].balance > 0

Repayable(l, amount) ==
  /\ Live(lendings[l])
  /\ ~lendings[l].settled
  /\ lendings[l].balance > 0
  /\ amount <= lendings[l].balance

Repaid(row, amount, t) ==
  [row EXCEPT !.balance = row.balance - amount,
              !.repaid = row.repaid + amount,
              !.settled = row.settled \/ row.balance - amount = 0,
              !.records = Append(row.records, [status |-> "live", tx |-> t,
                                               amount |-> amount])]

RecordRepayment(l, amount) ==
  /\ Repayable(l, amount)
  /\ Len(lendings[l].records) < MaxLog
  /\ lendings' = [lendings EXCEPT ![l] = Repaid(lendings[l], amount, None)]
  /\ UNCHANGED <<accounts, transactions, reminders>>

RecordRepaymentWithTransaction(l, amount, t, a) ==
  /\ Repayable(l, amount)
  /\ lendings' = [lendings EXCEPT ![l] = Repaid(lendings[l], amount, t)]
  /\ PostManaged(t, LendingTransaction(l,
        IF lendings[l].type = "lend_out" THEN "income" ELSE "expense",
        a, amount))
  /\ UNCHANGED reminders

-----------------------------------------------------------------------------
(***************************************************************************)
(* Repayment reminders.                                                    *)
(***************************************************************************)

\* A reminder linked to a debt account takes that account's balance; any
\* other reminder takes the balance of the request, NULL included.
LinkedBalance(a, requested) ==
  IF a \in DebtAccounts THEN accounts[a].balance ELSE requested

CreateReminder(r, a, requested) ==
  /\ reminders[r].status = "absent"
  /\ a # None => AccountUsable(a)
  /\ reminders' = [reminders EXCEPT
       ![r] = [NoReminder EXCEPT !.status = "live", !.account = a,
                                 !.balance = LinkedBalance(a, requested)]]
  /\ UNCHANGED <<accounts, transactions, lendings>>

\* Update and Patch: the link and the balance may change, what was paid and
\* paid_off_at do not.
UpdateReminder(r, a, requested) ==
  /\ Live(reminders[r])
  /\ a # None => AccountUsable(a)
  /\ reminders' = [reminders EXCEPT
       ![r].account = a, ![r].balance = LinkedBalance(a, requested)]
  /\ UNCHANGED <<accounts, transactions, lendings>>

DeleteReminder(r) ==
  /\ Live(reminders[r])
  /\ reminders' = [reminders EXCEPT ![r].status = "deleted"]
  /\ UNCHANGED <<accounts, transactions, lendings>>

Payable(r, principal) ==
  /\ Live(reminders[r])
  /\ reminders[r].balance # None => principal <= reminders[r].balance
  /\ reminders[r].account # None => AccountUsable(reminders[r].account)

ReminderPaid(row, amount, principal) ==
  LET next == IF row.balance = None THEN None
              ELSE AtLeastZero(row.balance - principal)
  IN [row EXCEPT !.totalPaid = row.totalPaid + amount,
                 !.interestPaid = row.interestPaid + (amount - principal),
                 !.balance = next,
                 !.paidOff = row.paidOff \/ next = 0]

WithDebtPaid(acc, debt, t, principal) ==
  [a \in Accounts |-> IF a = debt THEN Paid(acc[a], t, principal) ELSE acc[a]]

PaymentTransaction(r, source, amount, principal) ==
  [NoTransaction EXCEPT
     !.status = "live", !.type = "expense", !.account = source,
     !.amount = amount, !.principal = principal,
     !.interest = amount - principal, !.source = "reminder", !.link = r]

\* A payment recorded without a paying account leaves no transaction.
RecordPayment(r, amount, principal) ==
  /\ Payable(r, principal)
  /\ reminders' = [reminders EXCEPT
       ![r] = ReminderPaid(reminders[r], amount, principal)]
  /\ accounts' = WithDebtPaid(accounts, reminders[r].account, None, principal)
  /\ WithinLogBound(accounts')
  /\ reminders'[r].totalPaid <= MaxPaid
  /\ UNCHANGED <<transactions, lendings>>

RecordPaymentFrom(r, source, amount, principal, t) ==
  LET x == PaymentTransaction(r, source, amount, principal) IN
  /\ Payable(r, principal)
  /\ source # reminders[r].account
  /\ AccountUsable(source)
  /\ FreshTx(t)
  /\ reminders' = [reminders EXCEPT
       ![r] = ReminderPaid(reminders[r], amount, principal)]
  /\ accounts' = WithDebtPaid(Applied(accounts, t, x),
                              reminders[r].account, t, principal)
  /\ WithinLogBound(accounts')
  /\ reminders'[r].totalPaid <= MaxPaid
  /\ transactions' = [transactions EXCEPT ![t] = x]
  /\ UNCHANGED lendings

-----------------------------------------------------------------------------
AccountNext ==
  \E a \in Accounts :
    \/ \E opening \in OpeningBalances : CreateAccount(a, opening)
    \/ \E isArchived \in BOOLEAN : ArchiveAccount(a, isArchived)
    \/ DeleteAccount(a)

EntryNext ==
  \E t \in TxIds, x \in Requests :
    CreateTransaction(t, x) \/ UpdateTransaction(t, x)

DeletionNext ==
  \E t \in TxIds :
    \/ DeleteTransaction(t)
    \/ \E u \in TxIds : DeleteBatch(t, u)

LendingNext ==
  \E l \in Lendings :
    \/ DeleteLending(l)
    \/ \E amount \in Amounts :
         \/ RecordRepayment(l, amount)
         \/ \E type \in {"lend_out", "borrow_in"} :
              CreateLending(l, type, amount)
         \/ \E t \in TxIds, a \in Accounts :
              \/ RecordRepaymentWithTransaction(l, amount, t, a)
              \/ \E type \in {"lend_out", "borrow_in"} :
                   CreateLendingWithTransaction(l, type, amount, t, a)

ReminderNext ==
  \E r \in Reminders :
    \/ DeleteReminder(r)
    \/ \E a \in Accounts \cup {None}, requested \in Amounts \cup {None} :
         CreateReminder(r, a, requested)
    \/ \E a \in Accounts \cup {None},
         requested \in Amounts \cup {None, reminders[r].balance} :
           UpdateReminder(r, a, requested)
    \/ \E amount \in Amounts : \E principal \in 0..amount :
         \/ RecordPayment(r, amount, principal)
         \/ \E source \in Accounts, t \in TxIds :
              RecordPaymentFrom(r, source, amount, principal, t)

Next ==
  AccountNext \/ EntryNext \/ DeletionNext \/ LendingNext \/ ReminderNext

Spec == Init /\ [][Next]_vars

=============================================================================
