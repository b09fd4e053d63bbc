-------------------------- MODULE LedgerProperties --------------------------
(***************************************************************************)
(* What the ledger promises, as predicates on its rows.                    *)
(***************************************************************************)
EXTENDS Ledger

\* The balance an account had before its i-th log row was written.
BalanceBefore(row, i) == IF i = 1 THEN row.initial ELSE row.log[i - 1].after

ReplaysBalance(row) ==
  /\ \A i \in 1..Len(row.log) : row.log[i].before = BalanceBefore(row, i)
  /\ row.balance = BalanceBefore(row, Len(row.log) + 1)

\* Reading the account log from the opening balance replays every balance the
\* account ever had and ends at the stored one: no balance moves without its
\* log row, and no log row shows a move the balance did not make.
LogReplaysBalance == \A a \in Accounts : ReplaysBalance(accounts[a])

\* What a log says transaction t moved, all its rows together.
Moved(log, t) ==
  SumFunctionOnSet([i \in 1..Len(log) |-> log[i].after - log[i].before],
                   {i \in 1..Len(log) : log[i].tx = t})

\* What a transaction row contributes to the balance of a.
Effect(x, a) == IF a \in Legs(x) THEN BalanceDelta(x, a) ELSE 0
Contribution(x, a) == IF Live(x) THEN Effect(x, a) ELSE 0

\* However often a transaction was edited, the log of every account sums to
\* what the row now says, and to nothing once it is deleted.  Payments of
\* reminders are left to PaymentLeavesNoTrace.
LogNetsToTransaction ==
  \A t \in TxIds, a \in Accounts :
    transactions[t].source \notin {"system", "reminder"} =>
      Moved(accounts[a].log, t) = Contribution(transactions[t], a)

\* The logs of the accounts no reminder payment ever adjusted.
Unadjusted(log, rows) ==
  \A i \in 1..Len(log) :
    log[i].tx # None /\ rows[log[i].tx].source # "reminder"

SumOfTransactions(rows, a) ==
  SumFunctionOnSet([t \in TxIds |-> Contribution(rows[t], a)], TxIds)

\* A balance is exactly what the transactions that were not deleted add up to,
\* the system row of the opening balance included, through every create, edit,
\* delete, batch, lending and repayment.
BalanceIsSumOfTransactions ==
  \A a \in Accounts : Unadjusted(accounts[a].log, transactions) =>
    accounts[a].balance = SumOfTransactions(transactions, a)

\* A deleted account is out of reach: no call that still names it, directly or
\* through a transaction, a reminder or a lending, moves its row or its log.
DeletedAccountsFrozen ==
  [][\A a \in Accounts :
       accounts[a].status = "deleted" => accounts'[a] = accounts[a]]_vars

-----------------------------------------------------------------------------
OfLending(x, l) == x.source = "lending" /\ x.link = l

RecordsLeft(records) == {i \in 1..Len(records) : Live(records[i])}

SumOfRecords(records) ==
  SumFunctionOnSet([i \in 1..Len(records) |-> records[i].amount],
                   RecordsLeft(records))

\* The records that are left of the repayments that moved money.
Tied(records) == {i \in RecordsLeft(records) : records[i].tx # None}

RepaymentsOf(l, row, rows) ==
  {t \in TxIds : /\ Live(rows[t])
                 /\ OfLending(rows[t], l)
                 /\ IsRepayment(row, rows[t])}

\* Row l of lendings against its records and the transaction rows.
RepaymentsMatch(l, row, rows) ==
  LET records == row.records IN
  /\ row.repaid = SumOfRecords(records)
  /\ {records[i].tx : i \in Tied(records)} = RepaymentsOf(l, row, rows)
  /\ \A i, j \in Tied(records) : records[i].tx = records[j].tx => i = j
  /\ \A i \in Tied(records) : records[i].amount = rows[records[i].tx].amount

\* total_repaid is the sum of the repayment records that are left, and those
\* that name a transaction stand one for one for the live repayments.
RepaidIsSumOfRecords ==
  \A l \in Lendings : RepaymentsMatch(l, lendings[l], transactions)

\* The transaction that paid the principal out or in has been deleted.
OriginDeleted(l, row, rows) ==
  \E t \in TxIds : /\ rows[t].status = "deleted"
                   /\ OfLending(rows[t], l)
                   /\ ~IsRepayment(row, rows[t])

AddsUp(l, row, rows) ==
  /\ row.balance >= 0 /\ row.repaid >= 0
  /\ row.balance + row.repaid <= row.principal
  /\ ~OriginDeleted(l, row, rows) => row.balance + row.repaid = row.principal
  /\ row.settled => row.balance = 0

\* Nothing is lent or repaid out of nothing: what is owed and what was repaid
\* add up to the principal until the origin is deleted and never exceed it
\* afterwards, neither is negative, and only a lending with nothing left to
\* repay is settled.
LendingAddsUp == \A l \in Lendings : AddsUp(l, lendings[l], transactions)

\* A settled lending opens again only when one of its repayments is deleted.
SettledReopensByDeletion ==
  [][\A l \in Lendings :
       lendings[l].settled /\ ~lendings'[l].settled =>
         \E t \in TxIds :
           /\ Live(transactions[t]) /\ ~Live(transactions'[t])
           /\ OfLending(transactions[t], l)
           /\ IsRepayment(lendings[l], transactions[t])]_vars

-----------------------------------------------------------------------------
PaymentsOf(r, rows) ==
  {t \in TxIds : /\ Live(rows[t])
                 /\ rows[t].source = "reminder"
                 /\ rows[t].link = r}

CoversPayments(r, row, rows) ==
  /\ row.totalPaid >=
       SumFunctionOnSet([t \in TxIds |-> rows[t].amount], PaymentsOf(r, rows))
  /\ row.interestPaid >=
       SumFunctionOnSet([t \in TxIds |-> rows[t].interest], PaymentsOf(r, rows))

\* A reminder's totals cover the payments that are left, so the floor at zero
\* of a rollback never swallows a payment that still counts.
TotalsCoverPayments ==
  \A r \in Reminders : CoversPayments(r, reminders[r], transactions)

\* A payment takes its principal, all of it, off a balance that can bear it;
\* paying the last cent, and nothing else, marks the reminder paid off.
PaymentTakesItsPrincipal ==
  [][\A r \in Reminders :
       LET old == reminders[r]
           new == reminders'[r]
           principal == (new.totalPaid - old.totalPaid)
                          - (new.interestPaid - old.interestPaid)
       IN new.totalPaid > old.totalPaid =>
            IF old.balance = None
            THEN new.balance = None /\ new.paidOff = old.paidOff
            ELSE /\ new.balance = old.balance - principal
                 /\ new.balance >= 0
                 /\ new.paidOff = (old.paidOff \/ new.balance = 0)]_vars

\* Deleting a payment's transaction takes back what recording it did, on every
\* account, as the comment on revertReminderPaymentTx says; on the one the
\* reminder was linked to then, too, if it is linked to another now.
PaymentLeavesNoTrace ==
  \A t \in TxIds, a \in Accounts :
    /\ transactions[t].source = "reminder"
    /\ transactions[t].status = "deleted"
    => Moved(accounts[a].log, t) = 0
=============================================================================
