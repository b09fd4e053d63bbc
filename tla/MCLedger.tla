------------------------------ MODULE MCLedger ------------------------------
(***************************************************************************)
(* Constants for TLC, and the parts of Next a run confines itself to.      *)
(***************************************************************************)
EXTENDS LedgerProperties

VARIABLE scenario  \* which part of the ledger a behaviour exercises

allVars == <<vars, scenario>>

NoneOrOverdraft == {0, -2}

\* Accounts and entries made by hand: two transactions of one or two cents.
EntryScenario ==
  /\ AccountNext \/ EntryNext \/ DeletionNext
  /\ \A t \in TxIds :
       /\ t > 2 => transactions'[t] = NoTransaction
       /\ transactions'[t].amount <= 2
  /\ \A a, b \in Accounts :
       /\ Len(accounts'[a].log) <= 4
       /\ a # b => Len(accounts'[a].log) + Len(accounts'[b].log) <= 5

\* Lendings and their transactions on one debt account.
LendingScenario ==
  \/ \E a \in DebtAccounts :
       \/ CreateAccount(a, 0)
       \/ \E isArchived \in BOOLEAN : ArchiveAccount(a, isArchived)
       \/ DeleteAccount(a)
  \/ DeletionNext
  \/ LendingNext

\* Reminders and their payments of one or two cents, two cents in
\* all; no entries made by hand.
ReminderScenario ==
  /\ \/ \E a \in Accounts : CreateAccount(a, 2) \/ DeleteAccount(a)
     \/ DeletionNext
     \/ ReminderNext
  /\ \A t \in TxIds :
       /\ t > 3 => transactions'[t] = NoTransaction
       /\ transactions'[t].amount <= 2
  /\ \A r \in Reminders : reminders'[r].totalPaid <= 2
  /\ \A a \in Accounts : Len(accounts'[a].log) <= 3

\* The ledger, one of these at a time.
ScenarioInit == Init /\ scenario \in {"entries", "lendings", "reminders"}

LedgerScenarios ==
  /\ ScenarioInit
  /\ [][ /\ UNCHANGED scenario
         /\ \/ scenario = "entries" /\ EntryScenario
            \/ scenario = "lendings" /\ LendingScenario
            \/ scenario = "reminders" /\ ReminderScenario ]_allVars

\* Payments of reminders of debts that may be linked to another debt meanwhile.
PaymentSpec ==
  /\ Init
  /\ scenario = "reminders"
  /\ [][ /\ UNCHANGED scenario
         /\ \/ \E a \in Accounts, opening \in OpeningBalances :
                 CreateAccount(a, opening)
            \/ DeletionNext
            \/ \E r \in Reminders :
                 \/ \E a \in DebtAccounts : CreateReminder(r, a, None)
                 \/ \E a \in DebtAccounts : UpdateReminder(r, a, None)
                 \/ \E amount \in Amounts : \E principal \in 0..amount :
                      \E source \in Accounts, t \in TxIds :
                        RecordPaymentFrom(r, source, amount, principal, t)
       ]_allVars
=============================================================================
