SPECIFICATION LedgerScenarios
CONSTANTS
  Accounts = {cash, card}
  DebtAccounts = {card}
  TxIds = {1, 2, 3, 4}
  Lendings = {loan}
  Reminders = {plan}
  Amounts = {1, 2, 3}
  OpeningBalances <- NoneOrOverdraft
  MaxLog = 6
  MaxPaid = 3
  None = None
INVARIANTS
  LogReplaysBalance
  LogNetsToTransaction
  BalanceIsSumOfTransactions
  RepaidIsSumOfRecords
  LendingAddsUp
  TotalsCoverPayments
PROPERTIES
  DeletedAccountsFrozen
  SettledReopensByDeletion
CHECK_DEADLOCK FALSE
