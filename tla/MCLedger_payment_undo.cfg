SPECIFICATION PaymentSpec
CONSTANTS
  Accounts = {cash, card, loan}
  DebtAccounts = {card, loan}
  TxIds = {1, 2}
  Lendings = {}
  Reminders = {plan}
  Amounts = {1}
  OpeningBalances = {0, 1}
  MaxLog = 4
  MaxPaid = 3
  None = None
INVARIANT
  PaymentLeavesNoTrace
CHECK_DEADLOCK FALSE
