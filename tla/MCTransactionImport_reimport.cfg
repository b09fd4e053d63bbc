CONSTANTS
  Files = {f1}
  Rows = {r1}
  Accounts = {r1}
  AccountOf <- RowAccounts
  MaxSessions = 2
  PreviewTTL = 1
  RollbackTTL = 1
  MaxTime = 1
  MaxBatches = 2
  MaxCommits = 2
  MaxRestores = 0
SPECIFICATION Spec
INVARIANTS OfferedRowsAreImportable
CHECK_DEADLOCK FALSE
