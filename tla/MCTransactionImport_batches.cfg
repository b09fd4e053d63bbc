CONSTANTS
  Files = {f1, f2}
  Rows = {r1, r2}
  Accounts = {r1, r2}
  AccountOf <- RowAccounts
  MaxSessions = 2
  PreviewTTL = 1
  RollbackTTL = 1
  MaxTime = 1
  MaxBatches = 3
  MaxCommits = 2
  MaxRestores = 1
SYMMETRY ImportSymmetry
SPECIFICATION Spec
INVARIANTS NoRowImportedTwice RollbackIsAllOrNothing
PROPERTIES UndoWindowIsKept CommitLosesNoRow
CHECK_DEADLOCK FALSE
