SPECIFICATION MigrationSpec
CONSTANTS
  Releases = {7}
  RowIds = {1}
  OldAmounts = {12345}
  Null = Null
  MaxOpenings = 1
  MaxFailures = 0
  MaxWrites = 0
INVARIANT
  UpgradesSucceed
CHECK_DEADLOCK FALSE
