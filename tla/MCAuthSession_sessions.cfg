CONSTANTS
  Clients = {c1, c2, c3}
  Passwords = {old, new}
  MaxFailures = 2
  LockPeriod = 2
  RefreshLife = 1
  MaxTime = 3
  MaxTokens = 4
  MaxHashes = 3
SYMMETRY ClientSymmetry
SPECIFICATION ScenarioSpec
INVARIANTS OneRowPerSession SessionsHaveCurrentPassword NoTokenExchangedTwice RevokedFamiliesStayDead GuessesAreBounded
PROPERTY PasswordChangesAreProven
