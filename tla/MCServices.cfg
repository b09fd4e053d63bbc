CONSTANTS
  Users = {u1, u2}
  Triggers = {q1}
  Timer = timer
  HoursPerDay = 2
  DaysPerWeek = 2
  DaysPerMonth = 2
  KeepLimits = {1}
  DefaultKeep = 1
  MaxHour = 4
  MaxRuns = 2
  MaxFaults = 1
  MaxEdits = 1
  Owners = {u1}
  Channels = {robot, mail}
  Robots = {robot}
  Items <- OneOfEach
  MonthLengths <- ShortMonths
  MonthsPerYear = 2
  Advances = {1}
  LastDay = 2
  MaxMishaps = 1
  MaxChanges = 1
  CredentialKeys = {k1, k2}
  Values = {v1, v2}
  SettingRequests = {q1, q2}
  None = none
  Plain = plain
  MaxStarts = 2
  MaxUpdates = 2
  Tenants = {u1, u2}
  Ids = {"a", "r", "t"}
  KindOf <- OneRowPerTable
  Blobs = {b1}
  Mails = {m1, m2}
  NoMail = nomail
  MaxArchives = 2
  MaxRestores = 2
  MaxProfiles = 2
  Releases = {0, 7, 10, 12}
  RowIds = {1}
  OldAmounts <- TwoAmounts
  Null = null
  MaxOpenings = 2
  MaxFailures = 1
  MaxWrites = 1
SPECIFICATION ServiceSpec
INVARIANTS
  NoPartialRun NoticesAreAccounted
  CredentialsAreKept LastKeysStillOpen LedgerIsWhole AmountsAreCarriedOver
PROPERTIES
  KeepsContract BackgroundWorkEnds
  RestoreGivesBack MailIsNotRedirected
CHECK_DEADLOCK FALSE
