CONSTANTS
  ReportRequests = {q1}
  Scheduler = scheduler
  Kinds = {weekly, monthly}
  MaxConcurrent = 1
  MaxReportAttempts = 2
  MaxReportDay = 1
  MaxReports = 2
  MaxVersion = 1
  MaxRestarts = 1
  Callers = {c1, c2}
  Collector = collector
  Rows = {r1}
  Profile = profile
  Names = {n1}
  Grace = 1
  MaxDay = 2
  MaxUploads = 2
  MaxRequests = 3
  MaxBreaks = 1
  Logins = {l1, l2}
  Addresses = {a1, a2}
  Accounts = {admin}
  MaxLoginAttempts = 2
  Window = 2
  LockDuration = 3
  MaxEntries = 1
  RequestLimit = 2
  RequestWindow = 2
  EndOfTime = 5
  MaxLogins = 4
SPECIFICATION PlatformSpec
INVARIANTS
  GenerationsAreCounted AnswersAreFresh OneAutomaticRunPerDay
  AttachmentRowsHaveFiles LimitsHold
PROPERTIES
  CompleteFilesStay LocksHold PlatformWorkEnds
CHECK_DEADLOCK FALSE
