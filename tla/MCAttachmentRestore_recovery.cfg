CONSTANTS
  MaxGen = 3
  Uploads = {f1, f2}
  MaxFaults = 2
  MaxCrashes = 2
  None = None
SPECIFICATION FairSpec
INVARIANTS ServedFilesMatchDatabase RecoveryCanGoForward AckedUploadsStay
PROPERTIES ServerComesBack
CHECK_DEADLOCK FALSE
