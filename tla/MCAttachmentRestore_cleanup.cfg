CONSTANTS
  MaxGen = 2
  Uploads = {f1}
  MaxFaults = 2
  MaxCrashes = 2
  None = None
SPECIFICATION Spec
PROPERTIES ObsoleteFilesAreRetried
CHECK_DEADLOCK FALSE
