SPECIFICATION EntryFilesSpec
CONSTANTS
  Tenants = {u1, u2}
  Ids = {"a", "r", "t"}
  KindOf <- OneRowPerTable
  Blobs = {b1}
  Mails = {m1, m2}
  NoMail = nomail
  MaxArchives = 2
  MaxRestores = 2
  MaxProfiles = 2
INVARIANT BackupsAreRestorable
CHECK_DEADLOCK FALSE
