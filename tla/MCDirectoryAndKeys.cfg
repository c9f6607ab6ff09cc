SPECIFICATION MCSpec
CONSTANTS
  Uids = {u1, u2}
  Emails = {e1, e2, e3}
  Externals = {x1}
  Tids = {t1, t2}
  Requests = {r1, r2}
  MagicLinkTTL = 0
  ChangeEmailTokenTTL = 0
  MaxTime = 1
  MaxUnmarked = 1
  Backend = "postgres"
  StoreFails = TRUE
  None = None
  KeyStores = {"postgres", "sqlite_nofk", "memory"}
  KeyStoreFails = TRUE
  Owners = {u1, u2}
  Kids = {t1, t2}
  KeyRequests = {r1, r2}
  TTLs = {0, 1}
  Granularity = 1
  MaxClock = 2
  Absent = Absent
SYMMETRY MCSymmetry
INVARIANTS EmailsUnique RedemptionsBounded PasswordlessHasIdentity LastUsedTracksUse
PROPERTIES KeepsAddressBook StoppedIsRefused
\* Nothing is left to do once every address, identity and link is used up, or
\* the owners of the keys are deleted.
CHECK_DEADLOCK FALSE
