SPECIFICATION Spec
CONSTANTS
  Requests = {r1, r2, r3}
  Passwords = {p1, p2}
  Threshold = 2
  LockoutDuration = 2
  MaxTime = 2
  MaxFailed = 5
  MaxChanges = 1
  MaxRows = 2
  Backend = "postgres"
  ForeignKeys = FALSE
  FailingCalls = {"failed", "reset", "rehash", "create", "rotate", "update", "delete_revoke", "delete_commit", "delete"}
  None = None
SYMMETRY Symmetry
\* Nothing is left to do once the account is deleted.
CHECK_DEADLOCK FALSE
INVARIANTS ThresholdLocks BurstBounded NoSessionOutlivesChange DeletedAccountHasNoSessions
PROPERTIES LockYieldsOnlyToOlder PasswordYieldsOnlyToOlder
