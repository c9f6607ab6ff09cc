SPECIFICATION Spec
CONSTANTS
  Requests = {r1, r2}
  Passwords = {p1, p2}
  Threshold = 2
  LockoutDuration = 2
  MaxTime = 2
  MaxFailed = 5
  MaxChanges = 1
  MaxRows = 2
  Backend = "postgres"
  ForeignKeys = FALSE
  FailingCalls = {}
  None = None
SYMMETRY Symmetry
\* Nothing is left to do once the account is deleted.
CHECK_DEADLOCK FALSE
INVARIANT ChangeEndsSessions
