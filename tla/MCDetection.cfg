SPECIFICATION Spec
CONSTANTS
  None = None
  Users = {u1, u2}
  IPs = {i1, i2}
  Agents = {a1}
  Requests = {r1, r2}
  TargetAccounts = 2
  StuffingWindow = 2
  Cooldown = 1
  ScanLimit = 3
  HistorySize = 1
  AnomalyWindow = 1
  UserFailureVelocity = 1
  IPFailureVelocity = 2
  MaxConcurrentSessions = 1
  TokenReuseLookback = 1
  MaxLogins = 3
  MaxTime = 2
  MaxErrors = 1
  MaxDeletions = 1
SYMMETRY Symmetry
INVARIANTS SprayIsFlagged CooldownHolds DueIsSignalled
\* Nothing is left to do once the logins and the clock are at their bounds.
CHECK_DEADLOCK FALSE
