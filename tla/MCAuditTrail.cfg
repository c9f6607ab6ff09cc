SPECIFICATION Spec
CONSTANTS
  Requests = {r1, r2}
  Others <- MCOthers
  HostType = "host_event"
  Backends = {"sqlite", "memory"}
  Sinces = {0, 1}
  Threshold = 1
  LockoutDuration = 2
  HighlightLimit = 1
  HistoryLimit = 2
  MinLocked = 1
  MinSuccesses = 1
  None = None
  Loads <- MCLoads
  MaxClock = 2
  MaxEvents = 2
SYMMETRY MCSymmetry
INVARIANTS
  NoticeFollowsRow
  DigestAddsUp
  DigestsMissOnlyInFlight
PROPERTIES LockIsExplained
\* Once the bounds are reached nothing more happens.
CHECK_DEADLOCK FALSE
