SPECIFICATION FairSpec
CONSTANTS
  Backend = "sqlite"
  StoreFails = FALSE
  Users = {u1, u2}
  Sids = {s1, s2, s3}
  Requests = {r1, r2}
  None = None

INVARIANTS OneLivePerFamily EndedFamiliesStayDead LoginLeavesNoOrphan
PROPERTY ReplayEndsFamily
