SPECIFICATION Spec
CONSTANTS
  Backend = "postgres"
  StoreFails = TRUE
  Users = {u1, u2}
  Sids = {s1, s2, s3}
  Requests = {r1, r2}
  None = None

INVARIANT LogoutEndsFamily
PROPERTY FamiliesSpec
