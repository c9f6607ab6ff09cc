SPECIFICATION Spec
CONSTANTS
  Backend = "postgres"
  StoreFails = FALSE
  Users = {u1}
  Sids = {s1, s2, s3}
  Requests = {r1, r2}
  None = None
SYMMETRY Symmetry
INVARIANT ReuseEndsFamily
