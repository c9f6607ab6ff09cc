SPECIFICATION Spec
CONSTANTS
  Uids = {u1}
  Emails = {e1, e2}
  Externals = {x1}
  Tids = {t1}
  Requests = {r1, r2}
  MagicLinkTTL = 0
  ChangeEmailTokenTTL = 0
  MaxTime = 1
  MaxUnmarked = 1
  Backend = "sqlite"
  StoreFails = FALSE
  None = None
SYMMETRY Symmetry
\* Nothing is left to write once every address, identity and link is used up.
CHECK_DEADLOCK FALSE
INVARIANT MagicLinkSingleUse
