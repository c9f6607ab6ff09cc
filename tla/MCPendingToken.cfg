SPECIFICATION TokensSpec
CONSTANTS
  Subjects = {"u1"}
  Secrets = {"s1"}
  HostClaims = {{}, {"role"}}
  TTLs = {3}
  PendingTTL = 4
  Second = 2
  MaxClock = 3
  MaxTokens = 1
INVARIANT PendingIsNoAccessToken
