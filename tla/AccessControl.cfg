SPECIFICATION Spec
CONSTANTS
  c1 = c1
  c2 = c2
  Clients <- Callers
  MaxKeys = 4
  Offsets <- ClientClocks
  Skew = 2
  Asked = {0, 1}
  MaxExpiry = 1
  DefaultExpiry = 1
  RootSecrets <- Configured
  UserSecrets = {0}
  Rps = 1
  Second = 2
  MaxCalls = 2
  MaxClock = 3
  MaxRestarts = 1
  Ttl = 1
  FetchTimeout = 1
  TokenLives = {1}
  MaxChanges = 1
  None = None
SYMMETRY Swap
INVARIANTS TypeOK AuthenticatesRightly OwnerKeepsKey RateBounded LoginsCurrent
CHECK_DEADLOCK FALSE
