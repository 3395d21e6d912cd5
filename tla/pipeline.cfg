SPECIFICATION FairSpec
CONSTANTS
  k1 = k1
  k2 = k2
  None = None
  Keys <- TwoKeys
  HealthChecks = TRUE
  RetryOnError = TRUE
  Retries = 1
  MaxChanges = 2
  MaxStack = 2
INVARIANTS
  Isolated
  ReleasedClean
PROPERTIES
  Returns
