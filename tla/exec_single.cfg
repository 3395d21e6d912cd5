SPECIFICATION FairSpec
CONSTANTS
  t1 = t1
  t2 = t2
  None = None
  Threads <- TwoThreads
  MaxCalls = 1
  Retries = 1
  RetryOn <- TimeoutOnly
  HealthChecks = TRUE
  Pooled = FALSE
  Interrupts = TRUE
INVARIANTS
  BoundedEffects
PROPERTIES
  Terminates
CHECK_DEADLOCK FALSE
