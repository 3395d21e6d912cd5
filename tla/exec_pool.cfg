SPECIFICATION Spec
CONSTANTS
  t1 = t1
  t2 = t2
  None = None
  Threads <- TwoThreads
  MaxCalls = 2
  Retries = 1
  RetryOn <- AllErrors
  HealthChecks = TRUE
  Pooled = TRUE
  Interrupts = FALSE
SYMMETRY Symmetry
INVARIANTS
  ReplyIsMine
  IdleIsClean
  OneInFlight
PROPERTIES
  ImplementsRemoteCall
CHECK_DEADLOCK FALSE
