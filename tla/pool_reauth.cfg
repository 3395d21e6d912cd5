SPECIFICATION FairSpec
CONSTANTS
  t1 = t1
  t2 = t2
  t3 = t3
  c1 = c1
  c2 = c2
  c3 = c3
  c4 = c4
  None = None
  Orphan = Orphan
  Threads <- TwoThreads
  Conns <- TwoConns
  MaxConnections = 1
  MaxForks = 0
  MaxTokens = 3
  ReleaseAuthFails = FALSE
INVARIANTS
  RenewalReaches
PROPERTIES
  ImplementsPoolContract
  LockIsReleased
