SPECIFICATION Spec
CONSTANTS
  t1 = t1
  t2 = t2
  t3 = t3
  c1 = c1
  c2 = c2
  c3 = c3
  c4 = c4
  None = None
  Orphan = Orphan
  Threads <- TwoThreads
  Conns <- FourConns
  MaxConnections = 2
  MaxForks = 1
  MaxTokens = 1
  ReleaseAuthFails = TRUE
SYMMETRY Symmetry
INVARIANTS
  Exclusive
  HandedOutHere
  Accounted
PROPERTIES
  ImplementsPoolContract
CHECK_DEADLOCK FALSE
