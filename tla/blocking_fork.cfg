SPECIFICATION Spec
CONSTANTS
  t1 = t1
  t2 = t2
  t3 = t3
  c1 = c1
  c2 = c2
  c3 = c3
  c4 = c4
  c5 = c5
  None = None
  Orphan = Orphan
  Threads <- ThreeThreads
  Conns <- FiveConns
  MaxConnections = 2
  MaxForks = 1
SYMMETRY Symmetry
INVARIANTS
  Exclusive
  NoSlotLost
  PoolSize
  ChildOwnsItsPool
PROPERTIES
  ImplementsPoolContract
