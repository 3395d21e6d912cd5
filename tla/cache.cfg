SPECIFICATION Spec
CONSTANTS
  t1 = t1
  t2 = t2
  c1 = c1
  c2 = c2
  k1 = k1
  k2 = k2
  None = None
  Threads <- OneThread
  Conns <- TwoConns
  Keys <- TwoKeys
  MaxSize = 1
  MaxChanges = 3
  MaxDrops = 1
  HealthChecks = TRUE
SYMMETRY Symmetry
INVARIANTS
  TypeOK
  ReadsItsReply
  FreshReads
  StaleIsAnnounced
CHECK_DEADLOCK FALSE
