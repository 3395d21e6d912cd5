SPECIFICATION FairSpec
CONSTANTS
  t1 = t1
  t2 = t2
  None = None
  Unset = Unset
  Threads <- TwoThreads
  Creator = t1
  ThreadLocal = TRUE
  Timeout = 2
  Additions <- OneMore
  Resends = TRUE
  MaxAcquires <- TwiceAndOnce
  MaxTTL = 2
  MaxStray = 1
INVARIANTS
  LeaseHonoured
  TTLCoversPromise
PROPERTIES
  AbandonedExpires
