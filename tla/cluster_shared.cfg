SPECIFICATION FairSpec
CONSTANTS
  t1 = t1
  t2 = t2
  A = A
  B = B
  C = C
  None = None
  Threads <- TwoThreads
  Nodes <- TwoNodes
  Slots <- OneSlot
  Layouts <- Short
  Dynamic = TRUE
  FullCoverage = FALSE
  Strategy = "round_robin"
  MaxDisagree = 0
  MaxFaults = 1
  RetryAttempts = 0
  ReinitSteps = 0
  TTL = 2
  Kinds = {"key"}
  Reads = {FALSE}
  Given = {}
  Pipelines <- NoPipeline
  Unroutable = FALSE
  Movable = {}
PROPERTIES
  Converges
