SPECIFICATION FairSpec
CONSTANTS
  t1 = t1
  t2 = t2
  A = A
  B = B
  C = C
  None = None
  Threads <- OneThread
  Nodes <- ThreeNodes
  Slots <- TwoSlots
  Layouts <- Resharding
  Dynamic = TRUE
  FullCoverage = FALSE
  Strategy = "round_robin"
  MaxDisagree = 0
  MaxFaults = 1
  RetryAttempts = 1
  ReinitSteps = 2
  TTL = 2
  Kinds = {"key", "default", "primaries"}
  Reads = {TRUE, FALSE}
  Given = {"default"}
  Pipelines <- OnePipeline
  Unroutable = TRUE
  Movable = {0}
INVARIANTS
  OnlyFailedRetried
  BoundedEffects
  NothingHeld
PROPERTIES
  Terminates
