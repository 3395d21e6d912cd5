SPECIFICATION FairSpec
CONSTANTS
  c1 = c1
  c2 = c2
  Channels <- TwoChannels
  MaxCalls = 4
  MaxDrops = 2
  MaxReplies = 4
CHECK_DEADLOCK FALSE
\* NeverWaitsForItself in place of all that follows is refuted.
INVARIANTS
  InSync
  FlagMatches
PROPERTIES
  Recovers
