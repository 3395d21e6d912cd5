SPECIFICATION Spec
CONSTANT MaxGiven = 3
INVARIANTS
  
  KeysDeclared
  SplitAnswersAlike
  OverflowAsAsked
CHECK_DEADLOCK FALSE
