SPECIFICATION Spec
CONSTANTS
  Graphs <- BothAsk
  MaxSteps = 8
CHECK_DEADLOCK FALSE
INVARIANTS NothingLost
