SPECIFICATION Spec
CONSTANTS
  Graphs <- ChosenCrash
  MaxSteps = 8
CHECK_DEADLOCK FALSE
INVARIANTS NothingLost
