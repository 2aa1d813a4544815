SPECIFICATION Spec
CONSTANTS
  Graphs <- LineCrash
  MaxSteps = 8
CHECK_DEADLOCK FALSE
INVARIANTS NothingRepeated
