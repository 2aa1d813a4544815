SPECIFICATION Spec
CONSTANTS
  Graphs <- JoinBreak
  MaxSteps = 8
CHECK_DEADLOCK FALSE
INVARIANTS JoinRunsOnce
