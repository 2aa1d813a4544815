SPECIFICATION FairSpec
CONSTANTS
  Graphs <- AllGraphs
  MaxSteps = 8
CHECK_DEADLOCK FALSE
INVARIANTS TypeOK NothingLost NothingRepeated JoinRunsOnce CompletedOnce
PROPERTIES WorkflowEnds
