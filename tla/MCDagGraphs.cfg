SPECIFICATION FairSpec
CONSTANTS
  Graphs <- AllGraphs
  Again <- Singles
  MaxSteps = 12
  MaxConcurrency = 2
CHECK_DEADLOCK FALSE
INVARIANTS TypeOK OneTaskPerNode InFlightReported NoneLeftBehind NothingLost NothingRepeated
PROPERTIES ExecutionEnds WorkflowEnds
