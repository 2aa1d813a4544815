SPECIFICATION FairSpec
CONSTANTS
  Graphs <- Chains
  Again <- Chains
  MaxSteps = 6
  MaxConcurrency = 2
CHECK_DEADLOCK FALSE
PROPERTIES ExecutionEnds
