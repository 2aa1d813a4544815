SPECIFICATION FairSpec
CONSTANTS
  r1 = r1
  c1 = c1
  c2 = c2
  none = none
  RunIDs <- MC_Runs
  Clients <- MC_Clients
  None = none
  FreshIDs = TRUE
  MaxFailures = 1
  MaxCrashes = 1
INVARIANTS
  TypeOK
  TerminalMeansExited
  ObservedTerminalIsDurable
  FinalizedOnce
  CancelSticks
PROPERTIES
  TerminalIsFinal
  StoredTerminalIsFinal
  WaitReturns
  CloseReturns
CHECK_DEADLOCK FALSE
