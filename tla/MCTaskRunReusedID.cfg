SPECIFICATION Spec
CONSTANTS
  r1 = r1
  c1 = c1
  c2 = c2
  none = none
  RunIDs <- MC_Runs
  Clients <- MC_Clients
  None = none
  FreshIDs = FALSE
  MaxFailures = 1
  MaxCrashes = 0
INVARIANTS
  TerminalMeansExited
CHECK_DEADLOCK FALSE
