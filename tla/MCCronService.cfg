SPECIFICATION FairSpec
CONSTANTS
  j1 = j1
  c1 = c1
  t1 = t1
  t2 = t2
  Jobs <- MC_Jobs
  Schedules <- MC_Schedules
  Clients <- MC_Clients
  Tokens <- MC_Tokens
  Loop = loop
  Closer = closer
  None = none
  MaxTime = 2
  MaxEvents = 2
CHECK_DEADLOCK FALSE
INVARIANTS
  TypeOK
  OneAtATime
  WithinPolicy
  RestartLosesNothing
PROPERTIES
  EachSlotOnce
  NoUnwantedDelivery
  CloseReturns
