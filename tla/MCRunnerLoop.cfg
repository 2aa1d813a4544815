CONSTANTS
  MaxMessages = 2
  Cap = 1
  Shown <- MCShown
  MaxRounds = 2
  MaxTrouble = 1

SPECIFICATION Spec

INVARIANTS TypeOK StepSeesHistory
PROPERTIES ImplementsTranscript RunEnds
CHECK_DEADLOCK FALSE
