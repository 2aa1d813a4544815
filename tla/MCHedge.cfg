CONSTANTS
  N = 3
  Streams <- MCStreams
  Hung <- MCHung

SPECIFICATION Spec

INVARIANTS TypeOK ActiveIsExact
PROPERTIES ImplementsFirstAnswer AnswerArrives LosersLeave RunEnds
CHECK_DEADLOCK FALSE
