SPECIFICATION Spec
CONSTANTS
  Slides = {a, b}
  Required = 2
  MaxRetries = 1
  Timeout = 8
  MaxParts = 2
SYMMETRY Symmetry
INVARIANTS TypeOK StableWhenReturned AnswerIsFinished PartialIsFinal
CHECK_DEADLOCK FALSE
