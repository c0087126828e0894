CONSTANTS
  Count = 1
  Total = 2
  LastWidth = 1
  Turns = 1
  SessionLength = 1
  RetryLimit = 1
  SaveMayFail = FALSE
  MaxStarts = 2
SPECIFICATION Spec
INVARIANTS InterruptedBatchIsResumed
CHECK_DEADLOCK FALSE
