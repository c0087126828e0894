CONSTANTS
  Count = 2
  Total = 1
  LastWidth = 2
  Turns = 3
  SessionLength = 1
  RetryLimit = 1
  SaveMayFail = TRUE
  MaxStarts = 2
SPECIFICATION FairSpec
INVARIANTS NoPromptSkipped
PROPERTIES RunEnds
CHECK_DEADLOCK FALSE
