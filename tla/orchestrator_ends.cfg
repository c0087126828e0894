CONSTANTS
  Count = 2
  Total = 2
  LastWidth = 2
  Turns = 1
  SessionLength = 1
  RetryLimit = 2
  SaveMayFail = FALSE
  MaxStarts = 1
SPECIFICATION FairSpec
PROPERTIES RunEnds StopEnds
CHECK_DEADLOCK FALSE
