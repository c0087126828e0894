CONSTANTS
  Count = 2
  Total = 2
  LastWidth = 1
  Turns = 1
  SessionLength = 1
  RetryLimit = 1
  SaveMayFail = TRUE
  MaxStarts = 3
SPECIFICATION Spec
INVARIANTS NoPromptSkipped AllResumable
PROPERTIES RecordedKept
CHECK_DEADLOCK FALSE
