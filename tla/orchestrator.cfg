CONSTANTS
  Count = 2
  Total = 3
  LastWidth = 2
  Turns = 1
  SessionLength = 2
  RetryLimit = 1
  SaveMayFail = FALSE
  MaxStarts = 2
SPECIFICATION Spec
INVARIANTS TypeOK CheckpointUpToDate
PROPERTIES LedgerKept
CHECK_DEADLOCK FALSE
