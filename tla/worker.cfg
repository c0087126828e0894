SPECIFICATION Spec
CONSTANTS
  RetryLimit = 2
  Prompts = 2
  MaxResets = 1
INVARIANTS TypeOK RefusedOnlyWhenStopped OutcomeMatchesState SentOnce AnswerIsOfThisPrompt
PROPERTY WorkEnds
CHECK_DEADLOCK FALSE
