SPECIFICATION Spec
CONSTANTS
  Width = 2
  LastTurn = 2
  MaxResets = 2
  Callers = {1, 2}
  Groups = {p1, p2}
  Gaps = {1, 2}
INVARIANTS SubmittedIsPolled
CHECK_DEADLOCK FALSE
