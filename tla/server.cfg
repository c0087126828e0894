SPECIFICATION Spec
CONSTANTS
  e1 = e1
  e2 = e2
  h = h
  a = a
  b = b
  L = L
  Executions = {e1, e2}
  Handler = h
  Calls <- MCCalls
  RunIds = {a, b}
  Layouts = {L}
  NoLayout = NoLayout
  None = None
  Default = Default
  Requests <- MCRequests
  Monitors <- MCMonitors
  Margin = 10
  Border = 7
  MinWidth = 400
  MinHeight = 300
INVARIANTS TypeOK TilesApart ReservedWhileLive CloseAllClears
PROPERTIES HandlerReturns
CHECK_DEADLOCK FALSE
