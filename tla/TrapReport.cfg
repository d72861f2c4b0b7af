SPECIFICATION Spec
CONSTANTS
  o1 = o1
  o2 = o2
  o3 = o3
  NThreads = 2
  Objects <- MCObjects
  NoObject = NoObject
  WPs = 2
  MaxCalls = 5
  MaxFailures = 1
SYMMETRY Symmetry
INVARIANTS ReportRight TrapReported EventsStayOn
PROPERTY NothingWaived
CHECK_DEADLOCK FALSE
