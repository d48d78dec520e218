CONSTANTS
  opA = opA
  opB = opB
  n1 = n1
  n2 = n2
  r1 = r1
  r2 = r2
  t1 = t1
  t2 = t2
  d1 = d1
  d2 = d2
  Event <- MCEvent
  Wide <- MCWide
  NoEvent = none
  ShortWrites = FALSE
  MaxLines = 4
  NodeId <- MCNodeId
  Ref <- MCRef
  MaxEvents = 4
  Title <- MCTitle
  Definition <- MCDefinition
  FirstLine <- MCFirstLine
  None = none
  MaxTasks = 2
  MaxEdits = 1
SYMMETRY MCSymmetry
SPECIFICATION MCSpec
INVARIANTS
  PromisedIsDurable
  LoadFailsOnlyOnDanglingEvents
  HistorySurvivesUpserts
PROPERTIES
  ImplementsDurableLog
  CallsChangeOneTask
CHECK_DEADLOCK FALSE
