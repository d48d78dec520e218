CONSTANTS
  r0 = r0
  r1 = r1
  r2 = r2
  r3 = r3
  r4 = r4
  r5 = r5
  d1 = d1
  d2 = d2
  s1 = s1
  s2 = s2
  s3 = s3
  s4 = s4
  s5 = s5
  s6 = s6
  default = default
  none = none
  Revision <- MCRevision
  Definition <- MCDefinition
  Session <- MCSession
  DefaultId = default
  None = none
  Child = {1, 2, 3}
  Planned = {1, 2}
  Target = {0}
  MaxConcurrency = 2
  MaxRetries = 1
  EventBudget = TRUE
  MaxEdits = 1
  MaxCrashes = 1
SPECIFICATION Spec
CONSTRAINT OneAtATime
INVARIANTS
  ActiveWorkersRunning
  ParentDoneOverDoneChildren
  ReportedDoneIsDone
  NoChildIsLost
  ConcurrencyIsBounded
