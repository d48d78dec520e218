CONSTANTS
  StallAfter = 3
  InterruptTimeout = 2
  InterruptHangs = FALSE
  MaxMessages = 2
  r0 = r0
  r1 = r1
  r2 = r2
  r3 = r3
  r4 = r4
  r5 = r5
  d1 = d1
  d2 = d2
  s1 = s1
  s2 = s2
  s3 = s3
  s4 = s4
  s5 = s5
  s6 = s6
  default = default
  none = none
  Revision <- MCRevision
  Definition <- MCDefinition
  Session <- MCSession
  DefaultId = default
  None = none
SPECIFICATION MCSpec
INVARIANTS
  AnswersReachTheirQuestion
  WaitingClientIsWoken
PROPERTIES
  StalledMeansQuiet
  InterruptedSessionsEnd
  RunsEnd
  TasksReachAnOutcome
  ValidationsEnd
CHECK_DEADLOCK FALSE
