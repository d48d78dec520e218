CONSTANTS
  a = a
  r0 = r0
  r1 = r1
  r2 = r2
  r3 = r3
  r4 = r4
  r5 = r5
  d1 = d1
  d2 = d2
  s1 = s1
  s2 = s2
  s3 = s3
  default = default
  none = none
  Task <- MCTask
  Revision <- MCRevision
  Definition <- MCDefinition
  Session <- MCSession
  DefaultId = default
  None = none
  MaxRetries = 1
  EventBudget = TRUE
  MaxEdits = 2
  MaxCrashes = 1
SPECIFICATION Spec
INVARIANTS
  OneActiveNode
  RunningHasSession
  SupersededKeepsWorkProduct
  CheckpointReachesFixpoint
