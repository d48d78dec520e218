CONSTANTS
  Setting <- MCSetting
  Character <- MCCharacter
  DenyTools <- MCDenyTools
  AllowTools <- MCAllowTools
  Texts <- MCTexts
  MaxEvents = 1
  MaxAsks = 2
  s1 = s1
  r1 = r1
  p1 = p1
  p2 = p2
  Calls = 3
  Wording <- MCWording
  Asks <- RoleAsks
  Cases <- RoleCases
  RoleRuns = 2
  Named <- MCNamed
  Reason <- MCReason
  Primitive <- MCPrimitive
  Stories <- MCStories
  ProofRuns = 2
SPECIFICATION MCSpec
INVARIANTS
  SupervisorAgrees
  RulesAreHonoured
  NoOverlapUnnoticed
  JudgmentsAreOnRecord
  ProducedIsSunk
  ReviewIsNotLost
  ExitTellsTheFile
  SummaryTellsTheRun
PROPERTIES
  ParkedBeforeRecorded
CHECK_DEADLOCK FALSE
