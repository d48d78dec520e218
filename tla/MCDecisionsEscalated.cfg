SPECIFICATION Spec
CONSTANTS
  Setting <- MCSetting
  Character <- MCCharacter
  DenyTools <- MCDenyTools
  AllowTools <- MCAllowTools
  Texts <- MCTexts
  MaxEvents = 1
  MaxAsks = 2
INVARIANTS
  EscalationsWait
CHECK_DEADLOCK FALSE
