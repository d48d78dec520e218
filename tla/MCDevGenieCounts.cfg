CONSTANTS
  body = body
  old = old
  mine = mine
  none = none
  norequest = norequest
  Body <- body
  Content <- MCContent
  NoContent <- none
  MaxHooks = 2
  Repos <- MCRepos
  Request <- MCRequest
  NoRequest <- norequest
  MaxRuns = 3
  MaxEdits = 1
  Rule <- RuleName
  Option <- OptionName
  Script <- ScriptName
  CriticalKey <- MCCritical
  OptionalKey <- MCOptional
  Order <- ApplyOrder
  ApplyRepos <- MCApplyRepos
  ApplyRuns = 2
  ApplyEdits = 1
SPECIFICATION MCSpec
INVARIANTS
  CountsAddUp
CHECK_DEADLOCK FALSE
