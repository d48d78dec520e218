CONSTANTS
  body = body
  old = old
  mine = mine
  none = none
  norequest = norequest
  Body <- body
  Content <- MCContent
  NoContent <- none
  MaxHooks = 2
  Repos <- UpgradeRepos
  Request <- UpgradeRequest
  NoRequest <- norequest
  MaxRuns = 1
  MaxEdits = 1
SPECIFICATION Spec

PROPERTIES
  EditedRegionIsKept
CHECK_DEADLOCK FALSE
