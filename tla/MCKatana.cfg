CONSTANTS
  Doc <- MCDoc
  Body <- MCBody
  Starts <- MCStarts
  Call = {r, s}
  MaxIterations = 2
  MaxTakes = 3
  MaxHands = 1
  Place = {here, there}
  LastCode = 1
  LastPhase = 2
  Text = {a, b}
  Request = {r, s}
  Collaborators = TRUE
  MaxClock = 3
SPECIFICATION MCSpec
SYMMETRY Symmetry
INVARIANTS
  LowPassRestsOnItsScaffold
  FinishedPassedItsGates
  StoresAgree
PROPERTIES
  LoopsOnlyAdvance
  SyncSettles
CHECK_DEADLOCK FALSE
