SPECIFICATION Spec
CONSTANTS
  MaxCycle = 2
  Voters = {v}
  Outsiders = {}
  Elsewhere = {x}
  AutoStake = FALSE
  Threshold = 1
  StaleCycles = 3
  None = None
INVARIANTS MovesWereCleared CreditsAreExecutedOnce
CHECK_DEADLOCK FALSE
