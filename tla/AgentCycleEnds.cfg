SPECIFICATION Spec
CONSTANTS
  MaxCycle = 1
  Voters = {v, w}
  Outsiders = {o}
  Elsewhere = {x}
  AutoStake = TRUE
  Threshold = 2
  StaleCycles = 1
  None = None
INVARIANTS OnlyStakingBeforeTheAttestation SlashedOnProvenVetoOnly
PROPERTY EveryAnsweredCycleEnds
CHECK_DEADLOCK FALSE
