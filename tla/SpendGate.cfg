SPECIFICATION Spec
CONSTANTS
  Address = {owner, vault, agent}
  Owner = owner
  NoAddress = none
  Spenders = {vault, agent}
  Targets = {agent}
  GenesisTime = 1
  MaxTime = 5
  U64_MAX = 6
  DAY_MS = 2
  Limits <- MCTwoLimits
  Expiries = {0, 3}
  Amounts = {0, 1, 2}
INVARIANT SpentIsWhatWasCommitted
PROPERTIES EveryDayWithinLimit KillSwitchHolds
