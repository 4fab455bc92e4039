SPECIFICATION ServicesSpec
CONSTANTS
  RESERVE_BUFFER = 3
  MIN_DELEGATION = 2
  MAX_STAKE = 4
  AMOUNT = 2
  PAYMENT = 1
  Opening = 9
  Advice = {1, 3}
  MaxRuns <- MCStakeTwice
  None = None
  NaN = NaN
  Request = {r1, r2, r3}
  Route = {"alpha", "reasoning"}
  PayTo <- MCPayTo
  Auth = {"first", "second", "third"}
  Payee <- MCPayee
  MaxHeight = 3
  MaxOpen = 2
  Caller = {c1, c2}
  TTL = 2
  MaxTime = 6
  Key = {agentKey, custodianKey, visitor}
  Roles = {agentKey, custodianKey}
  MaxChanges = 4
  MaxClients = 9
  Figures = {1, 2}
  Par = 1
  Split <- MCSplit
  Amounts = {2}
  Kept = 1
  MaxCycles = 2
  Contract = {vault, auditor}
  Window = 2
  MaxWire = 5
  MaxLosses = 2
  Package = {"vault", "auditor"}
  Foreign = "other"
  Calls <- MCCalls
  Known = {"vault", "auditor", None}
  Limit = 2
  McpPage = 1
  MaxDeploys = 4
  Wallet = {u, w}
  Outsider = {o}
  Decision = {d, e}
  Pending = d
  VoteThreshold = 2
  Byte = 3
  MaxPresses = 2
  MaxLoads = 2
  MaxCycle = 2
  InboxSize = 6
INVARIANTS SavedIsDelegated DeliveriesArePaid ShownWasReal AnswersAreRecent EveryClientIsIncluded LiveHidesNoLoss TrailHasNoGaps QuorumReachedIsTrue VotesBearTheirButton ConsoleShowsAttested
PROPERTIES RoleHoldersStay PaperFillsAreNeutral
CHECK_DEADLOCK FALSE
