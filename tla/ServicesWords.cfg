SPECIFICATION ServicesSpec
CONSTANTS
  RESERVE_BUFFER = 3
  MIN_DELEGATION = 2
  MAX_STAKE = 4
  AMOUNT = 2
  PAYMENT = 1
  Opening = 6
  Advice = {2}
  MaxRuns <- MCOnce
  None = None
  NaN = NaN
  Request = {r1}
  Route = {"alpha", "reasoning"}
  PayTo <- MCPayTo
  Auth = {"first", "second", "third"}
  Payee <- MCPayee
  MaxHeight = 2
  MaxOpen = 1
  Caller = {c1}
  TTL = 1
  MaxTime = 1
  Key = {visitor}
  Roles = {}
  MaxChanges = 1
  MaxClients = 1
  Figures = {1}
  Par = 1
  Split <- MCSplit
  Amounts = {1}
  Kept = 1
  MaxCycles = 1
  Contract = {vault}
  Window = 1
  MaxWire = 3
  MaxLosses = 1
  Package = {"vault", "auditor"}
  Foreign = "other"
  Calls <- MCAllCalls
  Known = {"vault", "auditor", None}
  Limit = 1
  McpPage = 1
  MaxDeploys = 3
  Wallet = {u, w}
  Outsider = {o}
  Decision = {d}
  Pending = d
  VoteThreshold = 3
  Byte = 2
  MaxPresses = 1
  MaxLoads = 2
  MaxCycle = 2
  InboxSize = 6
INVARIANTS CycleStakingIsAttested NothingWrongIsShown PricesWereQuoted SavedWereValued LiveListensToAll LiveIsConnected EveryRefusalIsListed NoDeploysMeansNone RefusalsAreCaughtClaims OthersAreNotOurs ReachedAtAnyThreshold DecidingVoteDecides ShownForTheConnectedKey ShownIsAttested VerdictIsOfTheDecision EscalatedAreInTheInbox
PROPERTY BufferStaysLiquid
CHECK_DEADLOCK FALSE
