SPECIFICATION Spec
CONSTANTS
  k1 = k1
  agent = agent
  custodian = custodian
  Address = {agent, custodian, vault}
  Callers = {agent, custodian}
  Voters = {custodian}
  Vault = vault
  Agent = agent
  Deployer = custodian
  Custodian = custodian
  NoAddress = none
  Spenders = {vault, agent}
  GenesisTime = 1
  MaxTime = 3
  U64_MAX = 5
  DAY_MS = 2
  MIN_STALE_MS = 2
  MaxAges = {1, 2, 5}
  Traded <- MCTraded
  U256_MAX = 2
  PRINCIPAL = 2
  Limits <- MCLimits
  Expiries = {0}
  Amounts = {1}
  MIN_REPUTATION = 0
  Proofs = {}
  Deltas <- MCDeltas
  I64_MAX = 1
  Key = {k1}
  AccountOf <- MCAccountOf
  Hash = {h}
  Auditors = {}
  Threshold = 1
  InstanceId = here
  Instances = {here}
  MinStake = 1
  Funds = 0
  Attachments = {}
INVARIANTS ValueConserved PrincipalProtected
PROPERTIES MovesWithinDailyLimit ActiveAgentNotFrozen KeepsCustodyPromise
