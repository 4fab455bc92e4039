SPECIFICATION Spec
CONSTANTS
  k1 = k1
  agent = agent
  custodian = custodian
  Address = {agent, custodian, vault}
  Callers = {agent, custodian}
  Voters = {custodian}
  Vault = vault
  Agent = agent
  Deployer = custodian
  Custodian = custodian
  NoAddress = none
  Spenders = {vault}
  GenesisTime = 1
  MaxTime = 1
  U64_MAX = 5
  DAY_MS = 2
  MIN_STALE_MS = 2
  MaxAges = {}
  Traded <- MCTraded
  U256_MAX = 2
  PRINCIPAL = 2
  Limits <- MCWideLimits
  Expiries = {0}
  Amounts = {1, 2}
  MIN_REPUTATION = 0
  Proofs = {}
  Deltas = {}
  I64_MAX = 1
  Key = {k1}
  AccountOf <- MCAccountOf
  Hash = {h1, h2}
  Auditors = {k1}
  Threshold = 2
  InstanceId = here
  Instances = {here}
  MinStake = 1
  Funds = 0
  Attachments = {}
INVARIANT MovedOnQuorum
