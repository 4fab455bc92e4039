SPECIFICATION RegistersSpec
CONSTANTS
  Address = {custodian, other, timelock, agent}
  Custodian = custodian
  Timelock = timelock
  Callers = {custodian, other}
  GenesisTime = 1
  MaxTime = 5
  U64_MAX = 6
  DELAY_MS = 2
  Thresholds = {6, 7}
  Values = {1, 2}
  Key = {agentKey, auditorKey}
  AgentKey = agentKey
  Hash = {h1, h2}
  Verdict = {rebalance, hold}
  None = none
  Issuer = custodian
  Agents = {agent, other}
  Credential = {y1, y2, y3}
  NoCredential = noCredential
  Authority = custodian
  Payers = {agent, other}
  Payments = {p1, p2, p3}
  Deltas <- MCDeltas
  I64_MAX = 3
  Principal = 2
  Value = {1}
  Decision = {d}
  Order <- MCOrder
  Others <- MCOthers
  MaxTotal = 4
  MaxClaim = 5
INVARIANTS VerifiedForTheLatestCredential OnePointPerPayment ProvenStaysBacked
PROPERTIES ChangesAreAnnounced
