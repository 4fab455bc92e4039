SPECIFICATION Spec
CONSTANTS
  k1 = k1
  k2 = k2
  a1 = a1
  a2 = a2
  Address = {a1, a2}
  Key = {k1, k2}
  AccountOf <- MCAccountOf
  Hash = {h}
  Auditors = {k1, k2}
  Threshold = 3
  InstanceId = here
  Instances = {here, other}
  Slasher = a2
  MinStake = 2
  Funds = 2
  Attachments = {1, 2}
INVARIANTS TallyIsExact OnlySignedApprovalsCount ApprovedByHalf BondsAreBacked
