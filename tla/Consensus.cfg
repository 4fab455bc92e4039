SPECIFICATION ConsensusSpec
CONSTANTS
  Panel = {m1, m2, m3, m4}
  Named = {"Gold", "TBond", "WTI", "CSPR", "Silver"}
  Pairs <- MCPairs
  Sizes <- MCSizes
  Confidences = {700, 1500}
  Readings <- MCReadings
  Waiting = Waiting
  Failed = Failed
  Unreadable = Unreadable
  Undecided = Undecided
INVARIANTS MajorityBacksTheMove OutlierAmongThreeIsHarmless GuardedMovesAreAdmissible
SYMMETRY MCSymmetry
