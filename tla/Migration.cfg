SPECIFICATION Spec
CONSTANTS
  Scripts <- MCScripts
  MaxRuns = 3
INVARIANTS OnFileIsOnChain StopsRepeatOneStepEach RefusedMovesOnlyAfterAStop
CHECK_DEADLOCK FALSE
