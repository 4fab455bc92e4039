SPECIFICATION Spec
CONSTANTS
  Scripts <- MCSeeding
  MaxRuns = 2
PROPERTY RecordedStepsAreSkipped
CHECK_DEADLOCK FALSE
