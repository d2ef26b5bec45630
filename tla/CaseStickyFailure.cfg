SPECIFICATION Spec
CONSTANTS
  None = None
  Targets = {a, b}
  MaxRefresh = 2
  MaxReads = 4
  MaxVersion = 2
CHECK_DEADLOCK FALSE
INVARIANTS
  FailedMeansTheLastReadFailed
