SPECIFICATION Spec
CONSTANTS
  Reviewers = {r1}
  CaseIds <- MCCaseIds
  Workflows <- MCTriangleQueue
  Guard = TRUE
  SkipConflicted = FALSE
  MaxDecisions = 3
CHECK_DEADLOCK FALSE
INVARIANTS
  NoContradictionRecorded
