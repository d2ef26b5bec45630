SPECIFICATION Spec
CONSTANTS
  Reviewers = {r1}
  CaseIds <- MCCaseIds
  Workflows <- MCGuardedQueue
  Guard = TRUE
  SkipConflicted = FALSE
  MaxDecisions = 2
CHECK_DEADLOCK FALSE
INVARIANTS
  NoSevereConflictMerged
