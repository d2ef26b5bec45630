SPECIFICATION Spec
CONSTANTS
  Reviewers = {r1, r2}
  Operators = {o1}
  CaseIds <- TriangleIds
  Workflows <- TriangleWorkflows
  Suggestions = {}
  Offered = {"MATCH", "NO_MATCH"}
  Suspendable = FALSE
  NoWriter = NoWriter
SYMMETRY ReviewerSymmetry
CONSTRAINT RegisterFirst
CHECK_DEADLOCK FALSE
INVARIANTS
  HistoryReconstructs
  EveryDecisionHasItsEvent
  AcknowledgedIsDurable
PROPERTIES
  HistoryIsFinal
  ImplementsLedger
