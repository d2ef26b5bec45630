SPECIFICATION Spec
CONSTANTS
  Reviewers = {r1}
  Operators = {o1}
  CaseIds <- ChainIds
  Workflows <- SharedWorkflows
  Suggestions <- SharedSuggestions
  Offered = {"MATCH", "DEFER"}
  Suspendable = TRUE
  NoWriter = NoWriter
CHECK_DEADLOCK FALSE
INVARIANTS
  TypeOK
  SuggestionsRecordedOnce
PROPERTIES
  SuspendedQueueGainsNothing
  ImplementsLedger
