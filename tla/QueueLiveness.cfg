SPECIFICATION FairSpec
CONSTANTS
  Reviewers = {r1, r2}
  Operators = {o1}
  CaseIds = {12}
  Workflows <- OneCaseWorkflows
  Suggestions <- OneCaseSuggestions
  Offered = {"MATCH", "DEFER"}
  Suspendable = FALSE
  NoWriter = NoWriter
PROPERTIES
  RequestsEnd
