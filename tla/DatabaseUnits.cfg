SPECIFICATION MCSpec
CONSTANTS
  Writes = {w1, w2, w3}
  MaxNesting = 3
  InputRate = 2
  CachedRate = 1
  OutputRate = 1
  MaxInputTokens = 2
  MaxOutputTokens = 1
  MaxRetries = 1
  MaxLiveCalls = 3
  MaxLiveUsd = 13
  MaxCases = 2
  MaxPrompt = 2
  MaxCount = 4
  MaxTokens = 3
  Operator = {o1, o2}
  NoFile = NoFile
  NoContext = NoContext
  NoRow = NoRow
  NoResolution = NoResolution
  NoReport = NoReport
  Jobs <- MCJobs
  Stores <- MCStores
  Queues <- MCQueues
INVARIANTS
  AllOrNothing
  NextUnitCanBegin
  SnapshotStaysSnapshot
  BudgetHolds
  SuggestionsAreSound
  CommandsAreHonest
PROPERTIES
  DurableOnlyAtTheEnd
  OnlyTransientIsRetried
  RunsEnd
