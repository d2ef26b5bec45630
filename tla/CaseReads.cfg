SPECIFICATION MCSpec
CONSTANTS
  None = None
  Targets = {a, b}
  MaxRefresh = 2
  MaxReads = 4
  MaxVersion = 2
  Limit = 1
  MaxCases = 3
  PageReads = 3
  Case = {a, b}
  ScreenReads = 2
  MaxPosts = 1
CHECK_DEADLOCK FALSE
INVARIANTS
  TypesOK
  ReadySinceRefresh
  SpinnerHasItsRequest
  PagesRecover
  DecisionsAreOfferedOnce
PROPERTIES
  NeverOlder
  SentAsShown
  ScreensSettle
