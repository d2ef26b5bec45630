SPECIFICATION PipelineSpec
CONSTANTS
  Reviewers = {r1}
  CaseIds <- MCCaseIds
  Workflows <- MCSmallGraphs
  Guard = TRUE
  SkipConflicted = FALSE
  MaxDecisions = 3
  Sources <- MCSources
  Sheets <- MCSheets
  RecordFiles <- MCFiles
  Batches <- MCBatches
  Resolutions <- MCResolutions
  MaxRows = 2
  MaxColumns = 2
  PatternSampleLimit = 7
  LongestFields = {"address"}
  PreserveConflicts = TRUE
  BuildSingletons = TRUE
CHECK_DEADLOCK FALSE
INVARIANTS
  FilesAreReadWhole
  RecordsAreOnlyRepaired
  AutoMatchesAreGrouped
  MergesAreAllowed
  AcceptedMatchTakesEffect
  EntitiesKeepTheirRecords
