------------------------------ MODULE Pipeline ------------------------------
(***************************************************************************)
(* The way of a record from its file to its canonical entity, one stage at *)
(* a time: a file is read (Ingestion), its columns are mapped              *)
(* (SchemaMapping), its rows validated and normalized (RecordQuality),     *)
(* resolved (EntityResolution), the pairs in doubt decided by reviewers    *)
(* (ReviewLedger) and the entities built (Survivorship).  part says which; *)
(* every stage but the review is a function of its input.                  *)
(***************************************************************************)
EXTENDS ReviewLedger

CONSTANTS
  Sources, Sheets, RecordFiles, Batches, Resolutions,  \* the inputs of the stages
  MaxRows, MaxColumns, PatternSampleLimit,             \* limits of ingestion.yaml
  LongestFields, PreserveConflicts, BuildSingletons    \* policies of survivorship.yaml

VARIABLES part, input, output

stageVars == <<input, output>>

Reading == INSTANCE Ingestion WITH Files <- Sources, source <- input, parsed <- output
Mapping == INSTANCE SchemaMapping WITH sheet <- input, mapped <- output
Quality == INSTANCE RecordQuality WITH Files <- RecordFiles, file <- input, quality <- output
Resolving == INSTANCE EntityResolution WITH ConflictGuard <- Guard, rows <- input, resolved <- output
Surviving == INSTANCE Survivorship WITH SkipInConflict <- SkipConflicted, resolution <- input, golden <- output

ASSUME PipelineAssumption ==
  /\ Reading!LimitAssumption /\ Reading!FileAssumption
  /\ Mapping!SheetAssumption /\ Mapping!SampleAssumption
  /\ Quality!FilesAssumption
  /\ Resolving!GuardAssumption /\ Resolving!BatchAssumption
  /\ Surviving!PolicyAssumption /\ Surviving!ResolutionAssumption

PipelineInit ==
  /\ Init
  /\ \/ part = "review" /\ input = <<>> /\ output = <<>>
     \/ part = "reading" /\ Reading!Init
     \/ part = "mapping" /\ Mapping!Init
     \/ part = "quality" /\ Quality!Init
     \/ part = "resolving" /\ Resolving!Init
     \/ part = "surviving" /\ Surviving!Init

PipelineNext ==
  /\ UNCHANGED part
  /\ \/ part = "review" /\ Next /\ UNCHANGED stageVars
     \/ part = "reading" /\ Reading!Next /\ UNCHANGED vars
     \/ part = "mapping" /\ Mapping!Next /\ UNCHANGED vars
     \/ part = "quality" /\ Quality!Next /\ UNCHANGED vars
     \/ part = "resolving" /\ Resolving!Next /\ UNCHANGED vars
     \/ part = "surviving" /\ Surviving!Next /\ UNCHANGED vars

PipelineSpec == PipelineInit /\ [][PipelineNext]_<<part, vars, stageVars>>

-----------------------------------------------------------------------------
\* A file and its columns are read whole: every row and every cell has exactly one
\* place, a value keeps its column, a column fills a field only with evidence in its
\* header or its sample, and neither the format nor the order of the columns matters
\* (parser.py, apply.py; README.md, "zero silent row loss").
FilesAreReadWhole ==
  /\ part = "reading" => /\ Reading!TypeOK /\ Reading!EveryRowIsAccountedFor
                         /\ Reading!ValuesStayInTheirColumn /\ Reading!FormatsAgree
  /\ part = "mapping" => /\ Mapping!TypeOK /\ Mapping!EveryCellHasItsPlace
                         /\ Mapping!NothingIsGuessed /\ Mapping!ColumnOrderIsImmaterial

\* Validating and normalizing loses no record and repairs: the only new errors are those of
\* values that fall short without their spare white space and marks, no field is touched
\* that may not be, no canonical form is withheld because of a warning, and but for two
\* kinds of text nothing is left for a second time (pipeline.py, test_idempotency.py).
RecordsAreOnlyRepaired ==
  part = "quality" => /\ Quality!TypeOK /\ Quality!RowsAreAccountedFor
                      /\ Quality!NormalizingOnlyRepairs /\ Quality!WarningsDoNotBlock
                      /\ Quality!NormalizingTwiceIsOnce

\* The AUTO_MATCH pairs decide the clusters: none is hidden by blocking, each ends in
\* one cluster or was kept out by the guard, no cluster is in severe conflict, every
\* candidate has one decision, and the order of the rows changes nothing (blocking.py,
\* clustering.py, engine.py).
AutoMatchesAreGrouped ==
  part = "resolving" => /\ Resolving!TypeOK /\ Resolving!DecisionsAddUp
                        /\ Resolving!AutoMatchesAreGrouped /\ Resolving!ClustersAreConsistent
                        /\ Resolving!BlockingMissesNoAutoMatch /\ Resolving!RowOrderIsImmaterial

\* What an accepted decision says holds in the canonical entities: two records of a
\* NO_MATCH are never merged, and records in severe conflict only where a NO_MATCH
\* changed the projection (integration.py, authorization.py).
MergesAreAllowed == MergesRespectNoMatch /\ NoConflictWithoutNoMatch

\* Every record of a queue and of a resolution ends in one entity, or in none while a
\* reviewer is awaited; its values are those of a member, a sound one before a faulty
\* one, and disagreement and MATCH decisions stay visible (engine.py of survivorship).
EntitiesKeepTheirRecords ==
  /\ TypeOK /\ EveryRecordOnce /\ UnresolvedStaysOut
  /\ part = "surviving" => /\ Surviving!TypeOK /\ Surviving!NoRecordIsLostOrDoubled
                           /\ Surviving!GoldenValuesAreMembers /\ Surviving!SoundValuesAreTaken
                           /\ Surviving!DisagreementIsVisible /\ Surviving!MatchesAreTraced
=============================================================================
