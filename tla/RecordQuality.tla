---------------------------- MODULE RecordQuality ----------------------------
(***************************************************************************)
(* The quality pipeline: every row of a file is validated, normalized      *)
(* where its validation allows, and validated again.  The pipeline is a    *)
(* function of the file; the state is one file and its result.             *)
(*                                                                         *)
(* An operator commented "Broken variant" is a plausible bug of the one    *)
(* that follows it; no specification uses it.                              *)
(***************************************************************************)
EXTENDS RecordRules

CONSTANTS
  Files  \* the sequences of records that are explored

FilesAssumption ==
  \A records \in Files :
    /\ records \in Seq([Fields -> Values])
    /\ \A n \in DOMAIN records : \A f \in Fields : WellWritten(f, records[n][f])

VARIABLES file, quality

vars == <<file, quality>>

-----------------------------------------------------------------------------
(* run_quality_pipeline *)

NotRun == [outcome |-> "not run"]

Summary(results) ==
  [valid   |-> Cardinality({n \in DOMAIN results : Count(results[n], "error") = 0}),
   invalid |-> Cardinality({n \in DOMAIN results : Count(results[n], "error") > 0}),
   errors  |-> MapThenSumSet(LAMBDA n : Count(results[n], "error"), DOMAIN results)]

RunPipeline(records) ==
  LET after == [n \in DOMAIN records |-> Normalize(records[n])]
      changed(n) == {f \in Fields : after[n][f] # records[n][f]}
  IN [outcome |-> "run",
      records |-> [n \in DOMAIN records |->
                     [original |-> records[n], normalized |-> after[n], changed |-> changed(n),
                      before |-> Issues(records[n]), after |-> Issues(after[n])]],
      pre     |-> Summary([n \in DOMAIN records |-> Issues(records[n])]),
      post    |-> Summary([n \in DOMAIN records |-> Issues(after[n])]),
      changed |-> Cardinality({n \in DOMAIN records : changed(n) # {}})]

Init == file \in Files /\ quality = NotRun

RunFile == /\ quality = NotRun
           /\ quality' = RunPipeline(file)
           /\ UNCHANGED file

Next == RunFile

Spec == Init /\ [][Next]_vars

-----------------------------------------------------------------------------
(* Properties *)

Ran == quality.outcome = "run"

TypeOK ==
  /\ quality.outcome \in {"not run", "run"}
  /\ Ran => \A n \in DOMAIN quality.records : quality.records[n].changed \subseteq Fields

\* Long enough as it stands, but not once it is trimmed, collapsed and composed.
FallsShort(f, v) == ~ Blank(v) /\ v.letters < MinLength(f) /\ Length(v) >= MinLength(f)

\* Every row of the file has its record, with the values it came with, the summaries
\* count every row once, and a record is invalid after the pipeline that was valid before
\* only where a value falls short (DatasetQualityResult).
RowsAreAccountedFor ==
  Ran =>
    /\ DOMAIN quality.records = DOMAIN file
    /\ \A n \in DOMAIN file : quality.records[n].original = file[n]
    /\ quality.pre.valid + quality.pre.invalid = Len(file)
    /\ quality.pre.valid
         <= quality.post.valid + Cardinality({n \in DOMAIN file : \E f \in Fields : FallsShort(f, file[n][f])})

\* The errors after normalizing are errors of before, but for a value that falls short; a
\* field in error that may not be touched keeps its value; a name is ruined only by a
\* suffix that is found inside it (field_eligibility_from_validation, NormalizationEngine).
NormalizingOnlyRepairs ==
  Ran =>
    \A n \in DOMAIN quality.records :
      LET r == quality.records[n] IN
        /\ \A i \in r.after \ r.before : i.severity = "error" => FallsShort(i.field, r.original[i.field])
        /\ \A f \in Fields :
             /\ (\E i \in r.before : /\ i.field = f /\ i.severity = "error"
                                     /\ i.eligibility \in Blocking)
                  => r.normalized[f] = r.original[f]
             /\ r.normalized[f].form = "ruined"
                  => \/ r.original[f].form = "ruined"
                     \/ \E s \in r.original[f].suffixes : s.place \in {"tail", "head"}

\* Normalizing what was normalized changes nothing, but for a company with more than one
\* legal suffix and an e-mail that composes in lower case only (test_idempotency.py).
NormalizingTwiceIsOnce ==
  Ran =>
    \A n \in DOMAIN quality.records :
      LET r == quality.records[n] IN
        \A f \in Fields :
          \/ Normalize(r.normalized)[f] = r.normalized[f]
          \/ f = "company" /\ Cardinality(r.original[f].suffixes) > 1
          \/ f = "email" /\ r.original[f].form = "shouted apart"

\* A field whose errors are all SAFE leaves the pipeline trimmed, collapsed and composed, a
\* place under the name of the list it stands for, and a number of the country in E.164,
\* whatever warnings the field has (field_eligibility_from_validation, location.yaml).
WarningsDoNotBlock ==
  Ran =>
    \A n \in DOMAIN quality.records :
      LET r == quality.records[n] IN
        \A f \in Fields :
          (\A i \in r.before : i.field = f /\ i.severity = "error" => i.eligibility = "SAFE") =>
            /\ r.normalized[f].outer = 0 /\ r.normalized[f].inner = 0
            /\ r.normalized[f].apart = 0 \/ r.original[f].form = "shouted apart"
            /\ f \in {"city", "district"} => r.normalized[f].form # "alias"
            /\ f = "phone" => r.normalized[f].form # "local"
=============================================================================
