---------------------------- MODULE SchemaMapping ----------------------------
(***************************************************************************)
(* Which column of a file carries which canonical field: the columns are   *)
(* profiled, every field is a candidate with its evidence and score, each  *)
(* column gets a decision, and the AUTO_MAP columns fill the records.      *)
(* The whole is a function of the file; the state is one file and its      *)
(* result.                                                                 *)
(*                                                                         *)
(* A header is a record: alias, the field whose alias it is, similarity,   *)
(* how like it is to the name or an alias of a field (in percent), shares  *)
(* and contains, the fields it shares a word with and whose whole name is  *)
(* one of its words, at either end when edge, and ambiguous.  A cell has a *)
(* kind and an id; kinds tell apart what the patterns tell apart.          *)
(* Ratios are in percent, rounded down, and scores in hundredths of one.   *)
(*                                                                         *)
(* An operator commented "Broken variant" is a plausible bug of the one    *)
(* that follows it; no specification uses it.                              *)
(***************************************************************************)
EXTENDS Integers, FiniteSetsExt, SequencesExt, Sorting

CONSTANTS
  Sheets,             \* the files that are explored: sequences of [header, cells]
  PatternSampleLimit  \* how many values of a column are looked at, of ingestion.yaml

SampleAssumption == PatternSampleLimit \in Nat \ {0}

VARIABLES sheet, mapped

vars == <<sheet, mapped>>

\* mappable_fields, in the order of their names.
FieldOrder == <<"address", "city", "company", "district", "email", "first_name", "last_name", "phone">>
Mappable == Range(FieldOrder)

None == "none"

\* The value of an empty cell: there is one.
Null == [kind |-> "null", id |-> 0]

\* The columns of a table are of one length (RawTable, profiling).
SheetAssumption ==
  \A s \in Sheets :
    /\ s \in Seq(Range(s))
    /\ \A c, d \in Range(s) : Len(c.cells) = Len(d.cells)
    /\ \A column \in Range(s) :
         /\ column.cells \in Seq(Range(column.cells))
         /\ \A cell \in Range(column.cells) : cell.kind = "null" => cell = Null
         /\ \A f \in Mappable : column.header.similarity[f] \in 0..100

-----------------------------------------------------------------------------
(* The profile of a column *)

\* The rows in which the column has a value.
Filled(cells) == {row \in DOMAIN cells : cells[row].kind \notin {"null", "blank"}}

Percent(n, total) == IF total = 0 THEN 0 ELSE (100 * n) \div total

\* The rows of the first values, the only ones whose type and pattern are looked at.
Sample(cells) ==
  {row \in Filled(cells) : Cardinality({r \in Filled(cells) : r <= row}) <= PatternSampleLimit}

\* How many of the values of the sample are of these kinds.
Share(cells, kinds) ==
  Percent(Cardinality({row \in Sample(cells) : cells[row].kind \in kinds}), Cardinality(Sample(cells)))

\* infer_type: all of one kind, or nearly all; digits are a number of ten figures.
InferredType(cells) ==
  LET number == Share(cells, {"digits", "count"})
      date == Share(cells, {"date"})
  IN IF Sample(cells) = {} THEN "string"
     ELSE IF number >= 95 THEN "integer"
     ELSE IF date >= 95 THEN "date"
     ELSE "string"

\* profile_dataset and profile_patterns
Profile(column) ==
  LET cells == column.cells
      filled == Filled(cells)
  IN
    [rows     |-> Len(cells),
     filled   |-> Cardinality(filled),
     complete |-> Percent(Cardinality(filled), Len(cells)),
     unique   |-> Percent(Cardinality({cells[row] : row \in filled}), Cardinality(filled)),
     type     |-> InferredType(cells),
     email    |-> Share(cells, {"email"}),
     phone    |-> Share(cells, {"phone", "digits", "date"}),
     numeric  |-> Share(cells, {"digits", "count"})]

-----------------------------------------------------------------------------
(* Evidence and score of a field for a column *)

AutoMapThreshold == 9000
ReviewThreshold == 6000
AmbiguityMargin == 800
LexicalMinimum == 55
PatternDominance == 85
PatternAutoMapSupport == 90

Item(type, value, contribution) == [type |-> type, value |-> value, contribution |-> contribution]

\* The likeness of a header to a field, raised when they share words.
Lexical(header, f) ==
  Max({header.similarity[f],
       IF f \in header.shares THEN 72 ELSE 0,
       IF f \in header.contains THEN 86 ELSE 0})

PatternOf(profile, f) == CASE f = "email" -> profile.email [] f = "phone" -> profile.phone [] OTHER -> 0

When(condition, item) == IF condition THEN {item} ELSE {}

\* collect_evidence: what is in the header, the type, the patterns, the fill.
Evidence(header, profile, f) ==
  LET lexical == Lexical(header, f)
      pattern == PatternOf(profile, f)
  IN When(header.alias = f, Item("EXACT_ALIAS", 100, 9500))
     \cup When(header.alias = None /\ f \in header.contains /\ header.edge,
               Item("LEXICAL_SIMILARITY", 100, 5800))
     \cup When(lexical >= LexicalMinimum, Item("LEXICAL_SIMILARITY", lexical, 35 * lexical))
     \cup When(profile.type = "string", Item("TYPE_COMPATIBILITY", 100, 1200))
     \cup When(profile.type # "string", Item("TYPE_INCOMPATIBILITY", 100, -2500))
     \cup When(pattern >= PatternDominance, Item("PATTERN", pattern, 40 * pattern))
     \cup When(f \in {"email", "phone"} /\ profile.numeric >= 95 /\ pattern < PatternDominance,
               Item("PATTERN_NUMERIC", profile.numeric, -1500))
     \cup When(profile.complete >= 80, Item("COMPLETENESS", profile.complete, 5 * profile.complete))
     \cup When(profile.unique >= 90, Item("UNIQUENESS", profile.unique, 3 * profile.unique))

\* score_candidate: a dominant pattern over at least two rows is enough by itself.
Score(evidence, rows) ==
  LET total == MapThenSumSet(LAMBDA e : e.contribution, evidence)
      decisive == rows >= 2 /\ \E e \in evidence : e.type = "PATTERN" /\ e.value >= PatternAutoMapSupport
  IN Min({10000, Max({0, total, IF decisive THEN AutoMapThreshold ELSE 0})})

Position(f) == CHOOSE i \in DOMAIN FieldOrder : FieldOrder[i] = f

Better(c, d) == c.score > d.score \/ (c.score = d.score /\ Position(c.field) < Position(d.field))

\* The candidates of a column, best first; equal scores in the order of the names.
Ranked(header, profile) ==
  LET scored == [f \in Mappable |->
                   LET e == Evidence(header, profile, f)
                   IN [field |-> f, evidence |-> e, score |-> Score(e, profile.rows)]]
  IN SortedBy({c \in Range(scored) : c.score > 0}, Better)

-----------------------------------------------------------------------------
(* The decision about a column *)

Has(evidence, type) == \E e \in evidence : e.type = type

StrongPattern(evidence) == \E e \in evidence : e.type = "PATTERN" /\ e.value >= PatternAutoMapSupport

LexicalOnly(evidence) ==
  /\ ~ Has(evidence, "EXACT_ALIAS") /\ ~ Has(evidence, "PATTERN")
  /\ Has(evidence, "LEXICAL_SIMILARITY")

\* A telephone header over values that are numbers but no telephones.
TypeOrPatternConflict(top) ==
  top.field = "phone" /\ Has(top.evidence, "EXACT_ALIAS") /\ Has(top.evidence, "PATTERN_NUMERIC")

\* decide_column_mapping, over a column with candidates.
Verdict(header, ranked, collides) ==
  LET top == ranked[1]
      margin == top.score - (IF Len(ranked) > 1 THEN ranked[2].score ELSE 0)
  IN IF collides THEN "CONFLICT"
     ELSE IF TypeOrPatternConflict(top) /\ top.score >= ReviewThreshold THEN "REVIEW"
     ELSE IF top.score < ReviewThreshold THEN
            IF header.ambiguous /\ top.score >= 3500 THEN "REVIEW" ELSE "UNMAPPED"
     ELSE IF header.ambiguous /\ LexicalOnly(top.evidence) THEN "REVIEW"
     ELSE IF margin < AmbiguityMargin THEN "REVIEW"
     ELSE IF /\ top.score >= AutoMapThreshold
             /\ header.ambiguous => Has(top.evidence, "EXACT_ALIAS") \/ StrongPattern(top.evidence)
             /\ ~ LexicalOnly(top.evidence) THEN "AUTO_MAP"
     ELSE "REVIEW"

\* Broken variant: only columns that would be mapped can collide.
ProvisionalOnlySure(ranked) ==
  IF ranked # <<>> /\ ranked[1].score > AutoMapThreshold THEN ranked[1].field ELSE None

\* The field that a column asks for before the collisions are known.
Provisional(ranked) ==
  IF ranked # <<>> /\ ranked[1].score >= ReviewThreshold THEN ranked[1].field ELSE None

\* detect_collisions, for one column.
Collides(wants, i) == wants[i] # None /\ \E j \in DOMAIN wants \ {i} : wants[j] = wants[i]

\* build_mapping_plan
Plan(columns) ==
  LET ranked == [i \in DOMAIN columns |-> Ranked(columns[i].header, Profile(columns[i]))]
      wants == [i \in DOMAIN columns |-> Provisional(ranked[i])]
      decision(i) == IF ranked[i] = <<>> THEN "UNMAPPED"
                     ELSE Verdict(columns[i].header, ranked[i], Collides(wants, i))
  IN [i \in DOMAIN columns |->
        [decision |-> decision(i),
         field    |-> IF decision(i) = "UNMAPPED" THEN None ELSE ranked[i][1].field,
         evidence |-> IF ranked[i] = <<>> THEN {} ELSE ranked[i][1].evidence]]

-----------------------------------------------------------------------------
(* The records *)

AutoMapped(plan, f) == {i \in DOMAIN plan : plan[i].decision = "AUTO_MAP" /\ plan[i].field = f}

\* A later column of the same field would win, unless it is empty.
Canonical(columns, plan, row) ==
  [f \in Mappable |->
     LET given == {i \in AutoMapped(plan, f) : columns[i].cells[row].kind # "null"}
     IN IF given = {} THEN Null ELSE columns[Max(given)].cells[row]]

\* Broken variant: only the columns that were refused are kept beside the record.
SetAsideOnlyUnmapped(columns, plan, row) ==
  [i \in {j \in DOMAIN plan : plan[j].decision = "UNMAPPED"} |-> columns[i].cells[row]]

SetAside(columns, plan, row) ==
  [i \in {j \in DOMAIN plan : plan[j].decision # "AUTO_MAP"} |-> columns[i].cells[row]]

\* build_mapping_plan and apply_mapping_plan
MapSheet(columns) ==
  LET plan == Plan(columns) IN
    [outcome |-> "mapped",
     plan    |-> plan,
     missing |-> {f \in Mappable : AutoMapped(plan, f) = {}},
     records |-> [row \in DOMAIN columns[1].cells |->
                    [values |-> Canonical(columns, plan, row), aside |-> SetAside(columns, plan, row)]]]

NotMapped == [outcome |-> "not mapped"]

Init == sheet \in Sheets /\ mapped = NotMapped

MapColumns ==
  /\ mapped = NotMapped
  /\ mapped' = MapSheet(sheet)
  /\ UNCHANGED sheet

Next == MapColumns

Spec == Init /\ [][Next]_vars

-----------------------------------------------------------------------------
(* Properties *)

Done == mapped.outcome = "mapped"

TypeOK ==
  /\ mapped.outcome \in {"not mapped", "mapped"}
  /\ Done => \A i \in DOMAIN mapped.plan :
               /\ mapped.plan[i].decision \in {"AUTO_MAP", "REVIEW", "UNMAPPED", "CONFLICT"}
               /\ mapped.plan[i].field \in Mappable \cup {None}

\* No cell is lost and none is in two places: it is the value of the field of its
\* column, which no other column fills, or it is kept beside the record
\* (apply_mapping_plan).
EveryCellHasItsPlace ==
  Done =>
    /\ \A f \in Mappable : Cardinality(AutoMapped(mapped.plan, f)) <= 1
    /\ \A row \in DOMAIN mapped.records, i \in DOMAIN sheet :
         LET cell == sheet[i].cells[row]
             record == mapped.records[row]
         IN IF mapped.plan[i].decision = "AUTO_MAP"
              THEN record.values[mapped.plan[i].field] = cell /\ i \notin DOMAIN record.aside
              ELSE i \in DOMAIN record.aside /\ record.aside[i] = cell
    /\ \A row \in DOMAIN mapped.records, f \in mapped.missing : mapped.records[row].values[f] = Null

\* A column fills a field only when its header is an alias of it or the values of its
\* sample have the pattern of the field; an ambiguous header needs the pattern in nine
\* of ten.  What follows the sample is never looked at (profile_dataset).
NothingIsGuessed ==
  Done =>
    \A i \in DOMAIN sheet :
      LET p == mapped.plan[i]
          profile == Profile(sheet[i])
          least == IF sheet[i].header.ambiguous THEN PatternAutoMapSupport ELSE PatternDominance
      IN p.decision = "AUTO_MAP" => sheet[i].header.alias = p.field \/ PatternOf(profile, p.field) >= least

\* The order of the columns changes no decision.
ColumnOrderIsImmaterial ==
  Done => Plan(Reverse(sheet)) = Reverse(mapped.plan)
=============================================================================
