---------------------------- MODULE Survivorship ----------------------------
(***************************************************************************)
(* Canonical entities: which clusters become one, which records stand      *)
(* alone, and which value of which member each field takes.                *)
(* build_canonical_entities is a function of a resolution and a review     *)
(* outcome; the state is one of those and its result.                      *)
(*                                                                         *)
(* Values are those of RecordRules with two more fields: marks, the signs  *)
(* of corruption in the text, and length, the length of the normalized     *)
(* text.  A resolution gives                                               *)
(*   records   id -> [source, values],                                     *)
(*   clusters  [id, members, conflict], the review-aware clusters,         *)
(*   excluded  the records of review pairs that are not resolved,          *)
(*   cases     [id, pair, status], the human review cases.                 *)
(*                                                                         *)
(* An operator commented "Broken variant" is a plausible bug of the one    *)
(* that follows it; no specification uses it.                              *)
(***************************************************************************)
EXTENDS RecordRules

CONSTANTS
  Resolutions,        \* the inputs that are explored
  LongestFields,      \* the fields with strategy completeness_longest
  PreserveConflicts,  \* cluster_policy.preserve_field_conflicts
  SkipInConflict,     \* cluster_policy.skip_clusters_with_internal_conflict
  BuildSingletons     \* cluster_policy.build_singleton_entities

PolicyAssumption ==
  LongestFields \subseteq Fields /\ {PreserveConflicts, SkipInConflict, BuildSingletons} \subseteq BOOLEAN

\* The clusters of a resolution are disjoint groups of its records (EntityCluster,
\* build_review_aware_clusters), a case is about two records.
WellFormed(input) ==
  /\ IsFiniteSet(DOMAIN input.records) /\ DOMAIN input.records \subseteq Nat
  /\ \A r \in DOMAIN input.records, f \in Fields :
       LET v == input.records[r].values[f]
       IN v.core \in Nat /\ v.length \in Nat /\ IsFiniteSet(v.marks)
  /\ IsFiniteSet(input.clusters)
  /\ \A c \in input.clusters : c.members \subseteq DOMAIN input.records /\ c.id[1] # "S"
  /\ \A c, d \in input.clusters : c # d => c.id # d.id /\ c.members \cap d.members = {}
  /\ \A c \in input.cases : c.pair[1] # c.pair[2]
  /\ \A c, d \in input.cases : c # d => c.id # d.id

ResolutionAssumption == \A input \in Resolutions : WellFormed(input)

VARIABLES resolution, golden

vars == <<resolution, golden>>

-----------------------------------------------------------------------------
(* The quality of one value *)

Nothing == <<0, "none", {}>>

\* _normalize_field: two texts that differ only in white space, accents set apart or the
\* case of a domain are one; a phone of fewer than eight digits is none.
Folded(f, v) ==
  IF Blank(v) \/ (f = "phone" /\ v.form \in {"short", "words"}) THEN Nothing
  ELSE <<v.core, IF v.form \in {"shouted", "shouted apart"} THEN "plain" ELSE v.form, v.suffixes>>

NameFields == {"first_name", "last_name"}

\* _structural_penalty: what a mark costs in a field.
Penalty(f, mark) ==
  CASE mark = "merged or duplicate"                          -> 50
    [] mark = "hyphens" /\ f \in TextFields                  -> 15
    [] mark = "doubled punctuation" /\ f \in TextFields      -> 10
    [] mark = "many dots" /\ f = "company"                   -> 5
    [] mark = "suffix with commas" /\ f = "company"          -> 25
    [] mark = "over forty" /\ f \in NameFields               -> 20
    [] mark = "legal suffix" /\ f \in NameFields             -> 30
    [] mark = "legal suffix" /\ f = "address"                -> 20
    [] mark = "street with comma" /\ f = "address"           -> 10
    [] OTHER                                                 -> 0

StructuralPenalty(f, v) == MapThenSumSet(LAMBDA mark : Penalty(f, mark), v.marks)

\* _issues_for_field: the mismatch of city and district counts for the district.
IssuesOf(record, f) == {i \in Issues(record.values) : i.field = f}

EligibilityRank == [SAFE |-> 0, NOT_APPLICABLE |-> 1, AMBIGUOUS |-> 2, UNSUPPORTED |-> 3]

WorstEligibility(issues) == Max({0} \cup {EligibilityRank[i.eligibility] : i \in issues})

\* _identity_bonus: what a value earns for the rules it does not break.
IdentityBonus(f, v, issues) ==
  LET keeps(rule) == \A i \in issues : i.rule # rule
      earn(rule, n) == IF keeps(rule) THEN n ELSE 0
  IN CASE f = "phone" -> (IF v.form = "e164" THEN 100 ELSE IF keeps("phone.tr_e164") THEN 40
                          ELSE IF keeps("phone.format") THEN 20 ELSE 0)
       [] f = "email"    -> earn("email.syntax", 80)
       [] f = "city"     -> earn("location.city_known", 40)
       [] f = "district" -> earn("location.district_known", 30) + earn("cross_field.city_district", 20)
       [] f = "company"  -> earn("company.min_length", 20)
       [] f = "address"  -> earn("address.min_length", 15)
       [] OTHER          -> 0

\* source_priority of survivorship.yaml; a source that is not listed comes last.
Priority(source) ==
  CASE source = "source_a" -> 1 [] source = "source_b" -> 2 [] source = "source_c" -> 3
    [] source = "hard_positive" -> 4 [] source = "hard_negative" -> 5 [] OTHER -> 999

\* How many sources say the same, but for the fields that identify.
Diversity(members, f, v) ==
  IF f \in {"email", "phone"} THEN 0
  ELSE Cardinality({m.source : m \in {n \in members : Folded(f, n.values[f]) = Folded(f, v)}})

-----------------------------------------------------------------------------
(* The value a field takes *)

\* Broken variant: the support of other sources comes before the errors.
RankBySupport(members, m, f) ==
  LET v == m.values[f]
      issues == IssuesOf(m, f)
  IN <<100 - Diversity(members, f, v), Count(issues, "error"), Count(issues, "warning"),
       StructuralPenalty(f, v), WorstEligibility(issues), 1000 - IdentityBonus(f, v, issues),
       1000 - v.length, Priority(m.source), m.id>>

\* ranking_tuple of a value that is present: the smallest wins.
Rank(members, m, f) ==
  LET v == m.values[f]
      issues == IssuesOf(m, f)
  IN <<Count(issues, "error"), Count(issues, "warning"), StructuralPenalty(f, v),
       WorstEligibility(issues), 1000 - IdentityBonus(f, v, issues),
       100 - Diversity(members, f, v), 1000 - v.length, Priority(m.source), m.id>>

\* The legacy rule: the longest, then the source, then the id.
LongestRank(m, f) == <<1000 - m.values[f].length, Priority(m.source), m.id>>

Smaller(s, t) == \E i \in DOMAIN s : s[i] < t[i] /\ \A j \in 1..(i - 1) : s[j] = t[j]

First(members, rank(_)) == CHOOSE m \in members : \A n \in members \ {m} : Smaller(rank(m), rank(n))

\* Broken variant: a blank value is a value.
PresentUnlessNone(members, f) == {m \in members : m.values[f].form # "absent"}

Present(members, f) == {m \in members : Folded(f, m.values[f]) # Nothing}

\* The value and the record it is taken from; with no value, the first record.
Choice(members, f) ==
  LET present == Present(members, f)
      best == IF f \in LongestFields THEN First(present, LAMBDA m : LongestRank(m, f))
              ELSE First(present, LAMBDA m : Rank(members, m, f))
  IN IF present = {} THEN [value |-> Absent, from |-> Min({m.id : m \in members})]
     ELSE [value |-> best.values[f], from |-> best.id]

\* _detect_conflict
DistinctValues(members, f) == {Folded(f, m.values[f]) : m \in members} \ {Nothing}

\* apply_field_survivorship
Merged(members) ==
  [chosen    |-> [f \in Fields |-> Choice(members, f)],
   conflicts |-> {f \in Fields : PreserveConflicts /\ Cardinality(DistinctValues(members, f)) > 1}]

-----------------------------------------------------------------------------
(* build_canonical_entities *)

NotBuilt == [outcome |-> "not built"]
Refused == [outcome |-> "forbidden field"]

MembersOf(input, ids) ==
  {[id |-> r, source |-> input.records[r].source, values |-> input.records[r].values] :
     r \in ids \cap DOMAIN input.records}

\* Broken variant: only a cluster whose records all wait for a review is left out.
MergedClustersAll(input) ==
  {c \in input.clusters : /\ ~ (SkipInConflict /\ c.conflict)
                          /\ Cardinality(MembersOf(input, c.members)) >= 2
                          /\ ~ c.members \subseteq input.excluded}

\* The clusters that become one entity; the rest of their records stand alone.
MergedClusters(input) ==
  {c \in input.clusters : /\ ~ (SkipInConflict /\ c.conflict)
                          /\ Cardinality(MembersOf(input, c.members)) >= 2
                          /\ c.members \cap input.excluded = {}}

\* The MATCH cases inside a cluster, which the entity is traced back to.
ReviewedBy(input, members) ==
  {c.id : c \in {k \in input.cases : k.status = "MATCH" /\ k.pair[1] \in members /\ k.pair[2] \in members}}

Entity(input, id, members, conflict) ==
  LET merged == Merged(MembersOf(input, members)) IN
    [id |-> id, members |-> members, chosen |-> merged.chosen, conflicts |-> merged.conflicts,
     unresolved |-> merged.conflicts # {} \/ conflict,
     reviewed |-> IF id[1] = "S" THEN {} ELSE ReviewedBy(input, members)]

\* Broken variant: the records of a cluster that is left out get no entity.
AloneOutsideClusters(input) ==
  IF BuildSingletons THEN (DOMAIN input.records \ UNION {c.members : c \in input.clusters}) \ input.excluded ELSE {}

Alone(input) ==
  IF BuildSingletons
    THEN (DOMAIN input.records \ UNION {c.members : c \in MergedClusters(input)}) \ input.excluded
    ELSE {}

Build(input) ==
  LET entities == {Entity(input, c.id, c.members, c.conflict) : c \in MergedClusters(input)}
                  \cup {Entity(input, <<"S", r>>, {r}, FALSE) : r \in Alone(input)}
  IN IF \E r \in DOMAIN input.records : "person_id" \in DOMAIN input.records[r].values THEN Refused
     ELSE [outcome  |-> "built",
           entities |-> entities,
           summary  |-> [records   |-> Cardinality(DOMAIN input.records),
                         entities  |-> Cardinality(entities),
                         alone     |-> Cardinality(Alone(input)),
                         clusters  |-> Cardinality(input.clusters),
                         merged    |-> Cardinality({e \in entities : Cardinality(e.members) > 1}),
                         conflicts |-> MapThenSumSet(LAMBDA e : Cardinality(e.conflicts), entities),
                         excluded  |-> Cardinality(input.excluded)]]

Init == resolution \in Resolutions /\ golden = NotBuilt

BuildEntities ==
  /\ golden = NotBuilt
  /\ golden' = Build(resolution)
  /\ UNCHANGED resolution

Next == BuildEntities

Spec == Init /\ [][Next]_vars

-----------------------------------------------------------------------------
(* Properties *)

Built == golden.outcome = "built"

TypeOK ==
  /\ golden.outcome \in {"not built", "built", "forbidden field"}
  /\ Built => \A e \in golden.entities : e.members \subseteq DOMAIN resolution.records

\* A record is in one entity and no more, and in none only while a review of it is
\* pending; the entities have ids of their own and the summary counts them.
NoRecordIsLostOrDoubled ==
  Built =>
    /\ BuildSingletons =>
         \A r \in DOMAIN resolution.records :
           Cardinality({e \in golden.entities : r \in e.members}) = (IF r \in resolution.excluded THEN 0 ELSE 1)
    /\ \A d, e \in golden.entities : d # e => d.id # e.id /\ d.members \cap e.members = {}
    /\ golden.summary.entities = golden.summary.alone + golden.summary.merged

\* A golden value is the value of the member it is traced to, and it is missing only
\* when no member has one (FieldProvenance).
GoldenValuesAreMembers ==
  Built =>
    \A e \in golden.entities, f \in Fields :
      LET c == e.chosen[f]
          members == MembersOf(resolution, e.members)
      IN /\ c.from \in e.members
         /\ IF Folded(f, c.value) # Nothing THEN c.value = resolution.records[c.from].values[f]
            ELSE c.value = Absent /\ DistinctValues(members, f) = {}

\* No value in error is taken while a member has one without, by the default rule.
SoundValuesAreTaken ==
  Built =>
    \A e \in golden.entities, f \in Fields \ LongestFields :
      LET faulty(m) == Count(IssuesOf(m, f), "error") > 0
          members == MembersOf(resolution, e.members)
      IN \A m, n \in members :
           m.id = e.chosen[f].from /\ f \in {g \in Fields : Folded(g, n.values[g]) # Nothing} /\ ~ faulty(n)
             => ~ faulty(m)

\* Where the members disagree the entity says so, and only there.
DisagreementIsVisible ==
  Built /\ PreserveConflicts =>
    \A e \in golden.entities :
      /\ e.conflicts = {f \in Fields : Cardinality(DistinctValues(MembersOf(resolution, e.members), f)) > 1}
      /\ e.conflicts # {} => e.unresolved

\* An entity that merges the two records of a MATCH names its case, and no case is
\* named that is not a MATCH.
MatchesAreTraced ==
  Built =>
    \A c \in resolution.cases :
      \A e \in golden.entities :
        c.id \in e.reviewed <=> c.status = "MATCH" /\ {c.pair[1], c.pair[2]} \subseteq e.members
=============================================================================
