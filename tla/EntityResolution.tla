-------------------------- MODULE EntityResolution --------------------------
(***************************************************************************)
(* Entity resolution: which pairs of records are compared (blocking), what *)
(* speaks for and against a pair (evidence, conflicts), its score, the     *)
(* decision, and the clusters of the AUTO_MATCH pairs.  resolve_entities   *)
(* is a function of the rows; the state is one batch of rows and its       *)
(* result.                                                                 *)
(*                                                                         *)
(* A value is a number: 0 is absent or blank, 1..9 a value too short for   *)
(* its use (an email of one character, a phone of fewer than eight         *)
(* digits), from 10 an ordinary one.  Two values with the same tens are    *)
(* spellings of one another; two phones with the same units end alike.     *)
(* Scores are in hundredths of a percent: weights are in percent and so    *)
(* are similarities.  The weights are those of entity_resolution.yaml.     *)
(*                                                                         *)
(* An operator commented "Broken variant" is a plausible bug of the one    *)
(* that follows it; no specification uses it.                              *)
(***************************************************************************)
EXTENDS Naturals, FiniteSetsExt, SequencesExt, Sorting

CONSTANTS
  Batches,       \* the sequences of rows that are explored
  ConflictGuard  \* clustering.conflict_guard

GuardAssumption == ConflictGuard \in BOOLEAN

BatchAssumption ==
  \A b \in Batches :
    /\ b \in Seq(Range(b))
    /\ \A row \in Range(b) : row.source \in Nat /\ \A f \in DOMAIN row.values : row.values[f] \in Nat

VARIABLES rows, resolved

vars == <<rows, resolved>>

Nothing == 0

IdentityFields == {"first_name", "last_name", "email", "phone", "company", "city", "district", "address"}
Forbidden == {"person_id", "source_record_id", "source_name"}

-----------------------------------------------------------------------------
(* Records and values *)

\* build_entity_record: the id of the source or the row's own, and no metadata.
Entity(row, n) ==
  [id     |-> IF row.source # Nothing THEN row.source ELSE 100 + n,
   fields |-> [f \in DOMAIN row.values \ Forbidden |-> row.values[f]]]

Get(record, f) == IF f \in DOMAIN record.fields THEN record.fields[f] ELSE Nothing

\* normalize_phone gives nothing for fewer than eight digits; other fields keep theirs.
Normal(record, f) ==
  LET v == Get(record, f) IN IF f = "phone" /\ v < 10 THEN Nothing ELSE v

Similarity(v, w) ==
  IF Nothing \in {v, w} THEN 0
  ELSE IF v = w THEN 100
  ELSE IF v \div 10 # w \div 10 THEN 40
  ELSE IF v = w + 1 \/ w = v + 1 THEN 90 ELSE 70

-----------------------------------------------------------------------------
(* Blocking: only records that share a key are compared. *)

Strategies ==
  {[reason |-> "EMAIL_EXACT_BLOCK",     fields |-> <<"email">>],
   [reason |-> "PHONE_EXACT_BLOCK",     fields |-> <<"phone">>],
   [reason |-> "PHONE_LAST7_BLOCK",     fields |-> <<"phone">>],
   [reason |-> "NAME_SURNAME_BLOCK",    fields |-> <<"first_name", "last_name">>],
   [reason |-> "NAME_CITY_BLOCK",       fields |-> <<"last_name", "city">>],
   [reason |-> "SURNAME_COMPANY_BLOCK", fields |-> <<"last_name", "company">>],
   [reason |-> "COMPANY_CITY_BLOCK",    fields |-> <<"company", "city">>]}

NoKey == <<>>

\* No key when a part is missing or the whole is under min_key_length; two parts
\* joined by a bar are never too short.
BlockingKey(record, strategy) ==
  LET parts == [i \in DOMAIN strategy.fields |-> Normal(record, strategy.fields[i])]
  IN IF Nothing \in Range(parts) \/ (Len(parts) = 1 /\ parts[1] < 10) THEN NoKey
     ELSE IF strategy.reason = "PHONE_LAST7_BLOCK" THEN <<parts[1] % 10>>
     ELSE parts

OrderedPair(a, b) == IF a <= b THEN <<a, b>> ELSE <<b, a>>

\* The positions of two rows, the pair of their ids, and the reasons they share.
SharedKeys(left, right) ==
  {s.reason : s \in {t \in Strategies : /\ BlockingKey(left, t) # NoKey
                                        /\ BlockingKey(left, t) = BlockingKey(right, t)}}

\* Broken variant: an e-mail address is no blocking key of its own.
CandidatesByPhoneAndName(records) ==
  {OrderedPair(records[ij[1]].id, records[ij[2]].id) :
     ij \in {x \in (DOMAIN records) \X (DOMAIN records) :
               /\ x[1] < x[2]
               /\ SharedKeys(records[x[1]], records[x[2]]) \ {"EMAIL_EXACT_BLOCK"} # {}}}

Candidates(records) ==
  {OrderedPair(records[ij[1]].id, records[ij[2]].id) :
     ij \in {x \in (DOMAIN records) \X (DOMAIN records) :
               x[1] < x[2] /\ SharedKeys(records[x[1]], records[x[2]]) # {}}}

PossiblePairs(n) == IF n < 2 THEN 0 ELSE (n * (n - 1)) \div 2

-----------------------------------------------------------------------------
(* Evidence, conflicts, score *)

ExactWeight == [email |-> 45, phone |-> 45, first_name |-> 12, last_name |-> 12, company |-> 10,
                city |-> 4, district |-> 3, address |-> 6]
SimilarWeight == [first_name |-> 10, last_name |-> 10, company |-> 8, address |-> 5]
FuzzyMinimum == 82
CompanyTolerance == 60

Strong == {"email", "phone"}

ExactEvidence(left, right) ==
  {[kind |-> "exact", field |-> f, contribution |-> 100 * ExactWeight[f]] :
     f \in {g \in IdentityFields : Normal(left, g) # Nothing /\ Normal(left, g) = Normal(right, g)}}

SimilarEvidence(left, right) ==
  {[kind |-> "similar", field |-> f,
    contribution |-> SimilarWeight[f] * Similarity(Get(left, f), Get(right, f))] :
     f \in {g \in DOMAIN SimilarWeight : Similarity(Get(left, g), Get(right, g)) >= FuzzyMinimum}}

\* Identical values count as exact and, for the four fuzzy fields, as similar too.
Evidence(left, right) == ExactEvidence(left, right) \cup SimilarEvidence(left, right)

Differ(left, right, f) ==
  Normal(left, f) # Nothing /\ Normal(right, f) # Nothing /\ Normal(left, f) # Normal(right, f)

Conflicts(left, right) ==
  {[field |-> f, penalty |-> 5500] : f \in {g \in Strong : Differ(left, right, g)}}
  \cup {[field |-> f, penalty |-> 2000] :
          f \in {g \in {"company"} : /\ Differ(left, right, g)
                                     /\ Similarity(Get(left, g), Get(right, g)) < CompanyTolerance}}
  \cup {[field |-> f, penalty |-> 1500] : f \in {g \in {"city"} : Differ(left, right, g)}}

\* severe_conflict_types
Severe(conflicts) == \E c \in conflicts : c.field \in Strong

MaxScore == 10000

Score(evidence, conflicts) ==
  LET for     == MapThenSumSet(LAMBDA e : e.contribution, evidence)
      against == MapThenSumSet(LAMBDA c : c.penalty, conflicts)
  IN IF for < against THEN 0 ELSE Min({MaxScore, for - against})

-----------------------------------------------------------------------------
(* The decision about a pair *)

AutoMatchThreshold == 8800
ReviewThreshold == 5000

StrongIdentity(evidence) == \E e \in evidence : e.kind = "exact" /\ e.field \in Strong

\* is_weak_only_evidence: nothing but similarities, the city and the district.
WeakOnly(evidence) ==
  ~ StrongIdentity(evidence) /\ \A e \in evidence : e.kind = "similar" \/ e.field \in {"city", "district"}

Decide(evidence, conflicts) ==
  LET score == Score(evidence, conflicts) IN
    IF score < ReviewThreshold THEN "NO_MATCH"
    ELSE IF Severe(conflicts) \/ score < AutoMatchThreshold
            \/ ~ StrongIdentity(evidence) \/ WeakOnly(evidence)
      THEN "REVIEW" ELSE "AUTO_MATCH"

\* compare_candidate_pair and decide_pair_match
Decision(left, right) ==
  LET e == Evidence(left, right)
      c == Conflicts(left, right)
  IN [pair |-> OrderedPair(left.id, right.id), score |-> Score(e, c), decision |-> Decide(e, c)]

\* Higher scores first, then the order of the ids.
Before(d, e) ==
  \/ d.score > e.score
  \/ /\ d.score = e.score
     /\ \/ d.pair[1] < e.pair[1]
        \/ d.pair[1] = e.pair[1] /\ d.pair[2] < e.pair[2]

-----------------------------------------------------------------------------
(* Clusters of the AUTO_MATCH pairs *)

ComponentOf(comps, id) == CHOOSE C \in comps : id \in C

\* _cluster_has_severe_internal_conflict
InternalConflict(members, byId) ==
  \E a, b \in members : a < b /\ Severe(Conflicts(byId[a], byId[b]))

\* Broken variant: the guard looks only at the two records of the edge.
AlongOfPair(state, edge, byId) ==
  LET left == ComponentOf(state.comps, edge.pair[1])
      right == ComponentOf(state.comps, edge.pair[2])
      joined == (state.comps \ {left, right}) \cup {left \cup right}
  IN IF left # right /\ ConflictGuard /\ InternalConflict({edge.pair[1], edge.pair[2]}, byId)
       THEN [state EXCEPT !.guarded = @ + 1]
       ELSE [state EXCEPT !.comps = joined, !.accepted = @ \cup {edge.pair}]

\* One turn of the loop over the sorted edges.
Along(state, edge, byId) ==
  LET left == ComponentOf(state.comps, edge.pair[1])
      right == ComponentOf(state.comps, edge.pair[2])
      joined == (state.comps \ {left, right}) \cup {left \cup right}
  IN IF left # right /\ ConflictGuard /\ InternalConflict(left \cup right, byId)
       THEN [state EXCEPT !.guarded = @ + 1]
       ELSE [state EXCEPT !.comps = joined, !.accepted = @ \cup {edge.pair}]

\* Singletons take a number but are no cluster.
Clustered(auto, byId) ==
  LET walked == FoldLeft(LAMBDA st, e : Along(st, e, byId),
                         [comps |-> {{id} : id \in DOMAIN byId}, accepted |-> {}, guarded |-> 0],
                         SortedBy(auto, Before))
      number(C) == Cardinality({D \in walked.comps : Min(D) <= Min(C)})
  IN [clusters |-> {[number |-> number(C), members |-> C,
                     edges |-> {p \in walked.accepted : p[1] \in C /\ p[2] \in C},
                     conflict |-> InternalConflict(C, byId)] :
                      C \in {D \in walked.comps : Cardinality(D) > 1}},
      guarded |-> walked.guarded]

-----------------------------------------------------------------------------
(* resolve_entities *)

\* Stands for "a batch not resolved yet" and for the ValueError.
Unresolved == [outcome |-> "unresolved"]
Refused == [outcome |-> "forbidden field"]

\* By id, rows of one id in the order they came.
Sorted(records) ==
  LET Earlier(m, n) == \/ records[m].id < records[n].id
                       \/ records[m].id = records[n].id /\ m < n
      order == SortedBy(DOMAIN records, Earlier)
  IN [n \in DOMAIN order |-> records[order[n]]]

\* Later rows win when two carry one id; they are still blocked as two.
Resolve(records) ==
  LET sorted == Sorted(records)
      byId == [id \in {r.id : r \in Range(sorted)} |->
                 sorted[Max({i \in DOMAIN sorted : sorted[i].id = id})]]
      pairs == Candidates(sorted)
      decisions == {Decision(byId[p[1]], byId[p[2]]) : p \in pairs}
      of(d) == {x \in decisions : x.decision = d}
      clustered == Clustered(of("AUTO_MATCH"), byId)
  IN IF \E r \in Range(records) : DOMAIN r.fields \cap Forbidden # {} THEN Refused
     ELSE [outcome   |-> "resolved",
           records   |-> byId,
           candidates |-> pairs,
           decisions |-> decisions,
           review    |-> SortedBy(of("REVIEW"), Before),
           clusters  |-> clustered.clusters,
           summary   |-> [records |-> Len(records), possible |-> PossiblePairs(Len(records)),
                          auto |-> Cardinality(of("AUTO_MATCH")), review |-> Cardinality(of("REVIEW")),
                          none |-> Cardinality(of("NO_MATCH")), guarded |-> clustered.guarded]]

Entities(batch) == [n \in DOMAIN batch |-> Entity(batch[n], n)]

Init == rows \in Batches /\ resolved = Unresolved

ResolveBatch ==
  /\ resolved = Unresolved
  /\ resolved' = Resolve(Entities(rows))
  /\ UNCHANGED rows

Next == ResolveBatch

Spec == Init /\ [][Next]_vars

-----------------------------------------------------------------------------
(* Properties *)

Done == resolved.outcome = "resolved"

Ids == {e.id : e \in Range(Entities(rows))}

Unique == Cardinality(Ids) = Len(rows)

TypeOK ==
  /\ resolved.outcome \in {"unresolved", "resolved", "forbidden field"}
  /\ Done => /\ DOMAIN resolved.records = Ids
             /\ \A d \in resolved.decisions : d.pair[1] \in Ids /\ d.pair[2] \in Ids /\ d.score \in 0..MaxScore

\* Every AUTO_MATCH pair ends in one cluster, or the guard kept it out because the
\* two groups together hold a pair in severe conflict (build_entity_clusters).
AutoMatchesAreGrouped ==
  Done =>
    LET group(id) == UNION ({{id}} \cup {c.members : c \in {k \in resolved.clusters : id \in k.members}})
        auto == {d.pair : d \in {x \in resolved.decisions : x.decision = "AUTO_MATCH"}}
    IN /\ \A p \in auto : \/ group(p[1]) = group(p[2])
                          \/ /\ ConflictGuard
                             /\ InternalConflict(group(p[1]) \cup group(p[2]), resolved.records)
       /\ Cardinality(auto) = resolved.summary.guarded
                              + Cardinality(UNION {c.edges : c \in resolved.clusters})
                              + Cardinality({p \in auto : p[1] = p[2] /\ Cardinality(group(p[1])) = 1})

\* With the guard no cluster holds two records whose e-mail addresses or phones
\* differ, clusters share no record, and each is joined by its own edges.
ClustersAreConsistent ==
  Done =>
    /\ ConflictGuard => \A c \in resolved.clusters : ~ InternalConflict(c.members, resolved.records)
    /\ \A c, d \in resolved.clusters : c # d => c.members \cap d.members = {} /\ c.number # d.number
    /\ \A c \in resolved.clusters :
         \A S \in (SUBSET c.members) \ {{}, c.members} :
           \E p \in c.edges : (p[1] \in S) # (p[2] \in S)

\* Blocking hides no pair that would be an AUTO_MATCH, as long as its e-mail
\* addresses are long enough to be a key (generate_candidates, min_key_length).
BlockingMissesNoAutoMatch ==
  Done =>
    \A a, b \in Ids :
      LET l == resolved.records[a]
          r == resolved.records[b]
      IN a < b /\ Decision(l, r).decision = "AUTO_MATCH" /\ Get(l, "email") \notin 1..9
           => <<a, b>> \in resolved.candidates

\* Every candidate has exactly one decision, and the summary counts each once.
DecisionsAddUp ==
  Done =>
    /\ {d.pair : d \in resolved.decisions} = resolved.candidates
    /\ resolved.summary.auto + resolved.summary.review + resolved.summary.none
         = Cardinality(resolved.candidates)
    /\ Unique => Cardinality(resolved.candidates) <= resolved.summary.possible

\* The order of the rows changes nothing when their ids are their own.
RowOrderIsImmaterial ==
  Done /\ Unique /\ (\A n \in DOMAIN rows : rows[n].source # Nothing)
    => \A n \in DOMAIN rows :
         Resolve(Entities(SubSeq(rows, n, Len(rows)) \o SubSeq(rows, 1, n - 1))) = resolved
=============================================================================
