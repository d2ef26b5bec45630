---------------------------- MODULE QueueIntegrity ----------------------------
(***************************************************************************)
(* The operator's verification of one stored review queue                  *)
(* (review_persistence/integrity.py): which findings it reports about the  *)
(* rows that it reads, and whether the queue could be loaded at all        *)
(* (review_application/history.py).  The rows may be anything that a hand  *)
(* or another build left in the file.                                      *)
(*                                                                         *)
(* A resolution is a decision and its ordinal, 0 for NULL; whether the     *)
(* payload of an event is present exactly when it must be, and names the   *)
(* reviewer and the pair of its case, is one flag.  An operator commented  *)
(* "Broken variant" is a plausible bug of the one that follows it; no      *)
(* specification uses it.                                                  *)
(***************************************************************************)
EXTENDS Naturals, Sequences, FiniteSets

CONSTANTS
  Queues,       \* the stored queues that are verified
  NoRow,        \* a case that is not stored
  NoResolution, \* a case row without a resolution
  NoReport      \* not verified yet

VARIABLES stored, report

vars == <<stored, report>>

Codes == {"SCHEMA_UNSUPPORTED", "QUEUE_NOT_FOUND", "QUEUE_ORGANIZATION_MISSING", "INDEX_MISSING",
          "INDEX_INCOMPATIBLE", "RESOLUTION_SEQUENCE_DUPLICATED", "RESOLUTION_SEQUENCE_DISCONTINUOUS",
          "CHILD_ROW_ORPHANED", "CASE_RESOLVED_MORE_THAN_ONCE", "PENDING_CASE_HAS_RESOLUTION_EVENT",
          "RESOLVED_CASE_WITHOUT_HISTORY", "BUNDLE_NOT_RECONSTRUCTABLE", "CONTEXT_HAS_NO_RECORDS",
          "DATABASE_STRUCTURE"}

TypeOK == report \in (SUBSET Codes) \cup {NoReport}

-----------------------------------------------------------------------------
ResolutionTypes == {"MATCH", "NO_MATCH", "DEFERRED"}

CasesOf(q) == {c \in DOMAIN q.cases : q.cases[c] # NoRow}
Decided(q) == {c \in CasesOf(q) : q.cases[c].status # "PENDING"}

\* The rows with an ordinal, which the SQL asks for, and the events that are resolutions.
Numbered(q) == {i \in DOMAIN q.events : q.events[i].ordinal # 0}
Resolutions(q) == {i \in DOMAIN q.events : q.events[i].type \in ResolutionTypes}
Of(q, positions, c) == {i \in positions : q.events[i].case = c}
Ordinals(q) == {q.events[i].ordinal : i \in Numbered(q)}

If(code, condition) == IF condition THEN {code} ELSE {}

\* row_to_review_event, ReviewEvent: a resolution has its ordinal and the audit entry
\* that it projects, any other event has neither.
EventIsValid(e) == (e.type \in ResolutionTypes <=> e.ordinal # 0) /\ e.faithful

\* row_to_persisted_case: the payload can be rebuilt and says what the columns say.
CaseIsValid(row) == row.declared = row.status

\* _assert_event_agrees_with_case, and the pair that its audit entry names.
Agrees(e, row) ==
  /\ row.status = e.type
  /\ row.resolution # NoResolution
  /\ row.resolution.ordinal = e.ordinal
  /\ row.resolution.decision = e.type

\* A decided case without an event is an import: its own resolution stands in.
EntryOrdinal(q, c) ==
  IF Of(q, Resolutions(q), c) = {} THEN q.cases[c].resolution.ordinal
  ELSE q.events[CHOOSE i \in Of(q, Resolutions(q), c) : TRUE].ordinal

\* reconstruct_history: one event per stored case, agreeing with it, ordinals 1, 2, 3, ...
Reconstructs(q) ==
  /\ \A i \in Resolutions(q) : /\ q.events[i].case \in CasesOf(q)
                               /\ Of(q, Resolutions(q), q.events[i].case) = {i}
                               /\ Agrees(q.events[i], q.cases[q.events[i].case])
  /\ \A c \in Decided(q) : q.cases[c].resolution # NoResolution
  /\ {EntryOrdinal(q, c) : c \in Decided(q)} = 1..Cardinality(Decided(q))

\* load_workflow_bundle: a context whose records cover the cases, and a history.
Loadable(q) ==
  /\ q.context # "none"
  /\ \A c \in CasesOf(q) : CaseIsValid(q.cases[c])
  /\ \A i \in DOMAIN q.events : EventIsValid(q.events[i])
  /\ Reconstructs(q)
  /\ CasesOf(q) # {} => q.context = "whole"

-----------------------------------------------------------------------------
\* _check_expected_indexes
IndexFindings(q) ==
  If("INDEX_MISSING", q.index = "missing" \/ ~q.helpers) \cup If("INDEX_INCOMPATIBLE", q.index = "weak")

\* _check_sequence_uniqueness, _check_sequence_continuity
SequenceFindings(q) ==
  If("RESOLUTION_SEQUENCE_DUPLICATED", Cardinality(Ordinals(q)) < Cardinality(Numbered(q)))
  \cup If("RESOLUTION_SEQUENCE_DISCONTINUOUS", Ordinals(q) # 1..Cardinality(Ordinals(q)))

\* _check_orphaned_children
OrphanFindings(q) ==
  If("CHILD_ROW_ORPHANED", ({q.events[i].case : i \in DOMAIN q.events} \cup q.advice) \ CasesOf(q) # {})

\* Broken variant: a decided case without an event is taken for an import here, too.
HistoryFindingsOfImports(q) ==
  If("CASE_RESOLVED_MORE_THAN_ONCE", \E c \in DOMAIN q.cases : Cardinality(Of(q, Numbered(q), c)) > 1)
  \cup If("PENDING_CASE_HAS_RESOLUTION_EVENT",
          \E c \in CasesOf(q) \ Decided(q) : Of(q, Numbered(q), c) # {})

\* _check_resolved_cases_and_history
HistoryFindings(q) ==
  If("CASE_RESOLVED_MORE_THAN_ONCE", \E c \in DOMAIN q.cases : Cardinality(Of(q, Numbered(q), c)) > 1)
  \cup If("PENDING_CASE_HAS_RESOLUTION_EVENT",
          \E c \in CasesOf(q) \ Decided(q) : Of(q, Numbered(q), c) # {})
  \cup If("RESOLVED_CASE_WITHOUT_HISTORY", \E c \in Decided(q) : Of(q, Numbered(q), c) = {})

\* Broken variant: any stored context will do.
BundleFindingsOfContext(q) ==
  If("BUNDLE_NOT_RECONSTRUCTABLE", q.context = "none") \cup If("CONTEXT_HAS_NO_RECORDS", q.context = "empty")

\* _check_bundle_reconstructs
BundleFindings(q) ==
  IF ~Loadable(q) THEN {"BUNDLE_NOT_RECONSTRUCTABLE"} ELSE If("CONTEXT_HAS_NO_RECORDS", q.context = "empty")

\* verify_review_queue: a file of another schema and a missing queue end the checks.
Findings(q) ==
  IF ~q.supported THEN {"SCHEMA_UNSUPPORTED"}
  ELSE IF ~q.exists THEN {"QUEUE_NOT_FOUND"}
  ELSE If("QUEUE_ORGANIZATION_MISSING", ~q.owned) \cup IndexFindings(q) \cup SequenceFindings(q)
       \cup OrphanFindings(q) \cup HistoryFindings(q) \cup BundleFindings(q)
       \cup If("DATABASE_STRUCTURE", ~q.sound)

\* The rows have their columns: an ordinal is a number, a resolution is a decision and
\* its ordinal.
QueueAssumption ==
  /\ \A codes \in SUBSET Codes : NoReport # codes
  /\ \A q \in Queues :
       /\ IsFiniteSet(DOMAIN q.cases) /\ IsFiniteSet(DOMAIN q.events)
       /\ \A i \in DOMAIN q.events : q.events[i].ordinal \in Nat
       /\ \A c \in CasesOf(q) :
            LET row == q.cases[c]
            IN /\ row.resolution # NoResolution =>
                    row.resolution = [decision |-> row.resolution.decision, ordinal |-> row.resolution.ordinal]
               /\ \A n \in 1..Cardinality(DOMAIN q.cases) :
                    [decision |-> row.status, ordinal |-> n] # NoResolution
       /\ q.index \in {"global", "weak", "missing"} /\ q.context \in {"none", "empty", "whole"}

Init == stored \in Queues /\ report = NoReport

Verify == report = NoReport /\ report' = Findings(stored) /\ UNCHANGED stored

Next == Verify

Spec == Init /\ [][Next]_vars

-----------------------------------------------------------------------------
\* What a queue that only registrations, suggestions and resolutions have written looks
\* like: the decisions were taken one after the other, each left its row and its event.
WrittenByDecisions(q) ==
  /\ \A i \in DOMAIN q.events : EventIsValid(q.events[i]) /\ q.events[i].case \in CasesOf(q)
  /\ \A c \in CasesOf(q) : CaseIsValid(q.cases[c])
  /\ \E order \in [1..Cardinality(Decided(q)) -> Decided(q)] :
       /\ Cardinality(Resolutions(q)) = Cardinality(Decided(q))
       /\ \A n \in DOMAIN order :
            LET c == order[n]  row == q.cases[c]
            IN /\ row.resolution = [decision |-> row.status, ordinal |-> n]
               /\ \E i \in Resolutions(q) : /\ q.events[i].case = c /\ q.events[i].type = row.status
                                            /\ q.events[i].ordinal = n

FileIsSound(q) ==
  /\ q.supported /\ q.exists /\ q.owned /\ q.sound /\ q.helpers
  /\ q.index = "global" /\ q.context = "whole" /\ q.advice \subseteq CasesOf(q)

\* verify-queue reports nothing exactly on a queue that the program could have written,
\* and on that one the next load succeeds ("exit 0 only when it is clean").
VerdictIsRight ==
  report # NoReport =>
    /\ (report = {}) <=> (WrittenByDecisions(stored) /\ FileIsSound(stored))
    /\ report = {} => Loadable(stored)
=============================================================================
