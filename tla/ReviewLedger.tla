---------------------------- MODULE ReviewLedger ----------------------------
(***************************************************************************)
(* What a review queue promises, as one atomic step per accepted request:  *)
(* a workflow is registered whole or not at all, and a decision is judged  *)
(* against every decision recorded before it and then recorded for good.   *)
(* ReviewQueue implements this specification with transactions, versions   *)
(* and an event table; here only the judgements of the domain are left.    *)
(***************************************************************************)
EXTENDS ReviewGraph, TLC

CONSTANTS
  Reviewers,       \* who may decide
  CaseIds,         \* deterministic review case ids
  Workflows,       \* [context, cases: case id -> pair] a registration may carry
  Guard,           \* clustering.conflict_guard of the entity-resolution config
  SkipConflicted,  \* cluster_policy.skip_clusters_with_internal_conflict
  MaxDecisions     \* bound on the length of the ledger

\* A workflow lists its records, and its edges and cases are pairs of them
\* (WorkflowBundle checks the same when it loads one).
ASSUME WorkflowAssumption ==
  /\ Guard \in BOOLEAN /\ SkipConflicted \in BOOLEAN
  /\ \A wf \in Workflows :
       /\ IsFiniteSet(wf.context.records) /\ wf.context.records \subseteq Nat
       /\ wf.context.auto \in Seq(PairsOver(wf.context.records))
       /\ wf.context.severe \subseteq PairsOver(wf.context.records)
       /\ DOMAIN wf.cases \subseteq CaseIds
       /\ \A c \in DOMAIN wf.cases : wf.cases[c] \in PairsOver(wf.context.records)

VARIABLES
  context,     \* the stored authorization context, NoContext before the first
  registered,  \* the stored cases: case id -> pair
  ledger       \* the decisions in resolution-sequence order

vars == <<context, registered, ledger>>

Decisions == {"MATCH", "NO_MATCH", "DEFER"}

NoContext == [records |-> {}, auto |-> <<>>, severe |-> {}, config |-> "none"]

Decided == {ledger[i].case : i \in DOMAIN ledger}

\* Pairs whose case was decided as d within the first n entries.
PairsDecided(d, n) ==
  {registered[ledger[i].case] : i \in {j \in 1..n : ledger[j].decision = d}}

Matches   == PairsDecided("MATCH", Len(ledger))
NoMatches == PairsDecided("NO_MATCH", Len(ledger))

-----------------------------------------------------------------------------
Init == /\ context = NoContext
        /\ registered = <<>>
        /\ ledger = <<>>

\* Neither the workflow nor the queue with it gives a case id two pairs or a pair
\* two case ids.
Consistent(wf) ==
  /\ \A c \in DOMAIN wf.cases, k \in DOMAIN registered :
       (c = k) <=> (wf.cases[c] = registered[k])
  /\ \A c, k \in DOMAIN wf.cases : wf.cases[c] = wf.cases[k] => c = k

\* A stored case stands, a new one joins it.
WithCases(cases) ==
  [c \in DOMAIN registered \cup DOMAIN cases |->
     IF c \in DOMAIN registered THEN registered[c] ELSE cases[c]]

\* Broken variant: the cases are stored without their context.
RegisterCasesOnly(wf) ==
  /\ context = NoContext \/ Compatible(context, wf.context)
  /\ Consistent(wf)
  /\ registered' = WithCases(wf.cases)
  /\ UNCHANGED <<context, ledger>>

Register(wf) ==
  /\ context = NoContext \/ Compatible(context, wf.context)
  /\ Consistent(wf)
  /\ context' = IF context = NoContext THEN wf.context ELSE context
  /\ registered' = WithCases(wf.cases)
  /\ UNCHANGED ledger

Decide(r, c, d) ==
  /\ c \in DOMAIN registered \ Decided
  /\ d = "MATCH" => MatchAuthorized(context, Matches, NoMatches, registered[c])
  /\ ledger' = Append(ledger, [case |-> c, decision |-> d, reviewer |-> r])
  /\ UNCHANGED <<context, registered>>

Next ==
  \/ \E wf \in Workflows : Register(wf)
  \/ \E r \in Reviewers, c \in CaseIds, d \in Decisions :
        Len(ledger) < MaxDecisions /\ Decide(r, c, d)

Spec == Init /\ [][Next]_vars

-----------------------------------------------------------------------------
(* Properties *)

\* The stored context is that of a registered workflow, and every stored case is
\* about two of its records (what WorkflowBundle checks on load); the ledger
\* decides stored cases only.
TypeOK ==
  /\ context = NoContext \/ \E wf \in Workflows : context = wf.context
  /\ DOMAIN registered \subseteq CaseIds
  /\ \A c \in DOMAIN registered : registered[c] \in PairsOver(context.records)
  /\ ledger \in Seq([case : DOMAIN registered, decision : Decisions, reviewer : Reviewers])

\* What survivorship makes of the queue as it stands.
ReviewPairs == {registered[c] : c \in DOMAIN registered}
Excluded    == ExcludedRecords(ReviewPairs, Matches \cup NoMatches)
Clusters    == ReviewedClusters(context, Matches, NoMatches, Guard)
Merged      == MergedGroups(context, Matches, NoMatches, Excluded, Guard, SkipConflicted)
Singles     == SingletonRecords(context, Merged, Excluded)

\* However the decisions were ordered, no canonical entity joins two records
\* that a human declared different, not even through a chain of other edges.
MergesRespectNoMatch == \A G \in Merged : ~HoldsOneOf(G, NoMatches)

\* A record of a case that is open or deferred reaches no canonical entity:
\* no merged one through any chain of edges, and no singleton either.
UnresolvedStaysOut ==
  \A c \in DOMAIN registered : registered[c] \notin Matches \cup NoMatches =>
    \A r \in {registered[c][1], registered[c][2]} : r \notin Singles \cup UNION Merged

\* No record is lost and none is used twice: every record is excluded, alone,
\* or in exactly one merged entity.
EveryRecordOnce ==
  /\ Excluded \cup Singles \cup UNION Merged = context.records
  /\ Excluded \cap UNION Merged = {}
  /\ \A G, H \in Merged : G # H => G \cap H = {}

\* The conflict guard keeps out no AUTO_MATCH edge that the authorization counts on.
GuardAgrees == GuardedAuto(context, NoMatches, Guard) = ProjectedAuto(context, NoMatches)

LastTakesEffect ==
  LET p == registered[Last(ledger).case]
  IN \E C \in Clusters : {p[1], p[2]} \subseteq C

\* A MATCH that was accepted is honoured: as long as nothing newer is recorded its two
\* records share a cluster.  Authorization and clustering walk the AUTO_MATCH edges
\* without and with the conflict guard, so this is promised only while no NO_MATCH is
\* recorded or the guard makes no difference (see ConfirmedMatchIsIntegrated).
AcceptedMatchTakesEffect ==
  /\ ledger # <<>> /\ Last(ledger).decision = "MATCH"
  /\ NoMatches = {} \/ GuardAgrees
  => LastTakesEffect

\* While no NO_MATCH is recorded the two agree on severe conflicts: authorized
\* matches never make a cluster that holds one.
NoConflictWithoutNoMatch ==
  Guard /\ NoMatches = {} => \A C \in Clusters : ~HoldsOneOf(C, context.severe)

-----------------------------------------------------------------------------
(* Statements of the documentation that the code does not keep *)

\* "severe identity-conflict components must not be merged".
NoSevereConflictMerged == \A G \in Merged : ~HoldsOneOf(G, context.severe)

\* "The second writer ... is refused by the domain on the merits": the decisions
\* of a queue never contradict each other.
NoContradictionRecorded == \A p \in Matches : MatchAllowed(Matches, NoMatches, p)

\* "human-confirmed MATCH integration into canonical entity construction via HR-*
\* clusters": a MATCH that was authorized and recorded joins its two records.
ConfirmedMatchIsIntegrated ==
  ledger # <<>> /\ Last(ledger).decision = "MATCH" => LastTakesEffect

\* "AUTO_MATCH edge order carry[s] no meaning ... order-independent": whatever
\* order the snapshot lists its edges in, the same MATCH is authorized.
EdgeOrderIsImmaterial ==
  \A order \in SetToSeqs(ToSet(context.auto)), c \in DOMAIN registered \ Decided :
    MatchAuthorized(context, Matches, NoMatches, registered[c])
      <=> MatchAuthorized([context EXCEPT !.auto = order], Matches, NoMatches, registered[c])
=============================================================================
