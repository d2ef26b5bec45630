--------------------------- MODULE MCReviewLedger ---------------------------
(* Small queues for ReviewLedger: every graph of up to three AUTO_MATCH edges *)
(* over four records with no severe pair or one of three, and two of five     *)
(* records.                                                                   *)
EXTENDS ReviewLedger

Pairs4 == PairsOver(1..4)

InOrder(P) == SetToSortSeq(P, Precedes)

Case(p) == 10 * p[1] + p[2]

\* Review cases are REVIEW pairs, never AUTO_MATCH pairs, and an AUTO_MATCH
\* pair is never in severe conflict: decide_pair_match decides each pair once.
Queue(R, auto, severe, review) ==
  [context |-> [records |-> R, auto |-> InOrder(auto), severe |-> severe, config |-> "er.yaml"],
   cases   |-> [c \in {Case(p) : p \in review} |-> <<c \div 10, c % 10>>]]

MCCaseIds == {Case(p) : p \in PairsOver(1..5)}

\* All graphs with the chosen number of edges; the rest of the pairs are review.
\* A severe pair at the start, in the middle and across the order of the records.
MCGraphs ==
  {Queue(1..4, auto, severe, Pairs4 \ auto) :
     auto \in {A \in SUBSET Pairs4 : Cardinality(A) <= 3},
     severe \in {{}, {<<1, 2>>}, {<<2, 3>>}, {<<1, 4>>}}}

\* Records 2 and 3 conflict, so of the AUTO_MATCH edges <<1, 2>> and <<1, 3>> the guard
\* lets the first through and the projection both: <<3, 4>> then joins different classes.
MCLosingQueue ==
  {Queue(1..5, {<<1, 2>>, <<1, 3>>, <<3, 4>>}, {<<2, 3>>}, {<<1, 4>>, <<3, 5>>, <<4, 5>>})}

MCSmallGraphs ==
  {wf \in MCGraphs : ToSet(wf.context.auto) \cap wf.context.severe = {}} \cup MCLosingQueue

\* Records 2 and 3 conflict, so the guard keeps AUTO_MATCH edge <<1, 3>> out of
\* the clusters; the projection has no guard.
MCGuardedQueue ==
  {Queue(1..5, {<<1, 2>>, <<1, 3>>, <<3, 4>>}, {<<2, 3>>, <<3, 5>>}, {<<1, 4>>, <<4, 5>>})}

\* A chain of two AUTO_MATCH edges and a conflict across it.
MCChainQueue ==
  {Queue(1..4, {<<1, 2>>, <<2, 3>>}, {<<2, 4>>}, {<<1, 3>>, <<3, 4>>})}

MCTriangleQueue ==
  {Queue(1..3, {}, {}, PairsOver(1..3))}
=============================================================================
