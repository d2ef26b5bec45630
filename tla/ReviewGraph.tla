---------------------------- MODULE ReviewGraph ----------------------------
(***************************************************************************)
(* The graph algorithms of the human-review domain: which records a set of *)
(* edges joins, when a human MATCH is authorized, and which groups of      *)
(* records survivorship merges into one canonical entity.                  *)
(*                                                                         *)
(* A record is a natural number, ordered as the code orders record ids.  A *)
(* pair is <<a, b>> with a < b (RecordPair.ordered).  A union-find is the  *)
(* partition of the records it stands for.                                 *)
(*                                                                         *)
(* A context is what a workflow registration stores for authorization:     *)
(*   records  the record ids of the queue,                                 *)
(*   auto     the AUTO_MATCH pairs of the snapshot, in stored order,       *)
(*   severe   the pairs in severe identity conflict under the config,      *)
(*   config   the stored config path, "none" when no path was stored.      *)
(* AUTO_MATCH edges are walked in stored order, human edges in pair order. *)
(*                                                                         *)
(* An operator commented "Broken variant" is a plausible bug of the one    *)
(* that follows it; no specification uses it.                              *)
(***************************************************************************)
EXTENDS Naturals, FiniteSets, SequencesExt

PairsOver(R) == {p \in R \X R : p[1] < p[2]}

Precedes(p, q) == p[1] < q[1] \/ (p[1] = q[1] /\ p[2] < q[2])

LastPair(P) == CHOOSE p \in P : \A q \in P \ {p} : Precedes(q, p)

\* normalized_context_fingerprint and the config comparison of _store_context:
\* a context may be registered again over the stored one.
Compatible(stored, incoming) ==
  /\ stored.records = incoming.records
  /\ ToSet(stored.auto) = ToSet(incoming.auto)
  /\ (stored.config # "none" /\ incoming.config # "none") => stored.config = incoming.config

-----------------------------------------------------------------------------
(* Partitions *)

Singletons(R) == {{r} : r \in R}

Touching(comps, p) == {C \in comps : p[1] \in C \/ p[2] \in C}

\* The component that uniting the two ends of p would make.
Proposed(comps, p) == UNION Touching(comps, p)

\* Broken variant: the united components stay beside their union.
UniteKeeping(comps, p) == comps \cup {Proposed(comps, p)}

Unite(comps, p) == (comps \ Touching(comps, p)) \cup {Proposed(comps, p)}

ComponentOf(comps, r) == CHOOSE C \in comps : r \in C

\* Does S hold both ends of one of the pairs?
HoldsOneOf(S, pairs) == \E p \in pairs : p[1] \in S /\ p[2] \in S

\* Walk a sequence of edges and unite those that Accept lets through.
UniteAlong(comps, edges, Accept(_, _)) ==
  FoldLeft(LAMBDA cs, p : IF Accept(cs, p) THEN Unite(cs, p) ELSE cs, comps, edges)

\* The same for a set of edges, walked in pair order.
UniteInOrder(comps, edges, Accept(_, _)) ==
  MapThenFoldSet(LAMBDA p, cs : IF Accept(cs, p) THEN Unite(cs, p) ELSE cs,
                 comps, LAMBDA p : p, LastPair, edges)

-----------------------------------------------------------------------------
(* Authorization of a human MATCH *)

\* Stands for "raised" in the loop over the match edges.
Refused == {}

\* assert_human_match_allowed: raises at the first match edge whose merge would
\* hold a NO_MATCH pair, be it the requested one or one recorded before.
MatchAllowed(matches, noMatches, pair) ==
  LET edges == matches \cup {pair}
      ends  == UNION {{p[1], p[2]} : p \in edges}
      Step(p, cs) == IF cs = Refused \/ HoldsOneOf(Proposed(cs, p), noMatches)
                       THEN Refused ELSE Unite(cs, p)
  IN /\ pair \notin noMatches
     /\ MapThenFoldSet(Step, Singletons(ends), LAMBDA p : p, LastPair, edges) # Refused

\* The AUTO_MATCH edges of the projection: NO_MATCH blocks, conflict does not.
ProjectedAuto(ctx, noMatches) ==
  UniteAlong(Singletons(ctx.records), ctx.auto,
             LAMBDA cs, p : ~HoldsOneOf(Proposed(cs, p), noMatches))

ProjectedComponent(ctx, matches, noMatches, pair) ==
  LET Accept(cs, p) == p = pair \/ ~HoldsOneOf(Proposed(cs, p), noMatches)
      comps == UniteInOrder(ProjectedAuto(ctx, noMatches), matches \cup {pair}, Accept)
  IN ComponentOf(comps, pair[1])

\* Broken variant: the severe-conflict half of the boundary is dropped.
MatchAuthorizedIgnoringConflict(ctx, matches, noMatches, pair) ==
  /\ ctx.config # "none"
  /\ {pair[1], pair[2]} \subseteq ctx.records
  /\ MatchAllowed(matches, noMatches, pair)
  /\ ~HoldsOneOf(ProjectedComponent(ctx, matches, noMatches, pair), noMatches)

\* Broken variant: the projected component is never compared with NO_MATCH.
MatchAuthorizedIgnoringProjection(ctx, matches, noMatches, pair) ==
  /\ ctx.config # "none"
  /\ {pair[1], pair[2]} \subseteq ctx.records
  /\ MatchAllowed(matches, noMatches, pair)
  /\ ~HoldsOneOf(ProjectedComponent(ctx, matches, noMatches, pair), ctx.severe)

\* assert_human_match_authorization_boundary with the context checks before it.
MatchAuthorized(ctx, matches, noMatches, pair) ==
  /\ ctx.config # "none"
  /\ {pair[1], pair[2]} \subseteq ctx.records
  /\ MatchAllowed(matches, noMatches, pair)
  /\ LET members == ProjectedComponent(ctx, matches, noMatches, pair)
     IN ~HoldsOneOf(members, noMatches) /\ ~HoldsOneOf(members, ctx.severe)

-----------------------------------------------------------------------------
(* Canonical groups: what the recorded decisions do downstream *)

\* The AUTO_MATCH edges of the clustering: NO_MATCH blocks, and so does conflict.
GuardedAuto(ctx, noMatches, guard) ==
  LET Accept(cs, p) == /\ ~HoldsOneOf(Proposed(cs, p), noMatches)
                       /\ guard => ~HoldsOneOf(Proposed(cs, p), ctx.severe)
  IN UniteAlong(Singletons(ctx.records), ctx.auto, Accept)

\* Broken variant: the human edges are united unconditionally.
ReviewedClustersForced(ctx, matches, noMatches, guard) ==
  {C \in UniteInOrder(GuardedAuto(ctx, noMatches, guard), matches, LAMBDA cs, p : TRUE) : Cardinality(C) > 1}

\* build_review_aware_clusters: AUTO_MATCH edges pass the conflict guard and
\* the NO_MATCH check, human edges the NO_MATCH check only.
ReviewedClusters(ctx, matches, noMatches, guard) ==
  LET AcceptHuman(cs, p) == ~HoldsOneOf(Proposed(cs, p), noMatches)
  IN {C \in UniteInOrder(GuardedAuto(ctx, noMatches, guard), matches, AcceptHuman) : Cardinality(C) > 1}

\* Broken variant: one end of the pair is kept.
ExcludedRecordsOneEnd(review, settled) == {p[1] : p \in review \ settled}

\* review_excluded_record_ids: the records of the review pairs that are still
\* PENDING, DEFERRED or without a case, i.e. not among the settled pairs.
ExcludedRecords(review, settled) ==
  UNION {{p[1], p[2]} : p \in review \ settled}

\* build_canonical_entities: a cluster is merged unless it holds an excluded
\* record or (when the policy says so) an internal conflict.
MergedGroups(ctx, matches, noMatches, excluded, guard, skipConflicted) ==
  {C \in ReviewedClusters(ctx, matches, noMatches, guard) :
     /\ C \cap excluded = {}
     /\ skipConflicted => ~HoldsOneOf(C, ctx.severe)}

\* The records that become an entity of their own.
SingletonRecords(ctx, merged, excluded) == (ctx.records \ UNION merged) \ excluded
=============================================================================
