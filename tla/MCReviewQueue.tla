--------------------------- MODULE MCReviewQueue ---------------------------
(* Small queues for ReviewQueue.                                             *)
EXTENDS ReviewQueue

Context(R, auto, severe, config) ==
  [records |-> R, auto |-> auto, severe |-> severe, config |-> config]

PairOf(c) == <<c \div 10, c % 10>>

Workflow(ctx, ids) == [context |-> ctx, cases |-> [c \in ids |-> PairOf(c)]]

\* Three records whose three pairs are all under review: every decision bears
\* on the two others.
TriangleIds == {12, 13, 23}

TriangleWorkflows == {Workflow(Context(1..3, <<>>, {}, "er.yaml"), TriangleIds)}

\* Bound of the triangle run: operators are done before the first decision;
\* the runs on a shared queue have them at work all the time.
RegisterFirst == Settled(disk) # {} => \A w \in Operators : pc[w] = "idle"

ReviewerSymmetry == Permutations(Reviewers)

\* A chain <<1, 2>>, <<2, 3>> with the AUTO_MATCH edge <<1, 3>> over it.  The
\* workflows: the full one; a part of it without a config path; the full one
\* under another config; one that gives a case id another pair after a new case;
\* another AUTO_MATCH graph.
ChainIds == {12, 23}

Chain(config) == Context(1..3, <<<<1, 3>>>>, {}, config)

SharedWorkflows ==
  {Workflow(Chain("er.yaml"), ChainIds),
   Workflow(Chain("none"), {12}),
   Workflow(Chain("other.yaml"), ChainIds),
   [context |-> Chain("er.yaml"), cases |-> (12 :> <<1, 2>> @@ 23 :> <<1, 2>>)],
   Workflow(Context(1..3, <<>>, {}, "er.yaml"), ChainIds)}

\* Two observations under one id, and one about the reversed pair.
SharedSuggestions ==
  {[id |-> "g1", case |-> 12, pair |-> <<1, 2>>, payload |-> "likely_match"],
   [id |-> "g1", case |-> 12, pair |-> <<1, 2>>, payload |-> "uncertain"],
   [id |-> "g2", case |-> 23, pair |-> <<3, 2>>, payload |-> "uncertain"]}

OneCaseWorkflows == {Workflow(Chain("er.yaml"), {12})}

OneCaseSuggestions == {g \in SharedSuggestions : g.case = 12 /\ g.payload = "uncertain"}
============================================================================
