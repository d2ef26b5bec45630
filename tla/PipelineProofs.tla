--------------------------- MODULE PipelineProofs ---------------------------
(***************************************************************************)
(* Theorems about the pipeline: what the ledger of a review queue promises *)
(* of the merges, for any records, AUTO_MATCH edges, severe conflicts,     *)
(* cases and decisions, what normalizing promises of the values of a file  *)
(* and survivorship of the entities of a resolution, and the composition   *)
(* of the ledger with every stage (StageProofs has the others).            *)
(*                                                                         *)
(* Ledger.  The clusters are folds, and a fold is a walk that unites the   *)
(* classes of one edge after the other.  What a walk promises is shown by  *)
(* induction along it (WalkInduction): it keeps a good class good, it is   *)
(* the least partition that joins its edges, and two walks that block the  *)
(* same merges agree.  A MATCH is judged on a projection that the conflict *)
(* guard leaves alone, and the clusters are built with it.  Without a      *)
(* NO_MATCH they refine the projection, so a new class that holds the pair *)
(* lies within the judged component, and any other is one of before        *)
(* (MatchKeepsConflictOut).  LedgerInv says besides what the last MATCH    *)
(* was judged by, from which it follows that the MATCH takes effect.       *)
(*                                                                         *)
(* Quality.  Whether a value breaks a rule of severity error depends on    *)
(* its form and its length (BreaksIs).  Moves says what the rules of a     *)
(* field may change: a value breaks no more rules for it, unless it falls  *)
(* short without its spare characters (NoNewFaults), and is in the form    *)
(* that the rules leave as it is (ValuesSettle), except a company with     *)
(* several suffixes and an e-mail that composes in lower case only.        *)
(*                                                                         *)
(* Survivorship.  Two ranks of the same length that differ are ordered by  *)
(* their first difference, so one of finitely many members leads           *)
(* (OneLeads), and it is the one that is chosen.  Every record belongs to  *)
(* one merged cluster, stands alone or is excluded; entities correspond to *)
(* clusters and to records alone one to one.                               *)
(*                                                                         *)
(* The stages share no variable, and each but the ledger is a function of  *)
(* its input: what its state holds is an input and, once it ran, what it   *)
(* makes of it.                                                            *)
(***************************************************************************)
EXTENDS Pipeline, StageProofs

-----------------------------------------------------------------------------
(* Partitions and walks *)

\* The clustering starts from a partition.
LEMMA SingletonsPartition ==
  ASSUME NEW R PROVE Singletons(R) \in Parts(R)
<1>1. Singletons(R) \in SUBSET SUBSET R
  BY DEF Singletons
<1>2. UNION Singletons(R) = R
  BY DEF Singletons
<1> QED
  BY <1>1, <1>2 DEF Singletons, Parts

\* Refinement is reflexive and transitive.
LEMMA RefinesIsOrder ==
  ASSUME NEW cs, NEW ds, NEW es
  PROVE  Refines(cs, cs) /\ (Refines(cs, ds) /\ Refines(ds, es) => Refines(cs, es))
<1>1. Refines(cs, cs)
  BY DEF Refines
<1>2. ASSUME Refines(cs, ds), Refines(ds, es), NEW C \in cs PROVE \E E \in es : C \subseteq E
  <2>1. PICK D \in ds : C \subseteq D
    BY <1>2 DEF Refines
  <2>2. PICK E \in es : D \subseteq E
    BY <1>2 DEF Refines
  <2> QED  BY <2>1, <2>2
<1> QED
  BY <1>1, <1>2 DEF Refines

\* Uniting the classes of a pair coarsens a partition to one that joins the pair.
LEMMA Uniting ==
  ASSUME NEW R, NEW cs \in Parts(R), NEW p \in R \X R
  PROVE  /\ Unite(cs, p) \in Parts(R)
         /\ Refines(cs, Unite(cs, p))
         /\ Joins(Unite(cs, p), p)
         /\ Proposed(cs, p) \in Unite(cs, p)
         /\ p[1] \in Proposed(cs, p) /\ p[2] \in Proposed(cs, p)
<1> DEFINE T == Touching(cs, p)
           U == Proposed(cs, p)
<1>1. p[1] \in R /\ p[2] \in R
  OBVIOUS
<1>2. PICK A \in cs : p[1] \in A
  BY <1>1 DEF Parts
<1>3. PICK B \in cs : p[2] \in B
  BY <1>1 DEF Parts
<1>4. A \in T /\ B \in T /\ T \subseteq cs
  BY <1>2, <1>3 DEF Touching
<1>5. p[1] \in U /\ p[2] \in U /\ U = UNION T
  BY <1>2, <1>3, <1>4 DEF Proposed
<1>6. Unite(cs, p) = (cs \ T) \cup {U}
  BY DEF Unite
<1>7. U \subseteq R /\ U # {}
  BY <1>4, <1>5 DEF Parts
<1> HIDE DEF T, U
<1>8. Unite(cs, p) \in SUBSET SUBSET R /\ {} \notin Unite(cs, p)
  BY <1>6, <1>7 DEF Parts
<1>9. UNION Unite(cs, p) = R
  <2>1. ASSUME NEW r \in R PROVE r \in UNION Unite(cs, p)
    <3>1. PICK C \in cs : r \in C
      BY DEF Parts
    <3> QED  BY <3>1, <1>5, <1>6
  <2> QED  BY <2>1, <1>8
<1>10. ASSUME NEW C \in Unite(cs, p), NEW D \in Unite(cs, p) PROVE C = D \/ C \cap D = {}
  <2>1. ASSUME NEW E \in cs \ T PROVE E \cap U = {}
    <3>1. \A F \in T : E \cap F = {}
      BY <1>4, <2>1 DEF Parts
    <3> QED  BY <3>1, <1>5
  <2> QED  BY <2>1, <1>6 DEF Parts
<1>11. Unite(cs, p) \in Parts(R)
  BY <1>8, <1>9, <1>10 DEF Parts
<1>12. Refines(cs, Unite(cs, p))
  BY <1>5, <1>6 DEF Refines
<1> QED
  BY <1>5, <1>6, <1>11, <1>12 DEF Joins, U

\* It coarsens it no more than it has to.
LEMMA UniteIsLeast ==
  ASSUME NEW R, NEW cs \in Parts(R), NEW p \in R \X R, NEW P \in Parts(R),
         Refines(cs, P), Joins(P, p)
  PROVE  Refines(Unite(cs, p), P)
<1>1. PICK E \in P : p[1] \in E /\ p[2] \in E
  BY DEF Joins
<1>2. ASSUME NEW C \in Touching(cs, p) PROVE C \subseteq E
  <2>1. C \in cs /\ (p[1] \in C \/ p[2] \in C)
    BY DEF Touching
  <2>2. PICK D \in P : C \subseteq D
    BY <2>1 DEF Refines
  <2>3. D = E
    BY <1>1, <2>1, <2>2 DEF Parts
  <2> QED  BY <2>2, <2>3
<1>3. Proposed(cs, p) \subseteq E
  BY <1>2 DEF Proposed
<1> QED
  BY <1>3 DEF Unite, Refines

\* The class of a record in a coarser partition holds its class in a finer one.
LEMMA ClassesGrow ==
  ASSUME NEW R, NEW cs \in Parts(R), NEW P \in Parts(R), Refines(cs, P),
         NEW r, NEW C \in cs, r \in C, NEW D \in P, r \in D
  PROVE  C \subseteq D
<1>1. PICK E \in P : C \subseteq E
  BY DEF Refines
<1> QED
  BY <1>1 DEF Parts

\* The component of a record is the class it is in.
LEMMA ComponentIsClass ==
  ASSUME NEW R, NEW cs \in Parts(R), NEW r \in R
  PROVE  ComponentOf(cs, r) \in cs /\ r \in ComponentOf(cs, r)
<1>1. \E C \in cs : r \in C
  BY DEF Parts
<1> QED
  BY <1>1 DEF ComponentOf

-----------------------------------------------------------------------------
\* h walks the indices S, in the order in which ch picks the last of a set, and unites
\* the edges that A lets through.
Walks(h, S, ch, e, base, A) ==
  h = [s \in SUBSET S |->
         IF s = {} THEN base
         ELSE IF <<h[s \ {ch[s]}], e[ch[s]]>> \in A THEN Unite(h[s \ {ch[s]}], e[ch[s]])
         ELSE h[s \ {ch[s]}]]

WalkInput(R, S, ch, e, base) ==
  /\ IsFiniteSet(S) /\ base \in Parts(R) /\ e \in [S -> R \X R]
  /\ Picks(ch, S)

\* A walk over finitely many edges exists.
LEMMA WalkExists ==
  ASSUME NEW R, NEW S, NEW ch, NEW e, NEW base, WalkInput(R, S, ch, e, base), NEW A
  PROVE  \E h \in [SUBSET S -> Parts(R)] : Walks(h, S, ch, e, base, A)
<1> DEFINE F == [x \in S \X Parts(R) |-> IF <<x[2], e[x[1]]>> \in A THEN Unite(x[2], e[x[1]]) ELSE x[2]]
<1>1. IsFiniteSet(S) /\ base \in Parts(R) /\ Picks(ch, S)
  BY DEF WalkInput
<1>2. F \in [S \X Parts(R) -> Parts(R)]
  <2>1. ASSUME NEW x \in S \X Parts(R)
        PROVE  (IF <<x[2], e[x[1]]>> \in A THEN Unite(x[2], e[x[1]]) ELSE x[2]) \in Parts(R)
    <3>1. x[1] \in S /\ x[2] \in Parts(R)
      OBVIOUS
    <3>2. e[x[1]] \in R \X R
      BY <3>1 DEF WalkInput
    <3> QED  BY <3>1, <3>2, Uniting
  <2> QED  BY <2>1
<1>3. \A i \in S, cs \in Parts(R) :
        F[<<i, cs>>] = IF <<cs, e[i]>> \in A THEN Unite(cs, e[i]) ELSE cs
  <2> TAKE i \in S, cs \in Parts(R)
  <2>2. PICK x \in S \X Parts(R) : x = <<i, cs>>
    OBVIOUS
  <2>3. F[x] = IF <<x[2], e[x[1]]>> \in A THEN Unite(x[2], e[x[1]]) ELSE x[2]
    OBVIOUS
  <2>4. x[1] = i /\ x[2] = cs
    BY <2>2
  <2> HIDE DEF F
  <2>5. F[x] = IF <<cs, e[i]>> \in A THEN Unite(cs, e[i]) ELSE cs
    BY <2>3, <2>4
  <2> QED  BY <2>2, <2>5
<1> HIDE DEF F
<1>4. PICK h \in [SUBSET S -> Parts(R)] : Folding(h, S, ch, base, F)
  BY <1>1, <1>2, FoldExists
<1>5. ASSUME NEW s \in SUBSET S, s # {}
      PROVE  F[<<ch[s], h[s \ {ch[s]}]>>]
               = IF <<h[s \ {ch[s]}], e[ch[s]]>> \in A THEN Unite(h[s \ {ch[s]}], e[ch[s]])
                 ELSE h[s \ {ch[s]}]
  <2>1. ch[s] \in S /\ h[s \ {ch[s]}] \in Parts(R)
    BY <1>1, <1>4, <1>5 DEF Picks
  <2> QED  BY <2>1, <1>3
<1>6. Walks(h, S, ch, e, base, A)
  <2>1. \A s \in SUBSET S : h[s] = IF s = {} THEN base ELSE F[<<ch[s], h[s \ {ch[s]}]>>]
    BY <1>4 DEF Folding
  <2>2. \A s \in SUBSET S :
          h[s] = IF s = {} THEN base
                 ELSE IF <<h[s \ {ch[s]}], e[ch[s]]>> \in A THEN Unite(h[s \ {ch[s]}], e[ch[s]])
                 ELSE h[s \ {ch[s]}]
    BY <2>1, <1>5
  <2>3. h = [s \in SUBSET S |-> h[s]]
    BY <1>4
  <2> QED  BY <2>2, <2>3 DEF Walks
<1> QED
  BY <1>6

IsWalk(h, R, S, ch, e, base, A) ==
  WalkInput(R, S, ch, e, base) /\ h \in [SUBSET S -> Parts(R)] /\ Walks(h, S, ch, e, base, A)

\* What one step of a walk does, to the set s of indices it has reached.
StepAt(h, R, S, ch, e, A, s) ==
  LET t == s \ {ch[s]}
  IN /\ ch[s] \in s /\ ch[s] \in S /\ t \in SUBSET S /\ e[ch[s]] \in R \X R
     /\ h[t] \in Parts(R) /\ h[s] \in Parts(R)
     /\ \/ <<h[t], e[ch[s]]>> \in A /\ h[s] = Unite(h[t], e[ch[s]])
        \/ <<h[t], e[ch[s]]>> \notin A /\ h[s] = h[t]

\* The walk starts at its base and takes one step for every index.
LEMMA WalkStep ==
  ASSUME NEW R, NEW S, NEW ch, NEW e, NEW base, NEW A, NEW h, IsWalk(h, R, S, ch, e, base, A)
  PROVE  /\ h[{}] = base
         /\ \A s \in SUBSET S : s # {} => StepAt(h, R, S, ch, e, A, s)
<1>1. h[{}] = base
  BY DEF IsWalk, Walks
<1>2. ASSUME NEW s \in SUBSET S, s # {} PROVE StepAt(h, R, S, ch, e, A, s)
  <2>1. ch[s] \in s /\ ch[s] \in S /\ s \ {ch[s]} \in SUBSET S
    BY <1>2 DEF IsWalk, WalkInput, Picks
  <2>2. e[ch[s]] \in R \X R /\ h[s \ {ch[s]}] \in Parts(R) /\ h[s] \in Parts(R)
    BY <2>1 DEF IsWalk, WalkInput
  <2>3. h[s] = IF <<h[s \ {ch[s]}], e[ch[s]]>> \in A THEN Unite(h[s \ {ch[s]}], e[ch[s]])
               ELSE h[s \ {ch[s]}]
    BY <1>2 DEF IsWalk, Walks
  <2> QED  BY <2>1, <2>2, <2>3 DEF StepAt
<1> QED
  BY <1>1, <1>2

\* What holds at the base and is kept by every step holds all along the walk.
LEMMA WalkInduction ==
  ASSUME NEW S, NEW ch, IsFiniteSet(S), Picks(ch, S), NEW G, {} \in G,
         \A s \in SUBSET S : s # {} /\ s \ {ch[s]} \in G => s \in G
  PROVE  SUBSET S \subseteq G
<1>1. \A s \in SUBSET S : s # {} => \E x \in s : s \ {x} \in G => s \in G
  <2> TAKE s \in SUBSET S
  <2> HAVE s # {}
  <2>1. ch[s] \in s
    BY DEF Picks
  <2>2. s \ {ch[s]} \in G => s \in G
    OBVIOUS
  <2> WITNESS ch[s] \in s
  <2> QED  BY <2>2
<1> QED
  BY <1>1, SubsetInduction

\* A walk only coarsens, and keeps to classes that are good.
LEMMA WalkCoarsens ==
  ASSUME NEW R, NEW S, NEW ch, NEW e, NEW base, NEW A, NEW h, IsWalk(h, R, S, ch, e, base, A)
  PROVE  \A s \in SUBSET S : Refines(base, h[s])
<1> DEFINE G == {s \in SUBSET S : Refines(base, h[s])}
<1>1. {} \in G
  BY WalkStep, RefinesIsOrder
<1>2. ASSUME NEW s \in SUBSET S, s # {}, s \ {ch[s]} \in G PROVE s \in G
  <2>1. StepAt(h, R, S, ch, e, A, s)
    BY <1>2, WalkStep
  <2>2. Refines(h[s \ {ch[s]}], h[s])
    BY <2>1, Uniting, RefinesIsOrder DEF StepAt
  <2> QED  BY <1>2, <2>2, RefinesIsOrder
<1>3. IsFiniteSet(S) /\ Picks(ch, S)
  BY DEF IsWalk, WalkInput
<1>4. SUBSET S \subseteq G
  <2> HIDE DEF G
  <2> QED  BY <1>1, <1>2, <1>3, WalkInduction
<1> QED
  BY <1>4

\* A walk keeps its classes good when it lets through merges that are.
LEMMA WalkKeepsGood ==
  ASSUME NEW R, NEW S, NEW ch, NEW e, NEW base, NEW A, NEW h, IsWalk(h, R, S, ch, e, base, A),
         NEW Good, base \subseteq Good,
         \A cs \in Parts(R), i \in S : <<cs, e[i]>> \in A => Proposed(cs, e[i]) \in Good
  PROVE  \A s \in SUBSET S : h[s] \subseteq Good
<1> DEFINE G == {s \in SUBSET S : h[s] \subseteq Good}
<1>1. {} \in G
  BY WalkStep
<1>2. ASSUME NEW s \in SUBSET S, s # {}, s \ {ch[s]} \in G PROVE s \in G
  <2>1. StepAt(h, R, S, ch, e, A, s)
    BY <1>2, WalkStep
  <2>2. CASE <<h[s \ {ch[s]}], e[ch[s]]>> \in A
    <3>1. h[s] = Unite(h[s \ {ch[s]}], e[ch[s]])
      BY <2>1, <2>2 DEF StepAt
    <3>2. Proposed(h[s \ {ch[s]}], e[ch[s]]) \in Good
      BY <2>1, <2>2 DEF StepAt
    <3> QED  BY <1>2, <3>1, <3>2 DEF Unite
  <2>3. CASE <<h[s \ {ch[s]}], e[ch[s]]>> \notin A
    <3>1. h[s] = h[s \ {ch[s]}]
      BY <2>1, <2>3 DEF StepAt
    <3> QED  BY <1>2, <3>1
  <2> QED  BY <2>2, <2>3
<1>3. IsFiniteSet(S) /\ Picks(ch, S)
  BY DEF IsWalk, WalkInput
<1>4. SUBSET S \subseteq G
  <2> HIDE DEF G
  <2> QED  BY <1>1, <1>2, <1>3, WalkInduction
<1> QED
  BY <1>4

\* It joins no more than a partition that joins the edges.
LEMMA WalkIsLeast ==
  ASSUME NEW R, NEW S, NEW ch, NEW e, NEW base, NEW A, NEW h, IsWalk(h, R, S, ch, e, base, A),
         NEW P \in Parts(R), Refines(base, P), \A i \in S : Joins(P, e[i])
  PROVE  \A s \in SUBSET S : Refines(h[s], P)
<1> DEFINE G == {s \in SUBSET S : Refines(h[s], P)}
<1>1. {} \in G
  BY WalkStep
<1>2. ASSUME NEW s \in SUBSET S, s # {}, s \ {ch[s]} \in G PROVE s \in G
  <2>1. StepAt(h, R, S, ch, e, A, s)
    BY <1>2, WalkStep
  <2>2. Joins(P, e[ch[s]]) /\ Refines(h[s \ {ch[s]}], P)
    BY <1>2, <2>1 DEF StepAt
  <2>3. Refines(h[s], P)
    BY <2>1, <2>2, UniteIsLeast DEF StepAt
  <2> QED  BY <2>3
<1>3. IsFiniteSet(S) /\ Picks(ch, S)
  BY DEF IsWalk, WalkInput
<1>4. SUBSET S \subseteq G
  <2> HIDE DEF G
  <2> QED  BY <1>1, <1>2, <1>3, WalkInduction
<1> QED
  BY <1>4

\* An edge that is let through in any state of the walk is joined.
LEMMA WalkJoins ==
  ASSUME NEW R, NEW S, NEW ch, NEW e, NEW base, NEW A, NEW h, IsWalk(h, R, S, ch, e, base, A),
         NEW i \in S, \A cs \in Parts(R) : <<cs, e[i]>> \in A
  PROVE  \A s \in SUBSET S : i \in s => Joins(h[s], e[i])
<1> DEFINE G == {s \in SUBSET S : i \in s => Joins(h[s], e[i])}
<1>1. {} \in G
  OBVIOUS
<1>2. ASSUME NEW s \in SUBSET S, s # {}, s \ {ch[s]} \in G PROVE s \in G
  <2> DEFINE t == s \ {ch[s]}
  <2>1. StepAt(h, R, S, ch, e, A, s)
    BY <1>2, WalkStep
  <2>2. CASE ch[s] = i
    <3>1. h[t] \in Parts(R) /\ e[i] \in R \X R /\ h[s] = Unite(h[t], e[i])
      BY <2>1, <2>2 DEF StepAt
    <3>2. Joins(h[s], e[i])
      BY <3>1, Uniting
    <3> QED  BY <3>2
  <2>3. CASE ch[s] # i
    <3>1. Refines(h[t], h[s])
      BY <2>1, Uniting, RefinesIsOrder DEF StepAt
    <3>2. Joins(h[t], e[i]) => Joins(h[s], e[i])
      BY <3>1 DEF Joins, Refines
    <3> QED  BY <1>2, <3>2, <2>3
  <2> QED  BY <2>2, <2>3
<1>3. IsFiniteSet(S) /\ Picks(ch, S)
  BY DEF IsWalk, WalkInput
<1>4. SUBSET S \subseteq G
  <2> HIDE DEF G
  <2> QED  BY <1>1, <1>2, <1>3, WalkInduction
<1> QED
  BY <1>4

\* A lets through the edge i in any case and B whenever its class stays within K; they
\* agree on every other edge.
AgreeWithin(R, S, e, A, B, i, K) ==
  /\ \A cs \in Parts(R) : <<cs, e[i]>> \in A
  /\ \A cs \in Parts(R) : Proposed(cs, e[i]) \subseteq K => <<cs, e[i]>> \in B
  /\ \A cs \in Parts(R), j \in S \ {i} : <<cs, e[j]>> \in A <=> <<cs, e[j]>> \in B

\* Two walks that differ in one edge i only, which the first takes in any case and the
\* second whenever its class stays within K, end alike if i ends within K in the first.
LEMMA WalksAgree ==
  ASSUME NEW R, NEW S, NEW ch, NEW e, NEW base, NEW A, NEW h, IsWalk(h, R, S, ch, e, base, A),
         NEW B, NEW g, IsWalk(g, R, S, ch, e, base, B),
         NEW i \in S, NEW K, AgreeWithin(R, S, e, A, B, i, K),
         \A C \in h[S] : e[i][1] \in C => C \subseteq K
  PROVE  g[S] = h[S]
<1> DEFINE Small(s) == \A C \in h[s] : e[i][1] \in C => C \subseteq K
           G == {s \in SUBSET S : (i \in s => Small(s)) => g[s] = h[s]}
<1>1. {} \in G
  BY WalkStep
<1>2. ASSUME NEW s \in SUBSET S, s # {}, s \ {ch[s]} \in G PROVE s \in G
  <2> DEFINE t == s \ {ch[s]}
  <2> SUFFICES ASSUME i \in s => Small(s) PROVE g[s] = h[s]
    OBVIOUS
  <2>1. StepAt(h, R, S, ch, e, A, s) /\ StepAt(g, R, S, ch, e, B, s)
    BY <1>2, WalkStep
  <2>2. CASE ch[s] = i
    <3>1. i \in s /\ h[t] \in Parts(R) /\ e[i] \in R \X R
      BY <2>1, <2>2 DEF StepAt
    <3>2. g[t] = h[t]
      BY <1>2, <2>2
    <3>3. h[s] = Unite(h[t], e[i])
      BY <2>1, <2>2, <3>1 DEF StepAt, AgreeWithin
    <3>4. Proposed(h[t], e[i]) \in h[s] /\ e[i][1] \in Proposed(h[t], e[i])
      BY <3>1, <3>3, Uniting
    <3>5. Proposed(h[t], e[i]) \subseteq K
      BY <3>1, <3>4
    <3>6. g[s] = Unite(g[t], e[i])
      BY <2>1, <2>2, <3>1, <3>2, <3>5 DEF StepAt, AgreeWithin
    <3> QED  BY <3>2, <3>3, <3>6
  <2>3. CASE ch[s] # i
    <3>1. i \in s => i \in t
      BY <2>3
    <3>2. Refines(h[t], h[s]) /\ h[t] \in Parts(R) /\ h[s] \in Parts(R)
      BY <2>1, Uniting, RefinesIsOrder DEF StepAt
    <3>3. Small(s) => Small(t)
      <4> SUFFICES ASSUME Small(s), NEW C \in h[t], e[i][1] \in C PROVE C \subseteq K
        OBVIOUS
      <4>1. PICK D \in h[s] : C \subseteq D
        BY <3>2 DEF Refines
      <4> QED  BY <4>1
    <3>4. g[t] = h[t]
      <4>1. i \in t => Small(t)
        BY <3>1, <3>3
      <4> QED  BY <1>2, <4>1
    <3>5. <<h[t], e[ch[s]]>> \in A <=> <<g[t], e[ch[s]]>> \in B
      BY <2>1, <2>3, <3>2, <3>4 DEF StepAt, AgreeWithin
    <3> QED  BY <2>1, <3>4, <3>5 DEF StepAt
  <2> QED  BY <2>2, <2>3
<1>3. IsFiniteSet(S) /\ Picks(ch, S)
  BY DEF IsWalk, WalkInput
<1>4. SUBSET S \subseteq G
  <2> HIDE DEF G
  <2> QED  BY <1>1, <1>2, <1>3, WalkInduction
<1> QED
  BY <1>4

-----------------------------------------------------------------------------
(* The folds of ReviewGraph are walks *)

\* Max picks a member, the largest.
LEMMA MaxPicks ==
  ASSUME NEW S, IsFiniteSet(S), S \subseteq Int
  PROVE  \A s \in SUBSET S : s # {} => Max(s) \in s /\ \A y \in s : Max(s) >= y
BY Greatest DEF Max

\* LastPair picks a member.
LEMMA LastPairPicks ==
  ASSUME NEW R, IsFiniteSet(R), R \subseteq Nat
  PROVE  \A s \in SUBSET (R \X R) : s # {} => LastPair(s) \in s
<1> SUFFICES ASSUME NEW s \in SUBSET (R \X R), s # {} PROVE LastPair(s) \in s
  OBVIOUS
<1> DEFINE F == {p[1] : p \in s}
           a == Max(F)
           H == {p[2] : p \in {q \in s : q[1] = a}}
           b == Max(H)
<1>1. R \subseteq Int /\ F \in SUBSET R /\ H \in SUBSET R /\ F # {}
  <2>1. \A p \in s : p[1] \in R /\ p[2] \in R
    OBVIOUS
  <2>2. F \in SUBSET R /\ F # {}
    BY <2>1
  <2>3. H \in SUBSET R
    <3> HIDE DEF a
    <3> QED  BY <2>1
  <2> QED  BY <2>2, <2>3
<1>2. a \in F /\ \A x \in F : a >= x
  <2> HIDE DEF F
  <2> QED  BY <1>1, MaxPicks
<1>3. H # {}
  BY <1>2
<1>4. b \in H /\ \A x \in H : b >= x
  <2> HIDE DEF H
  <2> QED  BY <1>1, <1>3, MaxPicks
<1>5. PICK p \in s : p[1] = a /\ p[2] = b
  BY <1>4
<1>6. ASSUME NEW q \in s \ {p} PROVE Precedes(q, p)
  <2>1. q \in R \X R /\ p \in R \X R /\ q # p
    BY <1>6
  <2>2. q[1] \in Nat /\ q[2] \in Nat /\ p[1] \in Nat /\ p[2] \in Nat
    BY <2>1
  <2>3. q[1] # p[1] \/ q[2] # p[2]
    BY <2>1
  <2>4. p[1] >= q[1]
    BY <1>2, <1>5
  <2>5. q[1] = p[1] => p[2] >= q[2]
    BY <1>4, <1>5
  <2> HIDE DEF a, b
  <2> QED  BY <2>2, <2>3, <2>4, <2>5 DEF Precedes
<1> QED
  BY <1>5, <1>6 DEF LastPair

-----------------------------------------------------------------------------
(* The clusters are walks *)

\* The edges, with the partition they are met in, whose merge would hold no blocked pair.
Free(R, blocked) == {x \in Parts(R) \X (R \X R) : ~HoldsOneOf(Proposed(x[1], x[2]), blocked)}

BySequence(n) == [s \in SUBSET (1..n) |-> Max(s)]

ByPair(E) == [s \in SUBSET E |-> LastPair(s)]

\* What is free, for one edge.
LEMMA FreeIs ==
  ASSUME NEW R, NEW blocked, NEW cs \in Parts(R), NEW p \in R \X R
  PROVE  <<cs, p>> \in Free(R, blocked) <=> ~HoldsOneOf(Proposed(cs, p), blocked)
BY DEF Free

\* The AUTO_MATCH pairs, in their order, can be walked.
LEMMA SequenceInput ==
  ASSUME NEW R, NEW edges \in Seq(R \X R)
  PROVE  WalkInput(R, DOMAIN edges, BySequence(Len(edges)), edges, Singletons(R))
<1>1. DOMAIN edges = 1..Len(edges) /\ Len(edges) \in Nat
  OBVIOUS
<1>2. IsFiniteSet(DOMAIN edges)
  BY <1>1, FS_Interval
<1>3. edges \in [DOMAIN edges -> R \X R]
  OBVIOUS
<1>4. Picks(BySequence(Len(edges)), DOMAIN edges)
  <2>1. DOMAIN edges \subseteq Int
    BY <1>1
  <2>2. \A s \in SUBSET DOMAIN edges : s # {} => Max(s) \in s
    BY <1>2, <2>1, MaxPicks
  <2> QED  BY <1>1, <2>2 DEF Picks, BySequence
<1> QED
  BY <1>2, <1>3, <1>4, SingletonsPartition DEF WalkInput

\* A set of reviewed pairs, in the order of its ids, can be walked.
LEMMA PairInput ==
  ASSUME NEW R, IsFiniteSet(R), R \subseteq Nat, NEW E \in SUBSET (R \X R), NEW base \in Parts(R)
  PROVE  WalkInput(R, E, ByPair(E), [p \in E |-> p], base)
<1>1. IsFiniteSet(E)
  BY FS_Product, FS_Subset
<1>2. Picks(ByPair(E), E)
  BY LastPairPicks DEF Picks, ByPair
<1> QED
  BY <1>1, <1>2 DEF WalkInput

\* The AUTO_MATCH pairs of the projection are united by a walk that leaves out NO_MATCH.
LEMMA ProjectedAutoWalks ==
  ASSUME NEW ctx, NEW noMatches, ctx.auto \in Seq(ctx.records \X ctx.records)
  PROVE  \E h : /\ IsWalk(h, ctx.records, DOMAIN ctx.auto, BySequence(Len(ctx.auto)), ctx.auto,
                          Singletons(ctx.records), Free(ctx.records, noMatches))
                /\ ProjectedAuto(ctx, noMatches) = h[DOMAIN ctx.auto]
<1> DEFINE R == ctx.records
           S == DOMAIN ctx.auto
           ch == BySequence(Len(ctx.auto))
           A == Free(R, noMatches)
           Body(f) == [s \in SUBSET S |->
                         IF s = {} THEN Singletons(R)
                         ELSE IF ~HoldsOneOf(Proposed(f[s \ {Max(s)}], ctx.auto[Max(s)]), noMatches)
                                THEN Unite(f[s \ {Max(s)}], ctx.auto[Max(s)])
                              ELSE f[s \ {Max(s)}]]
           f0 == CHOOSE f : f = Body(f)
<1>1. ProjectedAuto(ctx, noMatches) = f0[S]
  BY DEF ProjectedAuto, UniteAlong, FoldLeft, MapThenFoldSet
<1>2. WalkInput(R, S, ch, ctx.auto, Singletons(R))
  BY SequenceInput
<1>3. PICK h \in [SUBSET S -> Parts(R)] : Walks(h, S, ch, ctx.auto, Singletons(R), A)
  <2> HIDE DEF A, ch
  <2> QED  BY <1>2, WalkExists
<1>4. IsWalk(h, R, S, ch, ctx.auto, Singletons(R), A)
  BY <1>2, <1>3 DEF IsWalk
<1>5. \A s \in SUBSET S : s # {} => ch[s] = Max(s)
  BY DEF BySequence
<1>6. ASSUME NEW s \in SUBSET S, s # {}
      PROVE  h[s] = IF ~HoldsOneOf(Proposed(h[s \ {Max(s)}], ctx.auto[Max(s)]), noMatches)
                      THEN Unite(h[s \ {Max(s)}], ctx.auto[Max(s)])
                    ELSE h[s \ {Max(s)}]
  <2>1. StepAt(h, R, S, ch, ctx.auto, A, s)
    <3> HIDE DEF A, ch, S
    <3> QED  BY <1>4, <1>6, WalkStep
  <2> QED  BY <1>5, <1>6, <2>1, FreeIs DEF StepAt
<1>7. h[{}] = Singletons(R)
  <2> HIDE DEF A, ch, S
  <2> QED  BY <1>4, WalkStep
<1>8. h = Body(h)
  BY <1>3, <1>6, <1>7
<1>9. f0 = Body(f0)
  <2> HIDE DEF Body
  <2> QED  BY <1>8
<1>10. f0[S] = h[S]
  <2> DEFINE G == {s \in SUBSET S : f0[s] = h[s]}
  <2>1. \A s \in SUBSET S : f0[s] = Body(f0)[s]
    <3> HIDE DEF Body, f0
    <3> QED  BY <1>9
  <2> HIDE DEF f0
  <2>2. {} \in G
    BY <2>1, <1>7
  <2>3. ASSUME NEW s \in SUBSET S, s # {}, s \ {ch[s]} \in G PROVE s \in G
    <3> DEFINE t == s \ {Max(s)}
    <3>1. f0[t] = h[t]
      BY <2>3, <1>5
    <3>2. f0[s] = IF ~HoldsOneOf(Proposed(f0[t], ctx.auto[Max(s)]), noMatches)
                    THEN Unite(f0[t], ctx.auto[Max(s)]) ELSE f0[t]
      BY <2>1, <2>3
    <3>3. h[s] = IF ~HoldsOneOf(Proposed(h[t], ctx.auto[Max(s)]), noMatches)
                   THEN Unite(h[t], ctx.auto[Max(s)]) ELSE h[t]
      BY <2>3, <1>6
    <3> HIDE DEF t
    <3> QED  BY <3>1, <3>2, <3>3
  <2>4. SUBSET S \subseteq G
    <3>1. IsFiniteSet(S) /\ Picks(ch, S)
      BY <1>2 DEF WalkInput
    <3>2. \A s \in SUBSET S : s # {} /\ s \ {ch[s]} \in G => s \in G
      BY <2>3
    <3> HIDE DEF G, ch, S
    <3> QED  BY <2>2, <3>1, <3>2, WalkInduction
  <2> QED  BY <2>4
<1> QED
  <2> HIDE DEF f0
  <2> QED  BY <1>1, <1>4, <1>10

\* The pairs that the guard blocks.
Guarded(ctx, guard) == IF guard THEN ctx.severe ELSE {}

\* What the guard adds to the blocked pairs.
LEMMA GuardedPairs ==
  ASSUME NEW ctx, NEW guard \in BOOLEAN, NEW noMatches, NEW C
  PROVE  HoldsOneOf(C, noMatches \cup Guarded(ctx, guard))
           <=> HoldsOneOf(C, noMatches) \/ (guard /\ HoldsOneOf(C, ctx.severe))
BY DEF HoldsOneOf, Guarded

\* Those of the clusters are united by a walk that the guard may restrict more.
LEMMA GuardedAutoWalks ==
  ASSUME NEW ctx, NEW noMatches, NEW guard \in BOOLEAN, ctx.auto \in Seq(ctx.records \X ctx.records)
  PROVE  \E h : /\ IsWalk(h, ctx.records, DOMAIN ctx.auto, BySequence(Len(ctx.auto)), ctx.auto,
                          Singletons(ctx.records), Free(ctx.records, noMatches \cup Guarded(ctx, guard)))
                /\ GuardedAuto(ctx, noMatches, guard) = h[DOMAIN ctx.auto]
<1> DEFINE R == ctx.records
           S == DOMAIN ctx.auto
           ch == BySequence(Len(ctx.auto))
           A == Free(R, noMatches \cup Guarded(ctx, guard))
           Lets(cs, p) == /\ ~HoldsOneOf(Proposed(cs, p), noMatches)
                          /\ guard => ~HoldsOneOf(Proposed(cs, p), ctx.severe)
           Body(f) == [s \in SUBSET S |->
                         IF s = {} THEN Singletons(R)
                         ELSE IF Lets(f[s \ {Max(s)}], ctx.auto[Max(s)])
                                THEN Unite(f[s \ {Max(s)}], ctx.auto[Max(s)])
                              ELSE f[s \ {Max(s)}]]
           f0 == CHOOSE f : f = Body(f)
<1>1. GuardedAuto(ctx, noMatches, guard) = f0[S]
  BY DEF GuardedAuto, UniteAlong, FoldLeft, MapThenFoldSet
<1>2. WalkInput(R, S, ch, ctx.auto, Singletons(R))
  BY SequenceInput
<1>3. PICK h \in [SUBSET S -> Parts(R)] : Walks(h, S, ch, ctx.auto, Singletons(R), A)
  <2> HIDE DEF A, ch
  <2> QED  BY <1>2, WalkExists
<1>4. IsWalk(h, R, S, ch, ctx.auto, Singletons(R), A)
  BY <1>2, <1>3 DEF IsWalk
<1>5. \A s \in SUBSET S : s # {} => ch[s] = Max(s)
  BY DEF BySequence
<1>6. ASSUME NEW s \in SUBSET S, s # {}
      PROVE  h[s] = IF Lets(h[s \ {Max(s)}], ctx.auto[Max(s)])
                      THEN Unite(h[s \ {Max(s)}], ctx.auto[Max(s)])
                    ELSE h[s \ {Max(s)}]
  <2>1. StepAt(h, R, S, ch, ctx.auto, A, s)
    <3> HIDE DEF A, ch, S
    <3> QED  BY <1>4, <1>6, WalkStep
  <2>2. \A cs \in Parts(R), p \in R \X R : <<cs, p>> \in A <=> Lets(cs, p)
    <3> TAKE cs \in Parts(R), p \in R \X R
    <3>1. <<cs, p>> \in A <=> ~HoldsOneOf(Proposed(cs, p), noMatches \cup Guarded(ctx, guard))
      BY FreeIs
    <3> HIDE DEF A
    <3> QED  BY <3>1, GuardedPairs
  <2> HIDE DEF Lets
  <2> QED  BY <1>5, <1>6, <2>1, <2>2 DEF StepAt
<1>7. h[{}] = Singletons(R)
  <2> HIDE DEF A, ch, S
  <2> QED  BY <1>4, WalkStep
<1>8. h = Body(h)
  BY <1>3, <1>6, <1>7
<1>9. f0 = Body(f0)
  <2> HIDE DEF Body
  <2> QED  BY <1>8
<1>10. f0[S] = h[S]
  <2> DEFINE G == {s \in SUBSET S : f0[s] = h[s]}
  <2>1. \A s \in SUBSET S : f0[s] = Body(f0)[s]
    <3> HIDE DEF Body, f0
    <3> QED  BY <1>9
  <2> HIDE DEF f0
  <2>2. {} \in G
    BY <2>1, <1>7
  <2>3. ASSUME NEW s \in SUBSET S, s # {}, s \ {ch[s]} \in G PROVE s \in G
    <3> DEFINE t == s \ {Max(s)}
    <3>1. f0[t] = h[t]
      BY <2>3, <1>5
    <3>2. f0[s] = IF Lets(f0[t], ctx.auto[Max(s)])
                    THEN Unite(f0[t], ctx.auto[Max(s)]) ELSE f0[t]
      BY <2>1, <2>3
    <3>3. h[s] = IF Lets(h[t], ctx.auto[Max(s)])
                   THEN Unite(h[t], ctx.auto[Max(s)]) ELSE h[t]
      BY <2>3, <1>6
    <3> HIDE DEF t
    <3> QED  BY <3>1, <3>2, <3>3
  <2>4. SUBSET S \subseteq G
    <3>1. IsFiniteSet(S) /\ Picks(ch, S)
      BY <1>2 DEF WalkInput
    <3>2. \A s \in SUBSET S : s # {} /\ s \ {ch[s]} \in G => s \in G
      BY <2>3
    <3> HIDE DEF G, ch, S
    <3> QED  BY <2>2, <3>1, <3>2, WalkInduction
  <2> QED  BY <2>4
<1> QED
  <2> HIDE DEF f0
  <2> QED  BY <1>1, <1>4, <1>10
\* The MATCH pairs are united by a walk that starts from there.
LEMMA ReviewedWalks ==
  ASSUME NEW ctx, NEW matches, NEW noMatches, NEW guard,
         IsFiniteSet(ctx.records), ctx.records \subseteq Nat, matches \subseteq ctx.records \X ctx.records,
         GuardedAuto(ctx, noMatches, guard) \in Parts(ctx.records)
  PROVE  \E h : /\ IsWalk(h, ctx.records, matches, ByPair(matches), [p \in matches |-> p],
                          GuardedAuto(ctx, noMatches, guard),
                          Free(ctx.records, noMatches))
                /\ ReviewedClusters(ctx, matches, noMatches, guard) = {C \in h[matches] : Cardinality(C) > 1}
<1> DEFINE R == ctx.records
           S == matches
           ch == ByPair(S)
           e == [p \in S |-> p]
           base == GuardedAuto(ctx, noMatches, guard)
           A == Free(R, noMatches)
           Lets(cs, p) == ~HoldsOneOf(Proposed(cs, p), noMatches)
           Body(f) == [s \in SUBSET S |->
                         IF s = {} THEN base
                         ELSE IF Lets(f[s \ {LastPair(s)}], LastPair(s))
                                THEN Unite(f[s \ {LastPair(s)}], LastPair(s))
                              ELSE f[s \ {LastPair(s)}]]
           f0 == CHOOSE f : f = Body(f)
<1>1. ReviewedClusters(ctx, matches, noMatches, guard) = {C \in f0[S] : Cardinality(C) > 1}
  BY DEF ReviewedClusters, UniteInOrder, MapThenFoldSet
<1>2. WalkInput(R, S, ch, e, base)
  BY PairInput
<1>3. PICK h \in [SUBSET S -> Parts(R)] : Walks(h, S, ch, e, base, A)
  <2> HIDE DEF A, ch, e, base
  <2> QED  BY <1>2, WalkExists
<1>4. IsWalk(h, R, S, ch, e, base, A)
  BY <1>2, <1>3 DEF IsWalk
<1>5. \A s \in SUBSET S : s # {} => ch[s] = LastPair(s)
  BY DEF ByPair
<1>6. ASSUME NEW s \in SUBSET S, s # {}
      PROVE  h[s] = IF Lets(h[s \ {LastPair(s)}], LastPair(s))
                      THEN Unite(h[s \ {LastPair(s)}], LastPair(s))
                    ELSE h[s \ {LastPair(s)}]
  <2>1. StepAt(h, R, S, ch, e, A, s)
    <3> HIDE DEF A, ch, S, e, base
    <3> QED  BY <1>4, <1>6, WalkStep
  <2>2. \A cs \in Parts(R), p \in R \X R : <<cs, p>> \in A <=> Lets(cs, p)
    BY FreeIs
  <2>3. e[ch[s]] = LastPair(s)
    BY <1>5, <1>6, <2>1 DEF StepAt
  <2> HIDE DEF Lets, A, e
  <2> QED  BY <1>5, <1>6, <2>1, <2>2, <2>3 DEF StepAt
<1>7. h[{}] = base
  <2> HIDE DEF A, ch, S, e, base
  <2> QED  BY <1>4, WalkStep
<1>8. h = Body(h)
  BY <1>3, <1>6, <1>7
<1>9. f0 = Body(f0)
  <2> HIDE DEF Body
  <2> QED  BY <1>8
<1>10. f0[S] = h[S]
  <2> DEFINE G == {s \in SUBSET S : f0[s] = h[s]}
  <2>1. \A s \in SUBSET S : f0[s] = Body(f0)[s]
    <3> HIDE DEF Body, f0
    <3> QED  BY <1>9
  <2> HIDE DEF f0, base
  <2>2. {} \in G
    BY <2>1, <1>7
  <2>3. ASSUME NEW s \in SUBSET S, s # {}, s \ {ch[s]} \in G PROVE s \in G
    <3> DEFINE t == s \ {LastPair(s)}
    <3>1. f0[t] = h[t]
      BY <2>3, <1>5
    <3>2. f0[s] = IF Lets(f0[t], LastPair(s))
                    THEN Unite(f0[t], LastPair(s)) ELSE f0[t]
      BY <2>1, <2>3
    <3>3. h[s] = IF Lets(h[t], LastPair(s))
                   THEN Unite(h[t], LastPair(s)) ELSE h[t]
      BY <2>3, <1>6
    <3> HIDE DEF t
    <3> QED  BY <3>1, <3>2, <3>3
  <2>4. SUBSET S \subseteq G
    <3>1. IsFiniteSet(S) /\ Picks(ch, S)
      BY <1>2 DEF WalkInput
    <3>2. \A s \in SUBSET S : s # {} /\ s \ {ch[s]} \in G => s \in G
      BY <2>3
    <3> HIDE DEF G, ch, S, e, base
    <3> QED  BY <2>2, <3>1, <3>2, WalkInduction
  <2> QED  BY <2>4
<1> QED
  <2> HIDE DEF f0
  <2> QED  BY <1>1, <1>4, <1>10
\* The same, and one pair in any case.
Forced(R, blocked, pair) == Free(R, blocked) \cup {x \in Parts(R) \X (R \X R) : x[2] = pair}

\* What is let through when one pair is forced.
LEMMA ForcedIs ==
  ASSUME NEW R, NEW blocked, NEW pair, NEW cs \in Parts(R), NEW p \in R \X R
  PROVE  <<cs, p>> \in Forced(R, blocked, pair)
           <=> p = pair \/ ~HoldsOneOf(Proposed(cs, p), blocked)
BY DEF Forced, Free

\* h is the walk of the projection that a MATCH on the pair is judged by.
ProjectedWalk(h, ctx, matches, noMatches, pair) ==
  LET edges == matches \cup {pair}
  IN /\ IsWalk(h, ctx.records, edges, ByPair(edges), [p \in edges |-> p], ProjectedAuto(ctx, noMatches),
               Forced(ctx.records, noMatches, pair))
     /\ ProjectedComponent(ctx, matches, noMatches, pair) = ComponentOf(h[edges], pair[1])

\* The projection of a MATCH is a walk that forces its pair.
LEMMA ProjectedWalks ==
  ASSUME NEW ctx, NEW matches, NEW noMatches, NEW pair,
         IsFiniteSet(ctx.records), ctx.records \subseteq Nat,
         matches \cup {pair} \subseteq ctx.records \X ctx.records,
         ProjectedAuto(ctx, noMatches) \in Parts(ctx.records)
  PROVE  \E h : ProjectedWalk(h, ctx, matches, noMatches, pair)
<1> DEFINE R == ctx.records
           S == (matches \cup {pair})
           ch == ByPair(S)
           e == [p \in S |-> p]
           base == ProjectedAuto(ctx, noMatches)
           A == Forced(R, noMatches, pair)
           Lets(cs, p) == p = pair \/ ~HoldsOneOf(Proposed(cs, p), noMatches)
           Body(f) == [s \in SUBSET S |->
                         IF s = {} THEN base
                         ELSE IF Lets(f[s \ {LastPair(s)}], LastPair(s))
                                THEN Unite(f[s \ {LastPair(s)}], LastPair(s))
                              ELSE f[s \ {LastPair(s)}]]
           f0 == CHOOSE f : f = Body(f)
<1>1. ProjectedComponent(ctx, matches, noMatches, pair) = ComponentOf(f0[S], pair[1])
  BY DEF ProjectedComponent, UniteInOrder, MapThenFoldSet
<1>2. WalkInput(R, S, ch, e, base)
  BY PairInput
<1>3. PICK h \in [SUBSET S -> Parts(R)] : Walks(h, S, ch, e, base, A)
  <2> HIDE DEF A, ch, e, base
  <2> QED  BY <1>2, WalkExists
<1>4. IsWalk(h, R, S, ch, e, base, A)
  BY <1>2, <1>3 DEF IsWalk
<1>5. \A s \in SUBSET S : s # {} => ch[s] = LastPair(s)
  BY DEF ByPair
<1>6. ASSUME NEW s \in SUBSET S, s # {}
      PROVE  h[s] = IF Lets(h[s \ {LastPair(s)}], LastPair(s))
                      THEN Unite(h[s \ {LastPair(s)}], LastPair(s))
                    ELSE h[s \ {LastPair(s)}]
  <2>1. StepAt(h, R, S, ch, e, A, s)
    <3> HIDE DEF A, ch, S, e, base
    <3> QED  BY <1>4, <1>6, WalkStep
  <2>2. \A cs \in Parts(R), p \in R \X R : <<cs, p>> \in A <=> Lets(cs, p)
    BY ForcedIs
  <2>3. e[ch[s]] = LastPair(s)
    BY <1>5, <1>6, <2>1 DEF StepAt
  <2> HIDE DEF Lets, A, e
  <2> QED  BY <1>5, <1>6, <2>1, <2>2, <2>3 DEF StepAt
<1>7. h[{}] = base
  <2> HIDE DEF A, ch, S, e, base
  <2> QED  BY <1>4, WalkStep
<1>8. h = Body(h)
  BY <1>3, <1>6, <1>7
<1>9. f0 = Body(f0)
  <2> HIDE DEF Body
  <2> QED  BY <1>8
<1>10. f0[S] = h[S]
  <2> DEFINE G == {s \in SUBSET S : f0[s] = h[s]}
  <2>1. \A s \in SUBSET S : f0[s] = Body(f0)[s]
    <3> HIDE DEF Body, f0
    <3> QED  BY <1>9
  <2> HIDE DEF f0, base
  <2>2. {} \in G
    BY <2>1, <1>7
  <2>3. ASSUME NEW s \in SUBSET S, s # {}, s \ {ch[s]} \in G PROVE s \in G
    <3> DEFINE t == s \ {LastPair(s)}
    <3>1. f0[t] = h[t]
      BY <2>3, <1>5
    <3>2. f0[s] = IF Lets(f0[t], LastPair(s))
                    THEN Unite(f0[t], LastPair(s)) ELSE f0[t]
      BY <2>1, <2>3
    <3>3. h[s] = IF Lets(h[t], LastPair(s))
                   THEN Unite(h[t], LastPair(s)) ELSE h[t]
      BY <2>3, <1>6
    <3> HIDE DEF t
    <3> QED  BY <3>1, <3>2, <3>3
  <2>4. SUBSET S \subseteq G
    <3>1. IsFiniteSet(S) /\ Picks(ch, S)
      BY <1>2 DEF WalkInput
    <3>2. \A s \in SUBSET S : s # {} /\ s \ {ch[s]} \in G => s \in G
      BY <2>3
    <3> HIDE DEF G, ch, S, e, base
    <3> QED  BY <2>2, <3>1, <3>2, WalkInduction
  <2> QED  BY <2>4
<1>11. ProjectedWalk(h, ctx, matches, noMatches, pair)
  <2> HIDE DEF f0
  <2> QED  BY <1>1, <1>4, <1>10 DEF ProjectedWalk
<1> QED
  BY <1>11

GraphOK(ctx) ==
  /\ IsFiniteSet(ctx.records) /\ ctx.records \subseteq Nat
  /\ ctx.auto \in Seq(PairsOver(ctx.records))
  /\ ctx.severe \subseteq PairsOver(ctx.records)

\* The two records of a pair differ.
LEMMA PairFacts ==
  ASSUME NEW R, R \subseteq Nat
  PROVE  /\ PairsOver(R) \subseteq R \X R
         /\ \A p \in PairsOver(R) : p[1] \in R /\ p[2] \in R /\ p[1] # p[2]
<1>1. PairsOver(R) \subseteq R \X R
  BY DEF PairsOver
<1>2. ASSUME NEW p \in PairsOver(R)
      PROVE  p[1] \in R /\ p[2] \in R /\ p[1] # p[2]
  <2>1. p \in R \X R /\ p[1] < p[2]
    BY DEF PairsOver
  <2>2. p[1] \in R /\ p[2] \in R
    BY <2>1
  <2>3. p[1] \in Nat /\ p[2] \in Nat
    BY <2>2
  <2> QED  BY <2>1, <2>2, <2>3
<1> QED
  BY <1>1, <1>2

\* The AUTO_MATCH pairs are a sequence of pairs.
LEMMA AutoIsSequence ==
  ASSUME NEW ctx, GraphOK(ctx)
  PROVE  ctx.auto \in Seq(ctx.records \X ctx.records)
<1>1. PairsOver(ctx.records) \subseteq ctx.records \X ctx.records
  BY DEF PairsOver
<1> QED
  BY <1>1 DEF GraphOK

\* What holds a pair has two members, and so does what is larger.
LEMMA HoldingIsMonotone ==
  ASSUME NEW C, NEW D, C \subseteq D, NEW B
  PROVE  HoldsOneOf(C, B) => HoldsOneOf(D, B)
BY DEF HoldsOneOf

\* A class of two records is no singleton.
LEMMA TwoMembers ==
  ASSUME NEW R, IsFiniteSet(R), NEW C \in SUBSET R, NEW x \in C, NEW y \in C, x # y
  PROVE  Cardinality(C) > 1
<1>1. IsFiniteSet(C) /\ Cardinality(C) \in Nat
  BY FS_Subset, FS_CardinalityType
<1>2. Cardinality(C) # 0
  BY <1>1, FS_EmptySet
<1>3. Cardinality(C) # 1
  <2>1. Cardinality(C) = 1 => \E z : C = {z}
    BY <1>1, FS_Singleton
  <2> QED  BY <2>1
<1> QED
  BY <1>1, <1>2, <1>3

\* The classes that hold no blocked pair.
Clean(R, B) == {C \in SUBSET R : ~HoldsOneOf(C, B)}

\* A walk that blocks the pairs B leaves none of them inside a class.
LEMMA FreeWalkIsClean ==
  ASSUME NEW R, R \subseteq Nat, NEW S, NEW ch, NEW e, NEW base, NEW B, NEW h,
         IsWalk(h, R, S, ch, e, base, Free(R, B)), base \subseteq Clean(R, B)
  PROVE  \A s \in SUBSET S : h[s] \subseteq Clean(R, B)
<1>1. ASSUME NEW cs \in Parts(R), NEW i \in S, <<cs, e[i]>> \in Free(R, B)
      PROVE  Proposed(cs, e[i]) \in Clean(R, B)
  <2>1. e[i] \in R \X R
    BY DEF IsWalk, WalkInput
  <2>2. ~HoldsOneOf(Proposed(cs, e[i]), B)
    BY <1>1, <2>1, FreeIs
  <2>3. Proposed(cs, e[i]) \in SUBSET R
    <3>1. Unite(cs, e[i]) \in Parts(R) /\ Proposed(cs, e[i]) \in Unite(cs, e[i])
      BY <2>1, Uniting
    <3>2. Unite(cs, e[i]) \in SUBSET SUBSET R
      BY <3>1 DEF Parts
    <3> QED  BY <3>1, <3>2
  <2> QED  BY <2>2, <2>3 DEF Clean
<1> HIDE DEF Clean
<1> QED
  BY <1>1, WalkKeepsGood

\* No pair is inside a singleton.
LEMMA SingletonsAreClean ==
  ASSUME NEW R, R \subseteq Nat, NEW B, B \subseteq PairsOver(R)
  PROVE  Singletons(R) \subseteq Clean(R, B)
<1> SUFFICES ASSUME NEW r \in R PROVE {r} \in Clean(R, B)
  BY DEF Singletons
<1>1. ASSUME NEW p \in B PROVE ~ (p[1] \in {r} /\ p[2] \in {r})
  <2>1. p[1] # p[2]
    BY PairFacts
  <2> QED  BY <2>1
<1>2. ~HoldsOneOf({r}, B)
  BY <1>1 DEF HoldsOneOf
<1> QED
  BY <1>2 DEF Clean

\* The AUTO_MATCH pairs of the projection partition the records.
LEMMA ProjectedAutoIs ==
  ASSUME NEW ctx, GraphOK(ctx), NEW noMatches
  PROVE  ProjectedAuto(ctx, noMatches) \in Parts(ctx.records)
<1>1. PICK h : /\ IsWalk(h, ctx.records, DOMAIN ctx.auto, BySequence(Len(ctx.auto)), ctx.auto,
                         Singletons(ctx.records), Free(ctx.records, noMatches))
               /\ ProjectedAuto(ctx, noMatches) = h[DOMAIN ctx.auto]
  BY AutoIsSequence, ProjectedAutoWalks
<1> QED
  BY <1>1 DEF IsWalk

\* Those of the clusters do, and hold no pair that is blocked.
LEMMA GuardedAutoIs ==
  ASSUME NEW ctx, GraphOK(ctx), NEW noMatches, noMatches \subseteq PairsOver(ctx.records),
         NEW guard \in BOOLEAN
  PROVE  /\ GuardedAuto(ctx, noMatches, guard) \in Parts(ctx.records)
         /\ GuardedAuto(ctx, noMatches, guard) \subseteq Clean(ctx.records, noMatches \cup Guarded(ctx, guard))
<1> DEFINE R == ctx.records
           B == noMatches \cup Guarded(ctx, guard)
<1>1. PICK h : /\ IsWalk(h, R, DOMAIN ctx.auto, BySequence(Len(ctx.auto)), ctx.auto,
                         Singletons(R), Free(R, B))
               /\ GuardedAuto(ctx, noMatches, guard) = h[DOMAIN ctx.auto]
  BY AutoIsSequence, GuardedAutoWalks
<1>2. R \subseteq Nat /\ B \subseteq PairsOver(R)
  BY DEF GraphOK, Guarded
<1> HIDE DEF B
<1>3. h[DOMAIN ctx.auto] \subseteq Clean(R, B)
  BY <1>1, <1>2, SingletonsAreClean, FreeWalkIsClean
<1> QED
  BY <1>1, <1>3 DEF IsWalk, B

\* h is the walk that clustering makes: ReviewedClusters are the classes it ends with that
\* have two records and more, and none of its classes holds a NO_MATCH.
ReviewedWalk(h, ctx, matches, noMatches, guard) ==
  /\ IsWalk(h, ctx.records, matches, ByPair(matches), [p \in matches |-> p],
            GuardedAuto(ctx, noMatches, guard), Free(ctx.records, noMatches))
  /\ h[matches] \in Parts(ctx.records)
  /\ h[matches] \subseteq Clean(ctx.records, noMatches)
  /\ ReviewedClusters(ctx, matches, noMatches, guard) = {C \in h[matches] : Cardinality(C) > 1}

\* There is such a walk.
LEMMA ReviewedWalkExists ==
  ASSUME NEW ctx, GraphOK(ctx), NEW matches, matches \subseteq PairsOver(ctx.records),
         NEW noMatches, noMatches \subseteq PairsOver(ctx.records), NEW guard \in BOOLEAN
  PROVE  \E h : ReviewedWalk(h, ctx, matches, noMatches, guard)
<1> DEFINE R == ctx.records
           base == GuardedAuto(ctx, noMatches, guard)
<1>1. base \in Parts(R) /\ base \subseteq Clean(R, noMatches)
  <2>1. Clean(R, noMatches \cup Guarded(ctx, guard)) \subseteq Clean(R, noMatches)
    BY DEF Clean, HoldsOneOf
  <2> QED  BY <2>1, GuardedAutoIs
<1>2. IsFiniteSet(R) /\ R \subseteq Nat /\ matches \subseteq R \X R
  BY PairFacts DEF GraphOK
<1> HIDE DEF base
<1>3. PICK h : /\ IsWalk(h, R, matches, ByPair(matches), [p \in matches |-> p], base, Free(R, noMatches))
               /\ ReviewedClusters(ctx, matches, noMatches, guard) = {C \in h[matches] : Cardinality(C) > 1}
  BY <1>1, <1>2, ReviewedWalks DEF base
<1>4. h[matches] \subseteq Clean(R, noMatches)
  BY <1>1, <1>2, <1>3, FreeWalkIsClean
<1>5. h[matches] \in Parts(R)
  BY <1>3 DEF IsWalk
<1>6. ReviewedWalk(h, ctx, matches, noMatches, guard)
  BY <1>3, <1>4, <1>5, Zenon DEF base, ReviewedWalk
<1> QED
  BY <1>6

\* The projection of a MATCH is a class of a partition that joins the pair.
LEMMA ProjectedIs ==
  ASSUME NEW ctx, GraphOK(ctx), NEW matches, NEW pair, (matches \cup {pair}) \subseteq PairsOver(ctx.records),
         NEW noMatches
  PROVE  \E h : /\ ProjectedWalk(h, ctx, matches, noMatches, pair)
                /\ h[(matches \cup {pair})] \in Parts(ctx.records)
<1> DEFINE R == ctx.records
           E == matches \cup {pair}
<1>1. IsFiniteSet(R) /\ R \subseteq Nat /\ (matches \cup {pair}) \subseteq R \X R
  <2>1. IsFiniteSet(R) /\ R \subseteq Nat
    BY DEF GraphOK
  <2>2. PairsOver(R) \subseteq R \X R
    BY DEF PairsOver
  <2> QED  BY <2>1, <2>2
<1>2. ProjectedAuto(ctx, noMatches) \in Parts(R)
  BY ProjectedAutoIs
<1>3. PICK h : ProjectedWalk(h, ctx, matches, noMatches, pair)
  BY <1>1, <1>2, ProjectedWalks
<1>4. E \in SUBSET E /\ h \in [SUBSET E -> Parts(R)]
  BY <1>3 DEF ProjectedWalk, IsWalk
<1>5. h[E] \in Parts(R)
  BY <1>4
<1> QED
  BY <1>3, <1>5

\* A class that is no cluster holds no pair at all.
LEMMA ClustersHoldThePairs ==
  ASSUME NEW ctx, GraphOK(ctx), NEW matches, NEW noMatches, NEW guard,
         NEW h, ReviewedWalk(h, ctx, matches, noMatches, guard),
         NEW p \in PairsOver(ctx.records), NEW C \in h[matches], p[1] \in C, p[2] \in C
  PROVE  C \in ReviewedClusters(ctx, matches, noMatches, guard)
<1>1. p[1] # p[2] /\ IsFiniteSet(ctx.records)
  BY PairFacts DEF GraphOK
<1>2. C \in SUBSET ctx.records
  BY DEF ReviewedWalk, Parts
<1>3. Cardinality(C) > 1
  BY <1>1, <1>2, TwoMembers
<1> QED
  BY <1>3 DEF ReviewedWalk

\* The clusters are without a severe pair when the whole partition is.
LEMMA CleanClusters ==
  ASSUME NEW ctx, GraphOK(ctx), NEW matches, NEW noMatches, NEW guard,
         NEW h, ReviewedWalk(h, ctx, matches, noMatches, guard)
  PROVE  (\A C \in ReviewedClusters(ctx, matches, noMatches, guard) : ~HoldsOneOf(C, ctx.severe))
           <=> h[matches] \subseteq Clean(ctx.records, ctx.severe)
<1>1. ASSUME NEW C \in h[matches], HoldsOneOf(C, ctx.severe)
      PROVE  C \in ReviewedClusters(ctx, matches, noMatches, guard)
  <2>1. PICK p \in ctx.severe : p[1] \in C /\ p[2] \in C
    BY <1>1 DEF HoldsOneOf
  <2>2. p \in PairsOver(ctx.records)
    BY <2>1 DEF GraphOK
  <2> QED  BY <2>1, <2>2, ClustersHoldThePairs
<1>2. ReviewedClusters(ctx, matches, noMatches, guard) \subseteq h[matches]
  BY DEF ReviewedWalk
<1>3. h[matches] \subseteq SUBSET ctx.records
  BY DEF ReviewedWalk, Parts
<1> QED
  BY <1>1, <1>2, <1>3 DEF Clean

\* Before the first MATCH the clusters are those of the guard.
LEMMA FreshClusters ==
  ASSUME NEW ctx, GraphOK(ctx), NEW noMatches, noMatches \subseteq PairsOver(ctx.records)
  PROVE  \A C \in ReviewedClusters(ctx, {}, noMatches, TRUE) : ~HoldsOneOf(C, ctx.severe)
<1>1. PICK h : ReviewedWalk(h, ctx, {}, noMatches, TRUE)
  BY ReviewedWalkExists
<1>2. h[{}] = GuardedAuto(ctx, noMatches, TRUE)
  BY <1>1 DEF ReviewedWalk, IsWalk, Walks
<1>3. GuardedAuto(ctx, noMatches, TRUE) \subseteq Clean(ctx.records, noMatches \cup Guarded(ctx, TRUE))
  BY GuardedAutoIs
<1>4. Clean(ctx.records, noMatches \cup Guarded(ctx, TRUE)) \subseteq Clean(ctx.records, ctx.severe)
  BY DEF Clean, HoldsOneOf, Guarded
<1> QED
  BY <1>1, <1>2, <1>3, <1>4, CleanClusters

-----------------------------------------------------------------------------
\* Q with its class C split as P splits it.
Split(Q, P, C) == (Q \ {C}) \cup {D \in P : D \subseteq C}

\* Splitting one class of a partition along a finer one leaves a partition.
LEMMA Splitting ==
  ASSUME NEW R, NEW Q \in Parts(R), NEW P \in Parts(R), Refines(P, Q), NEW C \in Q
  PROVE  Split(Q, P, C) \in Parts(R)
<1> DEFINE U == Split(Q, P, C)
<1>1. U \in SUBSET SUBSET R /\ {} \notin U
  BY DEF Split, Parts
<1>2. ASSUME NEW r \in R PROVE r \in UNION U
  <2>1. PICK E \in Q : r \in E
    BY DEF Parts
  <2>2. PICK D \in P : r \in D
    BY DEF Parts
  <2>3. D \subseteq E
    BY <2>1, <2>2, ClassesGrow
  <2> QED  BY <2>1, <2>2, <2>3 DEF Split
<1>3. UNION U = R
  BY <1>1, <1>2
<1>4. ASSUME NEW X \in U, NEW Y \in U PROVE X = Y \/ X \cap Y = {}
  <2>1. ASSUME NEW E \in Q \ {C}, NEW D \in P, D \subseteq C PROVE E \cap D = {}
    <3>1. E \cap C = {}
      BY DEF Parts
    <3> QED  BY <2>1, <3>1
  <2>2. \A E, D \in Q : E = D \/ E \cap D = {}
    BY DEF Parts
  <2>3. \A E, D \in P : E = D \/ E \cap D = {}
    BY DEF Parts
  <2> QED  BY <2>1, <2>2, <2>3 DEF Split
<1> QED
  BY <1>1, <1>3, <1>4 DEF Parts

\* The walk goes over every pair of E, and joins them all.
LEMMA PairWalkJoins ==
  ASSUME NEW R, NEW E, E \subseteq PairsOver(R), NEW base, NEW A, NEW h,
         IsWalk(h, R, E, ByPair(E), [p \in E |-> p], base, A),
         NEW q \in E, \A cs \in Parts(R) : <<cs, q>> \in A
  PROVE  Joins(h[E], q)
<1> DEFINE e == [p \in E |-> p]
<1>1. e[q] = q /\ E \in SUBSET E
  OBVIOUS
<1>2. \A cs \in Parts(R) : <<cs, e[q]>> \in A
  BY <1>1
<1> HIDE DEF e
<1>3. Joins(h[E], e[q])
  BY <1>1, <1>2, WalkJoins DEF e
<1> QED
  BY <1>1, <1>3

\* The walk of a set of pairs is the least partition that joins them.
LEMMA PairWalkIsLeast ==
  ASSUME NEW R, NEW E, NEW base, NEW A, NEW h,
         IsWalk(h, R, E, ByPair(E), [p \in E |-> p], base, A),
         NEW P \in Parts(R), Refines(base, P), \A q \in E : Joins(P, q)
  PROVE  Refines(h[E], P)
<1> DEFINE e == [p \in E |-> p]
<1>1. \A q \in E : Joins(P, e[q])
  OBVIOUS
<1> HIDE DEF e
<1> QED
  BY <1>1, WalkIsLeast DEF e

\* With no pair blocked every edge is let through.
LEMMA AllAreFree ==
  ASSUME NEW R, NEW cs \in Parts(R), NEW p \in R \X R
  PROVE  <<cs, p>> \in Free(R, {})
BY FreeIs DEF HoldsOneOf

\* With no NO_MATCH the projection takes every AUTO_MATCH edge, the guard perhaps not.
LEMMA GuardedRefinesProjected ==
  ASSUME NEW ctx, GraphOK(ctx)
  PROVE  Refines(GuardedAuto(ctx, {}, TRUE), ProjectedAuto(ctx, {}))
<1> DEFINE R == ctx.records
           S == DOMAIN ctx.auto
           ch == BySequence(Len(ctx.auto))
           P == ProjectedAuto(ctx, {})
<1>1. PICK h : /\ IsWalk(h, R, S, ch, ctx.auto, Singletons(R), Free(R, {}))
               /\ P = h[S]
  BY AutoIsSequence, ProjectedAutoWalks
<1> DEFINE A == Free(R, {} \cup Guarded(ctx, TRUE))
<1>2. PICK g : /\ IsWalk(g, R, S, ch, ctx.auto, Singletons(R), A)
               /\ GuardedAuto(ctx, {}, TRUE) = g[S]
  BY AutoIsSequence, GuardedAutoWalks
<1>3. \A i \in S : ctx.auto[i] \in R \X R
  <2>1. ctx.auto \in Seq(R \X R)
    BY AutoIsSequence
  <2> QED  BY <2>1
<1>4. \A cs \in Parts(R), i \in S : <<cs, ctx.auto[i]>> \in Free(R, {})
  BY <1>3, AllAreFree
<1> HIDE DEF S, ch, A
<1>5. \A i \in S : Joins(h[S], ctx.auto[i])
  BY <1>1, <1>4, WalkJoins
<1>6. h[S] \in Parts(R) /\ Refines(Singletons(R), h[S])
  <2>1. h[S] \in Parts(R)
    BY <1>1 DEF IsWalk
  <2>2. Refines(Singletons(R), h[S])
    BY <1>1, WalkCoarsens
  <2> QED  BY <2>1, <2>2
<1>7. Refines(g[S], h[S])
  BY <1>2, <1>5, <1>6, WalkIsLeast
<1> QED
  BY <1>1, <1>2, <1>7

\* A MATCH whose projected component holds no severe conflict adds none to the clusters:
\* a class that holds the pair lies within the component, and any other is one of before.
LEMMA MatchKeepsConflictOut ==
  ASSUME NEW ctx, GraphOK(ctx), NEW matches, NEW pair, (matches \cup {pair}) \subseteq PairsOver(ctx.records),
         \A C \in ReviewedClusters(ctx, matches, {}, TRUE) : ~HoldsOneOf(C, ctx.severe),
         ~HoldsOneOf(ProjectedComponent(ctx, matches, {}, pair), ctx.severe)
  PROVE  \A C \in ReviewedClusters(ctx, (matches \cup {pair}), {}, TRUE) : ~HoldsOneOf(C, ctx.severe)
<1> DEFINE R == ctx.records
           E == matches \cup {pair}
           K == ProjectedComponent(ctx, matches, {}, pair)
           base == GuardedAuto(ctx, {}, TRUE)
           auto == ProjectedAuto(ctx, {})
<1>1. /\ E \subseteq PairsOver(R) /\ E \subseteq R \X R /\ matches \subseteq E /\ pair \in E
      /\ pair[1] \in R
  <2>1. R \subseteq Nat
    BY DEF GraphOK
  <2>2. E \subseteq PairsOver(R) /\ pair \in E /\ matches \subseteq E
    OBVIOUS
  <2>3. PairsOver(R) \subseteq R \X R
    BY DEF PairsOver
  <2> HIDE DEF E
  <2>4. pair \in R \X R
    BY <2>2, <2>3
  <2> QED  BY <2>2, <2>3, <2>4
<1>2. PICK f : ReviewedWalk(f, ctx, matches, {}, TRUE)
  <2>1. matches \subseteq PairsOver(R) /\ {} \subseteq PairsOver(R)
    BY <1>1
  <2> QED  BY <2>1, ReviewedWalkExists
<1>3. PICK g : ReviewedWalk(g, ctx, E, {}, TRUE)
  <2>1. {} \subseteq PairsOver(R)
    OBVIOUS
  <2> QED  BY <1>1, <2>1, ReviewedWalkExists
<1>4. PICK h : ProjectedWalk(h, ctx, matches, {}, pair) /\ h[E] \in Parts(R)
  BY ProjectedIs
<1> DEFINE Old == f[matches]
           New == g[E]
           Proj == h[E]
<1>5. Old \in Parts(R) /\ New \in Parts(R) /\ Proj \in Parts(R)
  BY <1>2, <1>3, <1>4 DEF ReviewedWalk
<1>6. Old \subseteq Clean(R, ctx.severe)
  BY <1>2, CleanClusters
<1>7. IsWalk(f, R, matches, ByPair(matches), [p \in matches |-> p], base, Free(R, {}))
  BY <1>2 DEF ReviewedWalk
<1>8. IsWalk(g, R, E, ByPair(E), [p \in E |-> p], base, Free(R, {}))
  BY <1>3 DEF ReviewedWalk
<1>9. IsWalk(h, R, E, ByPair(E), [p \in E |-> p], auto, Forced(R, {}, pair))
  BY <1>4 DEF ProjectedWalk
<1>10. K = ComponentOf(Proj, pair[1])
  BY <1>4 DEF ProjectedWalk
<1>11. \A cs \in Parts(R), p \in R \X R : <<cs, p>> \in Free(R, {}) /\ <<cs, p>> \in Forced(R, {}, pair)
  BY AllAreFree DEF Forced
<1>12. base \in Parts(R) /\ auto \in Parts(R)
  BY <1>7, <1>9 DEF IsWalk, WalkInput
<1> HIDE DEF E, base, auto, K
<1>13. \A q \in matches : Joins(Old, q)
  BY <1>1, <1>7, <1>11, PairWalkJoins
<1>14. \A q \in E : Joins(New, q) /\ Joins(Proj, q)
  BY <1>1, <1>8, <1>9, <1>11, PairWalkJoins
<1>15. Refines(base, auto)
  BY GuardedRefinesProjected DEF base, auto
<1>16. Refines(base, Old) /\ Refines(base, New) /\ Refines(auto, Proj)
  BY <1>7, <1>8, <1>9, WalkCoarsens
<1>17. Refines(New, Proj)
  <2>1. Refines(base, Proj)
    BY <1>15, <1>16, RefinesIsOrder
  <2> QED  BY <1>5, <1>8, <1>14, <2>1, PairWalkIsLeast
<1>18. Refines(Old, New)
  <2>1. \A q \in matches : Joins(New, q)
    BY <1>1, <1>14
  <2> QED  BY <1>5, <1>7, <1>16, <2>1, PairWalkIsLeast
<1>19. ASSUME NEW C \in New, pair[1] \in C
       PROVE  ~HoldsOneOf(C, ctx.severe)
  <2>1. K \in Proj /\ pair[1] \in K
    BY <1>1, <1>5, <1>10, ComponentIsClass
  <2>2. C \subseteq K
    BY <1>5, <1>17, <1>19, <2>1, ClassesGrow
  <2>3. ~HoldsOneOf(K, ctx.severe)
    BY DEF K
  <2> QED  BY <2>2, <2>3, HoldingIsMonotone
<1>20. ASSUME NEW C \in New, pair[1] \notin C
       PROVE  ~HoldsOneOf(C, ctx.severe)
  <2> DEFINE P == Split(New, Old, C)
  <2>1. P \in Parts(R)
    BY <1>5, <1>18, Splitting
  <2>2. ASSUME NEW q \in E PROVE Joins(P, q)
    <3>1. PICK D \in New : q[1] \in D /\ q[2] \in D
      BY <1>14 DEF Joins
    <3>2. CASE D # C
      BY <3>1, <3>2 DEF Joins, Split
    <3>3. CASE D = C
      <4>1. q \in matches
        BY <1>20, <3>1, <3>3 DEF E
      <4>2. PICK G \in Old : q[1] \in G /\ q[2] \in G
        BY <1>13, <4>1 DEF Joins
      <4>3. G \subseteq C
        BY <1>5, <1>18, <3>1, <3>3, <4>2, ClassesGrow
      <4> QED  BY <4>2, <4>3 DEF Joins, Split
    <3> QED  BY <3>2, <3>3
  <2>3. Refines(base, P)
    <3> SUFFICES ASSUME NEW B \in base PROVE \E D \in P : B \subseteq D
      BY DEF Refines
    <3>1. PICK D \in New : B \subseteq D
      BY <1>16 DEF Refines
    <3>2. CASE D # C
      BY <3>1, <3>2 DEF Split
    <3>3. CASE D = C
      <4>1. PICK G \in Old : B \subseteq G
        BY <1>16 DEF Refines
      <4>2. PICK r \in B : TRUE
        <5>1. {} \notin base
          BY <1>12 DEF Parts
        <5> QED  BY <5>1
      <4>3. G \subseteq C
        BY <1>5, <1>18, <3>1, <3>3, <4>1, <4>2, ClassesGrow
      <4> QED  BY <4>1, <4>3 DEF Split
    <3> QED  BY <3>2, <3>3
  <2>4. Refines(New, P)
    <3> HIDE DEF P
    <3> QED  BY <1>8, <2>1, <2>2, <2>3, PairWalkIsLeast
  <2>5. PICK D \in P : C \subseteq D
    BY <2>4 DEF Refines
  <2>6. C # {} /\ \A G \in New : G = C \/ G \cap C = {}
    BY <1>5 DEF Parts
  <2>7. D \in Old
    BY <2>5, <2>6 DEF Split
  <2>8. ~HoldsOneOf(D, ctx.severe)
    BY <1>6, <2>7 DEF Clean
  <2> QED  BY <2>5, <2>8, HoldingIsMonotone
<1>21. New \subseteq Clean(R, ctx.severe)
  <2>1. New \subseteq SUBSET R
    BY <1>5 DEF Parts
  <2> QED  BY <1>19, <1>20, <2>1 DEF Clean
<1>22. \A C \in ReviewedClusters(ctx, E, {}, TRUE) : ~HoldsOneOf(C, ctx.severe)
  BY <1>3, <1>21, CleanClusters
<1> QED
  BY <1>22 DEF E

\* The clusters are the projection of a MATCH whose component holds no NO_MATCH.
LEMMA PairWalkAgrees ==
  ASSUME NEW ctx, GraphOK(ctx), NEW matches, matches \subseteq PairsOver(ctx.records), NEW p \in matches,
         NEW noMatches, NEW guard,
         GuardedAuto(ctx, noMatches, guard) = ProjectedAuto(ctx, noMatches),
         NEW h, ProjectedWalk(h, ctx, matches, noMatches, p), h[matches] \in Parts(ctx.records),
         ~HoldsOneOf(ProjectedComponent(ctx, matches, noMatches, p), noMatches),
         NEW g, ReviewedWalk(g, ctx, matches, noMatches, guard)
  PROVE  g[matches] = h[matches]
<1> DEFINE R == ctx.records
           S == matches
           ch == ByPair(S)
           e == [q \in S |-> q]
           base == ProjectedAuto(ctx, noMatches)
           A == Forced(R, noMatches, p)
           B == Free(R, noMatches)
           K == ProjectedComponent(ctx, matches, noMatches, p)
<1>1. matches \cup {p} = S
  OBVIOUS
<1>2. IsWalk(h, R, S, ch, e, base, A) /\ K = ComponentOf(h[S], p[1])
  BY <1>1 DEF ProjectedWalk
<1>3. IsWalk(g, R, S, ch, e, base, B)
  BY DEF ReviewedWalk
<1>4. PairsOver(R) \subseteq R \X R
  BY DEF PairsOver
<1>5. \A q \in S : e[q] = q /\ q \in R \X R
  BY <1>4
<1>6. p \in R \X R /\ p[1] \in R /\ e[p] = p /\ p \in S
  BY <1>5
<1>7. ~HoldsOneOf(K, noMatches) /\ h[S] \in Parts(R)
  OBVIOUS
<1> HIDE DEF S, ch, e, base, A, B, K
<1>8. \A cs \in Parts(R) : <<cs, e[p]>> \in A
  BY <1>6, ForcedIs DEF A
<1>9. \A cs \in Parts(R) : Proposed(cs, e[p]) \subseteq K => <<cs, e[p]>> \in B
  <2> SUFFICES ASSUME NEW cs \in Parts(R), Proposed(cs, p) \subseteq K PROVE <<cs, p>> \in B
    BY <1>6
  <2>1. ~HoldsOneOf(Proposed(cs, p), noMatches)
    BY <1>7, HoldingIsMonotone
  <2> QED  BY <1>6, <2>1, FreeIs DEF B
<1>10. \A cs \in Parts(R), j \in S \ {p} : <<cs, e[j]>> \in A <=> <<cs, e[j]>> \in B
  <2> SUFFICES ASSUME NEW cs \in Parts(R), NEW j \in S \ {p} PROVE <<cs, j>> \in A <=> <<cs, j>> \in B
    BY <1>5
  <2>1. j \in R \X R /\ j # p
    BY <1>5
  <2>2. <<cs, j>> \in A <=> ~HoldsOneOf(Proposed(cs, j), noMatches)
    BY <2>1, ForcedIs DEF A
  <2>3. <<cs, j>> \in B <=> ~HoldsOneOf(Proposed(cs, j), noMatches)
    BY <2>1, FreeIs DEF B
  <2> QED  BY <2>2, <2>3
<1>11. \A C \in h[S] : e[p][1] \in C => C \subseteq K
  <2>1. K \in h[S] /\ p[1] \in K
    BY <1>2, <1>6, <1>7, ComponentIsClass
  <2>2. \A C \in h[S] : p[1] \in C => C = K
    BY <1>7, <2>1 DEF Parts
  <2> QED  BY <1>6, <2>2
<1>12. g[S] = h[S]
  <2>1. AgreeWithin(R, S, e, A, B, p, K)
    BY <1>8, <1>9, <1>10 DEF AgreeWithin
  <2> QED  BY <1>2, <1>3, <1>6, <1>11, <2>1, WalksAgree
<1> QED
  BY <1>12 DEF S

\* Nothing stands against the pair, or the clusters are built from the very groups it was
\* judged by and its component holds no NO_MATCH.
Undisturbed(ctx, matches, noMatches, p, guard) ==
  noMatches # {} => /\ GuardedAuto(ctx, noMatches, guard) = ProjectedAuto(ctx, noMatches)
                    /\ ~HoldsOneOf(ProjectedComponent(ctx, matches, noMatches, p), noMatches)

\* A MATCH that nothing disturbs joins its records.
LEMMA MatchJoins ==
  ASSUME NEW ctx, GraphOK(ctx), NEW matches, matches \subseteq PairsOver(ctx.records), NEW p \in matches,
         NEW noMatches, noMatches \subseteq PairsOver(ctx.records), NEW guard \in BOOLEAN,
         Undisturbed(ctx, matches, noMatches, p, guard)
  PROVE  \E C \in ReviewedClusters(ctx, matches, noMatches, guard) : {p[1], p[2]} \subseteq C
<1> DEFINE R == ctx.records
<1>1. PICK g : ReviewedWalk(g, ctx, matches, noMatches, guard)
  BY ReviewedWalkExists
<1>2. p \in PairsOver(R) /\ p \in R \X R
  BY DEF PairsOver
<1>3. Joins(g[matches], p)
  <2>1. CASE noMatches = {}
    <3>1. IsWalk(g, R, matches, ByPair(matches), [q \in matches |-> q],
                 GuardedAuto(ctx, noMatches, guard), Free(R, noMatches))
      BY <1>1 DEF ReviewedWalk
    <3>2. \A cs \in Parts(R) : <<cs, p>> \in Free(R, noMatches)
      BY <1>2, <2>1, AllAreFree
    <3> QED  BY <3>1, <3>2, PairWalkJoins
  <2>2. CASE noMatches # {}
    <3>1. matches \cup {p} = matches
      OBVIOUS
    <3>2. PICK h : ProjectedWalk(h, ctx, matches, noMatches, p) /\ h[(matches \cup {p})] \in Parts(R)
      <4>1. (matches \cup {p}) \subseteq PairsOver(ctx.records)
        BY <3>1
      <4> QED  BY <4>1, ProjectedIs
    <3>3. h[matches] \in Parts(R)
      BY <3>1, <3>2
    <3>4. g[matches] = h[matches]
      BY <1>1, <2>2, <3>2, <3>3, PairWalkAgrees DEF Undisturbed
    <3>5. IsWalk(h, R, matches, ByPair(matches), [q \in matches |-> q],
                 ProjectedAuto(ctx, noMatches), Forced(R, noMatches, p))
      BY <3>1, <3>2 DEF ProjectedWalk
    <3>6. \A cs \in Parts(R) : <<cs, p>> \in Forced(R, noMatches, p)
      BY <1>2, ForcedIs
    <3>7. Joins(h[matches], p)
      BY <3>5, <3>6, PairWalkJoins
    <3> QED  BY <3>4, <3>7
  <2> QED  BY <2>1, <2>2
<1>4. PICK C \in g[matches] : p[1] \in C /\ p[2] \in C
  BY <1>3 DEF Joins
<1>5. C \in ReviewedClusters(ctx, matches, noMatches, guard)
  BY <1>1, <1>2, <1>4, ClustersHoldThePairs
<1> QED
  BY <1>4, <1>5

-----------------------------------------------------------------------------
(* The ledger *)

\* The last MATCH was judged with all that the ledger holds now.
LastMatchIsJudged ==
  ledger # <<>> /\ Last(ledger).decision = "MATCH" =>
    ~HoldsOneOf(ProjectedComponent(context, Matches, NoMatches, registered[Last(ledger).case]), NoMatches)

LedgerInv == TypeOK /\ LastMatchIsJudged /\ NoConflictWithoutNoMatch

\* The context of the ledger is a graph of its records.
LEMMA ContextIsGraph ==
  ASSUME TypeOK
  PROVE  GraphOK(context)
<1>1. CASE context = NoContext
  <2>1. IsFiniteSet({}) /\ <<>> \in Seq(PairsOver({}))
    BY FS_EmptySet
  <2> QED  BY <1>1, <2>1 DEF GraphOK, NoContext
<1>2. CASE \E wf \in Workflows : context = wf.context
  BY <1>2, WorkflowAssumption DEF GraphOK
<1> QED
  BY <1>1, <1>2 DEF TypeOK

\* The entries of the ledger are decisions on registered cases.
LEMMA LedgerIsSequence ==
  ASSUME TypeOK
  PROVE  /\ Len(ledger) \in Nat /\ DOMAIN ledger = 1..Len(ledger)
         /\ \A i \in 1..Len(ledger) : /\ ledger[i].case \in DOMAIN registered
                                      /\ ledger[i].decision \in Decisions
         /\ ledger # <<>> => /\ Len(ledger) \in 1..Len(ledger)
                             /\ Last(ledger) = ledger[Len(ledger)]
<1>1. ledger \in Seq([case : DOMAIN registered, decision : Decisions, reviewer : Reviewers])
  BY DEF TypeOK
<1>2. Len(ledger) \in Nat /\ DOMAIN ledger = 1..Len(ledger)
  BY <1>1
<1>3. ASSUME NEW i \in 1..Len(ledger)
      PROVE  ledger[i].case \in DOMAIN registered /\ ledger[i].decision \in Decisions
  <2> DEFINE T == [case : DOMAIN registered, decision : Decisions, reviewer : Reviewers]
  <2>1. \A x \in T : x.case \in DOMAIN registered /\ x.decision \in Decisions
    OBVIOUS
  <2>2. ledger \in Seq(T)
    BY <1>1
  <2> HIDE DEF T
  <2>3. ledger[i] \in T
    BY <2>2
  <2> QED  BY <2>1, <2>3
<1>4. ledger # <<>> => Len(ledger) \in 1..Len(ledger)
  BY <1>1, <1>2
<1> QED
  BY <1>2, <1>3, <1>4 DEF Last

\* What is decided are pairs of the records.
LEMMA DecidedArePairs ==
  ASSUME TypeOK, NEW d
  PROVE  PairsDecided(d, Len(ledger)) \subseteq PairsOver(context.records)
<1>1. \A i \in 1..Len(ledger) : registered[ledger[i].case] \in PairsOver(context.records)
  BY LedgerIsSequence DEF TypeOK
<1> QED
  BY <1>1 DEF PairsDecided

\* Before the first context there is no case and no decision.
LEMMA NothingBeforeContext ==
  ASSUME TypeOK, context = NoContext
  PROVE  ledger = <<>> /\ DOMAIN registered = {}
<1>1. PairsOver({}) = {}
  BY DEF PairsOver
<1>2. DOMAIN registered = {}
  BY <1>1 DEF TypeOK, NoContext
<1>3. ledger # <<>> => ledger[Len(ledger)].case \in DOMAIN registered
  BY LedgerIsSequence
<1> QED
  BY <1>2, <1>3

\* A registration changes no decided pair, and the context only where there was none.
LEMMA RegisterKeepsDecided ==
  ASSUME TypeOK, NEW wf \in Workflows, Register(wf)
  PROVE  /\ ledger' = ledger
         /\ \A d : PairsDecided(d, Len(ledger))' = PairsDecided(d, Len(ledger))
         /\ \A i \in 1..Len(ledger) : registered'[ledger[i].case] = registered[ledger[i].case]
         /\ ledger # <<>> => context' = context
         /\ context # NoContext => context' = context
<1>1. ledger' = ledger /\ context' = IF context = NoContext THEN wf.context ELSE context
  BY DEF Register
<1>2. \A c \in DOMAIN registered : registered'[c] = registered[c]
  BY DEF Register, WithCases
<1>3. \A i \in 1..Len(ledger) : registered'[ledger[i].case] = registered[ledger[i].case]
  BY <1>2, LedgerIsSequence
<1>4. \A d : PairsDecided(d, Len(ledger))' = PairsDecided(d, Len(ledger))
  BY <1>1, <1>3 DEF PairsDecided
<1>5. ledger # <<>> => context' = context
  BY <1>1, NothingBeforeContext
<1> QED
  BY <1>1, <1>3, <1>4, <1>5

\* A decision adds the pair of its case to those decided likewise.
LEMMA DecideAdds ==
  ASSUME TypeOK, NEW r, NEW c, NEW d, Decide(r, c, d)
  PROVE  /\ \A x : PairsDecided(x, Len(ledger))'
                     = PairsDecided(x, Len(ledger)) \cup (IF d = x THEN {registered[c]} ELSE {})
         /\ ledger' # <<>> /\ Last(ledger)'.decision = d /\ Last(ledger)'.case = c
         /\ context' = context /\ registered' = registered
<1> DEFINE e == [case |-> c, decision |-> d, reviewer |-> r]
           n == Len(ledger)
<1>1. ledger' = Append(ledger, e) /\ context' = context /\ registered' = registered
  BY DEF Decide
<1>2. n \in Nat /\ ledger \in Seq([case : DOMAIN registered, decision : Decisions, reviewer : Reviewers])
  BY LedgerIsSequence DEF TypeOK
<1>3. e.case = c /\ e.decision = d
  OBVIOUS
<1> HIDE DEF e
<1>4. Len(ledger') = n + 1 /\ ledger'[n + 1] = e /\ \A i \in 1..n : ledger'[i] = ledger[i]
  <2> DEFINE S == [case : DOMAIN registered, decision : Decisions, reviewer : Reviewers]
             T == S \cup {e}
  <2>2. ledger \in Seq(S)
    BY <1>2
  <2> HIDE DEF S
  <2>1. ledger \in Seq(T) /\ e \in T
    BY <2>2
  <2> HIDE DEF T
  <2> QED  BY <1>1, <2>1
<1>5. ledger' # <<>> /\ Last(ledger)' = e
  BY <1>2, <1>4 DEF Last
<1>6. ASSUME NEW x
      PROVE  PairsDecided(x, Len(ledger))'
               = PairsDecided(x, Len(ledger)) \cup (IF d = x THEN {registered[c]} ELSE {})
  <2> DEFINE I == {i \in 1..n : ledger[i].decision = x}
             J == {i \in 1..(n + 1) : ledger'[i].decision = x}
  <2>1. J = I \cup (IF d = x THEN {n + 1} ELSE {})
    BY <1>2, <1>3, <1>4
  <2>2. PairsDecided(x, Len(ledger)) = {registered[ledger[i].case] : i \in I}
    BY DEF PairsDecided
  <2>3. PairsDecided(x, Len(ledger))' = {registered[ledger'[i].case] : i \in J}
    BY <1>1, <1>4 DEF PairsDecided
  <2>4. \A i \in I : ledger'[i].case = ledger[i].case
    BY <1>4
  <2>5. ledger'[n + 1].case = c
    BY <1>3, <1>4
  <2> HIDE DEF I, J, n
  <2> QED  BY <2>1, <2>2, <2>3, <2>4, <2>5
<1> QED
  BY <1>1, <1>3, <1>5, <1>6

\* A decision adds its pair to what is decided.
LEMMA DecidedAdd ==
  ASSUME TypeOK, NEW r, NEW c, NEW d, Decide(r, c, d)
  PROVE  /\ Matches' = IF d = "MATCH" THEN Matches \cup {registered[c]} ELSE Matches
         /\ NoMatches' = IF d = "NO_MATCH" THEN NoMatches \cup {registered[c]} ELSE NoMatches
<1>1. \A x : PairsDecided(x, Len(ledger))'
              = PairsDecided(x, Len(ledger)) \cup (IF d = x THEN {registered[c]} ELSE {})
  BY DecideAdds
<1>2. Matches' = Matches \cup (IF d = "MATCH" THEN {registered[c]} ELSE {})
  BY <1>1 DEF Matches
<1>3. NoMatches' = NoMatches \cup (IF d = "NO_MATCH" THEN {registered[c]} ELSE {})
  BY <1>1 DEF NoMatches
<1> QED
  BY <1>2, <1>3

-----------------------------------------------------------------------------
\* The invariant holds at first.
LEMMA LedgerInit ==
  ASSUME Init
  PROVE  LedgerInv
<1>1. TypeOK
  BY DEF Init, TypeOK
<1>2. LastMatchIsJudged
  BY DEF Init, LastMatchIsJudged
<1>3. NoConflictWithoutNoMatch
  <2>1. Matches = {} /\ NoMatches = {}
    BY DEF Init, Matches, NoMatches, PairsDecided
  <2> SUFFICES ASSUME Guard
               PROVE  \A C \in Clusters : ~HoldsOneOf(C, context.severe)
    BY DEF NoConflictWithoutNoMatch
  <2>2. Guard = TRUE /\ {} \subseteq PairsOver(context.records)
    BY WorkflowAssumption
  <2>3. GraphOK(context)
    BY <1>1, ContextIsGraph
  <2>4. \A C \in ReviewedClusters(context, {}, {}, TRUE) : ~HoldsOneOf(C, context.severe)
    BY <2>2, <2>3, FreshClusters
  <2> QED  BY <2>1, <2>2, <2>4 DEF Clusters
<1> QED
  BY <1>1, <1>2, <1>3 DEF LedgerInv

\* A registration keeps the type.
LEMMA RegisterKeepsType ==
  ASSUME TypeOK, NEW wf \in Workflows, Register(wf)
  PROVE  TypeOK'
<1> DEFINE S == [case : DOMAIN registered, decision : Decisions, reviewer : Reviewers]
           T == [case : DOMAIN registered', decision : Decisions, reviewer : Reviewers]
<1>1. /\ context' = IF context = NoContext THEN wf.context ELSE context
      /\ DOMAIN registered' = DOMAIN registered \cup DOMAIN wf.cases
      /\ \A c \in DOMAIN registered' :
           registered'[c] = IF c \in DOMAIN registered THEN registered[c] ELSE wf.cases[c]
      /\ ledger' = ledger
  BY DEF Register, WithCases
<1>2. context' = NoContext \/ \E w \in Workflows : context' = w.context
  BY <1>1 DEF TypeOK
<1>3. DOMAIN registered' \subseteq CaseIds
  BY <1>1, WorkflowAssumption DEF TypeOK
<1>4. context'.records = wf.context.records
  BY <1>1 DEF Register, Compatible
<1>5. \A c \in DOMAIN registered' : registered'[c] \in PairsOver(context'.records)
  <2>1. \A c \in DOMAIN registered : registered[c] \in PairsOver(context'.records)
    <3>1. context = NoContext => DOMAIN registered = {}
      BY NothingBeforeContext
    <3> QED  BY <1>1, <3>1 DEF TypeOK
  <2>2. \A c \in DOMAIN wf.cases : wf.cases[c] \in PairsOver(context'.records)
    BY <1>4, WorkflowAssumption
  <2> QED  BY <1>1, <2>1, <2>2
<1>6. ledger' \in Seq(T)
  <2>1. ledger \in Seq(S) /\ S \subseteq T
    BY <1>1 DEF TypeOK
  <2> HIDE DEF S, T
  <2>2. ledger \in Seq(T)
    BY <2>1
  <2> QED  BY <1>1, <2>2
<1> QED
  BY <1>2, <1>3, <1>5, <1>6 DEF TypeOK

\* A decision keeps the type.
LEMMA DecideKeepsType ==
  ASSUME TypeOK, NEW r \in Reviewers, NEW c, NEW d \in Decisions, Decide(r, c, d)
  PROVE  TypeOK'
<1> DEFINE S == [case : DOMAIN registered, decision : Decisions, reviewer : Reviewers]
           e == [case |-> c, decision |-> d, reviewer |-> r]
<1>1. ledger' = Append(ledger, e) /\ context' = context /\ registered' = registered
      /\ c \in DOMAIN registered
  BY DEF Decide
<1>2. e \in S /\ ledger \in Seq(S)
  BY <1>1 DEF TypeOK
<1>3. ledger' \in Seq(S)
  <2> HIDE DEF S, e
  <2> QED  BY <1>1, <1>2
<1> QED
  BY <1>1, <1>3 DEF TypeOK

\* A registration changes nothing the last MATCH was judged by.
LEMMA RegisterKeepsJudged ==
  ASSUME LedgerInv, NEW wf \in Workflows, Register(wf)
  PROVE  LastMatchIsJudged'
<1> SUFFICES ASSUME ledger' # <<>>, Last(ledger)'.decision = "MATCH"
             PROVE  ~HoldsOneOf(ProjectedComponent(context', Matches', NoMatches', registered'[Last(ledger)'.case]),
                                NoMatches')
  BY DEF LastMatchIsJudged
<1>1. TypeOK /\ LastMatchIsJudged
  BY DEF LedgerInv
<1>2. ledger' = ledger /\ ledger # <<>> /\ context' = context
  BY <1>1, RegisterKeepsDecided
<1>3. Matches' = Matches /\ NoMatches' = NoMatches
  BY <1>1, RegisterKeepsDecided DEF Matches, NoMatches
<1>4. Last(ledger)' = Last(ledger)
  BY <1>2 DEF Last
<1>5. registered'[Last(ledger).case] = registered[Last(ledger).case]
  BY <1>1, <1>2, RegisterKeepsDecided, LedgerIsSequence
<1> QED
  BY <1>1, <1>2, <1>3, <1>4, <1>5 DEF LastMatchIsJudged

\* A MATCH that is accepted was judged by what the ledger holds then.
LEMMA DecideKeepsJudged ==
  ASSUME LedgerInv, NEW r, NEW c, NEW d, Decide(r, c, d)
  PROVE  LastMatchIsJudged'
<1> SUFFICES ASSUME Last(ledger)'.decision = "MATCH"
             PROVE  ~HoldsOneOf(ProjectedComponent(context', Matches', NoMatches', registered'[Last(ledger)'.case]),
                                NoMatches')
  BY DEF LastMatchIsJudged
<1> DEFINE p == registered[c]
<1>1. d = "MATCH" /\ Last(ledger)'.case = c /\ context' = context /\ registered' = registered
  BY DecideAdds DEF LedgerInv
<1>2. Matches' = Matches \cup {p} /\ NoMatches' = NoMatches
  BY <1>1, DecidedAdd DEF LedgerInv
<1>3. ~HoldsOneOf(ProjectedComponent(context, Matches, NoMatches, p), NoMatches)
  BY <1>1 DEF Decide, MatchAuthorized
<1>4. ProjectedComponent(context, (Matches \cup {p}), NoMatches, p)
        = ProjectedComponent(context, Matches, NoMatches, p)
  <2>1. (Matches \cup {p}) \cup {p} = Matches \cup {p}
    OBVIOUS
  <2> QED  BY <2>1 DEF ProjectedComponent
<1> QED
  BY <1>1, <1>2, <1>3, <1>4

\* A registration brings no severe conflict into a cluster.
LEMMA RegisterKeepsConflictOut ==
  ASSUME LedgerInv, NEW wf \in Workflows, Register(wf)
  PROVE  NoConflictWithoutNoMatch'
<1> SUFFICES ASSUME Guard, NoMatches' = {}
             PROVE  \A C \in Clusters' : ~HoldsOneOf(C, context'.severe)
  BY DEF NoConflictWithoutNoMatch
<1>1. TypeOK /\ NoConflictWithoutNoMatch /\ Guard = TRUE
  BY WorkflowAssumption DEF LedgerInv
<1>2. Matches' = Matches /\ NoMatches' = NoMatches
  BY <1>1, RegisterKeepsDecided DEF Matches, NoMatches
<1>3. CASE context' = context
  <2>1. Clusters' = Clusters
    BY <1>2, <1>3 DEF Clusters
  <2> QED  BY <1>1, <1>2, <1>3, <2>1 DEF NoConflictWithoutNoMatch
<1>4. CASE context' # context
  <2>1. context = NoContext
    BY <1>1, <1>4, RegisterKeepsDecided
  <2>2. Matches = {}
    BY <1>1, <2>1, NothingBeforeContext DEF Matches, PairsDecided
  <2>3. GraphOK(context')
    BY <1>4, WorkflowAssumption DEF Register, GraphOK
  <2>4. \A C \in ReviewedClusters(context', {}, {}, TRUE) : ~HoldsOneOf(C, context'.severe)
    BY <2>3, FreshClusters
  <2> QED  BY <1>1, <1>2, <2>2, <2>4 DEF Clusters
<1> QED
  BY <1>3, <1>4

\* Nor does a decision, while there is no NO_MATCH.
LEMMA DecideKeepsConflictOut ==
  ASSUME LedgerInv, NEW r, NEW c, NEW d, Decide(r, c, d)
  PROVE  NoConflictWithoutNoMatch'
<1> SUFFICES ASSUME Guard, NoMatches' = {}
             PROVE  \A C \in Clusters' : ~HoldsOneOf(C, context'.severe)
  BY DEF NoConflictWithoutNoMatch
<1>1. TypeOK /\ NoConflictWithoutNoMatch /\ Guard = TRUE
  BY WorkflowAssumption DEF LedgerInv
<1>2. /\ Matches' = IF d = "MATCH" THEN Matches \cup {registered[c]} ELSE Matches
      /\ NoMatches' = IF d = "NO_MATCH" THEN NoMatches \cup {registered[c]} ELSE NoMatches
  BY <1>1, DecidedAdd
<1>3. context' = context /\ NoMatches = {}
  BY <1>2 DEF Decide
<1>4. \A C \in ReviewedClusters(context, Matches, {}, TRUE) : ~HoldsOneOf(C, context.severe)
  BY <1>1, <1>3 DEF NoConflictWithoutNoMatch, Clusters
<1>5. CASE d = "MATCH"
  <2> DEFINE p == registered[c]
  <2>1. ~HoldsOneOf(ProjectedComponent(context, Matches, {}, p), context.severe)
    BY <1>3, <1>5 DEF Decide, MatchAuthorized
  <2>2. (Matches \cup {p}) \subseteq PairsOver(context.records)
    BY <1>1, DecidedArePairs DEF Decide, TypeOK, Matches
  <2>3. GraphOK(context)
    BY <1>1, ContextIsGraph
  <2> HIDE DEF p
  <2>4. \A C \in ReviewedClusters(context, (Matches \cup {p}), {}, TRUE) : ~HoldsOneOf(C, context.severe)
    BY <1>4, <2>1, <2>2, <2>3, MatchKeepsConflictOut
  <2> QED  BY <1>1, <1>2, <1>3, <1>5, <2>4 DEF Clusters, p
<1>6. CASE d # "MATCH"
  BY <1>1, <1>2, <1>3, <1>4, <1>6 DEF Clusters
<1> QED
  BY <1>5, <1>6

\* Every step keeps the invariant.
LEMMA LedgerStep ==
  ASSUME LedgerInv, [Next]_vars
  PROVE  LedgerInv'
<1>1. ASSUME NEW wf \in Workflows, Register(wf) PROVE LedgerInv'
  BY <1>1, RegisterKeepsType, RegisterKeepsJudged, RegisterKeepsConflictOut DEF LedgerInv
<1>2. ASSUME NEW r \in Reviewers, NEW c \in CaseIds, NEW d \in Decisions, Decide(r, c, d)
      PROVE  LedgerInv'
  BY <1>2, DecideKeepsType, DecideKeepsJudged, DecideKeepsConflictOut DEF LedgerInv
<1>3. CASE UNCHANGED vars
  BY <1>3 DEF vars, LedgerInv, TypeOK, LastMatchIsJudged, NoConflictWithoutNoMatch, Clusters, Matches,
              NoMatches, PairsDecided
<1> QED
  BY <1>1, <1>2, <1>3 DEF Next

\* The clusters are disjoint sets of the queue's records, and none holds a NO_MATCH.
LEMMA ClustersAreClasses ==
  ASSUME TypeOK
  PROVE  /\ Clusters \subseteq SUBSET context.records
         /\ \A C, D \in Clusters : C = D \/ C \cap D = {}
         /\ \A C \in Clusters : ~HoldsOneOf(C, NoMatches)
<1>1. GraphOK(context) /\ Guard \in BOOLEAN
  BY ContextIsGraph, WorkflowAssumption
<1>2. Matches \subseteq PairsOver(context.records) /\ NoMatches \subseteq PairsOver(context.records)
  BY DecidedArePairs DEF Matches, NoMatches
<1>3. PICK h : ReviewedWalk(h, context, Matches, NoMatches, Guard)
  BY <1>1, <1>2, ReviewedWalkExists
<1>4. Clusters \subseteq h[Matches]
  BY <1>3 DEF ReviewedWalk, Clusters
<1> QED
  BY <1>3, <1>4 DEF ReviewedWalk, Parts, Clean

\* No NO_MATCH is inside a merged group.
LEMMA NoMatchIsRespected ==
  ASSUME TypeOK
  PROVE  MergesRespectNoMatch
BY ClustersAreClasses DEF MergesRespectNoMatch, Merged, MergedGroups, Clusters

\* Every record is in one group, or alone, or excluded.
LEMMA RecordsAreUsedOnce ==
  ASSUME TypeOK
  PROVE  EveryRecordOnce
<1>1. Merged \subseteq Clusters /\ \A G \in Merged : G \cap Excluded = {}
  BY DEF Merged, MergedGroups, Clusters
<1>2. UNION Merged \subseteq context.records /\ \A G, H \in Merged : G # H => G \cap H = {}
  BY <1>1, ClustersAreClasses
<1>3. Excluded \subseteq context.records
  <2>1. \A c \in DOMAIN registered : registered[c][1] \in context.records /\ registered[c][2] \in context.records
    <3>1. context.records \subseteq Nat
      BY ContextIsGraph DEF GraphOK
    <3> QED  BY <3>1, PairFacts DEF TypeOK
  <2> QED  BY <2>1 DEF Excluded, ExcludedRecords, ReviewPairs
<1>4. Singles = (context.records \ UNION Merged) \ Excluded
  BY DEF Singles, SingletonRecords
<1>5. Excluded \cap UNION Merged = {}
  BY <1>1
<1> QED
  BY <1>2, <1>3, <1>4, <1>5 DEF EveryRecordOnce

\* The records of an unresolved case are excluded.
LEMMA UnresolvedAreExcluded ==
  ASSUME TypeOK
  PROVE  UnresolvedStaysOut
<1> SUFFICES ASSUME NEW c \in DOMAIN registered, registered[c] \notin Matches \cup NoMatches,
                    NEW r \in {registered[c][1], registered[c][2]}
             PROVE  r \notin Singles \cup UNION Merged
  BY DEF UnresolvedStaysOut
<1>1. r \in Excluded
  BY DEF Excluded, ExcludedRecords, ReviewPairs
<1>2. r \notin Singles
  BY <1>1 DEF Singles, SingletonRecords
<1>3. \A G \in Merged : G \cap Excluded = {}
  BY DEF Merged, MergedGroups
<1> QED
  BY <1>1, <1>2, <1>3

\* The last accepted MATCH joins its records when the guard agrees.
LEMMA MatchTakesEffect ==
  ASSUME TypeOK, LastMatchIsJudged
  PROVE  AcceptedMatchTakesEffect
<1> SUFFICES ASSUME ledger # <<>>, Last(ledger).decision = "MATCH", NoMatches = {} \/ GuardAgrees
             PROVE  LastTakesEffect
  BY DEF AcceptedMatchTakesEffect
<1> DEFINE p == registered[Last(ledger).case]
<1>1. GraphOK(context) /\ Guard \in BOOLEAN
  BY ContextIsGraph, WorkflowAssumption
<1>2. Matches \subseteq PairsOver(context.records) /\ NoMatches \subseteq PairsOver(context.records)
  BY DecidedArePairs DEF Matches, NoMatches
<1>3. p \in Matches
  BY LedgerIsSequence DEF Matches, PairsDecided
<1>4. ~HoldsOneOf(ProjectedComponent(context, Matches, NoMatches, p), NoMatches)
  BY DEF LastMatchIsJudged
<1>5. NoMatches = {} \/ GuardedAuto(context, NoMatches, Guard) = ProjectedAuto(context, NoMatches)
  BY DEF GuardAgrees
<1>7. Undisturbed(context, Matches, NoMatches, p, Guard)
  BY <1>4, <1>5 DEF Undisturbed
<1> HIDE DEF p
<1>6. \E C \in ReviewedClusters(context, Matches, NoMatches, Guard) : {p[1], p[2]} \subseteq C
  BY <1>1, <1>2, <1>3, <1>7, MatchJoins
<1> QED
  BY <1>6 DEF p, LastTakesEffect, Clusters

-----------------------------------------------------------------------------
(* Theorems *)

\* What accepted decisions leave behind: the ledger and its context keep their types,
\* the last MATCH was judged by everything that is recorded, and without a NO_MATCH no
\* cluster holds a severe conflict (resolve_case, build_review_aware_clusters).
THEOREM LedgerIsSound == Spec => []LedgerInv
<1>1. Init => LedgerInv
  BY LedgerInit
<1>2. LedgerInv /\ [Next]_vars => LedgerInv'
  BY LedgerStep
<1> QED
  BY <1>1, <1>2, PTL DEF Spec

-----------------------------------------------------------------------------
(* Record quality *)

\* What is an error of the value v in the field f.
Faults(f, v) ==
  {Quality!Issue(f, v, rule) : rule \in {r \in Quality!Rules : Quality!Breaks(f, v, r) /\ Quality!Severity(r) = "error"}}

\* The errors of a record are the faults of its fields.
LEMMA ErrorsAreFaults ==
  ASSUME NEW record
  PROVE  {i \in Quality!Issues(record) : i.severity = "error"}
           = UNION {Faults(f, record[f]) : f \in Quality!Fields}
<1> DEFINE broken(f) == {Quality!Issue(f, record[f], rule) :
                           rule \in {r \in Quality!Rules : Quality!Breaks(f, record[f], r)}}
           mismatch == Quality!Issue("district", record["district"], "cross_field.city_district")
           found == UNION {broken(f) : f \in Quality!Fields}
           other == IF Quality!Mismatched(record) THEN {mismatch} ELSE {}
<1>1. \A f, v, rule : Quality!Issue(f, v, rule).severity = Quality!Severity(rule)
  BY DEF Quality!Issue
<1>2. Quality!Severity("cross_field.city_district") = "warning"
  BY DEF Quality!Severity
<1>3. mismatch.severity # "error"
  BY <1>1, <1>2
<1>4. Quality!Issues(record) = found \cup other
  BY DEF Quality!Issues
<1>5. ASSUME NEW f \in Quality!Fields
      PROVE  {i \in broken(f) : i.severity = "error"} = Faults(f, record[f])
  <2>1. ASSUME NEW i \in broken(f), i.severity = "error"
        PROVE  i \in Faults(f, record[f])
    BY <1>1, <2>1 DEF Faults
  <2>2. ASSUME NEW i \in Faults(f, record[f])
        PROVE  i \in broken(f) /\ i.severity = "error"
    BY <1>1, <2>2 DEF Faults
  <2> QED  BY <2>1, <2>2
<1>8. \A i \in other : i.severity # "error"
  BY <1>3
<1>9. \A i : i \in found <=> \E f \in Quality!Fields : i \in broken(f)
  OBVIOUS
<1> HIDE DEF broken, mismatch, found, other
<1>6. ASSUME NEW i \in Quality!Issues(record), i.severity = "error"
      PROVE  i \in UNION {Faults(f, record[f]) : f \in Quality!Fields}
  <2>1. PICK f \in Quality!Fields : i \in broken(f)
    BY <1>4, <1>6, <1>8, <1>9
  <2>2. i \in Faults(f, record[f])
    BY <1>5, <1>6, <2>1
  <2> QED  BY <2>2
<1>7. ASSUME NEW f \in Quality!Fields, NEW i \in Faults(f, record[f])
      PROVE  i \in Quality!Issues(record) /\ i.severity = "error"
  <2>1. i \in broken(f) /\ i.severity = "error"
    BY <1>5, <1>7
  <2> QED  BY <1>4, <1>9, <2>1
<1> QED
  BY <1>6, <1>7

\* Only the errors of a field decide whether it is eligible, so only its value does.
Fit(f, v) == \A i \in Faults(f, v) : i.rule # "required.missing" /\ i.eligibility \notin Quality!Blocking

\* Only a present value that can be repaired is eligible.
LEMMA EligibleIsFit ==
  ASSUME NEW record, NEW f \in Quality!Fields
  PROVE  Quality!Eligible(f, Quality!Issues(record)) <=> Fit(f, record[f])
<1>1. \A g, v : \A i \in Faults(g, v) : i.field = g
  BY DEF Faults, Quality!Issue
<1>2. {i \in Quality!Issues(record) : i.field = f /\ i.severity = "error"} = Faults(f, record[f])
  <2>1. {i \in Quality!Issues(record) : i.severity = "error"}
          = UNION {Faults(g, record[g]) : g \in Quality!Fields}
    BY ErrorsAreFaults
  <2>2. ASSUME NEW i \in Quality!Issues(record), i.severity = "error", i.field = f
        PROVE  i \in Faults(f, record[f])
    <3>1. PICK g \in Quality!Fields : i \in Faults(g, record[g])
      BY <2>1, <2>2
    <3> QED  BY <1>1, <2>2, <3>1
  <2>3. ASSUME NEW i \in Faults(f, record[f])
        PROVE  i \in Quality!Issues(record) /\ i.severity = "error" /\ i.field = f
    BY <1>1, <2>1, <2>3
  <2> QED  BY <2>2, <2>3
<1> QED
  BY <1>2 DEF Quality!Eligible, Fit

Normalized(f, v) == Quality!NormalizeField(f, v, Fit(f, v))

\* What normalizing does to a field.
LEMMA NormalizeIs ==
  ASSUME NEW record
  PROVE  Quality!Normalize(record) = [f \in Quality!Fields |-> Normalized(f, record[f])]
<1>1. ASSUME NEW f \in Quality!Fields
      PROVE  Quality!NormalizeField(f, record[f], Quality!Eligible(f, Quality!Issues(record)))
               = Normalized(f, record[f])
  <2>1. Quality!Eligible(f, Quality!Issues(record)) <=> Fit(f, record[f])
    BY EligibleIsFit
  <2> QED  BY <2>1 DEF Quality!NormalizeField, Normalized
<1> QED
  BY <1>1 DEF Quality!Normalize

\* A value keeps its seven parts.
IsValue(v) ==
  v = [core |-> v.core, form |-> v.form, outer |-> v.outer, inner |-> v.inner,
       apart |-> v.apart, letters |-> v.letters, suffixes |-> v.suffixes]

\* A well-written value is a value, of numbers and a set of suffixes.
LEMMA WrittenIsValue ==
  ASSUME NEW f, NEW v, Quality!WellWritten(f, v)
  PROVE  /\ IsValue(v)
         /\ v.outer \in Nat /\ v.inner \in Nat /\ v.apart \in Int /\ v.letters \in Nat
         /\ v.suffixes \subseteq Quality!Suffixes
         /\ Quality!Blank(v) <=> v.form \in {"absent", "blank"}
         /\ f # "company" => v.suffixes = {}
BY DEF IsValue, Quality!WellWritten, Quality!Values

\* Values with the same parts are the same.
LEMMA SameParts ==
  ASSUME NEW v, NEW w, IsValue(v), IsValue(w),
         v.core = w.core, v.form = w.form, v.outer = w.outer, v.inner = w.inner,
         v.apart = w.apart, v.letters = w.letters, v.suffixes = w.suffixes
  PROVE  v = w
BY DEF IsValue

TextOf(v) == Quality!Composed(Quality!Tidied(v))

\* Trimming, collapsing and composing change three numbers.
LEMMA TextIs ==
  ASSUME NEW v, IsValue(v)
  PROVE  /\ IsValue(TextOf(v))
         /\ TextOf(v).core = v.core /\ TextOf(v).form = v.form
         /\ TextOf(v).letters = v.letters /\ TextOf(v).suffixes = v.suffixes
         /\ TextOf(v).outer = 0 /\ TextOf(v).inner = 0 /\ TextOf(v).apart = 0
         /\ Quality!Tidied(TextOf(v)) = TextOf(v)
<1> DEFINE spared(outer, inner, apart) ==
             [core |-> v.core, form |-> v.form, outer |-> outer, inner |-> inner,
              apart |-> apart, letters |-> v.letters, suffixes |-> v.suffixes]
           t == spared(0, 0, 0)
<1>1. \A w : Quality!Tidied(w) = [[w EXCEPT !.outer = 0] EXCEPT !.inner = 0]
  BY Zenon DEF Quality!Tidied
<1>2. [v EXCEPT !.outer = 0] = spared(0, v.inner, v.apart)
  BY DEF IsValue
<1>3. /\ [spared(0, v.inner, v.apart) EXCEPT !.inner = 0] = spared(0, 0, v.apart)
      /\ Quality!Composed(spared(0, 0, v.apart)) = t
      /\ [t EXCEPT !.outer = 0] = t /\ [t EXCEPT !.inner = 0] = t
  BY DEF Quality!Composed
<1>4. t = [core |-> v.core, form |-> v.form, outer |-> 0, inner |-> 0,
           apart |-> 0, letters |-> v.letters, suffixes |-> v.suffixes]
  OBVIOUS
<1> HIDE DEF spared, t
<1>5. TextOf(v) = t /\ Quality!Tidied(t) = t
  BY <1>1, <1>2, <1>3, Zenon DEF TextOf
<1> QED
  BY <1>4, <1>5 DEF IsValue

\* A value whose text is canonical is its text.
LEMMA TextStays ==
  ASSUME NEW v, IsValue(v), v.outer = 0, v.inner = 0, v.apart = 0
  PROVE  TextOf(v) = v
BY TextIs, SameParts

\* The rule of each field.
LEMMA FieldRulesAre ==
  ASSUME NEW f, NEW v
  PROVE  /\ f = "email" => Quality!FieldRules(f, v) = Quality!LowerDomain(TextOf(v))
         /\ f = "phone" => Quality!FieldRules(f, v) = Quality!ToE164(TextOf(v))
         /\ f = "company" => Quality!FieldRules(f, v) = Quality!CanonicalSuffix(TextOf(v))
         /\ f = "city" => Quality!FieldRules(f, v) = Quality!CityAlias(TextOf(v))
         /\ f = "district" => Quality!FieldRules(f, v) = Quality!DistrictAlias(TextOf(v))
         /\ f = "address" => Quality!FieldRules(f, v) = Quality!Tidied(TextOf(v))
         /\ f \notin {"email", "phone", "company", "city", "district", "address"} =>
              Quality!FieldRules(f, v) = TextOf(v)
BY DEF Quality!FieldRules, TextOf

\* What normalizing does to a value.
LEMMA NormalizedIs ==
  ASSUME NEW f, NEW v
  PROVE  /\ Fit(f, v) /\ v.form # "absent" => Normalized(f, v) = Quality!FieldRules(f, v)
         /\ ~ Fit(f, v) \/ v.form = "absent" => Normalized(f, v) = v
BY DEF Normalized, Quality!NormalizeField

\* There are finitely many fields and rules.
LEMMA FieldsAndRulesAreFinite == IsFiniteSet(Quality!Fields) /\ IsFiniteSet(Quality!Rules)
<1> DEFINE A == {"first_name", "last_name", "email", "phone"}
           B == {"company", "city", "district", "address"}
           C == {"required.missing", "text.blank", "text.max_length", "text.noncanonical_whitespace"}
           D == {"email.syntax", "phone.format", "phone.tr_e164", "company.min_length"}
           E == {"address.min_length", "location.city_known", "location.district_known", "location.district_known"}
<1>1. IsFiniteSet(A) /\ IsFiniteSet(B) /\ IsFiniteSet(C) /\ IsFiniteSet(D) /\ IsFiniteSet(E)
  BY FourAreFinite
<1>2. Quality!Fields = A \cup B
  BY DEF Quality!Fields
<1>3. Quality!Rules = (C \cup D) \cup E
  BY DEF Quality!Rules
<1> HIDE DEF A, B, C, D, E
<1>4. IsFiniteSet(A \cup B) /\ IsFiniteSet(C \cup D)
  BY <1>1, FS_Union
<1>5. IsFiniteSet((C \cup D) \cup E)
  BY <1>1, <1>4, FS_Union
<1> QED
  BY <1>2, <1>3, <1>4, <1>5

\* A record has finitely many issues.
LEMMA IssuesAreFinite ==
  ASSUME NEW record
  PROVE  IsFiniteSet(Quality!Issues(record))
<1> DEFINE P == Quality!Fields \X Quality!Rules
           g == [p \in P |-> Quality!Issue(p[1], record[p[1]], p[2])]
           R == {g[p] : p \in P}
           m == Quality!Issue("district", record["district"], "cross_field.city_district")
<1>1. IsFiniteSet(P)
  BY FieldsAndRulesAreFinite, FS_Product
<1>2. IsFiniteSet(R)
  <2>1. g \in Surjection(P, R)
    BY DEF Surjection
  <2> HIDE DEF g, P, R
  <2> QED  BY <1>1, <2>1, FS_Surjection
<1>3. IsFiniteSet(R \cup {m})
  <2> HIDE DEF R, m
  <2>1. IsFiniteSet({m})
    BY FS_Singleton
  <2> QED  BY <1>2, <2>1, FS_Union
<1>4. Quality!Issues(record) \subseteq R \cup {m}
  <2>1. ASSUME NEW f \in Quality!Fields, NEW r \in Quality!Rules
        PROVE  Quality!Issue(f, record[f], r) \in R
    <3>1. <<f, r>> \in P /\ g[<<f, r>>] = Quality!Issue(f, record[f], r)
      OBVIOUS
    <3> HIDE DEF g, P
    <3> QED  BY <3>1
  <2> HIDE DEF R
  <2> QED  BY <2>1 DEF Quality!Issues
<1> QED
  <2> HIDE DEF R, m
  <2> QED  BY <1>3, <1>4, FS_Subset

\* The instance counts as the review does.
LEMMA QualityCounts ==
  /\ \A S : Quality!IsFiniteSet(S) <=> IsFiniteSet(S)
  /\ \A S : Quality!Cardinality(S) = Cardinality(S)
<1>1. \A S : Quality!IsFiniteSet(S) <=> IsFiniteSet(S)
  BY DEF Quality!IsFiniteSet, IsFiniteSet
<1> QED
  BY <1>1 DEF Quality!Cardinality, Cardinality

\* A nonempty set of naturals has a least one.
LEMMA LeastIsThere ==
  ASSUME NEW S \in SUBSET Nat, S # {}
  PROVE  Surviving!Min(S) \in S
<1> DEFINE G == {n \in Nat : \A m \in 0..n : m \notin S}
<1>1. \E x \in S : \A y \in S : x <= y
  <2> SUFFICES ASSUME \A x \in S : \E y \in S : ~ (x <= y) PROVE FALSE
    OBVIOUS
  <2>1. 0 \in G
    <3>1. 0 \notin S
      <4> SUFFICES ASSUME 0 \in S PROVE FALSE
        OBVIOUS
      <4>1. \A y \in S : 0 <= y
        OBVIOUS
      <4> QED  BY <4>1
    <3> QED  BY <3>1
  <2>2. ASSUME NEW n \in Nat, n \in G
        PROVE  n + 1 \in G
    <3>1. n + 1 \notin S
      <4> SUFFICES ASSUME n + 1 \in S PROVE FALSE
        OBVIOUS
      <4>1. PICK y \in S : ~ (n + 1 <= y)
        OBVIOUS
      <4>2. y \in 0..n
        BY <4>1
      <4> QED  BY <2>2, <4>2
    <3> QED  BY <2>2, <3>1
  <2>3. Nat \subseteq G
    <3> HIDE DEF G
    <3> QED  BY <2>1, <2>2, NatInduct
  <2>4. PICK x \in S : TRUE
    OBVIOUS
  <2> QED  BY <2>3, <2>4
<1> QED
  BY <1>1 DEF Surviving!Min

IsMember(m) ==
  /\ m.id \in Nat
  /\ \A f \in Surviving!Fields : m.values[f].length \in Nat /\ IsFiniteSet(m.values[f].marks)

AreMembers(ms) ==
  /\ IsFiniteSet(ms) /\ \A m \in ms : IsMember(m)
  /\ \A m, n \in ms : m.id = n.id => m = n

\* A nonempty set of naturals has a least one, which the instance finds too.
LEMMA LeastKeyIsThere ==
  ASSUME NEW S \in SUBSET Nat, S # {}
  PROVE  Quality!Min(S) \in S
<1>1. Surviving!Min(S) \in S
  BY LeastIsThere
<1> QED
  BY <1>1 DEF Quality!Min, Surviving!Min

\* A name is as long as its suffixes, so it stays long when c of d are replaced.
LEMMA ReplacingKeepsLength ==
  ASSUME NEW key \in 1..9, NEW c \in Nat, NEW d \in Nat, NEW n \in Nat,
         1 <= c, c <= d, n >= Quality!SuffixLength[key] * d
  PROVE  /\ n + c * (Quality!CanonicalLength[key] - Quality!SuffixLength[key]) \in Int
         /\ n + c * (Quality!CanonicalLength[key] - Quality!SuffixLength[key]) >= 4
<1>1. CASE key \in {1, 2, 3}
  <2>1. Quality!CanonicalLength[key] = 4 /\ Quality!SuffixLength[key] \in {4, 3, 2}
    BY <1>1 DEF Quality!SuffixLength, Quality!CanonicalLength
  <2>2. CASE Quality!SuffixLength[key] = 4
    BY <2>1, <2>2
  <2>3. CASE Quality!SuffixLength[key] = 3
    BY <2>1, <2>3
  <2>4. CASE Quality!SuffixLength[key] = 2
    BY <2>1, <2>4
  <2> QED  BY <2>1, <2>2, <2>3, <2>4
<1>2. CASE key = 4
  <2>1. Quality!CanonicalLength[key] = 4 /\ Quality!SuffixLength[key] = 5
    BY <1>2 DEF Quality!SuffixLength, Quality!CanonicalLength
  <2> QED  BY <2>1
<1>3. CASE key \in {5, 6}
  <2>1. Quality!CanonicalLength[key] = 4 /\ Quality!SuffixLength[key] \in {4, 2}
    BY <1>3 DEF Quality!SuffixLength, Quality!CanonicalLength
  <2>2. CASE Quality!SuffixLength[key] = 4
    BY <2>1, <2>2
  <2>3. CASE Quality!SuffixLength[key] = 2
    BY <2>1, <2>3
  <2> QED  BY <2>1, <2>2, <2>3
<1>4. CASE key \in {7, 8, 9}
  <2>1. Quality!CanonicalLength[key] = 9 /\ Quality!SuffixLength[key] \in {9, 7}
    BY <1>4 DEF Quality!SuffixLength, Quality!CanonicalLength
  <2>2. CASE Quality!SuffixLength[key] = 9
    BY <2>1, <2>2
  <2>3. CASE Quality!SuffixLength[key] = 7
    BY <2>1, <2>3
  <2> QED  BY <2>1, <2>2, <2>3
<1> QED
  BY <1>1, <1>2, <1>3, <1>4

FirstKey(v) == Quality!Min({s.key : s \in v.suffixes})

\* Suffixes that are replaced are there, have the first key, and are finitely many.
LEMMA ReplacedIs ==
  ASSUME NEW f, NEW v, Quality!WellWritten(f, v), v.suffixes # {}
  PROVE  /\ FirstKey(v) \in 1..9
         /\ Quality!Replaced(v.suffixes) # {}
         /\ Quality!Replaced(v.suffixes) \subseteq {s \in v.suffixes : s.key = FirstKey(v)}
         /\ IsFiniteSet(v.suffixes)
<1> DEFINE keys == {s.key : s \in v.suffixes}
           first == {s \in v.suffixes : s.key = FirstKey(v)}
           final == {s \in first : s.place \in {"end", "tail"}}
<1>1. v.suffixes \subseteq Quality!Suffixes /\ IsFiniteSet(v.suffixes)
  BY WrittenIsValue, QualityCounts DEF Quality!WellWritten
<1>2. \A s \in v.suffixes : s.key \in 1..9
  BY <1>1 DEF Quality!Suffixes
<1>3. keys \in SUBSET (1..9) /\ keys # {}
  BY <1>2
<1>4. FirstKey(v) \in keys
  <2>1. keys \in SUBSET Nat
    BY <1>3
  <2> QED  BY <1>3, <2>1, LeastKeyIsThere DEF FirstKey
<1>5. first # {} /\ FirstKey(v) \in 1..9
  BY <1>3, <1>4
<1>6. Quality!Replaced(v.suffixes) = IF final # {} THEN final ELSE first
  BY DEF Quality!Replaced, FirstKey
<1>7. final \subseteq first
  OBVIOUS
<1> HIDE DEF first, final
<1>8. Quality!Replaced(v.suffixes) # {} /\ Quality!Replaced(v.suffixes) \subseteq first
  BY <1>5, <1>6, <1>7
<1> QED
  BY <1>1, <1>5, <1>8 DEF first

\* What replacing leaves of a company with a suffix.
LEMMA SuffixIs ==
  ASSUME NEW f, NEW v, Quality!WellWritten(f, v), v.suffixes # {}
  PROVE  LET w == Quality!CanonicalSuffix(TextOf(v)) IN
           /\ IsValue(w) /\ w.core = v.core
           /\ w.outer = 0 /\ w.inner = 0 /\ w.apart = 0 /\ w.letters \in Int /\ w.letters >= 4
           /\ w.suffixes = v.suffixes \ Quality!Replaced(v.suffixes)
           /\ w.form = v.form \/ (w.form = "ruined" /\ \E s \in v.suffixes : s.place \in {"tail", "head"})
<1> DEFINE t == TextOf(v)
           w == Quality!CanonicalSuffix(t)
           hit == Quality!Replaced(v.suffixes)
           key == FirstKey(v)
           growth == Quality!Cardinality(hit) * (Quality!CanonicalLength[key] - Quality!SuffixLength[key])
           ruins == \E s \in hit : s.place \in {"tail", "head"}
           form == IF ruins THEN "ruined" ELSE v.form
<1>1. /\ t = [core |-> v.core, form |-> v.form, outer |-> 0, inner |-> 0,
              apart |-> 0, letters |-> v.letters, suffixes |-> v.suffixes]
  <2>1. IsValue(v)
    BY WrittenIsValue
  <2>2. /\ IsValue(t) /\ t.core = v.core /\ t.form = v.form /\ t.letters = v.letters
        /\ t.suffixes = v.suffixes /\ t.outer = 0 /\ t.inner = 0 /\ t.apart = 0
    BY <2>1, TextIs
  <2> HIDE DEF t
  <2> QED  BY <2>2 DEF IsValue
<1> HIDE DEF t
<1>2. w = [t EXCEPT !.suffixes = @ \ hit, !.letters = @ + growth, !.form = IF ruins THEN "ruined" ELSE @]
  <2>1. t.suffixes = v.suffixes
    BY <1>1
  <2> QED  BY <2>1 DEF Quality!CanonicalSuffix, FirstKey
<1> HIDE DEF w, hit, growth, ruins
<1>3. w = [core |-> v.core, form |-> form, outer |-> 0, inner |-> 0,
           apart |-> 0, letters |-> v.letters + growth, suffixes |-> v.suffixes \ hit]
  BY <1>1, <1>2
<1>4. v.letters + growth \in Int /\ v.letters + growth >= 4
  <2> DEFINE found == {s \in v.suffixes : s.key = key}
  <2>1. /\ key \in 1..9 /\ hit # {} /\ hit \subseteq found /\ IsFiniteSet(v.suffixes)
    BY ReplacedIs DEF hit
  <2>2. v.letters >= Quality!SuffixLength[key] * Quality!Cardinality(found) /\ v.letters \in Nat
    BY <2>1, WrittenIsValue DEF Quality!WellWritten
  <2>3. found \subseteq v.suffixes
    OBVIOUS
  <2> HIDE DEF found, key
  <2>4. IsFiniteSet(found)
    BY <2>1, <2>3, FS_Subset
  <2>5. IsFiniteSet(hit) /\ Cardinality(hit) <= Cardinality(found)
    BY <2>1, <2>4, FS_Subset
  <2>6. Cardinality(hit) \in Nat /\ Cardinality(found) \in Nat /\ Cardinality(hit) # 0
    BY <2>1, <2>4, <2>5, FS_CardinalityType, FS_EmptySet
  <2>7. Quality!Cardinality(hit) = Cardinality(hit) /\ Quality!Cardinality(found) = Cardinality(found)
    BY QualityCounts
  <2>8. /\ v.letters + Cardinality(hit) * (Quality!CanonicalLength[key] - Quality!SuffixLength[key]) \in Int
        /\ v.letters + Cardinality(hit) * (Quality!CanonicalLength[key] - Quality!SuffixLength[key]) >= 4
    <3>1. 1 <= Cardinality(hit)
      BY <2>6
    <3>2. v.letters >= Quality!SuffixLength[key] * Cardinality(found)
      BY <2>2, <2>7
    <3> QED  BY <2>1, <2>2, <2>5, <2>6, <3>1, <3>2, ReplacingKeepsLength
  <2> QED  BY <2>7, <2>8 DEF growth
<1>5. form = v.form \/ (form = "ruined" /\ \E s \in v.suffixes : s.place \in {"tail", "head"})
  <2>1. hit \subseteq v.suffixes
    BY ReplacedIs DEF hit
  <2> QED  BY <2>1 DEF ruins
<1> HIDE DEF form
<1>6. /\ IsValue(w) /\ w.core = v.core /\ w.outer = 0 /\ w.inner = 0 /\ w.apart = 0
      /\ w.letters = v.letters + growth /\ w.suffixes = v.suffixes \ hit /\ w.form = form
  BY <1>3 DEF IsValue
<1> QED
  BY <1>4, <1>5, <1>6 DEF w, hit, t

\* How the rules of a field may rewrite a value.
Moves(f, v, w) ==
  /\ IsValue(w) /\ w.core = v.core /\ w.outer = 0 /\ w.inner = 0
  /\ w.apart = 0 \/ (f = "email" /\ v.form = "shouted apart")
  /\ \/ w.form = v.form
     \/ f = "email" /\ v.form \in {"shouted", "shouted apart"} /\ w.form = "plain"
     \/ f = "phone" /\ v.form = "local" /\ w.form = "e164"
     \/ f \in {"city", "district"} /\ v.form = "alias" /\ w.form = "known"
     \/ f = "company" /\ w.form = "ruined" /\ \E s \in v.suffixes : s.place \in {"tail", "head"}
  /\ f = "email" => w.form \notin {"shouted", "shouted apart"}
  /\ f = "phone" => w.form # "local"
  /\ f \in {"city", "district"} => w.form # "alias"
  /\ f = "address" => w.letters = v.letters
  /\ f = "company" /\ v.suffixes = {} => w.letters = v.letters /\ w.suffixes = {}
  /\ f = "company" /\ v.suffixes # {} => /\ w.letters \in Int /\ w.letters >= 4
                                         /\ w.suffixes = v.suffixes \ Quality!Replaced(v.suffixes)

\* The rules of a field move a value so.
LEMMA RulesMove ==
  ASSUME NEW f, NEW v, Quality!WellWritten(f, v)
  PROVE  Moves(f, v, Quality!FieldRules(f, v))
<1> DEFINE t == TextOf(v)
           w == Quality!FieldRules(f, v)
<1>0. IsValue(v)
  BY WrittenIsValue
<1>1. /\ IsValue(t) /\ t.core = v.core /\ t.form = v.form /\ t.letters = v.letters
      /\ t.suffixes = v.suffixes /\ t.outer = 0 /\ t.inner = 0 /\ t.apart = 0
      /\ Quality!Tidied(t) = t
  BY <1>0, TextIs
<1>2. t = [core |-> v.core, form |-> v.form, outer |-> 0, inner |-> 0,
           apart |-> 0, letters |-> v.letters, suffixes |-> v.suffixes]
  BY <1>1 DEF IsValue
<1>3. CASE f = "email"
  <2>1. w = Quality!LowerDomain(t)
    BY <1>3, FieldRulesAre
  <2> HIDE DEF t, w
  <2>2. CASE v.form = "shouted"
    <3>1. w = [t EXCEPT !.form = "plain"]
      BY <1>1, <2>1, <2>2 DEF Quality!LowerDomain
    <3>2. w = [core |-> v.core, form |-> "plain", outer |-> 0, inner |-> 0,
               apart |-> 0, letters |-> v.letters, suffixes |-> v.suffixes]
      BY <1>2, <3>1
    <3>3. /\ IsValue(w) /\ w.core = v.core /\ w.outer = 0 /\ w.inner = 0 /\ w.apart = 0 /\ w.form = "plain"
      BY <3>2 DEF IsValue
    <3> QED  BY <1>3, <2>2, <3>3 DEF Moves, w
  <2>3. CASE v.form = "shouted apart"
    <3>1. w = [t EXCEPT !.form = "plain", !.apart = 1, !.letters = @ - 1]
      BY <1>1, <2>1, <2>3 DEF Quality!LowerDomain
    <3>2. w = [core |-> v.core, form |-> "plain", outer |-> 0, inner |-> 0,
               apart |-> 1, letters |-> v.letters - 1, suffixes |-> v.suffixes]
      BY <1>2, <3>1
    <3>3. /\ IsValue(w) /\ w.core = v.core /\ w.outer = 0 /\ w.inner = 0 /\ w.form = "plain"
      BY <3>2 DEF IsValue
    <3> QED  BY <1>3, <2>3, <3>3 DEF Moves, w
  <2>4. CASE v.form \notin {"shouted", "shouted apart"}
    <3>1. w = t
      BY <1>1, <2>1, <2>4 DEF Quality!LowerDomain
    <3> QED  BY <1>1, <1>3, <2>4, <3>1 DEF Moves, w
  <2> QED  BY <2>2, <2>3, <2>4
<1>4. CASE f = "phone"
  <2>1. w = Quality!ToE164(t)
    BY <1>4, FieldRulesAre
  <2> HIDE DEF t, w
  <2>2. CASE v.form = "local"
    <3>1. w = [core |-> v.core, form |-> "e164", outer |-> 0, inner |-> 0,
               apart |-> 0, letters |-> 13, suffixes |-> v.suffixes]
      BY <1>1, <1>2, <2>1, <2>2 DEF Quality!ToE164
    <3> QED  BY <1>4, <2>2, <3>1 DEF IsValue, Moves, w
  <2>3. CASE v.form # "local"
    <3>1. w = t
      BY <1>1, <2>1, <2>3 DEF Quality!ToE164
    <3> QED  BY <1>1, <1>4, <2>3, <3>1 DEF Moves, w
  <2> QED  BY <2>2, <2>3
<1>5. CASE f \in {"city", "district"}
  <2>1. w = IF t.form = "alias" THEN [t EXCEPT !.form = "known"] ELSE t
    BY <1>5, FieldRulesAre DEF Quality!CityAlias, Quality!DistrictAlias
  <2> HIDE DEF t, w
  <2>2. CASE v.form = "alias"
    <3>1. w = [core |-> v.core, form |-> "known", outer |-> 0, inner |-> 0,
               apart |-> 0, letters |-> v.letters, suffixes |-> v.suffixes]
      BY <1>1, <1>2, <2>1, <2>2
    <3> QED  BY <1>5, <2>2, <3>1 DEF IsValue, Moves, w
  <2>3. CASE v.form # "alias"
    <3>1. w = t
      BY <1>1, <2>1, <2>3
    <3> QED  BY <1>1, <1>5, <2>3, <3>1 DEF Moves, w
  <2> QED  BY <2>2, <2>3
<1>6. CASE f = "company" /\ v.suffixes # {}
  <2>1. w = Quality!CanonicalSuffix(TextOf(v))
    BY <1>6, FieldRulesAre
  <2>2. /\ IsValue(w) /\ w.core = v.core
        /\ w.outer = 0 /\ w.inner = 0 /\ w.apart = 0 /\ w.letters \in Int /\ w.letters >= 4
        /\ w.suffixes = v.suffixes \ Quality!Replaced(v.suffixes)
        /\ w.form = v.form \/ (w.form = "ruined" /\ \E s \in v.suffixes : s.place \in {"tail", "head"})
    BY <1>6, <2>1, SuffixIs
  <2> HIDE DEF w
  <2> QED  BY <1>6, <2>2 DEF Moves, w
<1>7. CASE f = "company" /\ v.suffixes = {}
  <2>1. w = Quality!CanonicalSuffix(t)
    BY <1>7, FieldRulesAre
  <2> HIDE DEF t, w
  <2>2. w = t
    BY <1>1, <1>7, <2>1 DEF Quality!CanonicalSuffix
  <2> QED  BY <1>1, <1>7, <2>2 DEF Moves, w
<1>8. CASE f \notin {"email", "phone", "company", "city", "district"}
  <2>1. w = t
    BY <1>1, <1>8, FieldRulesAre
  <2> HIDE DEF t, w
  <2> QED  BY <1>1, <1>8, <2>1 DEF Moves, w
<1> QED
  BY <1>3, <1>4, <1>5, <1>6, <1>7, <1>8

\* A value that is in the form its rules give it stays.
LEMMA CanonicalStays ==
  ASSUME NEW f, NEW w, IsValue(w), w.outer = 0, w.inner = 0, w.apart = 0,
         f = "email" => w.form \notin {"shouted", "shouted apart"},
         f = "phone" => w.form # "local",
         f \in {"city", "district"} => w.form # "alias",
         f = "company" => w.suffixes = {}
  PROVE  Quality!FieldRules(f, w) = w
<1>1. TextOf(w) = w /\ Quality!Tidied(w) = w
  BY TextStays, TextIs
<1>2. CASE f = "email"
  BY <1>1, <1>2, FieldRulesAre DEF Quality!LowerDomain
<1>3. CASE f = "phone"
  BY <1>1, <1>3, FieldRulesAre DEF Quality!ToE164
<1>4. CASE f \in {"city", "district"}
  BY <1>1, <1>4, FieldRulesAre DEF Quality!CityAlias, Quality!DistrictAlias
<1>5. CASE f = "company"
  <2>1. Quality!FieldRules(f, w) = Quality!CanonicalSuffix(w)
    BY <1>1, <1>5, FieldRulesAre
  <2> QED  BY <1>5, <2>1 DEF Quality!CanonicalSuffix
<1>6. CASE f \notin {"email", "phone", "company", "city", "district"}
  BY <1>1, <1>6, FieldRulesAre
<1> QED
  BY <1>2, <1>3, <1>4, <1>5, <1>6

\* The rules that find errors.
LEMMA ErrorRules ==
  ASSUME NEW r \in Quality!Rules, Quality!Severity(r) = "error"
  PROVE  r \in {"required.missing", "text.blank", "email.syntax", "phone.format", "phone.tr_e164",
               "company.min_length", "address.min_length"}
BY DEF Quality!Severity, Quality!Rules

\* When a value breaks a rule that finds errors.
LEMMA BreaksIs ==
  ASSUME NEW f, NEW v, NEW r
  PROVE  /\ r = "required.missing" => (Quality!Breaks(f, v, r) <=> Quality!Blank(v))
         /\ r = "text.blank" =>
              (Quality!Breaks(f, v, r) <=> f \in Quality!TextFields /\ Quality!Blank(v) /\ v.form # "absent")
         /\ r = "email.syntax" => (Quality!Breaks(f, v, r) <=> f = "email" /\ v.form = "malformed")
         /\ r = "phone.format" => (Quality!Breaks(f, v, r) <=> f = "phone" /\ v.form = "words")
         /\ r = "phone.tr_e164" => (Quality!Breaks(f, v, r) <=> f = "phone" /\ ~ Quality!Blank(v) /\ v.form # "e164")
         /\ r = "company.min_length" =>
              (Quality!Breaks(f, v, r) <=> f = "company" /\ ~ Quality!Blank(v) /\ Quality!Length(v) < 2)
         /\ r = "address.min_length" =>
              (Quality!Breaks(f, v, r) <=> f = "address" /\ ~ Quality!Blank(v) /\ Quality!Length(v) < 5)
<1>1. r = "company.min_length" =>
        (Quality!Breaks(f, v, r) <=> f = "company" /\ ~ Quality!Blank(v) /\ Quality!Length(v) < 2)
  BY DEF Quality!Breaks, Quality!CompanyTooShort, Quality!MinLength
<1>2. r = "address.min_length" =>
        (Quality!Breaks(f, v, r) <=> f = "address" /\ ~ Quality!Blank(v) /\ Quality!Length(v) < 5)
  BY DEF Quality!Breaks, Quality!AddressTooShort, Quality!MinLength
<1> QED
  BY <1>1, <1>2 DEF Quality!Breaks, Quality!RequiredMissing, Quality!TextBlank, Quality!EmailMalformed,
     Quality!NotLikePhone, Quality!NotE164

\* A value that falls short after its rules and not before was long enough by its spare
\* characters.
LEMMA ShortFallsShort ==
  ASSUME NEW f \in {"company", "address"}, NEW v, Quality!WellWritten(f, v), NEW w, Moves(f, v, w),
         ~ Quality!Blank(w), Quality!Length(w) < Quality!MinLength(f),
         ~ (Quality!Length(v) < Quality!MinLength(f))
  PROVE  Quality!FallsShort(f, v)
<1>1. /\ v.letters \in Nat /\ v.inner \in Nat /\ v.apart \in Int
  BY WrittenIsValue
<1>2. /\ w.core = v.core /\ w.inner = 0 /\ w.apart = 0
      /\ w.letters = v.letters \/ (f = "company" /\ w.letters \in Int /\ w.letters >= 4)
  BY DEF Moves
<1>3. Quality!MinLength(f) \in Nat /\ (f = "company" => Quality!MinLength(f) = 2)
  BY DEF Quality!MinLength
<1>4. Quality!Length(w) = w.letters + 0 + 0 /\ Quality!Length(v) = v.letters + v.inner + v.apart
  BY <1>2 DEF Quality!Length
<1>5. ~ Quality!Blank(v)
  BY <1>2 DEF Quality!Blank
<1>6. CASE w.letters = v.letters
  BY <1>1, <1>3, <1>4, <1>5, <1>6 DEF Quality!FallsShort
<1>7. CASE f = "company" /\ w.letters \in Int /\ w.letters >= 4
  BY <1>3, <1>4, <1>7
<1> QED
  BY <1>2, <1>6, <1>7

\* Normalizing brings no error that was not there, unless the value falls short.
LEMMA NoNewFaults ==
  ASSUME NEW f \in Quality!Fields, NEW v, Quality!WellWritten(f, v)
  PROVE  Faults(f, Normalized(f, v)) \subseteq Faults(f, v) \/ Quality!FallsShort(f, v)
<1> SUFFICES ASSUME ~ Quality!FallsShort(f, v)
             PROVE  Faults(f, Normalized(f, v)) \subseteq Faults(f, v)
  OBVIOUS
<1> DEFINE w == Normalized(f, v)
<1>1. CASE ~ Fit(f, v) \/ v.form = "absent"
  BY <1>1, NormalizedIs
<1>2. CASE Fit(f, v) /\ v.form # "absent"
  <2>0. w = Quality!FieldRules(f, v)
    BY <1>2, NormalizedIs
  <2>1. Moves(f, v, w)
    BY <2>0, RulesMove
  <2> HIDE DEF w
  <2>2. \/ w.form = v.form
        \/ v.form \in {"shouted", "shouted apart", "alias"} /\ w.form \in {"plain", "known"}
        \/ v.form = "local" /\ w.form = "e164"
        \/ f = "company"
    BY <2>1 DEF Moves
  <2>3. Quality!Blank(w) <=> Quality!Blank(v)
    BY <2>1 DEF Quality!Blank, Moves
  <2>4. ASSUME NEW r \in Quality!Rules, Quality!Severity(r) = "error", Quality!Breaks(f, w, r)
        PROVE  Quality!Breaks(f, v, r) /\ Quality!Issue(f, w, r) = Quality!Issue(f, v, r)
    <3>1. r # "phone.tr_e164" => Quality!Issue(f, w, r) = Quality!Issue(f, v, r)
      BY DEF Quality!Issue
    <3>2. CASE r = "phone.tr_e164"
      <4>1. f = "phone" /\ ~ Quality!Blank(w) /\ w.form # "e164"
        BY <2>4, <3>2, BreaksIs
      <4>2. v.form = w.form
        BY <2>1, <4>1 DEF Moves
      <4>3. Quality!Breaks(f, v, r)
        BY <2>3, <3>2, <4>1, <4>2, BreaksIs
      <4> QED  BY <3>2, <4>2, <4>3 DEF Quality!Issue
    <3>3. CASE r \in {"required.missing", "text.blank"}
      BY <1>2, <2>3, <2>4, <3>1, <3>3, BreaksIs
    <3>4. CASE r = "email.syntax"
      <4>1. f = "email" /\ w.form = "malformed"
        BY <2>4, <3>4, BreaksIs
      <4>2. v.form = "malformed"
        BY <2>2, <4>1
      <4> QED  BY <3>1, <3>4, <4>1, <4>2, BreaksIs
    <3>5. CASE r = "phone.format"
      <4>1. f = "phone" /\ w.form = "words"
        BY <2>4, <3>5, BreaksIs
      <4>2. v.form = "words"
        BY <2>2, <4>1
      <4> QED  BY <3>1, <3>5, <4>1, <4>2, BreaksIs
    <3>6. CASE r = "company.min_length"
      <4>1. f = "company" /\ ~ Quality!Blank(w) /\ Quality!Length(w) < 2
        BY <2>4, <3>6, BreaksIs
      <4>2. Quality!MinLength(f) = 2
        BY <4>1 DEF Quality!MinLength
      <4>3. Quality!Length(v) < 2
        BY <2>1, <4>1, <4>2, ShortFallsShort
      <4> QED  BY <2>3, <3>1, <3>6, <4>1, <4>3, BreaksIs
    <3>7. CASE r = "address.min_length"
      <4>1. f = "address" /\ ~ Quality!Blank(w) /\ Quality!Length(w) < 5
        BY <2>4, <3>7, BreaksIs
      <4>2. Quality!MinLength(f) = 5
        BY <4>1 DEF Quality!MinLength
      <4>3. Quality!Length(v) < 5
        BY <2>1, <4>1, <4>2, ShortFallsShort
      <4> QED  BY <2>3, <3>1, <3>7, <4>1, <4>3, BreaksIs
    <3> QED  BY <2>4, <3>2, <3>3, <3>4, <3>5, <3>6, <3>7, ErrorRules
  <2>5. ASSUME NEW i \in Faults(f, w)
        PROVE  i \in Faults(f, v)
    <3>1. PICK r \in Quality!Rules : /\ Quality!Breaks(f, w, r) /\ Quality!Severity(r) = "error"
                                   /\ i = Quality!Issue(f, w, r)
      BY <2>5 DEF Faults
    <3> QED  BY <2>4, <3>1 DEF Faults
  <2> QED  BY <2>5 DEF w
<1> QED
  BY <1>1, <1>2

\* Of one suffix at most none is left.
LEMMA NoSuffixIsLeft ==
  ASSUME NEW f, NEW v, Quality!WellWritten(f, v), v.suffixes # {},
         ~ (Quality!Cardinality(v.suffixes) > 1)
  PROVE  v.suffixes \ Quality!Replaced(v.suffixes) = {}
<1> DEFINE S == v.suffixes
           hit == Quality!Replaced(v.suffixes)
<1>1. hit # {} /\ hit \subseteq S /\ IsFiniteSet(S) /\ S # {}
  BY ReplacedIs
<1> HIDE DEF S, hit
<1>2. Cardinality(S) \in Nat /\ ~ (Cardinality(S) > 1) /\ Cardinality(S) # 0
  <2>1. Quality!Cardinality(v.suffixes) = Cardinality(S)
    BY QualityCounts DEF S
  <2> QED  BY <1>1, <2>1, FS_CardinalityType, FS_EmptySet
<1>3. PICK s : s \in hit
  BY <1>1
<1>4. IsFiniteSet(S \ {s}) /\ Cardinality(S \ {s}) = 0
  <2>1. s \in S
    BY <1>1, <1>3
  <2>2. Cardinality(S \ {s}) = Cardinality(S) - 1 /\ IsFiniteSet(S \ {s})
    BY <1>1, <2>1, FS_RemoveElement
  <2> QED  BY <1>2, <2>2
<1>5. S \ {s} = {}
  BY <1>4, FS_EmptySet
<1> QED
  BY <1>3, <1>5 DEF S, hit

\* A second pass changes nothing, but for the two kinds of text.
LEMMA ValuesSettle ==
  ASSUME NEW f \in Quality!Fields, NEW v, Quality!WellWritten(f, v),
         ~ (f = "company" /\ Quality!Cardinality(v.suffixes) > 1),
         ~ (f = "email" /\ v.form = "shouted apart")
  PROVE  Normalized(f, Normalized(f, v)) = Normalized(f, v)
<1> DEFINE w == Normalized(f, v)
<1>1. CASE ~ Fit(f, v) \/ v.form = "absent"
  BY <1>1, NormalizedIs
<1>2. CASE Fit(f, v) /\ v.form # "absent"
  <2>0. w = Quality!FieldRules(f, v)
    BY <1>2, NormalizedIs
  <2>1. Moves(f, v, w)
    BY <2>0, RulesMove
  <2> HIDE DEF w
  <2>2. f = "company" => w.suffixes = {}
    <3>1. ASSUME f = "company", v.suffixes = {} PROVE w.suffixes = {}
      BY <2>1, <3>1 DEF Moves
    <3>2. ASSUME f = "company", v.suffixes # {} PROVE w.suffixes = {}
      <4>1. w.suffixes = v.suffixes \ Quality!Replaced(v.suffixes)
        BY <2>1, <3>2 DEF Moves
      <4> QED  BY <3>2, <4>1, NoSuffixIsLeft
    <3> QED  BY <3>1, <3>2
  <2>3. /\ IsValue(w) /\ w.outer = 0 /\ w.inner = 0 /\ w.apart = 0
        /\ f = "email" => w.form \notin {"shouted", "shouted apart"}
        /\ f = "phone" => w.form # "local"
        /\ f \in {"city", "district"} => w.form # "alias"
    BY <2>1 DEF Moves
  <2>4. Quality!FieldRules(f, w) = w
    BY <2>2, <2>3, CanonicalStays
  <2>5. Normalized(f, w) = w
    BY <2>4, NormalizedIs
  <2> QED  BY <2>5 DEF w
<1> QED
  BY <1>1, <1>2

\* What the quality stage holds: a file, and its result once there is one.
QualityInv == input \in RecordFiles /\ (output = Quality!NotRun \/ output = Quality!RunPipeline(input))

\* A row of a file and what it becomes.
LEMMA RowsAreWritten ==
  ASSUME NEW records \in RecordFiles, NEW n \in DOMAIN records
  PROVE  \A f \in Quality!Fields : Quality!WellWritten(f, records[n][f])
BY PipelineAssumption DEF Quality!FilesAssumption

Errors(record) == {i \in Quality!Issues(record) : i.severity = "error"}

\* Normalizing a record adds no error but where a value falls short.
LEMMA NoNewErrors ==
  ASSUME NEW record, \A f \in Quality!Fields : Quality!WellWritten(f, record[f]),
         NEW i \in Errors(Quality!Normalize(record)), i \notin Errors(record)
  PROVE  i.field \in Quality!Fields /\ Quality!FallsShort(i.field, record[i.field])
<1> DEFINE after == Quality!Normalize(record)
<1>1. \A f \in Quality!Fields : after[f] = Normalized(f, record[f])
  BY NormalizeIs
<1> HIDE DEF after
<1>2. \A f \in Quality!Fields : Faults(f, after[f]) \subseteq Faults(f, record[f]) \/ Quality!FallsShort(f, record[f])
  BY <1>1, NoNewFaults
<1>3. Errors(after) = UNION {Faults(f, after[f]) : f \in Quality!Fields}
  BY ErrorsAreFaults DEF Errors
<1>4. Errors(record) = UNION {Faults(f, record[f]) : f \in Quality!Fields}
  BY ErrorsAreFaults DEF Errors
<1>5. PICK f \in Quality!Fields : i \in Faults(f, after[f])
  BY <1>3 DEF after
<1>6. Quality!FallsShort(f, record[f])
  BY <1>2, <1>4, <1>5
<1>7. i.field = f
  BY <1>5 DEF Faults, Quality!Issue
<1> QED
  BY <1>6, <1>7

\* What the result of a file holds.
LEMMA ResultIs ==
  ASSUME QualityInv, Quality!Ran
  PROVE  /\ output = Quality!RunPipeline(input) /\ input \in RecordFiles
         /\ DOMAIN output.records = DOMAIN input
         /\ \A n \in DOMAIN input :
              LET r == output.records[n]
                  after == Quality!Normalize(input[n]) IN
                /\ r.original = input[n] /\ r.normalized = after
                /\ r.before = Quality!Issues(input[n]) /\ r.after = Quality!Issues(after)
                /\ r.changed = {f \in Quality!Fields : after[f] # input[n][f]}
         /\ output.pre = Quality!Summary([n \in DOMAIN input |-> Quality!Issues(input[n])])
         /\ output.post = Quality!Summary([n \in DOMAIN input |-> Quality!Issues(Quality!Normalize(input[n]))])
<1>0. Quality!NotRun.outcome = "not run"
  BY DEF Quality!NotRun
<1>1. output = Quality!RunPipeline(input) /\ input \in RecordFiles
  BY <1>0 DEF QualityInv, Quality!Ran
<1>2. /\ Quality!RunPipeline(input).pre = Quality!Summary([n \in DOMAIN input |-> Quality!Issues(input[n])])
      /\ Quality!RunPipeline(input).records =
           [n \in DOMAIN input |->
              [original |-> input[n], normalized |-> Quality!Normalize(input[n]),
               changed |-> {f \in Quality!Fields : Quality!Normalize(input[n])[f] # input[n][f]},
               before |-> Quality!Issues(input[n]), after |-> Quality!Issues(Quality!Normalize(input[n]))]]
      /\ Quality!RunPipeline(input).post = Quality!Summary([n \in DOMAIN input |-> Quality!Issues(Quality!Normalize(input[n]))])
  BY DEF Quality!RunPipeline
<1> QED
  BY <1>1, <1>2

\* Normalizing only repairs, but for a value that falls short and a name that is ruined.
LEMMA RepairsOnly ==
  ASSUME QualityInv
  PROVE  Quality!NormalizingOnlyRepairs
<1> SUFFICES ASSUME Quality!Ran, NEW n \in DOMAIN output.records
             PROVE  /\ \A i \in output.records[n].after \ output.records[n].before :
                         i.severity = "error" => Quality!FallsShort(i.field, output.records[n].original[i.field])
                    /\ \A f \in Quality!Fields :
                         /\ (\E i \in output.records[n].before : i.field = f /\ i.severity = "error"
                                                              /\ i.eligibility \in Quality!Blocking)
                              => output.records[n].normalized[f] = output.records[n].original[f]
                         /\ output.records[n].normalized[f].form = "ruined"
                              => \/ output.records[n].original[f].form = "ruined"
                                 \/ \E s \in output.records[n].original[f].suffixes : s.place \in {"tail", "head"}
  BY DEF Quality!NormalizingOnlyRepairs
<1> DEFINE row == input[n]
           after == Quality!Normalize(row)
<1>1. /\ n \in DOMAIN input /\ input \in RecordFiles
      /\ output.records[n].original = row /\ output.records[n].normalized = after
      /\ output.records[n].before = Quality!Issues(row) /\ output.records[n].after = Quality!Issues(after)
  BY ResultIs
<1>2. \A f \in Quality!Fields : Quality!WellWritten(f, row[f])
  BY <1>1, RowsAreWritten
<1>3. \A f \in Quality!Fields : after[f] = Normalized(f, row[f])
  BY NormalizeIs
<1>4. \A i \in Errors(after) : i \notin Errors(row) => Quality!FallsShort(i.field, row[i.field])
  BY <1>2, NoNewErrors
<1> HIDE DEF row, after
<1>5. ASSUME NEW f \in Quality!Fields
      PROVE  /\ (\E i \in Quality!Issues(row) : i.field = f /\ i.severity = "error" /\ i.eligibility \in Quality!Blocking)
                  => after[f] = row[f]
             /\ after[f].form = "ruined"
                  => row[f].form = "ruined" \/ \E s \in row[f].suffixes : s.place \in {"tail", "head"}
  <2> DEFINE v == row[f]
             w == after[f]
  <2>0. w = Normalized(f, v) /\ Quality!WellWritten(f, v)
    BY <1>2, <1>3
  <2> HIDE DEF v, w
  <2>1. w = v \/ Moves(f, v, w)
    BY <2>0, NormalizedIs, RulesMove
  <2>2. ASSUME NEW i \in Quality!Issues(row), i.field = f, i.severity = "error", i.eligibility \in Quality!Blocking
        PROVE  w = v
    <3>1. ~ Quality!Eligible(f, Quality!Issues(row))
      BY <2>2 DEF Quality!Eligible
    <3>2. ~ Fit(f, v)
      BY <3>1, EligibleIsFit DEF v
    <3> QED  BY <2>0, <3>2, NormalizedIs
  <2>3. w.form = "ruined" => v.form = "ruined" \/ \E s \in v.suffixes : s.place \in {"tail", "head"}
    BY <2>1 DEF Moves
  <2> QED  BY <2>2, <2>3 DEF v, w
<1>6. ASSUME NEW i \in Quality!Issues(after) \ Quality!Issues(row), i.severity = "error"
      PROVE  Quality!FallsShort(i.field, row[i.field])
  BY <1>4, <1>6 DEF Errors
<1> QED
  BY <1>1, <1>5, <1>6

\* A normalized record has nothing more to normalize, but for the two kinds of text.
LEMMA TwiceIsOnce ==
  ASSUME QualityInv
  PROVE  Quality!NormalizingTwiceIsOnce
<1> SUFFICES ASSUME Quality!Ran, NEW n \in DOMAIN output.records, NEW f \in Quality!Fields
             PROVE  \/ Quality!Normalize(output.records[n].normalized)[f] = output.records[n].normalized[f]
                    \/ f = "company" /\ Quality!Cardinality(output.records[n].original[f].suffixes) > 1
                    \/ f = "email" /\ output.records[n].original[f].form = "shouted apart"
  BY DEF Quality!NormalizingTwiceIsOnce
<1> DEFINE row == input[n]
           after == Quality!Normalize(row)
<1>1. /\ n \in DOMAIN input /\ input \in RecordFiles
      /\ output.records[n].original = row /\ output.records[n].normalized = after
  BY ResultIs
<1>2. Quality!WellWritten(f, row[f])
  BY <1>1, RowsAreWritten
<1>3. after[f] = Normalized(f, row[f]) /\ Quality!Normalize(after)[f] = Normalized(f, after[f])
  BY NormalizeIs
<1> HIDE DEF row, after
<1>4. \/ f = "company" /\ Quality!Cardinality(row[f].suffixes) > 1
      \/ f = "email" /\ row[f].form = "shouted apart"
      \/ Normalized(f, after[f]) = after[f]
  BY <1>2, <1>3, ValuesSettle
<1> QED
  BY <1>1, <1>3, <1>4

\* A warning withholds no canonical form.
LEMMA WarningsAreHarmless ==
  ASSUME QualityInv
  PROVE  Quality!WarningsDoNotBlock
<1> SUFFICES ASSUME Quality!Ran, NEW n \in DOMAIN output.records, NEW f \in Quality!Fields,
                    \A i \in output.records[n].before :
                      i.field = f /\ i.severity = "error" => i.eligibility = "SAFE"
             PROVE  /\ output.records[n].normalized[f].outer = 0 /\ output.records[n].normalized[f].inner = 0
                    /\ output.records[n].normalized[f].apart = 0 \/ output.records[n].original[f].form = "shouted apart"
                    /\ f \in {"city", "district"} => output.records[n].normalized[f].form # "alias"
                    /\ f = "phone" => output.records[n].normalized[f].form # "local"
  BY DEF Quality!WarningsDoNotBlock
<1> DEFINE row == input[n]
           after == Quality!Normalize(row)
<1>1. /\ n \in DOMAIN input /\ input \in RecordFiles
      /\ output.records[n].original = row /\ output.records[n].normalized = after
      /\ output.records[n].before = Quality!Issues(row)
  BY ResultIs
<1>2. Quality!WellWritten(f, row[f])
  BY <1>1, RowsAreWritten
<1>3. after[f] = Normalized(f, row[f])
  BY NormalizeIs
<1>4. \A i \in Faults(f, row[f]) : i.eligibility = "SAFE"
  <2>1. ASSUME NEW i \in Faults(f, row[f]) PROVE i \in Errors(row) /\ i.field = f
    <3>1. Errors(row) = UNION {Faults(g, row[g]) : g \in Quality!Fields}
      BY ErrorsAreFaults DEF Errors
    <3>2. i.field = f
      BY DEF Faults, Quality!Issue
    <3> QED  BY <3>1, <3>2
  <2> QED  BY <1>1, <2>1 DEF Errors
<1> HIDE DEF row, after
<1>5. ~ Quality!Blank(row[f])
  <2> SUFFICES ASSUME Quality!Blank(row[f]) PROVE FALSE
    OBVIOUS
  <2> DEFINE i == Quality!Issue(f, row[f], "required.missing")
  <2>1. "required.missing" \in Quality!Rules /\ Quality!Severity("required.missing") = "error"
    BY DEF Quality!Rules, Quality!Severity
  <2>2. i \in Faults(f, row[f])
    BY <2>1, BreaksIs DEF Faults
  <2>3. i.eligibility = "NOT_APPLICABLE"
    BY DEF Quality!Issue, Quality!RuleEligibility
  <2> QED  BY <1>4, <2>2, <2>3
<1>6. Fit(f, row[f])
  <2>1. ASSUME NEW i \in Faults(f, row[f])
        PROVE  i.rule # "required.missing" /\ i.eligibility \notin Quality!Blocking
    <3>1. PICK r \in Quality!Rules : Quality!Breaks(f, row[f], r) /\ i = Quality!Issue(f, row[f], r)
      BY <2>1 DEF Faults
    <3>2. r # "required.missing"
      BY <1>5, <3>1, BreaksIs
    <3> QED  BY <1>4, <3>1, <3>2 DEF Quality!Issue, Quality!Blocking
  <2> QED  BY <2>1 DEF Fit
<1>7. row[f].form # "absent"
  BY <1>2, <1>5, WrittenIsValue
<1>8. Moves(f, row[f], after[f])
  BY <1>2, <1>3, <1>6, <1>7, NormalizedIs, RulesMove
<1> QED
  BY <1>1, <1>8 DEF Moves

\* A record is valid when it has no error.
LEMMA ErrorCounts ==
  ASSUME NEW record
  PROVE  /\ Quality!Count(Quality!Issues(record), "error") \in Nat
         /\ Quality!Count(Quality!Issues(record), "error") = 0 <=> Errors(record) = {}
<1>1. IsFiniteSet(Errors(record))
  <2>1. IsFiniteSet(Quality!Issues(record)) /\ Errors(record) \in SUBSET Quality!Issues(record)
    BY IssuesAreFinite DEF Errors
  <2> QED  BY <2>1, FS_Subset
<1>2. Quality!Count(Quality!Issues(record), "error") = Cardinality(Errors(record))
  BY QualityCounts DEF Quality!Count, Errors
<1> QED
  BY <1>1, <1>2, FS_CardinalityType, FS_EmptySet

\* A summary counts every row once.
LEMMA SummaryAddsUp ==
  ASSUME NEW N \in Nat, NEW row, NEW found, found = [n \in 1..N |-> Quality!Issues(row[n])]
  PROVE  /\ Quality!Summary(found).valid = Cardinality({n \in 1..N : Errors(row[n]) = {}})
         /\ Quality!Summary(found).valid \in Nat
         /\ Quality!Summary(found).valid + Quality!Summary(found).invalid = N
<1> DEFINE valid == {n \in DOMAIN found : Quality!Count(found[n], "error") = 0}
           invalid == {n \in DOMAIN found : Quality!Count(found[n], "error") > 0}
<1>1. Quality!Summary(found).valid = Cardinality(valid) /\ Quality!Summary(found).invalid = Cardinality(invalid)
  BY QualityCounts DEF Quality!Summary
<1>2. DOMAIN found = 1..N
  OBVIOUS
<1>3. \A n \in 1..N : Quality!Count(found[n], "error") \in Nat
                      /\ (Quality!Count(found[n], "error") = 0 <=> Errors(row[n]) = {})
  BY ErrorCounts
<1>10. \A n \in 1..N : found[n] = Quality!Issues(row[n])
  OBVIOUS
<1>11. ASSUME NEW n \in 1..N
       PROVE  /\ n \in valid <=> Errors(row[n]) = {}
              /\ n \in valid <=> n \notin invalid
  <2> DEFINE errors == Quality!Count(found[n], "error")
  <2>1. errors \in Nat /\ (errors = 0 <=> Errors(row[n]) = {})
    BY <1>3
  <2>2. errors > 0 <=> errors # 0
    BY <2>1
  <2>3. n \in valid <=> errors = 0
    BY <1>2
  <2>4. n \in invalid <=> errors > 0
    BY <1>2
  <2> HIDE DEF errors, valid, invalid
  <2> QED  BY <2>1, <2>2, <2>3, <2>4
<1>12. valid \subseteq 1..N /\ invalid \subseteq 1..N
  BY <1>2
<1>4. valid = {n \in 1..N : Errors(row[n]) = {}} /\ valid \cap invalid = {} /\ valid \cup invalid = 1..N
  <2> HIDE DEF valid, invalid
  <2>1. valid = {n \in 1..N : Errors(row[n]) = {}}
    BY <1>11, <1>12
  <2> QED  BY <1>11, <1>12, <2>1
<1>5. IsFiniteSet(1..N) /\ Cardinality(1..N) = N
  BY FS_Interval
<1> HIDE DEF valid, invalid
<1>6. valid \in SUBSET (1..N) /\ invalid \in SUBSET (1..N)
  BY <1>4
<1>7. IsFiniteSet(valid) /\ IsFiniteSet(invalid)
  BY <1>5, <1>6, FS_Subset
<1>8. Cardinality(valid) + Cardinality(invalid) - Cardinality(valid \cap invalid) = Cardinality(1..N)
  BY <1>4, <1>7, FS_Union
<1>9. Cardinality(valid) \in Nat /\ Cardinality(invalid) \in Nat /\ Cardinality(valid \cap invalid) = 0
  BY <1>4, <1>7, FS_CardinalityType, FS_EmptySet
<1> QED
  BY <1>1, <1>4, <1>5, <1>8, <1>9

\* Every row is accounted for, and a valid one stays valid unless a value falls short.
LEMMA RowsAddUp ==
  ASSUME QualityInv
  PROVE  Quality!RowsAreAccountedFor
<1> SUFFICES ASSUME Quality!Ran
             PROVE  /\ DOMAIN output.records = DOMAIN input
                    /\ \A n \in DOMAIN input : output.records[n].original = input[n]
                    /\ output.pre.valid + output.pre.invalid = Len(input)
                    /\ output.pre.valid <= output.post.valid
                         + Quality!Cardinality({n \in DOMAIN input : \E f \in Quality!Fields :
                                                  Quality!FallsShort(f, input[n][f])})
  BY DEF Quality!RowsAreAccountedFor
<1> DEFINE N == Len(input)
           after == [n \in 1..N |-> Quality!Normalize(input[n])]
           before == [n \in 1..N |-> Quality!Issues(input[n])]
           short == {n \in DOMAIN input : \E f \in Quality!Fields : Quality!FallsShort(f, input[n][f])}
           later == [n \in 1..N |-> Quality!Issues(after[n])]
<1>1. input \in Seq([Quality!Fields -> Quality!Values])
  BY ResultIs, PipelineAssumption DEF Quality!FilesAssumption
<1>2. N \in Nat /\ DOMAIN input = 1..N
  BY <1>1
<1>3. output.pre = Quality!Summary(before) /\ output.post = Quality!Summary(later)
  <2>1. before = [n \in DOMAIN input |-> Quality!Issues(input[n])]
    BY <1>2
  <2>2. later = [n \in DOMAIN input |-> Quality!Issues(Quality!Normalize(input[n]))]
    BY <1>2
  <2> QED  BY <2>1, <2>2, ResultIs
<1>4. \A n \in 1..N : n \in short \/ Errors(after[n]) \subseteq Errors(input[n])
  <2>1. ASSUME NEW n \in 1..N, NEW i \in Errors(after[n]), i \notin Errors(input[n])
        PROVE  n \in short
    <3>1. after[n] = Quality!Normalize(input[n]) /\ n \in DOMAIN input
      BY <1>2
    <3>2. \A f \in Quality!Fields : Quality!WellWritten(f, input[n][f])
      BY <3>1, ResultIs, RowsAreWritten
    <3> HIDE DEF after
    <3>3. i.field \in Quality!Fields /\ Quality!FallsShort(i.field, input[n][i.field])
      BY <2>1, <3>1, <3>2, NoNewErrors
    <3> QED  BY <3>1, <3>3
  <2> HIDE DEF after, short
  <2> QED  BY <2>1
<1>9. short \subseteq 1..N
  BY <1>2
<1> HIDE DEF N, after
<1>5. /\ Quality!Summary(before).valid = Cardinality({n \in 1..N : Errors(input[n]) = {}})
      /\ Quality!Summary(before).valid \in Nat
      /\ Quality!Summary(before).valid + Quality!Summary(before).invalid = N
  BY <1>2, SummaryAddsUp
<1>6. /\ Quality!Summary(later).valid = Cardinality({n \in 1..N : Errors(after[n]) = {}})
      /\ Quality!Summary(later).valid \in Nat
  BY <1>2, SummaryAddsUp
<1>7. Quality!Summary(before).valid <= Quality!Summary(later).valid + Quality!Cardinality(short)
  <2> DEFINE A == {n \in 1..N : Errors(input[n]) = {}}
             B == {n \in 1..N : Errors(after[n]) = {}}
  <2> HIDE DEF short
  <2>1. A \subseteq B \cup short /\ B \subseteq 1..N
    BY <1>4
  <2>2. IsFiniteSet(1..N)
    BY <1>2, FS_Interval
  <2> HIDE DEF A, B
  <2>3. IsFiniteSet(B) /\ IsFiniteSet(short)
    BY <1>9, <2>1, <2>2, FS_Subset
  <2>4. /\ IsFiniteSet(B \cup short)
        /\ Cardinality(B \cup short) = Cardinality(B) + Cardinality(short) - Cardinality(B \cap short)
    BY <2>3, FS_Union
  <2>5. Cardinality(A) <= Cardinality(B \cup short) /\ IsFiniteSet(A)
    BY <2>1, <2>4, FS_Subset
  <2>6. IsFiniteSet(B \cap short)
    <3>1. B \cap short \subseteq B
      OBVIOUS
    <3> QED  BY <2>3, <3>1, FS_Subset
  <2>7. /\ Cardinality(A) \in Nat /\ Cardinality(B) \in Nat /\ Cardinality(short) \in Nat
        /\ Cardinality(B \cap short) \in Nat
    BY <2>3, <2>5, <2>6, FS_CardinalityType
  <2>8. Cardinality(A) <= Cardinality(B) + Cardinality(short)
    <3>1. Cardinality(B \cup short) <= Cardinality(B) + Cardinality(short)
      BY <2>4, <2>7
    <3> QED  BY <2>4, <2>5, <2>7, <3>1
  <2> QED  BY <1>5, <1>6, <2>8, QualityCounts DEF A, B
<1> QED
  BY <1>3, <1>5, <1>7, ResultIs, Zenon DEF N, short

\* What the quality stage holds has its type.
LEMMA QualityIsTyped ==
  ASSUME QualityInv
  PROVE  Quality!TypeOK
<1>1. Quality!NotRun.outcome = "not run" /\ Quality!RunPipeline(input).outcome = "run"
  BY DEF Quality!NotRun, Quality!RunPipeline
<1>2. Quality!Ran => \A n \in DOMAIN output.records : output.records[n].changed \subseteq Quality!Fields
  BY ResultIs
<1> QED
  BY <1>1, <1>2 DEF Quality!TypeOK, QualityInv

-----------------------------------------------------------------------------
(* Survivorship: ranks *)

\* The instance counts as the review does.
LEMMA SurvivingCounts ==
  /\ \A S : Surviving!IsFiniteSet(S) <=> IsFiniteSet(S)
  /\ \A S : Surviving!Cardinality(S) = Cardinality(S)
<1>1. \A S : Surviving!IsFiniteSet(S) <=> IsFiniteSet(S)
  BY DEF Surviving!IsFiniteSet, IsFiniteSet
<1> QED
  BY <1>1 DEF Surviving!Cardinality, Cardinality

\* s and t rank in this order, or are one.
RankOf(k) == [1..k -> Int]

\* What smaller means for a rank of length k.
LEMMA SmallerIs ==
  ASSUME NEW k \in Nat, NEW s \in RankOf(k), NEW t
  PROVE  Surviving!Smaller(s, t) <=> \E i \in 1..k : s[i] < t[i] /\ \A j \in 1..(i - 1) : s[j] = t[j]
BY DEF Surviving!Smaller, RankOf

\* Of two ranks that differ one comes first.
LEMMA RanksAreTotal ==
  ASSUME NEW k \in Nat, NEW s \in RankOf(k), NEW t \in RankOf(k), s # t
  PROVE  Surviving!Smaller(s, t) \/ Surviving!Smaller(t, s)
<1> DEFINE G == {i \in Nat : \A j \in 1..i : j <= k => s[j] = t[j]}
<1>1. PICK i \in Nat : i \in G /\ i + 1 \notin G
  <2>1. ASSUME \A i \in Nat : i \in G => i + 1 \in G
        PROVE  FALSE
    <3>1. 0 \in G
      OBVIOUS
    <3>2. Nat \subseteq G
      <4> HIDE DEF G
      <4> QED  BY <2>1, <3>1, NatInduct
    <3>3. \A j \in 1..k : s[j] = t[j]
      BY <3>2
    <3>4. s = t
      BY <3>3 DEF RankOf
    <3> QED  BY <3>4
  <2> QED  BY <2>1
<1>2. i + 1 \in 1..k /\ s[i + 1] # t[i + 1]
  <2>1. PICK j \in 1..(i + 1) : j <= k /\ s[j] # t[j]
    BY <1>1
  <2>2. j = i + 1
    BY <1>1, <2>1
  <2> QED  BY <2>1, <2>2
<1>3. s[i + 1] \in Int /\ t[i + 1] \in Int
  BY <1>2 DEF RankOf
<1>4. \A j \in 1..((i + 1) - 1) : s[j] = t[j]
  BY <1>1, <1>2
<1>5. CASE s[i + 1] < t[i + 1]
  BY <1>2, <1>4, <1>5, SmallerIs
<1>6. CASE t[i + 1] < s[i + 1]
  BY <1>2, <1>4, <1>6, SmallerIs
<1> QED
  BY <1>2, <1>3, <1>5, <1>6

\* To come before is transitive.
LEMMA RanksAreOrdered ==
  ASSUME NEW k \in Nat, NEW s \in RankOf(k), NEW t \in RankOf(k), NEW u \in RankOf(k),
         Surviving!Smaller(s, t), Surviving!Smaller(t, u)
  PROVE  Surviving!Smaller(s, u)
<1>1. PICK i \in 1..k : s[i] < t[i] /\ \A j \in 1..(i - 1) : s[j] = t[j]
  BY SmallerIs
<1>2. PICK l \in 1..k : t[l] < u[l] /\ \A j \in 1..(l - 1) : t[j] = u[j]
  BY SmallerIs
<1>3. /\ s[i] \in Int /\ t[i] \in Int /\ u[i] \in Int
      /\ s[l] \in Int /\ t[l] \in Int /\ u[l] \in Int
  BY DEF RankOf
<1>4. CASE i <= l
  <2>1. s[i] < u[i]
    BY <1>1, <1>2, <1>3, <1>4
  <2>2. \A j \in 1..(i - 1) : s[j] = u[j]
    BY <1>1, <1>2, <1>4
  <2> QED  BY <2>1, <2>2, SmallerIs
<1>5. CASE l < i
  <2>1. s[l] < u[l]
    BY <1>1, <1>2, <1>3, <1>5
  <2>2. \A j \in 1..(l - 1) : s[j] = u[j]
    BY <1>1, <1>2, <1>5
  <2> QED  BY <2>1, <2>2, SmallerIs
<1> QED
  BY <1>4, <1>5

\* m comes before all others of S.
Leads(R, S, m) == m \in S /\ \A n \in S \ {m} : Surviving!Smaller(R[m], R[n])

\* Of finitely many that rank differently one comes first.
LEMMA OneLeads ==
  ASSUME NEW S, IsFiniteSet(S), S # {}, NEW k \in Nat, NEW R \in [S -> RankOf(k)],
         \A m, n \in S : m # n => R[m] # R[n]
  PROVE  \E m : Leads(R, S, m)
<1> DEFINE G == {s \in SUBSET S : s = {} \/ \E m : Leads(R, s, m)}
<1>1. {} \in G
  OBVIOUS
<1>2. ASSUME NEW s \in SUBSET S, s # {}
      PROVE  \E x \in s : s \ {x} \in G => s \in G
  <2>1. PICK x \in s : TRUE
    BY <1>2
  <2>2. ASSUME s \ {x} \in G
        PROVE  s \in G
    <3>1. CASE s \ {x} = {}
      <4>1. Leads(R, s, x)
        BY <2>1, <3>1 DEF Leads
      <4> QED  BY <4>1
    <3>2. CASE s \ {x} # {}
      <4>1. PICK m : Leads(R, s \ {x}, m)
        BY <2>2, <3>2
      <4>2. m \in s /\ m # x /\ R[m] \in RankOf(k) /\ R[x] \in RankOf(k) /\ R[m] # R[x]
        BY <2>1, <4>1 DEF Leads
      <4>3. CASE Surviving!Smaller(R[m], R[x])
        <5>1. Leads(R, s, m)
          BY <4>1, <4>2, <4>3 DEF Leads
        <5> QED  BY <5>1
      <4>4. CASE Surviving!Smaller(R[x], R[m])
        <5>1. ASSUME NEW n \in s \ {x}
              PROVE  Surviving!Smaller(R[x], R[n])
          <6>1. n = m \/ Surviving!Smaller(R[m], R[n])
            BY <4>1 DEF Leads
          <6>2. R[n] \in RankOf(k)
            OBVIOUS
          <6> QED  BY <4>2, <4>4, <6>1, <6>2, RanksAreOrdered
        <5>2. Leads(R, s, x)
          BY <2>1, <5>1 DEF Leads
        <5> QED  BY <5>2
      <4> QED  BY <4>2, <4>3, <4>4, RanksAreTotal
    <3> QED  BY <3>1, <3>2
  <2> QED  BY <2>1, <2>2
<1>3. SUBSET S \subseteq G
  <2> HIDE DEF G
  <2> QED  BY <1>1, <1>2, SubsetInduction
<1> QED
  BY <1>3

\* What is found to be wrong with a field is finite.
LEMMA FoundAreFinite ==
  ASSUME NEW record
  PROVE  IsFiniteSet(Surviving!Issues(record))
<1> DEFINE P == Quality!Fields \X Quality!Rules
           g == [p \in P |-> Surviving!Issue(p[1], record[p[1]], p[2])]
           m == Surviving!Issue("district", record["district"], "cross_field.city_district")
           S == Surviving!Issues(record) \ {m}
<1>1. IsFiniteSet(P)
  BY FieldsAndRulesAreFinite, FS_Product
<1>2. Surviving!Fields = Quality!Fields /\ Surviving!Rules = Quality!Rules
  BY DEF Surviving!Fields, Quality!Fields, Surviving!Rules, Quality!Rules
<1>3. ASSUME NEW i \in S
      PROVE  \E p \in P : i = g[p]
  <2>1. PICK f \in Quality!Fields, r \in Quality!Rules : i = Surviving!Issue(f, record[f], r)
    BY <1>2 DEF Surviving!Issues
  <2>2. <<f, r>> \in P /\ g[<<f, r>>] = Surviving!Issue(f, record[f], r)
    OBVIOUS
  <2> HIDE DEF g, P
  <2> QED  BY <2>1, <2>2
<1> HIDE DEF g, P, S, m
<1>4. IsFiniteSet(S)
  BY <1>1, <1>3, ImageIsFinite
<1>5. IsFiniteSet(S \cup {m})
  BY <1>4, FS_AddElement
<1>6. Surviving!Issues(record) \subseteq S \cup {m}
  BY DEF S
<1> QED
  BY <1>5, <1>6, FS_Subset

\* What the marks of a text cost adds up to a number.
LEMMA PenaltyIsNatural ==
  ASSUME NEW f, NEW v, IsFiniteSet(v.marks)
  PROVE  Surviving!StructuralPenalty(f, v) \in Nat
<1> DEFINE S == v.marks
           Body(h) == [s \in SUBSET S |->
                         IF s = {} THEN 0
                         ELSE Surviving!Penalty(f, CHOOSE x \in s : TRUE) + h[s \ {CHOOSE x \in s : TRUE}]]
           sum == CHOOSE h : h = Body(h)
           ch == [s \in SUBSET S |-> CHOOSE x \in s : TRUE]
           F == [x \in S \X Nat |-> Surviving!Penalty(f, x[1]) + x[2]]
<1>1. Surviving!StructuralPenalty(f, v) = sum[S]
  BY DEF Surviving!StructuralPenalty, Surviving!MapThenSumSet, Surviving!MapThenFoldSet
<1>2. \A x : Surviving!Penalty(f, x) \in Nat
  BY DEF Surviving!Penalty
<1>3. Picks(ch, S)
  BY DEF Picks
<1>4. F \in [S \X Nat -> Nat]
  <2>1. ASSUME NEW x \in S \X Nat
        PROVE  Surviving!Penalty(f, x[1]) + x[2] \in Nat
    <3>1. x[2] \in Nat /\ Surviving!Penalty(f, x[1]) \in Nat
      BY <1>2
    <3> QED  BY <3>1
  <2> QED  BY <2>1
<1>5. PICK h \in [SUBSET S -> Nat] : Folding(h, S, ch, 0, F)
  <2> HIDE DEF F, ch, S
  <2> QED  BY <1>3, <1>4, FoldExists DEF S
<1>6. h = Body(h)
  <2>1. ASSUME NEW s \in SUBSET S, s # {}
        PROVE  F[<<ch[s], h[s \ {ch[s]}]>>] = Surviving!Penalty(f, CHOOSE x \in s : TRUE) + h[s \ {CHOOSE x \in s : TRUE}]
    <3>1. ch[s] = (CHOOSE x \in s : TRUE) /\ ch[s] \in S
      BY <2>1
    <3>2. h[s \ {ch[s]}] \in Nat
      OBVIOUS
    <3> HIDE DEF ch
    <3> QED  BY <3>1, <3>2
  <2>2. \A s \in SUBSET S : h[s] = IF s = {} THEN 0 ELSE F[<<ch[s], h[s \ {ch[s]}]>>]
    <3> HIDE DEF F, ch
    <3> QED  BY <1>5 DEF Folding
  <2>3. h = [s \in SUBSET S |-> h[s]]
    BY <1>5
  <2>4. \A s \in SUBSET S : h[s] = IF s = {} THEN 0 ELSE Surviving!Penalty(f, CHOOSE x \in s : TRUE) + h[s \ {CHOOSE x \in s : TRUE}]
    <3> HIDE DEF F, ch
    <3> QED  BY <2>1, <2>2
  <2> QED  BY <2>3, <2>4
<1>7. sum = Body(sum)
  <2> HIDE DEF Body
  <2> QED  BY <1>6
<1>8. sum[S] \in Nat
  <2> DEFINE G == {s \in SUBSET S : sum[s] \in Nat}
  <2>1. \A s \in SUBSET S : sum[s] = Body(sum)[s]
    <3> HIDE DEF Body, sum
    <3> QED  BY <1>7
  <2>5. Body(sum)[{}] = 0
    OBVIOUS
  <2>6. sum[{}] = 0
    <3> HIDE DEF Body, sum
    <3> QED  BY <2>1, <2>5
  <2> HIDE DEF sum
  <2>2. {} \in G
    BY <2>6
  <2>3. ASSUME NEW s \in SUBSET S, s # {}
        PROVE  \E x \in s : s \ {x} \in G => s \in G
    <3> DEFINE x == CHOOSE x \in s : TRUE
    <3>1. x \in s
      BY <2>3
    <3>2. sum[s] = Surviving!Penalty(f, x) + sum[s \ {x}]
      BY <2>1, <2>3
    <3>3. Surviving!Penalty(f, x) \in Nat
      BY <1>2
    <3> HIDE DEF x
    <3>4. s \ {x} \in G => s \in G
      BY <3>2, <3>3
    <3> QED  BY <3>1, <3>4
  <2>4. SUBSET S \subseteq G
    <3>1. IsFiniteSet(S)
      OBVIOUS
    <3> HIDE DEF G, S
    <3> QED  BY <2>2, <2>3, <3>1, SubsetInduction
  <2> QED  BY <2>4
<1> QED
  BY <1>1, <1>8

\* The worst of some ranks is one of 0 to 3.
LEMMA WorstIsNatural ==
  ASSUME NEW record, NEW f
  PROVE  Surviving!WorstEligibility(Surviving!IssuesOf(record, f)) \in Nat
<1> DEFINE S == {0} \cup {Surviving!EligibilityRank[i.eligibility] : i \in Surviving!IssuesOf(record, f)}
<1>1. \A i \in Surviving!IssuesOf(record, f) : i.eligibility \in {"SAFE", "NOT_APPLICABLE", "AMBIGUOUS", "UNSUPPORTED"}
  <2>1. \A g, v, r : Surviving!Issue(g, v, r).eligibility
                      = IF r = "phone.tr_e164" THEN Surviving!PhoneEligibility(v.form) ELSE Surviving!RuleEligibility(r)
    BY DEF Surviving!Issue
  <2>2. \A form : Surviving!PhoneEligibility(form) \in {"SAFE", "NOT_APPLICABLE", "AMBIGUOUS", "UNSUPPORTED"}
    BY DEF Surviving!PhoneEligibility
  <2>3. \A r : Surviving!RuleEligibility(r) \in {"SAFE", "NOT_APPLICABLE", "AMBIGUOUS", "UNSUPPORTED"}
    BY DEF Surviving!RuleEligibility
  <2>4. ASSUME NEW i \in Surviving!IssuesOf(record, f)
        PROVE  \E g, v, r : i = Surviving!Issue(g, v, r)
    BY DEF Surviving!IssuesOf, Surviving!Issues
  <2> QED  BY <2>1, <2>2, <2>3, <2>4
<1>2. S \subseteq 0..3
  BY <1>1 DEF Surviving!EligibilityRank
<1>3. 0 \in S
  OBVIOUS
<1> HIDE DEF S
<1>4. \E x \in S : \A y \in S : x >= y
  <2>1. CASE 3 \in S
    BY <1>2, <2>1
  <2>2. CASE 3 \notin S /\ 2 \in S
    BY <1>2, <2>2
  <2>3. CASE 3 \notin S /\ 2 \notin S /\ 1 \in S
    BY <1>2, <2>3
  <2>4. CASE 3 \notin S /\ 2 \notin S /\ 1 \notin S
    BY <1>2, <1>3, <2>4
  <2> QED  BY <2>1, <2>2, <2>3, <2>4
<1>5. Surviving!Max(S) \in S
  BY <1>4 DEF Surviving!Max
<1>6. \A x \in S : x \in Nat
  BY <1>2
<1>7. Surviving!Max(S) \in Nat
  BY <1>5, <1>6
<1> QED
  BY <1>7 DEF S, Surviving!WorstEligibility

\* Nine integers are a rank.
LEMMA NineAreARank ==
  ASSUME NEW a \in Int, NEW b \in Int, NEW c \in Int, NEW d \in Int, NEW e \in Int,
         NEW f \in Int, NEW g \in Int, NEW h \in Int, NEW i \in Int
  PROVE  /\ <<a, b, c, d, e, f, g, h, i>> \in RankOf(9)
         /\ <<a, b, c, d, e, f, g, h, i>>[1] = a
         /\ <<a, b, c, d, e, f, g, h, i>>[9] = i
BY DEF RankOf

\* Three integers are a rank.
LEMMA ThreeAreARank ==
  ASSUME NEW a \in Int, NEW b \in Int, NEW c \in Int
  PROVE  <<a, b, c>> \in RankOf(3) /\ <<a, b, c>>[3] = c
BY DEF RankOf

\* The priority of a source is a number.
LEMMA PriorityIsNatural ==
  ASSUME NEW source
  PROVE  Surviving!Priority(source) \in Int
BY DEF Surviving!Priority

\* A count of issues is a number.
LEMMA CountIsNatural ==
  ASSUME NEW m, NEW f, NEW severity
  PROVE  Surviving!Count(Surviving!IssuesOf(m, f), severity) \in Nat
<1> DEFINE S == {i \in Surviving!IssuesOf(m, f) : i.severity = severity}
<1>1. IsFiniteSet(Surviving!Issues(m.values))
  BY FoundAreFinite
<1>2. S \subseteq Surviving!Issues(m.values)
  BY DEF Surviving!IssuesOf
<1>3. Surviving!Count(Surviving!IssuesOf(m, f), severity) = Cardinality(S)
  BY SurvivingCounts DEF Surviving!Count
<1> HIDE DEF S
<1> QED
  BY <1>1, <1>2, <1>3, FS_Subset, FS_CardinalityType

\* The bonus of a value is a number.
LEMMA BonusIsInteger ==
  ASSUME NEW f, NEW v, NEW issues
  PROVE  Surviving!IdentityBonus(f, v, issues) \in Int
<1> DEFINE earn(rule, n) == IF \A i \in issues : i.rule # rule THEN n ELSE 0
<1>1. /\ earn("email.syntax", 80) \in Int /\ earn("location.city_known", 40) \in Int
      /\ earn("location.district_known", 30) \in Int /\ earn("cross_field.city_district", 20) \in Int
      /\ earn("company.min_length", 20) \in Int /\ earn("address.min_length", 15) \in Int
      /\ (IF v.form = "e164" THEN 100 ELSE IF \A i \in issues : i.rule # "phone.tr_e164" THEN 40
           ELSE IF \A i \in issues : i.rule # "phone.format" THEN 20 ELSE 0) \in Int
  OBVIOUS
<1> DEFINE phone == IF v.form = "e164" THEN 100 ELSE IF \A i \in issues : i.rule # "phone.tr_e164" THEN 40
                     ELSE IF \A i \in issues : i.rule # "phone.format" THEN 20 ELSE 0
<1>2. Surviving!IdentityBonus(f, v, issues)
        = CASE f = "phone" -> phone
            [] f = "email" -> earn("email.syntax", 80)
            [] f = "city" -> earn("location.city_known", 40)
            [] f = "district" -> earn("location.district_known", 30) + earn("cross_field.city_district", 20)
            [] f = "company" -> earn("company.min_length", 20)
            [] f = "address" -> earn("address.min_length", 15)
            [] OTHER -> 0
  BY DEF Surviving!IdentityBonus
<1>3. earn("location.district_known", 30) + earn("cross_field.city_district", 20) \in Int /\ phone \in Int
  BY <1>1
<1> HIDE DEF earn, phone
<1> QED
  BY <1>1, <1>2, <1>3

\* The diversity of a value is a number.
LEMMA DiversityIsInteger ==
  ASSUME NEW ms, IsFiniteSet(ms), NEW f, NEW v
  PROVE  Surviving!Diversity(ms, f, v) \in Int
<1> DEFINE A == {n \in ms : Surviving!Folded(f, n.values[f]) = Surviving!Folded(f, v)}
           S == {m.source : m \in A}
           g == [m \in A |-> m.source]
<1>1. IsFiniteSet(A)
  BY FS_Subset
<1>2. \A x \in S : \E a \in A : x = g[a]
  OBVIOUS
<1>3. Surviving!Diversity(ms, f, v) = IF f \in {"email", "phone"} THEN 0 ELSE Cardinality(S)
  BY SurvivingCounts DEF Surviving!Diversity
<1> HIDE DEF A, S, g
<1>4. Cardinality(S) \in Nat
  BY <1>1, <1>2, ImageIsFinite
<1> QED
  BY <1>3, <1>4

\* Every member has a rank, that starts with its errors and ends with its id.
LEMMA RankIsRank ==
  ASSUME NEW ms, IsFiniteSet(ms), NEW m, IsMember(m), NEW f \in Surviving!Fields
  PROVE  /\ Surviving!Rank(ms, m, f) \in RankOf(9)
         /\ Surviving!Rank(ms, m, f)[1] = Surviving!Count(Surviving!IssuesOf(m, f), "error")
         /\ Surviving!Rank(ms, m, f)[9] = m.id
<1> DEFINE v == m.values[f]
           issues == Surviving!IssuesOf(m, f)
           c1 == Surviving!Count(issues, "error")
           c2 == Surviving!Count(issues, "warning")
           c3 == Surviving!StructuralPenalty(f, v)
           c4 == Surviving!WorstEligibility(issues)
           c5 == 1000 - Surviving!IdentityBonus(f, v, issues)
           c6 == 100 - Surviving!Diversity(ms, f, v)
           c7 == 1000 - v.length
           c8 == Surviving!Priority(m.source)
           c9 == m.id
<1>1. c1 \in Int /\ c2 \in Int
  BY CountIsNatural
<1>2. c3 \in Int /\ c7 \in Int /\ c9 \in Int
  <2>1. v.length \in Nat /\ IsFiniteSet(v.marks) /\ m.id \in Nat
    BY DEF IsMember
  <2>2. c3 \in Nat
    BY <2>1, PenaltyIsNatural
  <2> QED  BY <2>1, <2>2
<1>3. c4 \in Int /\ c8 \in Int
  BY WorstIsNatural, PriorityIsNatural
<1>4. c5 \in Int /\ c6 \in Int
  <2>1. Surviving!IdentityBonus(f, v, issues) \in Int /\ Surviving!Diversity(ms, f, v) \in Int
    BY BonusIsInteger, DiversityIsInteger
  <2> QED  BY <2>1
<1>5. Surviving!Rank(ms, m, f) = <<c1, c2, c3, c4, c5, c6, c7, c8, c9>>
  BY DEF Surviving!Rank
<1> HIDE DEF c1, c2, c3, c4, c5, c6, c7, c8, c9
<1>6. /\ <<c1, c2, c3, c4, c5, c6, c7, c8, c9>> \in RankOf(9)
      /\ <<c1, c2, c3, c4, c5, c6, c7, c8, c9>>[1] = c1
      /\ <<c1, c2, c3, c4, c5, c6, c7, c8, c9>>[9] = c9
  BY <1>1, <1>2, <1>3, <1>4, NineAreARank
<1> QED
  BY <1>5, <1>6 DEF c1, c9

\* The legacy rank is a rank that ends with the record.
LEMMA LongestIsRank ==
  ASSUME NEW m, IsMember(m), NEW f \in Surviving!Fields
  PROVE  Surviving!LongestRank(m, f) \in RankOf(3) /\ Surviving!LongestRank(m, f)[3] = m.id
<1> DEFINE c1 == 1000 - m.values[f].length
           c2 == Surviving!Priority(m.source)
           c3 == m.id
<1>1. c1 \in Int /\ c3 \in Int
  BY DEF IsMember
<1>2. c2 \in Int
  BY PriorityIsNatural
<1>3. Surviving!LongestRank(m, f) = <<c1, c2, c3>>
  BY DEF Surviving!LongestRank
<1> HIDE DEF c1, c2, c3
<1>4. <<c1, c2, c3>> \in RankOf(3) /\ <<c1, c2, c3>>[3] = c3
  BY <1>1, <1>2, ThreeAreARank
<1> QED
  BY <1>3, <1>4 DEF c3

\* The value of a field is that of a present member, by default of the one that leads.
LEMMA ChoiceIs ==
  ASSUME NEW ms, AreMembers(ms), ms # {}, NEW f \in Surviving!Fields
  PROVE  /\ Surviving!Present(ms, f) = {} =>
              /\ Surviving!Choice(ms, f).value = Surviving!Absent
              /\ \E m \in ms : Surviving!Choice(ms, f).from = m.id
         /\ Surviving!Present(ms, f) # {} =>
              \E m \in Surviving!Present(ms, f) :
                /\ Surviving!Choice(ms, f).value = m.values[f] /\ Surviving!Choice(ms, f).from = m.id
                /\ f \notin LongestFields =>
                     \A n \in Surviving!Present(ms, f) \ {m} :
                       Surviving!Smaller(Surviving!Rank(ms, m, f), Surviving!Rank(ms, n, f))
<1> DEFINE p == Surviving!Present(ms, f)
           longest == CHOOSE m \in p : \A n \in p \ {m} :
                        Surviving!Smaller(Surviving!LongestRank(m, f), Surviving!LongestRank(n, f))
           ranked == CHOOSE m \in p : \A n \in p \ {m} :
                        Surviving!Smaller(Surviving!Rank(ms, m, f), Surviving!Rank(ms, n, f))
           best == IF f \in LongestFields THEN longest ELSE ranked
<1>1. p \subseteq ms /\ IsFiniteSet(p) /\ IsFiniteSet(ms) /\ \A m \in p : IsMember(m)
  <2>1. p \subseteq ms
    BY DEF Surviving!Present
  <2> HIDE DEF p
  <2> QED  BY <2>1, FS_Subset DEF AreMembers
<1>2. \A m, n \in p : m # n => m.id # n.id
  <2> HIDE DEF p
  <2> QED  BY <1>1 DEF AreMembers
<1>3. Surviving!Choice(ms, f) = IF p = {} THEN [value |-> Surviving!Absent, from |-> Surviving!Min({m.id : m \in ms})]
                                ELSE [value |-> best.values[f], from |-> best.id]
  BY DEF Surviving!Choice, Surviving!First
<1>4. ASSUME p # {}
      PROVE  longest \in p
  <2> DEFINE R == [m \in p |-> Surviving!LongestRank(m, f)]
  <2> HIDE DEF p
  <2>1. \A m \in p : Surviving!LongestRank(m, f) \in RankOf(3) /\ Surviving!LongestRank(m, f)[3] = m.id
    BY <1>1, LongestIsRank
  <2>2. R \in [p -> RankOf(3)] /\ \A m, n \in p : m # n => R[m] # R[n]
    BY <1>2, <2>1
  <2>3. \A m \in p : R[m] = Surviving!LongestRank(m, f)
    OBVIOUS
  <2> HIDE DEF R
  <2>4. \E m : Leads(R, p, m)
    BY <1>1, <1>4, <2>2, OneLeads
  <2>5. \E m \in p : \A n \in p \ {m} :
          Surviving!Smaller(Surviving!LongestRank(m, f), Surviving!LongestRank(n, f))
    BY <2>3, <2>4 DEF Leads
  <2> QED  BY <2>5
<1>5. ASSUME p # {}
      PROVE  /\ ranked \in p
             /\ \A n \in p \ {ranked} :
                  Surviving!Smaller(Surviving!Rank(ms, ranked, f), Surviving!Rank(ms, n, f))
  <2> DEFINE R == [m \in p |-> Surviving!Rank(ms, m, f)]
  <2> HIDE DEF p
  <2>1. \A m \in p : Surviving!Rank(ms, m, f) \in RankOf(9) /\ Surviving!Rank(ms, m, f)[9] = m.id
    BY <1>1, RankIsRank
  <2>2. R \in [p -> RankOf(9)] /\ \A m, n \in p : m # n => R[m] # R[n]
    BY <1>2, <2>1
  <2>3. \A m \in p : R[m] = Surviving!Rank(ms, m, f)
    OBVIOUS
  <2> HIDE DEF R
  <2>4. \E m : Leads(R, p, m)
    BY <1>1, <1>5, <2>2, OneLeads
  <2>5. \E m \in p : \A n \in p \ {m} :
          Surviving!Smaller(Surviving!Rank(ms, m, f), Surviving!Rank(ms, n, f))
    BY <2>3, <2>4 DEF Leads
  <2> QED  BY <2>5
<1>6. ASSUME p = {}
      PROVE  /\ Surviving!Choice(ms, f).value = Surviving!Absent
             /\ \E m \in ms : Surviving!Choice(ms, f).from = m.id
  <2> DEFINE ids == {m.id : m \in ms}
  <2>1. ids \in SUBSET Nat /\ ids # {}
    BY DEF AreMembers, IsMember
  <2> HIDE DEF ids
  <2>2. Surviving!Min(ids) \in ids
    BY <2>1, LeastIsThere
  <2>3. Surviving!Choice(ms, f) = [value |-> Surviving!Absent, from |-> Surviving!Min(ids)]
    BY <1>3, <1>6 DEF ids
  <2>4. \E m \in ms : Surviving!Min(ids) = m.id
    BY <2>2 DEF ids
  <2> QED  BY <2>3, <2>4
<1> HIDE DEF longest, ranked
<1>7. ASSUME p # {}
      PROVE  \E m \in p :
                /\ Surviving!Choice(ms, f).value = m.values[f] /\ Surviving!Choice(ms, f).from = m.id
                /\ f \notin LongestFields =>
                     \A n \in p \ {m} : Surviving!Smaller(Surviving!Rank(ms, m, f), Surviving!Rank(ms, n, f))
  <2> HIDE DEF p
  <2>1. best \in p
    BY <1>4, <1>5, <1>7
  <2>2. Surviving!Choice(ms, f) = [value |-> best.values[f], from |-> best.id]
    BY <1>3, <1>7
  <2>3. f \notin LongestFields =>
          \A n \in p \ {best} : Surviving!Smaller(Surviving!Rank(ms, best, f), Surviving!Rank(ms, n, f))
    BY <1>5, <1>7
  <2> HIDE DEF best
  <2> QED  BY <2>1, <2>2, <2>3
<1> QED
  BY <1>6, <1>7

-----------------------------------------------------------------------------
(* Survivorship: entities *)

\* What the survivorship stage holds: a resolution, and its entities once they are built.
SurvivingInv == input \in Resolutions /\ (output = Surviving!NotBuilt \/ output = Surviving!Build(input))

\* The entity of a cluster and of a record that stands alone.
OfCluster(in, c) == Surviving!Entity(in, c.id, c.members, c.conflict)
OfRecord(in, r) == Surviving!Entity(in, <<"S", r>>, {r}, FALSE)

\* The input of the stage, as the assumption has it.
Sound(in) ==
  /\ IsFiniteSet(DOMAIN in.records) /\ DOMAIN in.records \subseteq Nat
  /\ \A r \in DOMAIN in.records, f \in Surviving!Fields :
       in.records[r].values[f].length \in Nat /\ IsFiniteSet(in.records[r].values[f].marks)
  /\ IsFiniteSet(in.clusters)
  /\ \A c \in in.clusters : c.members \subseteq DOMAIN in.records /\ c.id[1] # "S"
  /\ \A c, d \in in.clusters : c # d => c.id # d.id /\ c.members \cap d.members = {}
  /\ \A c \in in.cases : c.pair[1] # c.pair[2]
  /\ \A c, d \in in.cases : c # d => c.id # d.id

\* A resolution is what the assumption says.
LEMMA InputIsSound ==
  ASSUME NEW in \in Resolutions
  PROVE  Sound(in)
<1>1. Surviving!WellFormed(in)
  BY PipelineAssumption DEF Surviving!ResolutionAssumption
<1> QED
  BY <1>1, SurvivingCounts DEF Surviving!WellFormed, Sound

\* The records of an entity are members that can be told apart.
LEMMA MembersAre ==
  ASSUME NEW in, Sound(in), NEW ids \in SUBSET DOMAIN in.records
  PROVE  /\ AreMembers(Surviving!MembersOf(in, ids))
         /\ \A r \in ids : \E m \in Surviving!MembersOf(in, ids) : m.id = r
         /\ \A m \in Surviving!MembersOf(in, ids) : m.id \in ids /\ m.values = in.records[m.id].values
         /\ Cardinality(Surviving!MembersOf(in, ids)) <= Cardinality(ids)
<1> DEFINE ms == Surviving!MembersOf(in, ids)
           g == [r \in ids |-> [id |-> r, source |-> in.records[r].source, values |-> in.records[r].values]]
<1>1. ms = {[id |-> r, source |-> in.records[r].source, values |-> in.records[r].values] : r \in ids}
  <2>1. ids \cap DOMAIN in.records = ids
    OBVIOUS
  <2> QED  BY <2>1 DEF Surviving!MembersOf
<1>2. ASSUME NEW m \in ms
      PROVE  /\ m.id \in ids /\ m.source = in.records[m.id].source /\ m.values = in.records[m.id].values
             /\ m = g[m.id]
  BY <1>1
<1>3. ASSUME NEW r \in ids
      PROVE  \E m \in ms : m.id = r
  <2> DEFINE m == [id |-> r, source |-> in.records[r].source, values |-> in.records[r].values]
  <2>1. m \in ms /\ m.id = r
    BY <1>1
  <2> QED  BY <2>1
<1>4. IsFiniteSet(ids)
  BY FS_Subset DEF Sound
<1> HIDE DEF ms, g
<1>5. IsFiniteSet(ms) /\ Cardinality(ms) <= Cardinality(ids)
  <2>1. \A x \in ms : \E a \in ids : x = g[a]
    BY <1>2
  <2> QED  BY <1>4, <2>1, ImageIsFinite
<1>6. \A m \in ms : IsMember(m)
  <2> TAKE m \in ms
  <2>1. m.id \in DOMAIN in.records /\ m.values = in.records[m.id].values
    BY <1>2
  <2> QED  BY <2>1 DEF IsMember, Sound
<1>7. \A m, n \in ms : m.id = n.id => m = n
  BY <1>2
<1>8. AreMembers(ms)
  BY <1>5, <1>6, <1>7 DEF AreMembers
<1> QED
  BY <1>2, <1>3, <1>5, <1>8 DEF ms

\* What is built.
LEMMA BuiltIs ==
  ASSUME SurvivingInv, Surviving!Built
  PROVE  /\ Sound(input)
         /\ output.entities = {OfCluster(input, c) : c \in Surviving!MergedClusters(input)}
                              \cup {OfRecord(input, r) : r \in Surviving!Alone(input)}
         /\ output.summary.entities = Cardinality(output.entities)
         /\ output.summary.alone = Cardinality(Surviving!Alone(input))
         /\ output.summary.merged = Cardinality({e \in output.entities : Cardinality(e.members) > 1})
<1>0. Surviving!NotBuilt.outcome = "not built" /\ Surviving!Refused.outcome = "forbidden field"
  BY DEF Surviving!NotBuilt, Surviving!Refused
<1>1. input \in Resolutions /\ output = Surviving!Build(input) /\ output.outcome = "built"
  BY <1>0 DEF SurvivingInv, Surviving!Built
<1> DEFINE entities == {OfCluster(input, c) : c \in Surviving!MergedClusters(input)}
                       \cup {OfRecord(input, r) : r \in Surviving!Alone(input)}
           made == [outcome  |-> "built",
                    entities |-> entities,
                    summary  |-> [records   |-> Surviving!Cardinality(DOMAIN input.records),
                                  entities  |-> Surviving!Cardinality(entities),
                                  alone     |-> Surviving!Cardinality(Surviving!Alone(input)),
                                  clusters  |-> Surviving!Cardinality(input.clusters),
                                  merged    |-> Surviving!Cardinality({e \in entities : Surviving!Cardinality(e.members) > 1}),
                                  conflicts |-> Surviving!MapThenSumSet(LAMBDA e : Surviving!Cardinality(e.conflicts), entities),
                                  excluded  |-> Surviving!Cardinality(input.excluded)]]
<1>2. Surviving!Build(input) = Surviving!Refused \/ Surviving!Build(input) = made
  BY DEF Surviving!Build, OfCluster, OfRecord
<1>3. output = made
  BY <1>0, <1>1, <1>2
<1>4. made.entities = entities
  OBVIOUS
<1>5. /\ made.summary.entities = Surviving!Cardinality(entities)
      /\ made.summary.alone = Surviving!Cardinality(Surviving!Alone(input))
      /\ made.summary.merged = Surviving!Cardinality({e \in entities : Surviving!Cardinality(e.members) > 1})
  OBVIOUS
<1> HIDE DEF made, entities
<1>6. {e \in entities : Surviving!Cardinality(e.members) > 1} = {e \in entities : Cardinality(e.members) > 1}
  BY SurvivingCounts
<1>7. Sound(input)
  BY <1>1, InputIsSound
<1> QED
  BY <1>3, <1>4, <1>5, <1>6, <1>7, SurvivingCounts DEF entities

\* What an entity says.
LEMMA EntityIs ==
  ASSUME NEW in, NEW id, NEW members, NEW conflict
  PROVE  LET e == Surviving!Entity(in, id, members, conflict)
             ms == Surviving!MembersOf(in, members) IN
         /\ e.id = id /\ e.members = members
         /\ \A f \in Surviving!Fields : e.chosen[f] = Surviving!Choice(ms, f)
         /\ e.conflicts = {f \in Surviving!Fields :
                             PreserveConflicts /\ Surviving!Cardinality(Surviving!DistinctValues(ms, f)) > 1}
         /\ e.unresolved = (e.conflicts # {} \/ conflict)
         /\ e.reviewed = IF id[1] = "S" THEN {} ELSE Surviving!ReviewedBy(in, members)
BY DEF Surviving!Entity, Surviving!Merged

\* An entity has records of its own, and is that of a cluster or of a record alone.
LEMMA EntitiesAre ==
  ASSUME SurvivingInv, Surviving!Built, NEW e \in output.entities
  PROVE  /\ e.members \subseteq DOMAIN input.records /\ e.members # {}
         /\ \E id, conflict : e = Surviving!Entity(input, id, e.members, conflict)
         /\ \/ \E c \in Surviving!MergedClusters(input) :
                 e = OfCluster(input, c) /\ e.id = c.id /\ e.members = c.members /\ Cardinality(c.members) > 1
                 /\ c.id[1] # "S"
            \/ \E r \in Surviving!Alone(input) : e = OfRecord(input, r) /\ e.id = <<"S", r>> /\ e.members = {r}
<1>1. \/ \E c \in Surviving!MergedClusters(input) : e = OfCluster(input, c)
      \/ \E r \in Surviving!Alone(input) : e = OfRecord(input, r)
  BY BuiltIs
<1>2. Sound(input)
  BY BuiltIs
<1>3. ASSUME NEW c \in Surviving!MergedClusters(input), e = OfCluster(input, c)
      PROVE  /\ e.id = c.id /\ e.members = c.members /\ c.members \subseteq DOMAIN input.records
             /\ Cardinality(c.members) > 1 /\ c.members # {} /\ c.id[1] # "S"
             /\ e = Surviving!Entity(input, c.id, e.members, c.conflict)
  <2>1. e.id = c.id /\ e.members = c.members
    BY <1>3, EntityIs DEF OfCluster
  <2>2. c \in input.clusters /\ Cardinality(Surviving!MembersOf(input, c.members)) >= 2
    BY SurvivingCounts DEF Surviving!MergedClusters
  <2>3. c.members \subseteq DOMAIN input.records /\ c.id[1] # "S"
    BY <1>2, <2>2 DEF Sound
  <2>4. Cardinality(Surviving!MembersOf(input, c.members)) <= Cardinality(c.members)
    BY <1>2, <2>3, MembersAre
  <2>5. IsFiniteSet(c.members) /\ IsFiniteSet(Surviving!MembersOf(input, c.members))
    BY <1>2, <2>3, MembersAre, FS_Subset DEF Sound, AreMembers
  <2>6. Cardinality(c.members) \in Nat /\ Cardinality(Surviving!MembersOf(input, c.members)) \in Nat
    BY <2>5, FS_CardinalityType
  <2>7. Cardinality(c.members) > 1
    BY <2>2, <2>4, <2>6
  <2>8. c.members # {}
    BY <2>7, FS_EmptySet
  <2> QED  BY <1>3, <2>1, <2>3, <2>7, <2>8 DEF OfCluster
<1>4. ASSUME NEW r \in Surviving!Alone(input), e = OfRecord(input, r)
      PROVE  /\ e.id = <<"S", r>> /\ e.members = {r} /\ {r} \subseteq DOMAIN input.records
             /\ e = Surviving!Entity(input, <<"S", r>>, e.members, FALSE)
  <2> DEFINE id == <<"S", r>>
             alone == {r}
             conflict == FALSE
  <2>3. e = Surviving!Entity(input, id, alone, conflict)
    BY <1>4 DEF OfRecord
  <2> HIDE DEF id, alone, conflict
  <2>4. e.id = id /\ e.members = alone
    BY <2>3, EntityIs
  <2>1. e.id = <<"S", r>> /\ e.members = {r}
    BY <2>4 DEF id, alone
  <2>2. r \in DOMAIN input.records
    BY DEF Surviving!Alone
  <2> QED  BY <1>4, <2>1, <2>2 DEF OfRecord
<1>5. CASE \E c \in Surviving!MergedClusters(input) : e = OfCluster(input, c)
  <2>1. PICK c \in Surviving!MergedClusters(input) : e = OfCluster(input, c)
    BY <1>5
  <2>2. \E id, conflict : e = Surviving!Entity(input, id, e.members, conflict)
    BY <1>3, <2>1
  <2> QED  BY <1>3, <2>1, <2>2
<1>6. CASE \E r \in Surviving!Alone(input) : e = OfRecord(input, r)
  <2>1. PICK r \in Surviving!Alone(input) : e = OfRecord(input, r)
    BY <1>6
  <2>2. \E id, conflict : e = Surviving!Entity(input, id, e.members, conflict)
    BY <1>4, <2>1
  <2>3. e.members \subseteq DOMAIN input.records /\ e.members # {}
    BY <1>4, <2>1
  <2> QED  BY <1>4, <2>1, <2>2, <2>3
<1> QED
  BY <1>1, <1>5, <1>6

\* No member has a value exactly when there is nothing distinct.
LEMMA NothingIsPresent ==
  ASSUME NEW ms, NEW f
  PROVE  Surviving!Present(ms, f) = {} <=> Surviving!DistinctValues(ms, f) = {}
BY DEF Surviving!Present, Surviving!DistinctValues

\* An absent value folds to nothing.
LEMMA AbsentIsNothing ==
  ASSUME NEW f
  PROVE  Surviving!Folded(f, Surviving!Absent) = Surviving!Nothing
BY DEF Surviving!Folded, Surviving!Absent, Surviving!Blank

\* The members of an entity, and the value it takes for a field.
LEMMA EntityChooses ==
  ASSUME SurvivingInv, Surviving!Built, NEW e \in output.entities, NEW f \in Surviving!Fields
  PROVE  LET ms == Surviving!MembersOf(input, e.members) IN
         /\ AreMembers(ms) /\ ms # {}
         /\ \A m \in ms : m.id \in e.members /\ m.values = input.records[m.id].values
         /\ e.chosen[f] = Surviving!Choice(ms, f)
<1> DEFINE ms == Surviving!MembersOf(input, e.members)
<1>1. e.members \subseteq DOMAIN input.records /\ e.members # {} /\ Sound(input)
  BY EntitiesAre, BuiltIs
<1>2. PICK id, conflict : e = Surviving!Entity(input, id, e.members, conflict)
  BY EntitiesAre
<1>3. e.chosen[f] = Surviving!Choice(ms, f)
  <2> DEFINE members == e.members
  <2>1. e = Surviving!Entity(input, id, members, conflict)
    BY <1>2
  <2> HIDE DEF members
  <2>2. e.chosen[f] = Surviving!Choice(Surviving!MembersOf(input, members), f)
    BY <2>1, EntityIs
  <2> QED  BY <2>2 DEF members
<1>4. /\ AreMembers(ms) /\ \A r \in e.members : \E m \in ms : m.id = r
      /\ \A m \in ms : m.id \in e.members /\ m.values = input.records[m.id].values
  BY <1>1, MembersAre
<1> QED
  BY <1>1, <1>3, <1>4

\* A golden value is that of the member it is traced to.
LEMMA ValuesAreMembers ==
  ASSUME SurvivingInv
  PROVE  Surviving!GoldenValuesAreMembers
<1> SUFFICES ASSUME Surviving!Built, NEW e \in output.entities, NEW f \in Surviving!Fields
             PROVE  /\ e.chosen[f].from \in e.members
                    /\ IF Surviving!Folded(f, e.chosen[f].value) # Surviving!Nothing
                         THEN e.chosen[f].value = input.records[e.chosen[f].from].values[f]
                       ELSE /\ e.chosen[f].value = Surviving!Absent
                            /\ Surviving!DistinctValues(Surviving!MembersOf(input, e.members), f) = {}
  BY DEF Surviving!GoldenValuesAreMembers
<1> DEFINE ms == Surviving!MembersOf(input, e.members)
           c == e.chosen[f]
<1>1. /\ AreMembers(ms) /\ ms # {} /\ c = Surviving!Choice(ms, f)
      /\ \A m \in ms : m.id \in e.members /\ m.values = input.records[m.id].values
  BY EntityChooses
<1> HIDE DEF ms, c
<1>2. CASE Surviving!Present(ms, f) = {}
  <2>1. c.value = Surviving!Absent /\ \E m \in ms : c.from = m.id
    BY <1>1, <1>2, ChoiceIs
  <2>2. Surviving!Folded(f, c.value) = Surviving!Nothing /\ Surviving!DistinctValues(ms, f) = {}
    BY <1>2, <2>1, AbsentIsNothing, NothingIsPresent
  <2> QED  BY <1>1, <2>1, <2>2 DEF ms, c
<1>3. CASE Surviving!Present(ms, f) # {}
  <2>1. PICK m \in Surviving!Present(ms, f) : c.value = m.values[f] /\ c.from = m.id
    BY <1>1, <1>3, ChoiceIs
  <2>2. m \in ms /\ Surviving!Folded(f, m.values[f]) # Surviving!Nothing
    BY DEF Surviving!Present
  <2>3. c.from \in e.members /\ c.value = input.records[c.from].values[f]
    BY <1>1, <2>1, <2>2
  <2> QED  BY <2>1, <2>2, <2>3 DEF c
<1> QED
  BY <1>2, <1>3

\* No faulty value is taken while a member has a sound one.
LEMMA ValuesAreSound ==
  ASSUME SurvivingInv
  PROVE  Surviving!SoundValuesAreTaken
<1> SUFFICES ASSUME Surviving!Built, NEW e \in output.entities, NEW f \in Surviving!Fields, f \notin LongestFields,
                    NEW m \in Surviving!MembersOf(input, e.members),
                    NEW n \in Surviving!MembersOf(input, e.members),
                    m.id = e.chosen[f].from, Surviving!Folded(f, n.values[f]) # Surviving!Nothing,
                    ~ (Surviving!Count(Surviving!IssuesOf(n, f), "error") > 0)
             PROVE  ~ (Surviving!Count(Surviving!IssuesOf(m, f), "error") > 0)
  BY DEF Surviving!SoundValuesAreTaken
<1> DEFINE ms == Surviving!MembersOf(input, e.members)
           p == Surviving!Present(ms, f)
<1>1. AreMembers(ms) /\ ms # {} /\ e.chosen[f] = Surviving!Choice(ms, f)
  BY EntityChooses
<1>2. n \in p
  BY DEF Surviving!Present
<1>3. m \in ms /\ n \in ms
  OBVIOUS
<1> HIDE DEF ms
<1>4. PICK best \in p : /\ Surviving!Choice(ms, f).from = best.id
                        /\ \A k \in p \ {best} : Surviving!Smaller(Surviving!Rank(ms, best, f), Surviving!Rank(ms, k, f))
  BY <1>1, <1>2, ChoiceIs
<1>5. best \in ms
  BY DEF Surviving!Present
<1>6. m = best
  BY <1>1, <1>3, <1>4, <1>5 DEF AreMembers
<1>7. CASE n = best
  BY <1>6, <1>7
<1>8. CASE n # best
  <2>1. Surviving!Smaller(Surviving!Rank(ms, m, f), Surviving!Rank(ms, n, f))
    BY <1>2, <1>4, <1>6, <1>8
  <2>2. /\ Surviving!Rank(ms, m, f) \in RankOf(9)
        /\ Surviving!Rank(ms, m, f)[1] = Surviving!Count(Surviving!IssuesOf(m, f), "error")
        /\ Surviving!Rank(ms, n, f)[1] = Surviving!Count(Surviving!IssuesOf(n, f), "error")
    BY <1>1, <1>3, RankIsRank DEF AreMembers
  <2> DEFINE s == Surviving!Rank(ms, m, f)
             t == Surviving!Rank(ms, n, f)
  <2>7. s \in RankOf(9) /\ Surviving!Smaller(s, t) /\ 9 \in Nat
    BY <2>1, <2>2
  <2> HIDE DEF s, t
  <2>8. \E i \in 1..9 : s[i] < t[i] /\ \A j \in 1..(i - 1) : s[j] = t[j]
    <3> DEFINE k == 9
    <3>1. k \in Nat /\ s \in RankOf(k)
      BY <2>7
    <3> HIDE DEF k
    <3>2. \E i \in 1..k : s[i] < t[i] /\ \A j \in 1..(i - 1) : s[j] = t[j]
      BY <2>7, <3>1, SmallerIs
    <3> QED  BY <3>2 DEF k
  <2>3. PICK i \in 1..9 : s[i] < t[i] /\ \A j \in 1..(i - 1) : s[j] = t[j]
    BY <2>8
  <2>4. /\ Surviving!Count(Surviving!IssuesOf(m, f), "error") \in Nat
        /\ Surviving!Count(Surviving!IssuesOf(n, f), "error") \in Nat
    BY CountIsNatural
  <2>5. s[1] \in Nat /\ t[1] = 0
    BY <2>2, <2>4 DEF s, t
  <2>6. s[1] = 0
    <3>1. CASE i = 1
      BY <2>3, <2>5, <3>1
    <3>2. CASE i # 1
      BY <2>3, <2>5, <3>2
    <3> QED  BY <3>1, <3>2
  <2> QED  BY <2>2, <2>6 DEF s
<1> QED
  BY <1>7, <1>8

\* Where the members disagree the entity says so.
LEMMA DisagreementShows ==
  ASSUME SurvivingInv
  PROVE  Surviving!DisagreementIsVisible
<1> SUFFICES ASSUME Surviving!Built, PreserveConflicts, NEW e \in output.entities
             PROVE  /\ e.conflicts = {f \in Surviving!Fields :
                                        Surviving!Cardinality(Surviving!DistinctValues(Surviving!MembersOf(input, e.members), f)) > 1}
                    /\ e.conflicts # {} => e.unresolved
  BY DEF Surviving!DisagreementIsVisible
<1> DEFINE members == e.members
<1>1. PICK id, conflict : e = Surviving!Entity(input, id, members, conflict)
  BY EntitiesAre
<1> HIDE DEF members
<1>2. /\ e.conflicts = {f \in Surviving!Fields : /\ PreserveConflicts
                          /\ Surviving!Cardinality(Surviving!DistinctValues(Surviving!MembersOf(input, members), f)) > 1}
      /\ e.unresolved = (e.conflicts # {} \/ conflict)
  BY <1>1, EntityIs
<1> QED
  BY <1>2 DEF members

\* An entity names the MATCH cases it merges.
LEMMA MatchesShow ==
  ASSUME SurvivingInv
  PROVE  Surviving!MatchesAreTraced
<1> SUFFICES ASSUME Surviving!Built, NEW c \in input.cases, NEW e \in output.entities
             PROVE  c.id \in e.reviewed <=> c.status = "MATCH" /\ {c.pair[1], c.pair[2]} \subseteq e.members
  BY DEF Surviving!MatchesAreTraced
<1>1. Sound(input)
  BY BuiltIs
<1>2. c.pair[1] # c.pair[2] /\ \A d \in input.cases : d.id = c.id => d = c
  BY <1>1 DEF Sound
<1>3. ASSUME NEW k \in Surviving!MergedClusters(input), e = OfCluster(input, k), e.id = k.id, e.members = k.members,
             k.id[1] # "S"
      PROVE  c.id \in e.reviewed <=> c.status = "MATCH" /\ {c.pair[1], c.pair[2]} \subseteq e.members
  <2>1. e.reviewed = Surviving!ReviewedBy(input, k.members)
    BY <1>3, EntityIs DEF OfCluster
  <2>2. e.reviewed = {d.id : d \in {b \in input.cases : /\ b.status = "MATCH" /\ b.pair[1] \in k.members
                                                        /\ b.pair[2] \in k.members}}
    BY <2>1 DEF Surviving!ReviewedBy
  <2> QED  BY <1>2, <1>3, <2>2
<1>4. ASSUME NEW r \in Surviving!Alone(input), e = OfRecord(input, r), e.members = {r}
      PROVE  c.id \in e.reviewed <=> c.status = "MATCH" /\ {c.pair[1], c.pair[2]} \subseteq e.members
  <2>1. e.reviewed = {}
    <3> DEFINE id == <<"S", r>>
               alone == {r}
               conflict == FALSE
    <3>1. e = Surviving!Entity(input, id, alone, conflict)
      BY <1>4 DEF OfRecord
    <3>2. id[1] = "S"
      OBVIOUS
    <3> HIDE DEF id, alone, conflict
    <3> QED  BY <3>1, <3>2, EntityIs
  <2> QED  BY <1>2, <1>4, <2>1
<1>5. \/ \E k \in Surviving!MergedClusters(input) :
           e = OfCluster(input, k) /\ e.id = k.id /\ e.members = k.members /\ k.id[1] # "S"
      \/ \E r \in Surviving!Alone(input) : e = OfRecord(input, r) /\ e.members = {r}
  BY EntitiesAre
<1> QED
  BY <1>3, <1>4, <1>5

\* What the survivorship stage holds has its type.
LEMMA EntitiesAreTyped ==
  ASSUME SurvivingInv
  PROVE  Surviving!TypeOK
<1>1. Surviving!NotBuilt.outcome = "not built" /\ Surviving!Refused.outcome = "forbidden field"
  BY DEF Surviving!NotBuilt, Surviving!Refused
<1>2. Surviving!Build(input) = Surviving!Refused \/ Surviving!Build(input).outcome = "built"
  BY DEF Surviving!Build
<1>3. output.outcome \in {"not built", "built", "forbidden field"}
  BY <1>1, <1>2 DEF SurvivingInv
<1>4. Surviving!Built => \A e \in output.entities : e.members \subseteq DOMAIN input.records
  BY EntitiesAre
<1> QED
  BY <1>3, <1>4 DEF Surviving!TypeOK

\* Two entities share neither id nor record.
LEMMA EntitiesAreApart ==
  ASSUME SurvivingInv, Surviving!Built, NEW d \in output.entities, NEW e \in output.entities, d # e
  PROVE  d.id # e.id /\ d.members \cap e.members = {}
<1> DEFINE IsC(x, c) == /\ x = OfCluster(input, c) /\ x.id = c.id /\ x.members = c.members /\ c.id[1] # "S"
           IsR(x, r) == x = OfRecord(input, r) /\ x.id = <<"S", r>> /\ x.members = {r}
<1>1. /\ (\E c \in Surviving!MergedClusters(input) : IsC(d, c)) \/ (\E r \in Surviving!Alone(input) : IsR(d, r))
      /\ (\E c \in Surviving!MergedClusters(input) : IsC(e, c)) \/ (\E r \in Surviving!Alone(input) : IsR(e, r))
  BY EntitiesAre
<1>2. Surviving!MergedClusters(input) \subseteq input.clusters
  BY DEF Surviving!MergedClusters
<1>3. \A b, c \in Surviving!MergedClusters(input) : b # c => b.id # c.id /\ b.members \cap c.members = {}
  BY <1>2, BuiltIs DEF Sound
<1>4. \A r \in Surviving!Alone(input) : \A c \in Surviving!MergedClusters(input) : r \notin c.members
  BY DEF Surviving!Alone
<1>5. \A x, c, y, r : IsC(x, c) /\ IsR(y, r) => x.id # y.id
  <2> SUFFICES ASSUME NEW x, NEW c, NEW y, NEW r, IsC(x, c), IsR(y, r), x.id = y.id PROVE FALSE
    OBVIOUS
  <2>1. c.id = <<"S", r>>
    OBVIOUS
  <2>2. c.id[1] = "S"
    BY <2>1
  <2> QED  BY <2>2
<1>6. \A b, c \in Surviving!MergedClusters(input) : IsC(d, b) /\ IsC(e, c) => d.id # e.id /\ d.members \cap e.members = {}
  BY <1>3
<1>7. \A b, r : IsC(d, b) /\ b \in Surviving!MergedClusters(input) /\ IsR(e, r) /\ r \in Surviving!Alone(input)
                  => d.id # e.id /\ d.members \cap e.members = {}
  BY <1>4, <1>5
<1>8. \A b, r : IsC(e, b) /\ b \in Surviving!MergedClusters(input) /\ IsR(d, r) /\ r \in Surviving!Alone(input)
                  => d.id # e.id /\ d.members \cap e.members = {}
  BY <1>4, <1>5
<1>9. \A q, r : IsR(d, q) /\ IsR(e, r) => d.id # e.id /\ d.members \cap e.members = {}
  <2> SUFFICES ASSUME NEW q, NEW r, IsR(d, q), IsR(e, r)
               PROVE  d.id # e.id /\ d.members \cap e.members = {}
    OBVIOUS
  <2>1. q # r
    OBVIOUS
  <2>2. <<"S", q>> # <<"S", r>>
    BY <2>1
  <2> QED  BY <2>1, <2>2
<1> HIDE DEF IsC, IsR
<1> QED
  BY <1>1, <1>6, <1>7, <1>8, <1>9

\* The clusters that merge and the records that stand alone share nothing, are finitely
\* many, and leave out what is excluded.
LEMMA GroupsAre ==
  ASSUME NEW in, Sound(in)
  PROVE  /\ IsFiniteSet(Surviving!MergedClusters(in)) /\ IsFiniteSet(Surviving!Alone(in))
         /\ \A c \in Surviving!MergedClusters(in) : c.members \cap in.excluded = {}
         /\ \A r \in Surviving!Alone(in) : r \notin in.excluded
         /\ BuildSingletons => \A r \in DOMAIN in.records :
              \/ r \in in.excluded \/ r \in Surviving!Alone(in)
              \/ \E c \in Surviving!MergedClusters(in) : r \in c.members
<1>1. Surviving!MergedClusters(in) \subseteq in.clusters /\ Surviving!Alone(in) \subseteq DOMAIN in.records
  BY DEF Surviving!MergedClusters, Surviving!Alone
<1>2. IsFiniteSet(Surviving!MergedClusters(in)) /\ IsFiniteSet(Surviving!Alone(in))
  BY <1>1, FS_Subset DEF Sound
<1>3. \A c \in Surviving!MergedClusters(in) : c.members \cap in.excluded = {}
  BY DEF Surviving!MergedClusters
<1>4. \A r \in Surviving!Alone(in) : r \notin in.excluded
  BY DEF Surviving!Alone
<1>5. ASSUME BuildSingletons, NEW r \in DOMAIN in.records, r \notin in.excluded,
             ~ \E c \in Surviving!MergedClusters(in) : r \in c.members
      PROVE  r \in Surviving!Alone(in)
  <2>1. Surviving!Alone(in) =
          (DOMAIN in.records \ UNION {c.members : c \in Surviving!MergedClusters(in)}) \ in.excluded
    BY <1>5 DEF Surviving!Alone
  <2>2. r \notin UNION {c.members : c \in Surviving!MergedClusters(in)}
    BY <1>5
  <2> QED  BY <1>5, <2>1, <2>2
<1> QED
  BY <1>2, <1>3, <1>4, <1>5

\* The entity of a merged cluster and that of a record alone are built.
LEMMA EveryGroupIsBuilt ==
  ASSUME SurvivingInv, Surviving!Built
  PROVE  /\ \A c \in Surviving!MergedClusters(input) :
              OfCluster(input, c) \in output.entities /\ OfCluster(input, c).members = c.members
         /\ \A r \in Surviving!Alone(input) :
              OfRecord(input, r) \in output.entities /\ OfRecord(input, r).members = {r}
<1>1. ASSUME NEW c \in Surviving!MergedClusters(input)
      PROVE  OfCluster(input, c) \in output.entities /\ OfCluster(input, c).members = c.members
  BY BuiltIs, EntityIs DEF OfCluster
<1>2. ASSUME NEW r \in Surviving!Alone(input)
      PROVE  OfRecord(input, r) \in output.entities /\ OfRecord(input, r).members = {r}
  <2> DEFINE id == <<"S", r>>
             alone == {r}
             conflict == FALSE
             e == OfRecord(input, r)
  <2>1. e = Surviving!Entity(input, id, alone, conflict)
    BY DEF OfRecord
  <2>2. e \in output.entities
    BY BuiltIs
  <2> HIDE DEF id, alone, conflict, e
  <2>3. e.members = alone
    BY <2>1, EntityIs
  <2> QED  BY <2>2, <2>3 DEF alone, e
<1> QED
  BY <1>1, <1>2

\* A record is in one entity, or in none when it is excluded.
LEMMA RecordsHaveOneEntity ==
  ASSUME SurvivingInv, Surviving!Built, BuildSingletons, NEW r \in DOMAIN input.records
  PROVE  Cardinality({e \in output.entities : r \in e.members}) = (IF r \in input.excluded THEN 0 ELSE 1)
<1> DEFINE mine == {e \in output.entities : r \in e.members}
<1>1. Sound(input)
  BY BuiltIs
<1>2. CASE r \in input.excluded
  <2>1. ASSUME NEW e \in output.entities, r \in e.members PROVE FALSE
    <3>1. \/ \E c \in Surviving!MergedClusters(input) : e.members = c.members
          \/ \E k \in Surviving!Alone(input) : e.members = {k}
      BY EntitiesAre
    <3> QED  BY <1>1, <1>2, <2>1, <3>1, GroupsAre
  <2>2. mine = {}
    BY <2>1
  <2> QED  BY <1>2, <2>2, FS_EmptySet
<1>3. CASE r \notin input.excluded
  <2>1. \/ r \in Surviving!Alone(input)
        \/ \E c \in Surviving!MergedClusters(input) : r \in c.members
    BY <1>1, <1>3, GroupsAre
  <2>2. \E e \in output.entities : r \in e.members
    BY <2>1, EveryGroupIsBuilt
  <2>3. PICK e \in output.entities : r \in e.members
    BY <2>2
  <2>4. \A d \in mine : d = e
    BY <2>3, EntitiesAreApart
  <2>5. mine = {e}
    BY <2>3, <2>4
  <2> QED  BY <1>3, <2>5, FS_Singleton
<1> QED
  BY <1>2, <1>3

\* The summary adds up: an entity merges a cluster or is a record alone.
LEMMA EntitiesAddUp ==
  ASSUME SurvivingInv, Surviving!Built
  PROVE  output.summary.entities = output.summary.alone + output.summary.merged
<1> DEFINE merged == {e \in output.entities : Cardinality(e.members) > 1}
           single == {e \in output.entities : ~ (Cardinality(e.members) > 1)}
           alone == Surviving!Alone(input)
           clusters == Surviving!MergedClusters(input)
           ofC == [c \in clusters |-> OfCluster(input, c)]
           ofR == [r \in alone |-> OfRecord(input, r)]
<1>1. IsFiniteSet(clusters) /\ IsFiniteSet(alone)
  BY BuiltIs, GroupsAre
<1>2. ASSUME NEW e \in merged PROVE \E c \in clusters : e = ofC[c]
  <2>1. ASSUME NEW r \in alone, e.members = {r} PROVE FALSE
    <3>1. Cardinality(e.members) = 1
      BY <2>1, FS_Singleton
    <3> QED  BY <3>1
  <2> QED  BY <2>1, EntitiesAre
<1>3. ASSUME NEW e \in single PROVE \E r \in alone : e = ofR[r]
  BY EntitiesAre
<1>4. ASSUME NEW r \in alone PROVE ofR[r] \in single /\ ofR[r].members = {r}
  <2>1. ofR[r] \in output.entities /\ ofR[r].members = {r}
    BY EveryGroupIsBuilt
  <2>2. Cardinality(ofR[r].members) = 1
    BY <2>1, FS_Singleton
  <2> QED  BY <2>1, <2>2
<1>5. merged \cap single = {} /\ output.entities = merged \cup single
  OBVIOUS
<1>6. DOMAIN ofR = alone /\ ofR = [r \in alone |-> ofR[r]]
  OBVIOUS
<1> HIDE DEF merged, single, alone, clusters, ofC, ofR
<1>7. IsFiniteSet(merged) /\ Cardinality(merged) \in Nat
  BY <1>1, <1>2, ImageIsFinite
<1>8. IsFiniteSet(single) /\ Cardinality(single) = Cardinality(alone)
  <2>1. ofR \in [alone -> single]
    BY <1>4, <1>6
  <2>2. \A q, r \in alone : ofR[q] = ofR[r] => q = r
    <3> SUFFICES ASSUME NEW q \in alone, NEW r \in alone, ofR[q] = ofR[r] PROVE q = r
      OBVIOUS
    <3>1. {q} = {r}
      BY <1>4
    <3> QED  BY <3>1
  <2>3. ofR \in Surjection(alone, single)
    BY <1>3, <2>1 DEF Surjection
  <2>4. ofR \in Injection(alone, single)
    BY <2>1, <2>2 DEF Injection, IsInjective
  <2> QED  BY <1>1, <2>3, <2>4, FS_Surjection
<1>9. Cardinality(output.entities) = Cardinality(merged) + Cardinality(single)
  <2>1. Cardinality(merged \cup single) = Cardinality(merged) + Cardinality(single) - Cardinality(merged \cap single)
    BY <1>7, <1>8, FS_Union
  <2>2. Cardinality(merged \cap single) = 0
    BY <1>5, FS_EmptySet
  <2>3. Cardinality(single) \in Nat
    BY <1>8, FS_CardinalityType
  <2> QED  BY <1>5, <1>7, <2>1, <2>2, <2>3
<1>10. /\ output.summary.entities = Cardinality(output.entities)
       /\ output.summary.alone = Cardinality(alone)
       /\ output.summary.merged = Cardinality(merged)
  BY BuiltIs DEF merged, alone
<1>11. Cardinality(alone) \in Nat
  BY <1>1, FS_CardinalityType
<1> QED
  BY <1>7, <1>8, <1>9, <1>10, <1>11

\* No record is lost or doubled.
LEMMA NothingIsLostOrDoubled ==
  ASSUME SurvivingInv
  PROVE  Surviving!NoRecordIsLostOrDoubled
<1>1. ASSUME Surviving!Built, BuildSingletons, NEW r \in DOMAIN input.records
      PROVE  Surviving!Cardinality({e \in output.entities : r \in e.members})
               = (IF r \in input.excluded THEN 0 ELSE 1)
  BY <1>1, RecordsHaveOneEntity, SurvivingCounts
<1>2. Surviving!Built =>
        /\ \A d, e \in output.entities : d # e => d.id # e.id /\ d.members \cap e.members = {}
        /\ output.summary.entities = output.summary.alone + output.summary.merged
  BY EntitiesAreApart, EntitiesAddUp
<1>3. Surviving!Built => (BuildSingletons => \A r \in DOMAIN input.records :
                           Surviving!Cardinality({e \in output.entities : r \in e.members})
                             = (IF r \in input.excluded THEN 0 ELSE 1))
  BY <1>1, Zenon
<1> QED
  BY <1>2, <1>3 DEF Surviving!NoRecordIsLostOrDoubled

-----------------------------------------------------------------------------
(* The stages together *)

\* The ledger keeps its invariant, and a stage that is a function holds its input and,
\* once it ran, its result.
PipelineInv ==
  /\ LedgerInv
  /\ part = "reading" => ReadingInv
  /\ part = "mapping" => MappingInv
  /\ part = "quality" => QualityInv
  /\ part = "resolving" => ResolvingInv
  /\ part = "surviving" => SurvivingInv

\* The quality stage starts with a file that is not processed, and processes it.
LEMMA QualityKeeps ==
  /\ Quality!Init => QualityInv
  /\ QualityInv /\ Quality!Next => QualityInv'
<1>1. Quality!Init => QualityInv
  BY DEF Quality!Init, QualityInv
<1>2. ASSUME QualityInv, Quality!Next PROVE QualityInv'
  <2>1. input \in RecordFiles /\ input' = input /\ output' = Quality!RunPipeline(input)
    BY <1>2 DEF Quality!Next, Quality!RunFile, QualityInv
  <2> QED  BY <2>1 DEF QualityInv
<1> QED
  BY <1>1, <1>2

\* Survivorship starts with a resolution, and builds its entities.
LEMMA SurvivingKeeps ==
  /\ Surviving!Init => SurvivingInv
  /\ SurvivingInv /\ Surviving!Next => SurvivingInv'
<1>1. Surviving!Init => SurvivingInv
  BY DEF Surviving!Init, SurvivingInv
<1>2. ASSUME SurvivingInv, Surviving!Next PROVE SurvivingInv'
  <2>1. input \in Resolutions /\ input' = input /\ output' = Surviving!Build(input)
    BY <1>2 DEF Surviving!Next, Surviving!BuildEntities, SurvivingInv
  <2> QED  BY <2>1 DEF SurvivingInv
<1> QED
  BY <1>1, <1>2

\* The invariant holds at first.
LEMMA PipelineStarts ==
  ASSUME PipelineInit
  PROVE  PipelineInv
<1>1. LedgerInv
  BY LedgerInit DEF PipelineInit
<1>2. /\ part = "reading" => Reading!Init
      /\ part = "mapping" => Mapping!Init
      /\ part = "quality" => Quality!Init
      /\ part = "resolving" => Resolving!Init
      /\ part = "surviving" => Surviving!Init
  BY DEF PipelineInit
<1> QED
  BY <1>1, <1>2, ReadingKeeps, MappingKeeps, QualityKeeps, ResolvingKeeps, SurvivingKeeps DEF PipelineInv

\* Every step keeps it: the stages share no variable.
LEMMA PipelineStep ==
  ASSUME PipelineInv, [PipelineNext]_<<part, vars, stageVars>>
  PROVE  PipelineInv'
<1>1. [Next]_vars /\ part' = part
  BY DEF PipelineNext
<1>2. LedgerInv'
  BY <1>1, LedgerStep DEF PipelineInv
<1>3. ASSUME part = "reading" PROVE ReadingInv'
  <2>1. Reading!Next \/ UNCHANGED <<input, output>>
    BY <1>3 DEF PipelineNext, stageVars
  <2>2. ASSUME UNCHANGED <<input, output>> PROVE ReadingInv'
    BY <1>3, <2>2 DEF PipelineInv, ReadingInv
  <2> QED  BY <1>3, <2>1, <2>2, ReadingKeeps DEF PipelineInv
<1>4. ASSUME part = "mapping" PROVE MappingInv'
  <2>1. Mapping!Next \/ UNCHANGED <<input, output>>
    BY <1>4 DEF PipelineNext, stageVars
  <2>2. ASSUME UNCHANGED <<input, output>> PROVE MappingInv'
    BY <1>4, <2>2 DEF PipelineInv, MappingInv
  <2> QED  BY <1>4, <2>1, <2>2, MappingKeeps DEF PipelineInv
<1>5. ASSUME part = "quality" PROVE QualityInv'
  <2>1. Quality!Next \/ UNCHANGED <<input, output>>
    BY <1>5 DEF PipelineNext, stageVars
  <2>2. ASSUME UNCHANGED <<input, output>> PROVE QualityInv'
    BY <1>5, <2>2 DEF PipelineInv, QualityInv
  <2> QED  BY <1>5, <2>1, <2>2, QualityKeeps DEF PipelineInv
<1>6. ASSUME part = "resolving" PROVE ResolvingInv'
  <2>1. Resolving!Next \/ UNCHANGED <<input, output>>
    BY <1>6 DEF PipelineNext, stageVars
  <2>2. ASSUME UNCHANGED <<input, output>> PROVE ResolvingInv'
    BY <1>6, <2>2 DEF PipelineInv, ResolvingInv
  <2> QED  BY <1>6, <2>1, <2>2, ResolvingKeeps DEF PipelineInv
<1>7. ASSUME part = "surviving" PROVE SurvivingInv'
  <2>1. Surviving!Next \/ UNCHANGED <<input, output>>
    BY <1>7 DEF PipelineNext, stageVars
  <2>2. ASSUME UNCHANGED <<input, output>> PROVE SurvivingInv'
    BY <1>7, <2>2 DEF PipelineInv, SurvivingInv
  <2> QED  BY <1>7, <2>1, <2>2, SurvivingKeeps DEF PipelineInv
<1> QED
  BY <1>1, <1>2, <1>3, <1>4, <1>5, <1>6, <1>7 DEF PipelineInv

\* The invariant of the composition: what the ledger holds is of its type, its last
\* MATCH was judged by what it holds, its clusters are free of severe conflict while
\* there is no NO_MATCH, and the other stages hold the result of their input.
LEMMA PipelineIsSound == PipelineSpec => []PipelineInv
<1>1. PipelineInit => PipelineInv
  BY PipelineStarts
<1>2. PipelineInv /\ [PipelineNext]_<<part, vars, stageVars>> => PipelineInv'
  BY PipelineStep
<1> QED
  BY <1>1, <1>2, PTL DEF PipelineSpec

\* What accepted decisions say holds in the canonical entities: no merge joins the two
\* records of a NO_MATCH, and none holds a severe conflict while there is no NO_MATCH
\* (integration.py, authorization.py).
THEOREM MergesStayAllowed == PipelineSpec => []MergesAreAllowed
<1>1. PipelineInv => MergesAreAllowed
  BY NoMatchIsRespected DEF PipelineInv, LedgerInv, MergesAreAllowed
<1> QED
  BY <1>1, PipelineIsSound, PTL

\* An accepted MATCH joins its two records, as long as nothing newer is recorded and
\* the conflict guard makes no difference (authorization.py, integration.py).
THEOREM MatchesTakeEffect == PipelineSpec => []AcceptedMatchTakesEffect
<1>1. PipelineInv => AcceptedMatchTakesEffect
  BY MatchTakesEffect DEF PipelineInv, LedgerInv
<1> QED
  BY <1>1, PipelineIsSound, PTL

\* Validating and normalizing loses no record, adds no error but that of a value that
\* falls short without its spare characters, ruins no name but by a suffix inside it,
\* withholds no canonical form because of a warning, and has nothing more to do the second
\* time but for two kinds of text (record_quality/pipeline.py).
THEOREM RecordsStayRepaired == PipelineSpec => []RecordsAreOnlyRepaired
<1>1. PipelineInv => RecordsAreOnlyRepaired
  BY QualityIsTyped, RowsAddUp, RepairsOnly, WarningsAreHarmless, TwiceIsOnce
     DEF PipelineInv, RecordsAreOnlyRepaired
<1> QED
  BY <1>1, PipelineIsSound, PTL

\* Every record of a queue ends in one merged group, alone or excluded; every record of
\* a resolution ends in one entity or in none while a reviewer is awaited, with the
\* values of a member, a sound one before a faulty one, and with every disagreement and
\* every MATCH on show (engine.py of survivorship, integration.py).
THEOREM EntitiesStayWhole == PipelineSpec => []EntitiesKeepTheirRecords
<1>1. LedgerInv => TypeOK /\ EveryRecordOnce /\ UnresolvedStaysOut
  BY RecordsAreUsedOnce, UnresolvedAreExcluded DEF LedgerInv
<1>2. SurvivingInv => /\ Surviving!TypeOK /\ Surviving!NoRecordIsLostOrDoubled
                      /\ Surviving!GoldenValuesAreMembers /\ Surviving!SoundValuesAreTaken
                      /\ Surviving!DisagreementIsVisible /\ Surviving!MatchesAreTraced
  BY EntitiesAreTyped, NothingIsLostOrDoubled, ValuesAreMembers, ValuesAreSound, DisagreementShows, MatchesShow
<1>3. PipelineInv => EntitiesKeepTheirRecords
  BY <1>1, <1>2 DEF PipelineInv, EntitiesKeepTheirRecords
<1> QED
  BY <1>3, PipelineIsSound, PTL

\* A file is read whole and its columns are mapped with evidence: every row and every
\* cell has exactly one place, a value keeps its column, and neither the format nor the
\* order of the columns matters (parser.py, apply.py).
THEOREM FilesStayReadWhole == PipelineSpec => []FilesAreReadWhole
<1>1. ReadingInv => /\ Reading!TypeOK /\ Reading!EveryRowIsAccountedFor
                    /\ Reading!ValuesStayInTheirColumn /\ Reading!FormatsAgree
  BY ReadingIsTyped, RowsAreAccounted, ValuesAreInTheirColumn, FormatsMeanTheSame
<1>2. MappingInv => /\ Mapping!TypeOK /\ Mapping!EveryCellHasItsPlace
                    /\ Mapping!NothingIsGuessed /\ Mapping!ColumnOrderIsImmaterial
  BY MappingIsTyped, CellsHaveTheirPlace, MappingIsFounded, ColumnOrderIsNothing
<1>3. PipelineInv => FilesAreReadWhole
  BY <1>1, <1>2 DEF PipelineInv, FilesAreReadWhole
<1> QED
  BY <1>3, PipelineIsSound, PTL

\* The AUTO_MATCH pairs decide the clusters: blocking hides none, each ends in one
\* cluster or was kept out by the guard, no cluster is in severe conflict, and the order
\* of the rows changes nothing (blocking.py, clustering.py, engine.py).
THEOREM AutoMatchesStayGrouped == PipelineSpec => []AutoMatchesAreGrouped
<1>1. ResolvingInv => /\ Resolving!TypeOK /\ Resolving!DecisionsAddUp
                      /\ Resolving!AutoMatchesAreGrouped /\ Resolving!ClustersAreConsistent
                      /\ Resolving!BlockingMissesNoAutoMatch /\ Resolving!RowOrderIsImmaterial
  BY ResolutionIsTyped, VerdictsAddUp, AutosAreGrouped, ClustersHoldTogether, NoMatchIsMissed, OrderIsImmaterial
<1>2. PipelineInv => AutoMatchesAreGrouped
  BY <1>1 DEF PipelineInv, AutoMatchesAreGrouped
<1> QED
  BY <1>2, PipelineIsSound, PTL
=============================================================================
