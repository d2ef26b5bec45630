---------------------------- MODULE StageProofs ----------------------------
(***************************************************************************)
(* What the stages before the review promise, for any files, sheets and    *)
(* batches: reading a file (Ingestion), mapping its columns                *)
(* (SchemaMapping) and resolving its records (EntityResolution).           *)
(*                                                                         *)
(* Folds.  A fold of the library over a finite set is shown to be the      *)
(* solution of a recursion over its subsets (FoldExists, by induction on   *)
(* their size), and a fold over a sequence the same over its prefixes; a   *)
(* sum is then what two walks along it agree on.                           *)
(*                                                                         *)
(* Sorting.  sorted() is stable: the position of a member is one more than *)
(* the members before it (SortsInto).  Two orders that sort the same       *)
(* members without a tie are the same, which is why the order of the rows  *)
(* (OrderIsImmaterial) and of the columns (ColumnOrderIsNothing) changes   *)
(* nothing.                                                                *)
(*                                                                         *)
(* Entity resolution.  Blocking misses no AUTO_MATCH: a pair that reaches  *)
(* its threshold has evidence that is a shared blocking key.  The clusters *)
(* are a walk over the AUTO_MATCH pairs that keeps its classes apart, free *)
(* of severe conflict and joined by their own edges.                       *)
(*                                                                         *)
(* Mapping.  Columns that ask for one field collide, so a field takes at   *)
(* most one (FieldsAreFilledOnce); a cell fills it or is kept beside.      *)
(*                                                                         *)
(* Reading.  The rows of a file are judged one after the other: a fold     *)
(* over its lines is a judgement of every row between the header and the   *)
(* end (IsJudged), and a file with no quotes is judged row by row in both  *)
(* formats (FormatsMeanTheSame).                                           *)
(***************************************************************************)
EXTENDS Pipeline, FiniteSetTheorems, TLAPS

-----------------------------------------------------------------------------
(* Induction and folds *)

\* A set with 0 and every successor holds every number.
LEMMA NatInduct ==
  ASSUME NEW G, 0 \in G, \A n \in Nat : n \in G => n + 1 \in G
  PROVE  Nat \subseteq G
<1> SUFFICES ASSUME ~ (Nat \subseteq G) PROVE FALSE
  OBVIOUS
<1> DEFINE T == Nat \ G
           Rel == OpToRel(<, Nat)
<1>1. T # {} /\ T \subseteq Nat
  OBVIOUS
<1>2. \E x \in T : \A y \in T : ~ (<<y, x>> \in Rel)
  <2> HIDE DEF T, Rel
  <2>1. IsWellFoundedOn(OpToRel(<, Nat), Nat)
    BY NatLessThanWellFounded
  <2> QED  BY <2>1, <1>1, WFMin DEF Rel
<1>3. PICK x \in T : \A y \in T : ~ (<<y, x>> \in Rel)
  BY <1>2
<1>4. x # 0 /\ x \in Nat /\ x - 1 \in Nat
  OBVIOUS
<1>5. x - 1 \in G
  <2> SUFFICES ASSUME x - 1 \notin G PROVE FALSE
    OBVIOUS
  <2>1. x - 1 \in T
    BY <1>4
  <2>2. <<x - 1, x>> \in Rel
    BY <1>4 DEF OpToRel
  <2> QED  BY <1>3, <2>1, <2>2
<1>6. (x - 1) + 1 = x
  BY <1>4
<1> QED
  BY <1>4, <1>5, <1>6

\* What holds of {} and of every set when it holds of the set less one of its members
\* holds of every finite set.
LEMMA SubsetInduction ==
  ASSUME NEW S, IsFiniteSet(S), NEW G, {} \in G,
         \A s \in SUBSET S : s # {} => \E x \in s : s \ {x} \in G => s \in G
  PROVE  SUBSET S \subseteq G
<1> DEFINE N == {n \in Nat : \A s \in SUBSET S : Cardinality(s) = n => s \in G}
<1>1. \A s \in SUBSET S : IsFiniteSet(s) /\ Cardinality(s) \in Nat
  BY FS_Subset, FS_CardinalityType
<1>2. 0 \in N
  BY <1>1, FS_EmptySet
<1>3. ASSUME NEW n \in Nat, n \in N
      PROVE  n + 1 \in N
  <2> SUFFICES ASSUME NEW s \in SUBSET S, Cardinality(s) = n + 1 PROVE s \in G
    OBVIOUS
  <2>1. s # {}
    <3>1. Cardinality({}) = 0 /\ n + 1 # 0
      BY FS_EmptySet
    <3> QED  BY <3>1
  <2>2. PICK x \in s : s \ {x} \in G => s \in G
    BY <2>1
  <2>3. Cardinality(s \ {x}) = n
    <3>1. IsFiniteSet(s) /\ x \in s
      BY <1>1, <2>1
    <3>2. Cardinality(s \ {x}) = Cardinality(s) - 1
      BY <3>1, FS_RemoveElement
    <3> QED  BY <3>2
  <2>4. s \ {x} \in G
    BY <1>3, <2>3
  <2> QED  BY <2>2, <2>4
<1>4. Nat \subseteq N
  <2> HIDE DEF N
  <2> QED  BY <1>2, <1>3, NatInduct
<1> QED
  BY <1>1, <1>4

\* ch picks a member of every subset of S.
Picks(ch, S) == \A s \in SUBSET S : s # {} => ch[s] \in s

\* h folds the subsets of S with F, from base, the element ch picks last.
Folding(h, S, ch, base, F) ==
  h = [s \in SUBSET S |-> IF s = {} THEN base ELSE F[<<ch[s], h[s \ {ch[s]}]>>]]

\* The recursion that a fold of the library is defined by has a solution.
LEMMA FoldExists ==
  ASSUME NEW S, IsFiniteSet(S), NEW D, NEW base \in D, NEW F \in [S \X D -> D],
         NEW ch, Picks(ch, S)
  PROVE  \E h \in [SUBSET S -> D] : Folding(h, S, ch, base, F)
<1> DEFINE Step(h, s) == IF s = {} THEN base ELSE F[<<ch[s], h[s \ {ch[s]}]>>]
           N == {n \in Nat : \E h \in [SUBSET S -> D] :
                   \A s \in SUBSET S : Cardinality(s) <= n => h[s] = Step(h, s)}
<1>1. \A s \in SUBSET S : IsFiniteSet(s) /\ Cardinality(s) \in Nat
  BY FS_Subset, FS_CardinalityType
<1>2. 0 \in N
  <2> DEFINE h == [s \in SUBSET S |-> base]
  <2>1. h \in [SUBSET S -> D]
    OBVIOUS
  <2>2. \A s \in SUBSET S : Cardinality(s) <= 0 => s = {}
    BY <1>1, FS_EmptySet
  <2> QED  BY <2>1, <2>2
<1>3. ASSUME NEW n \in Nat, n \in N
      PROVE  n + 1 \in N
  <2>1. PICK h \in [SUBSET S -> D] : \A s \in SUBSET S : Cardinality(s) <= n => h[s] = Step(h, s)
    BY <1>3
  <2> DEFINE g == [s \in SUBSET S |-> Step(h, s)]
  <2>2. g \in [SUBSET S -> D]
    <3>1. ASSUME NEW s \in SUBSET S PROVE Step(h, s) \in D
      <4>1. s # {} => ch[s] \in S /\ h[s \ {ch[s]}] \in D
        BY ONLY <2>1, Picks(ch, S) DEF Picks
      <4> QED  BY ONLY <4>1, base \in D, F \in [S \X D -> D]
    <3> QED  BY <3>1
  <2>3. ASSUME NEW s \in SUBSET S, Cardinality(s) <= n + 1
        PROVE  g[s] = Step(g, s)
    <3>1. CASE s = {}
      BY <3>1
    <3>2. CASE s # {}
      <4> DEFINE t == s \ {ch[s]}
      <4>1. ch[s] \in s /\ t \in SUBSET S
        BY <3>2 DEF Picks
      <4>2. Cardinality(t) <= n
        <5>1. IsFiniteSet(s) /\ Cardinality(s) \in Nat
          BY <1>1
        <5>2. Cardinality(t) = IF ch[s] \in s THEN Cardinality(s) - 1 ELSE Cardinality(s)
          BY <5>1, FS_RemoveElement, Zenon
        <5>3. Cardinality(t) = Cardinality(s) - 1
          BY <4>1, <5>2, Zenon
        <5> QED  BY <5>1, <5>3, <2>3
      <4>3. h[t] = Step(h, t) /\ g[t] = Step(h, t)
        BY <4>1, <4>2, <2>1
      <4> QED  BY <4>3, <3>2
    <3> QED  BY <3>1, <3>2
  <2> HIDE DEF g, Step
  <2> QED  BY <2>2, <2>3
<1>4. Nat \subseteq N
  <2> HIDE DEF N
  <2> QED  BY <1>2, <1>3, NatInduct
<1>5. Cardinality(S) \in N /\ \A s \in SUBSET S : Cardinality(s) <= Cardinality(S)
  BY <1>1, <1>4, FS_Subset
<1>6. PICK h \in [SUBSET S -> D] : \A s \in SUBSET S : h[s] = Step(h, s)
  BY <1>5
<1>7. h = [s \in SUBSET S |-> Step(h, s)]
  BY <1>6
<1> QED
  BY <1>7 DEF Folding

\* A finite set of numbers has a greatest member.
LEMMA Greatest ==
  ASSUME NEW S, IsFiniteSet(S), S \subseteq Int
  PROVE  \A s \in SUBSET S : s # {} => \E x \in s : \A y \in s : x >= y
<1> DEFINE G == {s \in SUBSET S : s # {} => \E x \in s : \A y \in s : x >= y}
<1>1. {} \in G
  OBVIOUS
<1>2. ASSUME NEW s \in SUBSET S, s # {} PROVE \E x \in s : s \ {x} \in G => s \in G
  <2>1. PICK x \in s : TRUE
    BY <1>2
  <2>2. ASSUME s \ {x} \in G PROVE s \in G
    <3>1. CASE s \ {x} = {}
      <4>1. \A y \in s : x >= y
        BY <3>1
      <4> QED  BY <4>1
    <3>2. CASE s \ {x} # {}
      <4>1. PICK y \in s \ {x} : \A z \in s \ {x} : y >= z
        BY <2>2, <3>2
      <4>2. x \in Int /\ \A z \in s : z \in Int
        OBVIOUS
      <4>3. CASE x >= y
        <5>1. \A z \in s : x >= z
          BY <4>1, <4>2, <4>3
        <5> QED  BY <5>1
      <4>4. CASE ~ (x >= y)
        <5>1. \A z \in s : y >= z
          BY <4>1, <4>2, <4>4
        <5> QED  BY <5>1
      <4> QED  BY <4>3, <4>4
    <3> QED  BY <3>1, <3>2
  <2> WITNESS x \in s
  <2> QED  BY <2>2
<1>3. SUBSET S \subseteq G
  <2> HIDE DEF G
  <2> QED  BY <1>1, <1>2, SubsetInduction
<1> QED
  BY <1>3

\* A set of four is finite.
LEMMA FourAreFinite ==
  ASSUME NEW a, NEW b, NEW c, NEW d
  PROVE  IsFiniteSet({a, b, c, d})
<1>1. IsFiniteSet({a}) /\ IsFiniteSet({b}) /\ IsFiniteSet({c}) /\ IsFiniteSet({d})
  BY FS_Singleton
<1>2. IsFiniteSet({a} \cup {b}) /\ IsFiniteSet({c} \cup {d})
  BY <1>1, FS_Union
<1>3. IsFiniteSet(({a} \cup {b}) \cup ({c} \cup {d}))
  BY <1>2, FS_Union
<1>4. ({a} \cup {b}) \cup ({c} \cup {d}) = {a, b, c, d}
  OBVIOUS
<1> QED
  BY <1>3, <1>4

\* An image of a finite set is finite, and no larger.
LEMMA ImageIsFinite ==
  ASSUME NEW A, IsFiniteSet(A), NEW g, NEW S, \A x \in S : \E a \in A : x = g[a]
  PROVE  IsFiniteSet(S) /\ Cardinality(S) <= Cardinality(A) /\ Cardinality(S) \in Nat
<1> DEFINE B == {a \in A : g[a] \in S}
           h == [a \in B |-> g[a]]
<1>1. h \in Surjection(B, S)
  BY DEF Surjection
<1>2. IsFiniteSet(B) /\ Cardinality(B) <= Cardinality(A)
  BY FS_Subset
<1> HIDE DEF B, h
<1>3. IsFiniteSet(S) /\ Cardinality(S) <= Cardinality(B)
  BY <1>1, <1>2, FS_Surjection
<1>4. Cardinality(S) \in Nat /\ Cardinality(B) \in Nat /\ Cardinality(A) \in Nat
  BY <1>2, <1>3, FS_CardinalityType
<1> QED
  BY <1>2, <1>3, <1>4

-----------------------------------------------------------------------------
(* Partitions *)

Parts(R) == {cs \in SUBSET SUBSET R : /\ {} \notin cs /\ UNION cs = R
                                      /\ \A C, D \in cs : C = D \/ C \cap D = {}}

Refines(cs, P) == \A C \in cs : \E D \in P : C \subseteq D

Joins(cs, p) == \E C \in cs : p[1] \in C /\ p[2] \in C

-----------------------------------------------------------------------------
(* Sorting *)

\* R gives every member of S those before it.
StrictOrder(S, R) ==
  /\ R \in [S -> SUBSET S]
  /\ \A x \in S : x \notin R[x]
  /\ \A x, y \in S : x # y => x \in R[y] \/ y \in R[x]
  /\ \A x, y, z \in S : x \in R[y] /\ y \in R[z] => x \in R[z]

\* s holds every member of S once, each before those it precedes.
SortsInto(S, R, s) ==
  /\ s \in [1..Cardinality(S) -> S]
  /\ \A x \in S : \E n \in 1..Cardinality(S) : s[n] = x
  /\ \A m, n \in 1..Cardinality(S) : m < n => s[m] \in R[s[n]] /\ s[m] # s[n]
  /\ \A n \in 1..Cardinality(S) : Cardinality(R[s[n]]) = n - 1

\* A member has less before it than any that it precedes.
LEMMA RanksIncrease ==
  ASSUME NEW S, IsFiniteSet(S), NEW R, StrictOrder(S, R)
  PROVE  /\ \A x \in S : Cardinality(R[x]) + 1 \in 1..Cardinality(S)
         /\ \A x, y \in S : x \in R[y] => Cardinality(R[x]) < Cardinality(R[y])
<1>1. ASSUME NEW x \in S
      PROVE  /\ R[x] \in SUBSET S /\ IsFiniteSet(R[x])
             /\ Cardinality(R[x]) \in Nat /\ Cardinality(R[x]) < Cardinality(S)
  <2>1. R[x] \in SUBSET S /\ R[x] # S
    BY DEF StrictOrder
  <2>2. IsFiniteSet(R[x]) /\ Cardinality(R[x]) <= Cardinality(S)
        /\ Cardinality(S) # Cardinality(R[x])
    BY <2>1, FS_Subset
  <2>3. Cardinality(R[x]) \in Nat /\ Cardinality(S) \in Nat
    BY <2>2, FS_CardinalityType
  <2> QED  BY <2>1, <2>2, <2>3
<1>2. ASSUME NEW x \in S, NEW y \in S, x \in R[y]
      PROVE  Cardinality(R[x]) < Cardinality(R[y])
  <2>1. R[x] \in SUBSET R[y] /\ R[x] # R[y]
    BY <1>2 DEF StrictOrder
  <2>2. Cardinality(R[x]) <= Cardinality(R[y])
        /\ Cardinality(R[y]) # Cardinality(R[x])
    BY <1>1, <2>1, FS_Subset
  <2> QED  BY <1>1, <2>2
<1> QED
  <2>1. Cardinality(S) \in Nat
    BY FS_CardinalityType
  <2> QED  BY <1>1, <1>2, <2>1

\* Every rank below the number of members is taken, and what holds a member of every
\* rank is sorted.
LEMMA RanksSort ==
  ASSUME NEW S, IsFiniteSet(S), NEW R, StrictOrder(S, R)
  PROVE  /\ \A n \in 1..Cardinality(S) : \E x \in S : Cardinality(R[x]) = n - 1
         /\ \A s : /\ s = [n \in 1..Cardinality(S) |-> s[n]]
                   /\ \A n \in 1..Cardinality(S) : s[n] \in S /\ Cardinality(R[s[n]]) = n - 1
                   => SortsInto(S, R, s)
<1> DEFINE rank(x) == Cardinality(R[x])
           N == Cardinality(S)
           f == [x \in S |-> rank(x) + 1]
<1>1. N \in Nat /\ \A x \in S : rank(x) + 1 \in 1..N /\ rank(x) \in Nat
  <2>1. ASSUME NEW x \in S PROVE rank(x) + 1 \in 1..N /\ rank(x) \in Nat
    <3>1. R[x] \in SUBSET S
      BY DEF StrictOrder
    <3>2. IsFiniteSet(R[x])
      BY ONLY <3>1, IsFiniteSet(S), FS_Subset
    <3> QED  BY <3>2, RanksIncrease, FS_CardinalityType
  <2> QED  BY <2>1, FS_CardinalityType
<1>2. \A x, y \in S : x # y => rank(x) # rank(y)
  <2>1. ASSUME NEW x \in S, NEW y \in S, x # y PROVE rank(x) < rank(y) \/ rank(y) < rank(x)
    BY ONLY <2>1, IsFiniteSet(S), StrictOrder(S, R), RanksIncrease DEF StrictOrder
  <2>2. \A x \in S : rank(x) \in Nat
    BY <1>1
  <2> HIDE DEF rank
  <2> QED  BY <2>1, <2>2
<1> HIDE DEF N
<1>3. f \in Injection(S, 1..N)
  BY <1>1, <1>2 DEF Injection, IsInjective
<1>4. IsFiniteSet(1..N) /\ Cardinality(1..N) = N
  BY <1>1, FS_Interval
<1>5. f \in Surjection(S, 1..N)
  BY <1>3, <1>4, FS_Injection DEF N
<1>6. \A n \in 1..N : \E x \in S : rank(x) = n - 1
  <2>1. ASSUME NEW n \in 1..N PROVE \E x \in S : rank(x) = n - 1
    <3>1. PICK x \in S : f[x] = n
      BY <1>5 DEF Surjection
    <3>2. rank(x) + 1 = n
      BY <3>1
    <3> HIDE DEF rank
    <3> QED  BY <1>1, <3>2
  <2> QED  BY <2>1
<1> SUFFICES ASSUME NEW s, s = [n \in 1..N |-> s[n]], \A n \in 1..N : s[n] \in S /\ rank(s[n]) = n - 1
             PROVE  SortsInto(S, R, s)
  BY <1>6 DEF N
<1>7. \A n \in 1..N : s[n] \in S /\ rank(s[n]) = n - 1
  OBVIOUS
<1>8. s \in [1..N -> S]
  BY <1>7
<1>9. ASSUME NEW x \in S PROVE \E n \in 1..N : s[n] = x
  <2>1. rank(x) + 1 \in 1..N /\ rank(s[rank(x) + 1]) = rank(x) /\ s[rank(x) + 1] \in S
    <3>1. rank(x) + 1 \in 1..N /\ rank(x) \in Nat
      BY <1>1
    <3>2. \A n \in 1..N : s[n] \in S /\ rank(s[n]) = n - 1
      BY <1>7
    <3> HIDE DEF rank
    <3>3. \A k \in Nat : k + 1 - 1 = k
      OBVIOUS
    <3> QED  BY ONLY <3>1, <3>2, <3>3
  <2>2. s[rank(x) + 1] = x
    BY <1>2, <2>1
  <2> QED  BY <2>1, <2>2
<1>10. ASSUME NEW m \in 1..N, NEW n \in 1..N, m < n PROVE s[m] \in R[s[n]] /\ s[m] # s[n]
  <2>1. s[m] \in S /\ s[n] \in S /\ rank(s[m]) = m - 1 /\ rank(s[n]) = n - 1
    BY <1>7
  <2>2. s[m] # s[n]
    <3> HIDE DEF rank
    <3> QED  BY <2>1, <1>10, <1>1
  <2>3. s[n] \in R[s[m]] => rank(s[n]) < rank(s[m])
    BY <2>1, RanksIncrease
  <2>4. ~ (rank(s[n]) < rank(s[m]))
    <3> HIDE DEF rank
    <3> QED  BY <2>1, <1>10, <1>1
  <2> QED  BY <2>1, <2>2, <2>3, <2>4 DEF StrictOrder
<1> QED
  BY <1>7, <1>8, <1>9, <1>10 DEF SortsInto, N

-----------------------------------------------------------------------------
(* Sums and folds over a sequence *)

LastOf(s) == CHOOSE x \in s : \A y \in s : x >= y

\* What a fold over a sequence picks, and what it leaves.
LEMMA LastOfInterval ==
  /\ \A n \in Nat : \A s \in SUBSET (1..n) : s # {} => LastOf(s) \in s
  /\ \A k \in Nat : k # 0 => LastOf(1..k) = k /\ (1..k) \ {k} = 1..(k - 1)
<1>1. ASSUME NEW n \in Nat, NEW s \in SUBSET (1..n), s # {} PROVE LastOf(s) \in s
  <2>1. IsFiniteSet(1..n) /\ 1..n \subseteq Int
    BY FS_Interval
  <2>2. \E x \in s : \A y \in s : x >= y
    BY <1>1, <2>1, Greatest
  <2> QED  BY <2>2 DEF LastOf
<1>2. ASSUME NEW k \in Nat, k # 0 PROVE LastOf(1..k) = k /\ (1..k) \ {k} = 1..(k - 1)
  <2>1. k \in 1..k /\ \A y \in 1..k : k >= y
    BY <1>2
  <2>2. LastOf(1..k) \in 1..k /\ \A y \in 1..k : LastOf(1..k) >= y
    BY <2>1 DEF LastOf
  <2>3. LastOf(1..k) = k
    BY <2>1, <2>2
  <2>4. (1..k) \ {k} = 1..(k - 1)
    BY <1>2
  <2> QED  BY <2>3, <2>4
<1> QED
  BY <1>1, <1>2

\* h folds the sets of numbers up to n with F, from base, the greatest last.
FoldsUp(h, n, D, base, F) ==
  /\ h \in [SUBSET (1..n) -> D]
  /\ h[{}] = base
  /\ \A s \in SUBSET (1..n) : s # {} => h[s] = F[<<LastOf(s), h[s \ {LastOf(s)}]>>]

\* A fold over n numbers exists.
LEMMA IndexFold ==
  ASSUME NEW n \in Nat, NEW D, NEW base \in D, NEW F \in [(1..n) \X D -> D]
  PROVE  \E h : FoldsUp(h, n, D, base, F)
<1> DEFINE ch == [s \in SUBSET (1..n) |-> LastOf(s)]
<1>1. IsFiniteSet(1..n)
  BY FS_Interval
<1>2. Picks(ch, 1..n)
  BY LastOfInterval DEF Picks
<1>3. \A s \in SUBSET (1..n) : ch[s] = LastOf(s)
  OBVIOUS
<1> HIDE DEF ch
<1>4. PICK h \in [SUBSET (1..n) -> D] : Folding(h, 1..n, ch, base, F)
  BY <1>1, <1>2, FoldExists
<1>5. \A s \in SUBSET (1..n) : h[s] = IF s = {} THEN base ELSE F[<<ch[s], h[s \ {ch[s]}]>>]
  BY <1>4, ZenonT(30) DEF Folding
<1> QED
  BY <1>3, <1>4, <1>5, ZenonT(30) DEF FoldsUp

AnyOf(s) == CHOOSE x \in s : TRUE

\* f adds up the values of g, one member after the other.
Sums(f, S, g) == f = [s \in SUBSET S |-> IF s = {} THEN 0 ELSE g[AnyOf(s)] + f[s \ {AnyOf(s)}]]

\* There is a sum ...
LEMMA SumExists ==
  ASSUME NEW S, IsFiniteSet(S), NEW g \in [S -> Int]
  PROVE  \E f \in [SUBSET S -> Int] : Sums(f, S, g)
<1> DEFINE ch == [s \in SUBSET S |-> AnyOf(s)]
           F == [x \in S \X Int |-> g[x[1]] + x[2]]
<1>1. Picks(ch, S)
  BY DEF Picks, AnyOf
<1>2. F \in [S \X Int -> Int]
  OBVIOUS
<1>3. \A x \in S, m \in Int : F[<<x, m>>] = g[x] + m
  OBVIOUS
<1>4. \A s \in SUBSET S : ch[s] = AnyOf(s) /\ (s # {} => ch[s] \in S)
  BY <1>1 DEF Picks
<1> HIDE DEF F, ch
<1>5. PICK h \in [SUBSET S -> Int] : Folding(h, S, ch, 0, F)
  <2> DEFINE D == Int
  <2>1. F \in [S \X D -> D] /\ 0 \in D
    BY <1>2
  <2> HIDE DEF D
  <2>2. \E h \in [SUBSET S -> D] : Folding(h, S, ch, 0, F)
    BY <1>1, <2>1, FoldExists
  <2> QED  BY <2>2 DEF D
<1>6. \A s \in SUBSET S : h[s] = IF s = {} THEN 0 ELSE F[<<ch[s], h[s \ {ch[s]}]>>]
  BY <1>5 DEF Folding
<1>7. ASSUME NEW s \in SUBSET S PROVE h[s] = IF s = {} THEN 0 ELSE g[AnyOf(s)] + h[s \ {AnyOf(s)}]
  <2>1. h[s \ {ch[s]}] \in Int
    BY <1>5
  <2> QED  BY <1>3, <1>4, <1>6, <2>1
<1>8. h = [s \in SUBSET S |-> h[s]]
  BY <1>5
<1> QED
  BY <1>7, <1>8 DEF Sums

\* ... a sum of integers is an integer, and at most as much as its parts together ...
LEMMA SumIsBounded ==
  ASSUME NEW S, IsFiniteSet(S), NEW g \in [S -> Int], NEW f, Sums(f, S, g)
  PROVE  /\ f[S] \in Int
         /\ \A m \in Nat : (\A x \in S : g[x] <= m) => f[S] <= m * Cardinality(S)
<1> DEFINE Small(s) == \A m \in Nat : (\A x \in S : g[x] <= m) => f[s] <= m * Cardinality(s)
           G == {s \in SUBSET S : f[s] \in Int /\ Small(s)}
<1>1. \A s \in SUBSET S : f[s] = IF s = {} THEN 0 ELSE g[AnyOf(s)] + f[s \ {AnyOf(s)}]
  BY DEF Sums
<1>2. {} \in G
  BY <1>1, FS_EmptySet
<1>3. ASSUME NEW s \in SUBSET S, s # {} PROVE \E x \in s : s \ {x} \in G => s \in G
  <2> DEFINE x == AnyOf(s)
             r == s \ {x}
  <2>1. x \in s /\ x \in S
    BY <1>3 DEF AnyOf
  <2>2. f[s] = g[x] + f[r] /\ g[x] \in Int
    BY <1>1, <1>3, <2>1
  <2>3. IsFiniteSet(s) /\ Cardinality(r) = Cardinality(s) - 1 /\ Cardinality(s) \in Nat
    <3>1. IsFiniteSet(s)
      BY FS_Subset
    <3>2. IsFiniteSet(r) /\ Cardinality(r) = Cardinality(s) - 1
      <4> HIDE DEF x
      <4> QED  BY <2>1, <3>1, FS_RemoveElement
    <3> QED  BY <3>1, <3>2, FS_CardinalityType
  <2> HIDE DEF x
  <2>4. ASSUME r \in G PROVE Small(s)
    <3> SUFFICES ASSUME NEW m \in Nat, \A y \in S : g[y] <= m PROVE f[s] <= m * Cardinality(s)
      OBVIOUS
    <3>1. f[r] \in Int /\ f[r] <= m * Cardinality(r)
      BY <2>4
    <3>2. g[x] <= m
      BY <2>1
    <3>3. m * Cardinality(r) = m * Cardinality(s) - m
      BY <2>3
    <3> HIDE DEF r
    <3>4. m * Cardinality(s) \in Int
      BY <2>3
    <3> QED  BY <2>2, <3>1, <3>2, <3>3, <3>4
  <2>5. r \in G => f[s] \in Int
    BY <2>2
  <2> HIDE DEF Small
  <2> QED  BY <2>1, <2>4, <2>5
<1>4. SUBSET S \subseteq G
  <2> HIDE DEF G
  <2> QED  BY <1>2, <1>3, SubsetInduction
<1> QED
  BY <1>4

\* ... and a sum of numbers is a number.
LEMMA SumIsNatural ==
  ASSUME NEW S, IsFiniteSet(S), NEW g \in [S -> Nat], NEW f, Sums(f, S, g)
  PROVE  f[S] \in Nat
<1> DEFINE G == {s \in SUBSET S : f[s] \in Nat}
<1>1. \A s \in SUBSET S : f[s] = IF s = {} THEN 0 ELSE g[AnyOf(s)] + f[s \ {AnyOf(s)}]
  BY DEF Sums
<1>2. {} \in G
  BY <1>1
<1>3. ASSUME NEW s \in SUBSET S, s # {} PROVE \E x \in s : s \ {x} \in G => s \in G
  <2>1. AnyOf(s) \in s
    BY <1>3 DEF AnyOf
  <2>2. f[s] = g[AnyOf(s)] + f[s \ {AnyOf(s)}] /\ g[AnyOf(s)] \in Nat
    BY <1>1, <1>3, <2>1
  <2> QED  BY <2>1, <2>2
<1>4. SUBSET S \subseteq G
  <2> HIDE DEF G
  <2> QED  BY <1>2, <1>3, SubsetInduction
<1> QED
  BY <1>4

-----------------------------------------------------------------------------
(* Entity resolution *)

HasNumbers(r) == r.id \in Nat /\ \A f \in DOMAIN r.fields : r.fields[f] \in Nat

\* The records of a batch, none of them with a metadata field.
RecordSeq(A) ==
  /\ A \in Seq(Range(A))
  /\ \A r \in Range(A) : HasNumbers(r) /\ DOMAIN r.fields \cap Resolving!Forbidden = {}

\* A record of a row has an id of its own or that of its source, and the fields that
\* are no metadata.
LEMMA EntitiesAreRecords ==
  ASSUME NEW b \in Batches
  PROVE  RecordSeq(Resolving!Entities(b)) /\ Len(Resolving!Entities(b)) = Len(b)
<1> DEFINE A == Resolving!Entities(b)
<1>1. b \in Seq(Resolving!Range(b)) /\ \A row \in Resolving!Range(b) : row.source \in Nat /\ \A f \in DOMAIN row.values : row.values[f] \in Nat
  BY PipelineAssumption DEF Resolving!BatchAssumption
<1>2. Len(b) \in Nat /\ DOMAIN b = 1..Len(b)
  BY <1>1
<1>3. A = [n \in 1..Len(b) |-> Resolving!Entity(b[n], n)]
  BY <1>2 DEF Resolving!Entities
<1>4. ASSUME NEW n \in 1..Len(b)
      PROVE  HasNumbers(A[n]) /\ DOMAIN A[n].fields \cap Resolving!Forbidden = {}
  <2>1. b[n] \in Resolving!Range(b)
    BY <1>2 DEF Resolving!Range
  <2>2. b[n].source \in Nat /\ \A f \in DOMAIN b[n].values : b[n].values[f] \in Nat
    BY <1>1, <2>1
  <2>3. /\ A[n].id = IF b[n].source # 0 THEN b[n].source ELSE 100 + n
        /\ A[n].fields = [f \in DOMAIN b[n].values \ Resolving!Forbidden |-> b[n].values[f]]
    BY <1>3 DEF Resolving!Entity, Resolving!Nothing
  <2> QED  BY <2>2, <2>3 DEF HasNumbers
<1>5. \A r \in Range(A) : HasNumbers(r) /\ DOMAIN r.fields \cap Resolving!Forbidden = {}
  BY <1>3, <1>4 DEF Range
<1>6. A \in Seq(Range(A)) /\ Len(A) = Len(b)
  <2>1. \A n \in 1..Len(b) : A[n] \in Range(A)
    BY <1>3 DEF Range
  <2>2. A = [n \in 1..Len(b) |-> A[n]]
    BY <1>3
  <2> HIDE DEF A
  <2> QED  BY <1>2, <2>1, <2>2
<1> QED
  BY <1>5, <1>6 DEF RecordSeq

\* The counts of the stage are those of the library: the same definition.
LEMMA ResolvingCounts == \A S : Resolving!Cardinality(S) = Cardinality(S)
BY DEF Resolving!Cardinality, Cardinality, Resolving!IsFiniteSet, IsFiniteSet

\* What comes before a position of A: smaller ids, and those of the same id that came
\* earlier.
EarlierIn(A) == [m \in DOMAIN A |->
                   {n \in DOMAIN A : A[n].id < A[m].id \/ (A[n].id = A[m].id /\ n < m)}]

\* The records sorted: every position of A has one in the result, ids never decrease,
\* and a position of the result has as many before it as its number says.
SortedFrom(A, o, s) ==
  /\ SortsInto(DOMAIN A, EarlierIn(A), o)
  /\ Cardinality(DOMAIN A) = Len(A)
  /\ s = [n \in 1..Len(A) |-> A[o[n]]]

\* sorted(records, key=id) is such an order.
LEMMA SortedIs ==
  ASSUME NEW A, RecordSeq(A)
  PROVE  \E o : SortedFrom(A, o, Resolving!Sorted(A))
<1> DEFINE S == DOMAIN A
           R == EarlierIn(A)
           N == Cardinality(S)
           e(n) == CHOOSE x \in S :
                     Resolving!Cardinality({y \in S : A[y].id < A[x].id \/ (A[y].id = A[x].id /\ y < x)}) = n - 1
           o == [n \in 1..Resolving!Cardinality(S) |-> e(n)]
<1>1. Len(A) \in Nat /\ S = 1..Len(A) /\ \A m \in S : A[m].id \in Nat
  BY DEF RecordSeq, HasNumbers, Range
<1>2. IsFiniteSet(S) /\ N = Len(A)
  BY <1>1, FS_Interval
<1>3. StrictOrder(S, R)
  <2>1. ASSUME NEW x \in S, NEW y \in S
        PROVE  x \in R[y] <=> (A[x].id < A[y].id \/ (A[x].id = A[y].id /\ x < y))
    BY DEF EarlierIn
  <2>2. \A x \in S : x \in Nat /\ A[x].id \in Nat
    BY <1>1
  <2>3. R \in [S -> SUBSET S]
    BY DEF EarlierIn
  <2> HIDE DEF S, R
  <2>4. \A x \in S : x \notin R[x]
    BY <2>1, <2>2
  <2>5. \A x, y \in S : x # y => x \in R[y] \/ y \in R[x]
    BY <2>1, <2>2
  <2>6. \A x, y, z \in S : x \in R[y] /\ y \in R[z] => x \in R[z]
    BY <2>1, <2>2
  <2> QED  BY <2>3, <2>4, <2>5, <2>6 DEF StrictOrder
<1>4. \A x \in S : {y \in S : A[y].id < A[x].id \/ (A[y].id = A[x].id /\ y < x)} = R[x]
  BY ONLY SMTT(20) DEF EarlierIn
<1>5. ASSUME NEW n \in 1..N PROVE o[n] \in S /\ Cardinality(R[o[n]]) = n - 1
  <2>1. PICK x \in S : Cardinality(R[x]) = n - 1
    <3> HIDE DEF S, R
    <3> QED  BY <1>2, <1>3, RanksSort
  <2> DEFINE before(z) == {y \in S : A[y].id < A[z].id \/ (A[y].id = A[z].id /\ y < z)}
  <2>2. o[n] = CHOOSE z \in S : Resolving!Cardinality(before(z)) = n - 1
    BY ResolvingCounts
  <2>3. \A z \in S : before(z) = R[z]
    BY <1>4
  <2> HIDE DEF before, o, S, R
  <2>4. o[n] \in S /\ Resolving!Cardinality(before(o[n])) = n - 1
    BY <2>1, <2>2, <2>3, ResolvingCounts
  <2> QED  BY <2>3, <2>4, ResolvingCounts
<1>6. SortsInto(S, R, o)
  <2>1. o = [n \in 1..N |-> o[n]]
    <3> HIDE DEF e
    <3> QED  BY ResolvingCounts
  <2> HIDE DEF S, R, o
  <2> QED  BY <1>2, <1>3, <1>5, <2>1, RanksSort
<1>7. Resolving!Sorted(A) = [n \in DOMAIN o |-> A[o[n]]]
  BY DEF Resolving!Sorted, Resolving!SortedBy
<1>8. DOMAIN o = 1..Len(A)
  BY <1>2, ResolvingCounts
<1> HIDE DEF o
<1> QED
  BY <1>2, <1>6, <1>7, <1>8 DEF SortedFrom

\* The ranges of the stage are those of the library.
LEMMA ResolvingRange == \A f : Resolving!Range(f) = Range(f)
BY DEF Resolving!Range, Range

\* Sorting loses no record and adds none, and ids never decrease.
LEMMA SortedHas ==
  ASSUME NEW A, RecordSeq(A), NEW s, s = Resolving!Sorted(A)
  PROVE  /\ Len(A) \in Nat /\ DOMAIN A = 1..Len(A) /\ DOMAIN s = 1..Len(A) /\ Range(s) = Range(A)
         /\ \A n \in 1..Len(A) : s[n] \in Range(A) /\ HasNumbers(s[n])
         /\ \A m, n \in 1..Len(A) : m < n => s[m].id <= s[n].id
<1>1. PICK o : SortedFrom(A, o, s)
  BY SortedIs
<1> DEFINE S == DOMAIN A
<1>2. Len(A) \in Nat /\ S = 1..Len(A) /\ \A m \in S : A[m] \in Range(A)
  BY DEF RecordSeq, Range
<1>3. /\ o \in [1..Len(A) -> S] /\ \A x \in S : \E n \in 1..Len(A) : o[n] = x
      /\ \A m, n \in 1..Len(A) : m < n => o[m] \in EarlierIn(A)[o[n]]
      /\ s = [n \in 1..Len(A) |-> A[o[n]]]
  BY <1>1 DEF SortedFrom, SortsInto
<1>4. \A n \in 1..Len(A) : s[n] \in Range(A) /\ HasNumbers(s[n]) /\ s[n] = A[o[n]] /\ o[n] \in S
  BY <1>2, <1>3 DEF RecordSeq
<1>5. Range(s) = Range(A)
  <2>1. \A r \in Range(s) : r \in Range(A)
    BY <1>3, <1>4 DEF Range
  <2>2. ASSUME NEW r \in Range(A) PROVE r \in Range(s)
    <3>1. PICK m \in S : A[m] = r
      BY DEF Range
    <3>2. PICK n \in 1..Len(A) : o[n] = m
      BY <1>3
    <3>3. s[n] = r /\ n \in DOMAIN s
      BY <1>3, <3>1, <3>2
    <3> QED  BY <3>3 DEF Range
  <2> QED  BY <2>1, <2>2
<1>6. ASSUME NEW m \in 1..Len(A), NEW n \in 1..Len(A), m < n PROVE s[m].id <= s[n].id
  <2>1. o[m] \in EarlierIn(A)[o[n]] /\ o[n] \in DOMAIN A
    BY <1>3, <1>4, <1>6
  <2>2. A[o[m]].id < A[o[n]].id \/ A[o[m]].id = A[o[n]].id
    BY ONLY <2>1 DEF EarlierIn
  <2>3. s[m].id \in Nat /\ s[n].id \in Nat /\ s[m] = A[o[m]] /\ s[n] = A[o[n]]
    BY <1>4 DEF HasNumbers
  <2> QED  BY ONLY <2>2, <2>3
<1>7. DOMAIN s = 1..Len(A)
  BY <1>3
<1> QED
  BY <1>2, <1>4, <1>5, <1>6, <1>7

IdsOf(A) == {r.id : r \in Range(A)}

\* entities_by_id: the record that an id stands for.
ById(A) ==
  LET s == Resolving!Sorted(A)
  IN [id \in {r.id : r \in Resolving!Range(s)} |-> s[Resolving!Max({i \in DOMAIN s : s[i].id = id})]]

\* Every id of a batch stands for a record that has it.
LEMMA ByIdIs ==
  ASSUME NEW A, RecordSeq(A)
  PROVE  /\ DOMAIN ById(A) = IdsOf(A) /\ IsFiniteSet(IdsOf(A)) /\ IdsOf(A) \subseteq Nat
         /\ \A id \in IdsOf(A) : /\ ById(A)[id] \in Range(A) /\ HasNumbers(ById(A)[id])
                                 /\ ById(A)[id].id = id
<1> DEFINE s == Resolving!Sorted(A)
<1>1. /\ Len(A) \in Nat /\ DOMAIN s = 1..Len(A) /\ Range(s) = Range(A)
      /\ \A n \in 1..Len(A) : s[n] \in Range(A) /\ HasNumbers(s[n])
  BY SortedHas
<1> HIDE DEF s
<1>2. ById(A) = [id \in IdsOf(A) |-> s[Resolving!Max({i \in DOMAIN s : s[i].id = id})]]
  BY <1>1, ResolvingRange DEF ById, IdsOf, s
<1>3. IsFiniteSet(IdsOf(A))
  <2> DEFINE f == [n \in 1..Len(A) |-> s[n].id]
  <2>1. f \in Surjection(1..Len(A), IdsOf(A))
    <3>1. \A n \in 1..Len(A) : f[n] \in IdsOf(A)
      BY <1>1 DEF IdsOf
    <3>2. ASSUME NEW i \in IdsOf(A) PROVE \E n \in 1..Len(A) : f[n] = i
      <4>1. PICK r \in Range(s) : i = r.id
        BY <1>1 DEF IdsOf
      <4>2. PICK n \in 1..Len(A) : s[n] = r
        BY <1>1 DEF Range
      <4> QED  BY <4>1, <4>2
    <3> QED  BY <3>1, <3>2 DEF Surjection
  <2>2. IsFiniteSet(1..Len(A))
    BY <1>1, FS_Interval
  <2> HIDE DEF f
  <2> QED  BY <2>1, <2>2, FS_Surjection
<1>4. ASSUME NEW id \in IdsOf(A)
      PROVE  ById(A)[id] \in Range(A) /\ HasNumbers(ById(A)[id]) /\ ById(A)[id].id = id
  <2> DEFINE T == {i \in DOMAIN s : s[i].id = id}
  <2>1. PICK r \in Range(s) : id = r.id
    BY <1>1 DEF IdsOf
  <2>2. T # {}
    BY <2>1 DEF Range
  <2>3. Resolving!Max(T) \in T
    <3>1. IsFiniteSet(1..Len(A)) /\ 1..Len(A) \subseteq Int /\ T \in SUBSET (1..Len(A))
      BY <1>1, FS_Interval
    <3> HIDE DEF T
    <3>2. \E x \in T : \A y \in T : x >= y
      BY <2>2, <3>1, Greatest
    <3> QED  BY <3>2 DEF Resolving!Max
  <2>4. ById(A)[id] = s[Resolving!Max(T)]
    BY <1>2
  <2> QED  BY <1>1, <2>3, <2>4
<1>5. IdsOf(A) \subseteq Nat
  BY DEF IdsOf, RecordSeq, HasNumbers
<1> QED
  BY <1>2, <1>3, <1>4, <1>5

\* The values of a record are numbers, and so is how alike two are.
LEMMA ValuesAreNumbers ==
  ASSUME NEW l, HasNumbers(l), NEW r, HasNumbers(r), NEW f
  PROVE  /\ Resolving!Get(l, f) \in Nat /\ Resolving!Normal(l, f) \in Nat
         /\ Resolving!Similarity(Resolving!Get(l, f), Resolving!Get(r, f)) \in Nat
<1>1. Resolving!Get(l, f) \in Nat /\ Resolving!Get(r, f) \in Nat
  BY DEF HasNumbers, Resolving!Get, Resolving!Nothing
<1>2. Resolving!Normal(l, f) \in Nat
  BY <1>1 DEF Resolving!Normal, Resolving!Nothing
<1>3. \A v, w : Resolving!Similarity(v, w) \in Nat
  BY DEF Resolving!Similarity
<1> QED
  BY <1>1, <1>2, <1>3

Fuzzy == {"first_name", "last_name", "company", "address"}

\* The evidence for a pair and the conflicts against it are finitely many, and each
\* weighs a number.
LEMMA EvidenceIsFinite ==
  ASSUME NEW l, HasNumbers(l), NEW r, HasNumbers(r)
  PROVE  /\ IsFiniteSet(Resolving!Evidence(l, r)) /\ IsFiniteSet(Resolving!Conflicts(l, r))
         /\ \A e \in Resolving!Evidence(l, r) : e.contribution \in Nat
         /\ \A c \in Resolving!Conflicts(l, r) : c.penalty \in Nat
<1> DEFINE X(f) == [kind |-> "exact", field |-> f, contribution |-> 100 * Resolving!ExactWeight[f]]
           Y(f) == [kind |-> "similar", field |-> f,
                    contribution |-> Resolving!SimilarWeight[f]
                                       * Resolving!Similarity(Resolving!Get(l, f), Resolving!Get(r, f))]
           E == {f \in Resolving!IdentityFields : Resolving!Normal(l, f) # Resolving!Nothing
                                                  /\ Resolving!Normal(l, f) = Resolving!Normal(r, f)}
           M == {f \in DOMAIN Resolving!SimilarWeight :
                   Resolving!Similarity(Resolving!Get(l, f), Resolving!Get(r, f)) >= Resolving!FuzzyMinimum}
<1>1. Resolving!Evidence(l, r) = {X(f) : f \in E} \cup {Y(f) : f \in M}
  BY DEF Resolving!Evidence, Resolving!ExactEvidence, Resolving!SimilarEvidence
<1>2. IsFiniteSet(Resolving!IdentityFields)
  <2>1. Resolving!IdentityFields = {"first_name", "last_name", "email", "phone"} \cup {"company", "city", "district", "address"}
    BY DEF Resolving!IdentityFields
  <2> QED  BY <2>1, FourAreFinite, FS_Union
<1>3. DOMAIN Resolving!SimilarWeight = Fuzzy /\ IsFiniteSet(Fuzzy)
  BY FourAreFinite DEF Resolving!SimilarWeight, Fuzzy
<1>4. IsFiniteSet(E) /\ IsFiniteSet(M)
  <2>1. E \subseteq Resolving!IdentityFields /\ M \subseteq Fuzzy
    BY <1>3
  <2> HIDE DEF E, M
  <2> QED  BY <1>2, <1>3, <2>1, FS_Subset
<1>5. IsFiniteSet({X(f) : f \in E}) /\ IsFiniteSet({Y(f) : f \in M})
  <2> HIDE DEF X, Y, E, M
  <2> DEFINE g == [f \in E |-> X(f)]
             h == [f \in M |-> Y(f)]
  <2>1. {X(f) : f \in E} = {g[f] : f \in E} /\ {Y(f) : f \in M} = {h[f] : f \in M}
    OBVIOUS
  <2>2. IsFiniteSet({g[f] : f \in E}) /\ IsFiniteSet({h[f] : f \in M})
    <3>1. g \in Surjection(E, {g[f] : f \in E}) /\ h \in Surjection(M, {h[f] : f \in M})
      BY DEF Surjection
    <3> HIDE DEF g, h
    <3> QED  BY <1>4, <3>1, FS_Surjection
  <2> QED  BY <2>1, <2>2
<1>6. IsFiniteSet(Resolving!Evidence(l, r))
  <2> HIDE DEF X, Y, E, M
  <2> QED  BY <1>1, <1>5, FS_Union
<1>7. ASSUME NEW e \in Resolving!Evidence(l, r) PROVE e.contribution \in Nat
  <2>1. CASE \E f \in E : e = X(f)
    <3>1. PICK f \in E : e = X(f)
      BY <2>1
    <3>2. Resolving!ExactWeight[f] \in Nat
      BY DEF Resolving!ExactWeight, Resolving!IdentityFields
    <3>3. e.contribution = 100 * Resolving!ExactWeight[f]
      BY <3>1
    <3> QED  BY <3>2, <3>3
  <2>2. CASE \E f \in M : e = Y(f)
    <3>1. PICK f \in M : e = Y(f)
      BY <2>2
    <3>2. f \in Fuzzy
      BY <1>3
    <3>3. Resolving!SimilarWeight[f] \in Nat
      BY <3>2 DEF Resolving!SimilarWeight, Fuzzy
    <3>4. Resolving!Similarity(Resolving!Get(l, f), Resolving!Get(r, f)) \in Nat
      BY ValuesAreNumbers
    <3>5. e.contribution = Resolving!SimilarWeight[f]
                             * Resolving!Similarity(Resolving!Get(l, f), Resolving!Get(r, f))
      BY <3>1
    <3> QED  BY <3>3, <3>4, <3>5
  <2> HIDE DEF X, Y, E, M
  <2> QED  BY <1>1, <2>1, <2>2
<1> DEFINE Z(f, n) == [field |-> f, penalty |-> n]
           C1 == {f \in Resolving!Strong : Resolving!Differ(l, r, f)}
           C2 == {f \in {"company"} : /\ Resolving!Differ(l, r, f)
                                      /\ Resolving!Similarity(Resolving!Get(l, f), Resolving!Get(r, f)) < Resolving!CompanyTolerance}
           C3 == {f \in {"city"} : Resolving!Differ(l, r, f)}
<1>8. Resolving!Conflicts(l, r) = {Z(f, 5500) : f \in C1} \cup {Z(f, 2000) : f \in C2} \cup {Z(f, 1500) : f \in C3}
  BY DEF Resolving!Conflicts
<1>9. Resolving!Conflicts(l, r) \subseteq {Z("email", 5500), Z("phone", 5500), Z("company", 2000), Z("city", 1500)}
  <2>1. C1 \subseteq {"email", "phone"} /\ C2 \subseteq {"company"} /\ C3 \subseteq {"city"}
    BY DEF Resolving!Strong
  <2> HIDE DEF C1, C2, C3, Z
  <2> QED  BY <1>8, <2>1
<1>10. IsFiniteSet(Resolving!Conflicts(l, r))
  <2> DEFINE z1 == Z("email", 5500)
             z2 == Z("phone", 5500)
             z3 == Z("company", 2000)
             z4 == Z("city", 1500)
             four == {z1, z2, z3, z4}
  <2>1. IsFiniteSet(four)
    <3> HIDE DEF z1, z2, z3, z4
    <3> QED  BY FourAreFinite
  <2>2. Resolving!Conflicts(l, r) \subseteq four
    <3> HIDE DEF Z
    <3> QED  BY <1>9
  <2> HIDE DEF four
  <2> QED  BY <2>1, <2>2, FS_Subset
<1>11. \A c \in Resolving!Conflicts(l, r) : c.penalty \in Nat
  <2> SUFFICES ASSUME NEW c \in Resolving!Conflicts(l, r) PROVE c.penalty \in Nat
    OBVIOUS
  <2>1. \A f, n : Z(f, n).penalty = n
    OBVIOUS
  <2> HIDE DEF Z
  <2>2. c = Z("email", 5500) \/ c = Z("phone", 5500) \/ c = Z("company", 2000) \/ c = Z("city", 1500)
    BY <1>9
  <2>3. c.penalty = 5500 \/ c.penalty = 2000 \/ c.penalty = 1500
    BY ONLY <2>1, <2>2
  <2> QED  BY ONLY <2>3
<1> QED
  BY <1>6, <1>7, <1>10, <1>11

\* The scores a pair may have.

Scores == 0..Resolving!MaxScore

\* A score is a number from 0 to MaxScore.
LEMMA ScoreIsBounded ==
  ASSUME NEW l, HasNumbers(l), NEW r, HasNumbers(r)
  PROVE  Resolving!Score(Resolving!Evidence(l, r), Resolving!Conflicts(l, r)) \in Scores
<1> DEFINE E == Resolving!Evidence(l, r)
           C == Resolving!Conflicts(l, r)
           BodyE(h) == [s \in SUBSET E |-> IF s = {} THEN 0 ELSE (CHOOSE x \in s : TRUE).contribution + h[s \ {CHOOSE x \in s : TRUE}]]
           BodyC(h) == [s \in SUBSET C |-> IF s = {} THEN 0 ELSE (CHOOSE x \in s : TRUE).penalty + h[s \ {CHOOSE x \in s : TRUE}]]
           sumE == CHOOSE h : h = BodyE(h)
           sumC == CHOOSE h : h = BodyC(h)
           g == [e \in E |-> e.contribution]
           k == [c \in C |-> c.penalty]
<1>1. Resolving!Score(E, C) = IF sumE[E] < sumC[C] THEN 0 ELSE Resolving!Min({Resolving!MaxScore, sumE[E] - sumC[C]})
  BY DEF Resolving!Score, Resolving!MapThenSumSet, Resolving!MapThenFoldSet
<1>2. IsFiniteSet(E) /\ IsFiniteSet(C) /\ g \in [E -> Nat] /\ k \in [C -> Nat]
  <2>1. (\A e \in E : e.contribution \in Nat) /\ (\A c \in C : c.penalty \in Nat)
    BY EvidenceIsFinite
  <2> HIDE DEF E, C
  <2>2. g \in [E -> Nat] /\ k \in [C -> Nat]
    BY <2>1
  <2> QED  BY <2>2, EvidenceIsFinite DEF E, C
<1>3. \A h : (Sums(h, E, g) <=> h = BodyE(h)) /\ (Sums(h, C, k) <=> h = BodyC(h))
  <2> HIDE DEF E, C
  <2> TAKE h
  <2>1. \A s \in SUBSET E : s # {} => g[AnyOf(s)] = (CHOOSE x \in s : TRUE).contribution
    BY DEF AnyOf
  <2>2. \A s \in SUBSET C : s # {} => k[AnyOf(s)] = (CHOOSE x \in s : TRUE).penalty
    BY DEF AnyOf
  <2> HIDE DEF g, k
  <2>3. BodyE(h) = [s \in SUBSET E |-> IF s = {} THEN 0 ELSE g[AnyOf(s)] + h[s \ {AnyOf(s)}]]
    BY <2>1 DEF AnyOf
  <2>4. BodyC(h) = [s \in SUBSET C |-> IF s = {} THEN 0 ELSE k[AnyOf(s)] + h[s \ {AnyOf(s)}]]
    BY <2>2 DEF AnyOf
  <2> HIDE DEF BodyE, BodyC
  <2> QED  BY <2>3, <2>4 DEF Sums
<1> HIDE DEF E, C, g, k
<1>4. sumE = BodyE(sumE) /\ sumC = BodyC(sumC)
  <2>1. (\E h : h = BodyE(h)) /\ (\E h : h = BodyC(h))
    <3>1. g \in [E -> Int] /\ k \in [C -> Int]
      BY <1>2
    <3>2. (\E h : Sums(h, E, g)) /\ (\E h : Sums(h, C, k))
      BY <1>2, <3>1, SumExists
    <3> HIDE DEF BodyE, BodyC
    <3> QED  BY <1>3, <3>2
  <2> HIDE DEF BodyE, BodyC
  <2> QED  BY <2>1
<1> HIDE DEF sumE, sumC
<1>5. sumE[E] \in Nat /\ sumC[C] \in Nat
  <2> HIDE DEF BodyE, BodyC
  <2> QED  BY <1>2, <1>3, <1>4, SumIsNatural
<1>6. ASSUME NEW n \in Nat PROVE Resolving!Min({Resolving!MaxScore, n}) \in Scores
  <2>1. Resolving!MaxScore \in Nat
    BY DEF Resolving!MaxScore
  <2>2. \E x \in {Resolving!MaxScore, n} : \A y \in {Resolving!MaxScore, n} : x <= y
    BY <2>1
  <2> DEFINE m == Resolving!Min({Resolving!MaxScore, n})
  <2>3. m \in {Resolving!MaxScore, n} /\ \A y \in {Resolving!MaxScore, n} : m <= y
    BY <2>2 DEF Resolving!Min
  <2> HIDE DEF m
  <2>4. m \in Scores
    BY <2>1, <2>3 DEF Scores
  <2> QED  BY <2>4 DEF m
<1>7. ASSUME sumE[E] < sumC[C] PROVE Resolving!Score(E, C) \in Scores
  <2>1. 0 \in Scores
    BY DEF Scores, Resolving!MaxScore
  <2> QED  BY <1>1, <1>7, <2>1, Zenon
<1>8. ASSUME ~ (sumE[E] < sumC[C]) PROVE Resolving!Score(E, C) \in Scores
  <2>1. sumE[E] - sumC[C] \in Nat
    BY <1>5, <1>8
  <2>2. Resolving!Min({Resolving!MaxScore, sumE[E] - sumC[C]}) \in Scores
    BY <1>6, <2>1, Zenon
  <2> QED  BY <1>1, <1>8, <2>2, Zenon
<1>9. Resolving!Score(E, C) \in Scores
  BY <1>7, <1>8, Zenon
<1> QED
  BY <1>9, Zenon DEF E, C

Verdicts == {"NO_MATCH", "REVIEW", "AUTO_MATCH"}

\* What a decision says, and what an AUTO_MATCH takes.
LEMMA DecisionIs ==
  ASSUME NEW l, HasNumbers(l), NEW r, HasNumbers(r), NEW d, d = Resolving!Decision(l, r)
  PROVE  /\ d.pair = Resolving!OrderedPair(l.id, r.id) /\ d.score \in Scores /\ d.decision \in Verdicts
         /\ d.decision = "AUTO_MATCH" => Resolving!StrongIdentity(Resolving!Evidence(l, r))
         /\ d = [pair |-> d.pair, score |-> d.score, decision |-> d.decision]
<1> DEFINE e == Resolving!Evidence(l, r)
           c == Resolving!Conflicts(l, r)
<1>1. /\ d.pair = Resolving!OrderedPair(l.id, r.id) /\ d.score = Resolving!Score(e, c)
      /\ d.decision = Resolving!Decide(e, c) /\ d = [pair |-> d.pair, score |-> d.score, decision |-> d.decision]
  BY DEF Resolving!Decision
<1>2. Resolving!Decide(e, c) \in Verdicts
  BY DEF Resolving!Decide, Verdicts
<1>3. Resolving!Decide(e, c) = "AUTO_MATCH" => Resolving!StrongIdentity(e)
  BY DEF Resolving!Decide
<1> QED
  BY <1>1, <1>2, <1>3, ScoreIsBounded

\* Two records with one e-mail address that is long enough for a key, or one phone, are
\* compared.
LEMMA StrongSharesKey ==
  ASSUME NEW l, HasNumbers(l), NEW r, HasNumbers(r), Resolving!StrongIdentity(Resolving!Evidence(l, r)),
         Resolving!Get(l, "email") \notin 1..9
  PROVE  Resolving!SharedKeys(l, r) # {}
<1>1. PICK f \in Resolving!Strong : /\ Resolving!Normal(l, f) # Resolving!Nothing
                                    /\ Resolving!Normal(l, f) = Resolving!Normal(r, f)
  <2>1. PICK e \in Resolving!Evidence(l, r) : e.kind = "exact" /\ e.field \in Resolving!Strong
    BY DEF Resolving!StrongIdentity
  <2>2. ASSUME e \in Resolving!SimilarEvidence(l, r) PROVE FALSE
    <3>1. e.kind = "similar"
      BY <2>2 DEF Resolving!SimilarEvidence
    <3> QED  BY <2>1, <3>1
  <2>3. e \in Resolving!ExactEvidence(l, r)
    BY <2>1, <2>2 DEF Resolving!Evidence
  <2>4. PICK f \in Resolving!IdentityFields :
          /\ Resolving!Normal(l, f) # Resolving!Nothing /\ Resolving!Normal(l, f) = Resolving!Normal(r, f)
          /\ e = [kind |-> "exact", field |-> f, contribution |-> 100 * Resolving!ExactWeight[f]]
    BY <2>3 DEF Resolving!ExactEvidence
  <2>5. e.field = f
    BY <2>4
  <2> QED  BY <2>1, <2>4, <2>5
<1> DEFINE v == Resolving!Normal(l, f)
           t == IF f = "email" THEN [reason |-> "EMAIL_EXACT_BLOCK", fields |-> <<"email">>]
                ELSE [reason |-> "PHONE_EXACT_BLOCK", fields |-> <<"phone">>]
<1>2. t \in Resolving!Strategies /\ t.reason # "PHONE_LAST7_BLOCK" /\ t.fields = <<f>>
  <2>1. CASE f = "email"
    BY <2>1 DEF Resolving!Strategies
  <2>2. CASE f = "phone"
    BY <2>2 DEF Resolving!Strategies
  <2> QED  BY <1>1, <2>1, <2>2 DEF Resolving!Strong
<1>3. v \in Nat /\ v # 0 /\ ~ (v < 10)
  <2>1. v \in Nat /\ v # 0
    BY <1>1, ValuesAreNumbers DEF Resolving!Nothing
  <2>2. CASE f = "email"
    <3>1. v = Resolving!Get(l, "email")
      BY <2>2 DEF Resolving!Normal
    <3> QED  BY <2>1, <3>1
  <2>3. CASE f = "phone"
    <3>1. v = IF Resolving!Get(l, f) < 10 THEN 0 ELSE Resolving!Get(l, f)
      BY <2>3 DEF Resolving!Normal, Resolving!Nothing
    <3> QED  BY <2>1, <3>1
  <2> QED  BY <1>1, <2>2, <2>3 DEF Resolving!Strong
<1> HIDE DEF t
<1>4. ASSUME NEW x, Resolving!Normal(x, f) = v
      PROVE  Resolving!BlockingKey(x, t) = <<v>>
  <2> DEFINE parts == [i \in DOMAIN t.fields |-> Resolving!Normal(x, t.fields[i])]
  <2>1. parts = <<v>>
    <3>1. DOMAIN t.fields = 1..1 /\ t.fields[1] = f
      BY <1>2
    <3>2. parts = [i \in 1..1 |-> v]
      BY <3>1, <1>4
    <3> HIDE DEF parts, v
    <3> QED  BY <3>2
  <2>2. Resolving!BlockingKey(x, t)
          = IF Resolving!Nothing \in Resolving!Range(parts) \/ (Len(parts) = 1 /\ parts[1] < 10) THEN Resolving!NoKey
            ELSE IF t.reason = "PHONE_LAST7_BLOCK" THEN <<parts[1] % 10>> ELSE parts
    BY DEF Resolving!BlockingKey
  <2>3. Resolving!Range(parts) = {v}
    <3> HIDE DEF parts, v
    <3> QED  BY <2>1 DEF Resolving!Range
  <2>4. Resolving!Nothing \notin Resolving!Range(parts) /\ ~ (parts[1] < 10)
    <3> HIDE DEF parts, v
    <3> QED  BY <1>3, <2>1, <2>3 DEF Resolving!Nothing
  <2> HIDE DEF parts, v
  <2> QED  BY <1>2, <2>1, <2>2, <2>4
<1>5. Resolving!BlockingKey(l, t) = <<v>> /\ Resolving!BlockingKey(r, t) = <<v>>
  BY <1>1, <1>4
<1>6. Resolving!BlockingKey(l, t) # Resolving!NoKey
  <2> HIDE DEF v
  <2>1. <<v>> # << >>
    OBVIOUS
  <2> QED  BY <1>5, <2>1 DEF Resolving!NoKey
<1> QED
  BY <1>2, <1>5, <1>6 DEF Resolving!SharedKeys

OrderedIn(S) == {p \in S \X S : p[1] <= p[2]}

\* A pair is held with its smaller id first.
LEMMA OrderedPairIs ==
  ASSUME NEW a \in Nat, NEW b \in Nat
  PROVE  /\ Resolving!OrderedPair(a, b)[1] <= Resolving!OrderedPair(a, b)[2]
         /\ Resolving!OrderedPair(a, b) \in {a, b} \X {a, b}
         /\ a <= b => Resolving!OrderedPair(a, b) = <<a, b>>
         /\ a # b => Resolving!OrderedPair(a, b)[1] < Resolving!OrderedPair(a, b)[2]
<1>1. CASE a <= b
  BY <1>1 DEF Resolving!OrderedPair
<1>2. CASE ~ (a <= b)
  BY <1>2 DEF Resolving!OrderedPair
<1> QED
  BY <1>1, <1>2

\* A candidate is a pair of ids in their order.
LEMMA CandidatesArePairs ==
  ASSUME NEW A, RecordSeq(A)
  PROVE  /\ Resolving!Candidates(Resolving!Sorted(A)) \subseteq OrderedIn(IdsOf(A))
         /\ IsFiniteSet(Resolving!Candidates(Resolving!Sorted(A)))
<1> DEFINE s == Resolving!Sorted(A)
<1>1. /\ DOMAIN s = 1..Len(A)
      /\ \A n \in 1..Len(A) : s[n] \in Range(A) /\ HasNumbers(s[n])
  BY SortedHas
<1>2. ASSUME NEW p \in Resolving!Candidates(s) PROVE p \in OrderedIn(IdsOf(A))
  <2>1. PICK x \in (DOMAIN s) \X (DOMAIN s) : p = Resolving!OrderedPair(s[x[1]].id, s[x[2]].id)
    BY DEF Resolving!Candidates
  <2>2. /\ s[x[1]].id \in IdsOf(A) /\ s[x[2]].id \in IdsOf(A)
        /\ s[x[1]].id \in Nat /\ s[x[2]].id \in Nat
    <3>1. x[1] \in 1..Len(A) /\ x[2] \in 1..Len(A)
      <4> HIDE DEF s
      <4> QED  BY <1>1
    <3> HIDE DEF s
    <3> QED  BY <1>1, <3>1 DEF IdsOf, HasNumbers
  <2> DEFINE a == s[x[1]].id
             b == s[x[2]].id
  <2>3. p = Resolving!OrderedPair(a, b) /\ a \in Nat /\ b \in Nat /\ a \in IdsOf(A) /\ b \in IdsOf(A)
    BY <2>1, <2>2
  <2> HIDE DEF a, b
  <2>4. p[1] <= p[2] /\ p \in {a, b} \X {a, b}
    BY <2>3, OrderedPairIs
  <2>5. p \in IdsOf(A) \X IdsOf(A)
    BY <2>3, <2>4
  <2> QED  BY <2>4, <2>5 DEF OrderedIn
<1>3. IsFiniteSet(OrderedIn(IdsOf(A)))
  <2>1. IsFiniteSet(IdsOf(A) \X IdsOf(A))
    BY ByIdIs, FS_Product
  <2>2. OrderedIn(IdsOf(A)) \subseteq IdsOf(A) \X IdsOf(A)
    BY DEF OrderedIn
  <2> QED  BY <2>1, <2>2, FS_Subset
<1> QED
  BY <1>2, <1>3, FS_Subset

CandidatesOf(A) == Resolving!Candidates(Resolving!Sorted(A))
DecisionsOf(A) == {Resolving!Decision(ById(A)[p[1]], ById(A)[p[2]]) : p \in CandidatesOf(A)}
OfKind(A, v) == {x \in DecisionsOf(A) : x.decision = v}
ClusteredOf(A) == Resolving!Clustered(OfKind(A, "AUTO_MATCH"), ById(A))

\* What resolve_entities returns for a batch.
LEMMA ResolvedIs ==
  ASSUME NEW A, RecordSeq(A), NEW res, res = Resolving!Resolve(A)
  PROVE  /\ res.outcome = "resolved" /\ res.records = ById(A) /\ res.candidates = CandidatesOf(A)
         /\ res.decisions = DecisionsOf(A) /\ res.clusters = ClusteredOf(A).clusters
         /\ res.summary.possible = Resolving!PossiblePairs(Len(A))
         /\ res.summary.auto = Cardinality(OfKind(A, "AUTO_MATCH"))
         /\ res.summary.review = Cardinality(OfKind(A, "REVIEW"))
         /\ res.summary.none = Cardinality(OfKind(A, "NO_MATCH"))
         /\ res.summary.guarded = ClusteredOf(A).guarded
<1>1. ~ \E r \in Resolving!Range(A) : DOMAIN r.fields \cap Resolving!Forbidden # {}
  BY ResolvingRange DEF RecordSeq
<1> DEFINE of(v) == {x \in DecisionsOf(A) : x.decision = v}
<1>2. res = [outcome |-> "resolved", records |-> ById(A), candidates |-> CandidatesOf(A),
             decisions |-> DecisionsOf(A),
             review |-> Resolving!SortedBy(of("REVIEW"), Resolving!Before),
             clusters |-> ClusteredOf(A).clusters,
             summary |-> [records |-> Len(A), possible |-> Resolving!PossiblePairs(Len(A)),
                          auto |-> Resolving!Cardinality(of("AUTO_MATCH")),
                          review |-> Resolving!Cardinality(of("REVIEW")),
                          none |-> Resolving!Cardinality(of("NO_MATCH")),
                          guarded |-> ClusteredOf(A).guarded]]
  BY <1>1, ZenonT(30) DEF Resolving!Resolve, ById, CandidatesOf, DecisionsOf, OfKind, ClusteredOf
<1> QED
  BY <1>2, ResolvingCounts DEF OfKind

\* Every candidate has one decision, about itself.
LEMMA DecisionsAre ==
  ASSUME NEW A, RecordSeq(A)
  PROVE  /\ \A p \in CandidatesOf(A) : /\ Resolving!Decision(ById(A)[p[1]], ById(A)[p[2]]) \in DecisionsOf(A)
                                       /\ Resolving!Decision(ById(A)[p[1]], ById(A)[p[2]]).pair = p
         /\ \A d \in DecisionsOf(A) : /\ d.pair \in CandidatesOf(A) /\ d.score \in Scores /\ d.decision \in Verdicts
                                      /\ d = Resolving!Decision(ById(A)[d.pair[1]], ById(A)[d.pair[2]])
                                      /\ d.pair \in IdsOf(A) \X IdsOf(A) /\ d.pair[1] <= d.pair[2]
         /\ \A c, d \in DecisionsOf(A) : c.pair = d.pair => c = d
         /\ IsFiniteSet(DecisionsOf(A)) /\ Cardinality(DecisionsOf(A)) = Cardinality(CandidatesOf(A))
<1> DEFINE D(p) == Resolving!Decision(ById(A)[p[1]], ById(A)[p[2]])
<1>1. ASSUME NEW p \in CandidatesOf(A)
      PROVE  /\ D(p) \in DecisionsOf(A) /\ D(p).pair = p /\ D(p).score \in Scores /\ D(p).decision \in Verdicts
             /\ p \in IdsOf(A) \X IdsOf(A) /\ p[1] <= p[2]
  <2>1. p \in IdsOf(A) \X IdsOf(A) /\ p[1] <= p[2]
    BY CandidatesArePairs DEF CandidatesOf, OrderedIn
  <2>2. /\ p[1] \in IdsOf(A) /\ p[2] \in IdsOf(A) /\ IdsOf(A) \subseteq Nat /\ p = <<p[1], p[2]>>
        /\ \A id \in IdsOf(A) : HasNumbers(ById(A)[id]) /\ ById(A)[id].id = id
    BY <2>1, ByIdIs
  <2>3. /\ D(p).pair = Resolving!OrderedPair(ById(A)[p[1]].id, ById(A)[p[2]].id)
        /\ D(p).score \in Scores /\ D(p).decision \in Verdicts
    BY <2>2, DecisionIs
  <2>4. Resolving!OrderedPair(p[1], p[2]) = <<p[1], p[2]>>
    BY <2>1, <2>2, OrderedPairIs
  <2>5. D(p) \in DecisionsOf(A)
    BY DEF DecisionsOf
  <2>6. D(p).pair = p
    <3> HIDE DEF D
    <3> QED  BY <2>2, <2>3, <2>4
  <2> QED  BY <2>1, <2>3, <2>5, <2>6
<1>2. \A d \in DecisionsOf(A) : \E p \in CandidatesOf(A) : d = D(p)
  BY DEF DecisionsOf
<1> DEFINE f == [p \in CandidatesOf(A) |-> D(p)]
<1>3. f \in Bijection(CandidatesOf(A), DecisionsOf(A))
  <2> HIDE DEF D
  <2>1. f \in [CandidatesOf(A) -> DecisionsOf(A)]
    BY <1>1
  <2>2. \A p, q \in CandidatesOf(A) : f[p] = f[q] => p = q
    BY <1>1
  <2>3. \A d \in DecisionsOf(A) : \E p \in CandidatesOf(A) : f[p] = d
    BY <1>2
  <2> QED  BY <2>1, <2>2, <2>3 DEF Bijection, Injection, Surjection, IsInjective
<1>4. IsFiniteSet(DecisionsOf(A)) /\ Cardinality(DecisionsOf(A)) = Cardinality(CandidatesOf(A))
  <2>1. IsFiniteSet(CandidatesOf(A))
    BY CandidatesArePairs DEF CandidatesOf
  <2> HIDE DEF f
  <2> QED  BY <1>3, <2>1, FS_Bijection DEF ExistsBijection
<1>5. ASSUME NEW d \in DecisionsOf(A)
      PROVE  /\ d.pair \in CandidatesOf(A) /\ d.score \in Scores /\ d.decision \in Verdicts
             /\ d = D(d.pair) /\ d.pair \in IdsOf(A) \X IdsOf(A) /\ d.pair[1] <= d.pair[2]
  <2>1. PICK p \in CandidatesOf(A) : d = D(p)
    BY <1>2
  <2> HIDE DEF D
  <2> QED  BY <1>1, <2>1
<1>6. \A c, d \in DecisionsOf(A) : c.pair = d.pair => c = d
  <2> HIDE DEF D
  <2> QED  BY <1>5
<1>7. \A d \in DecisionsOf(A) : d = Resolving!Decision(ById(A)[d.pair[1]], ById(A)[d.pair[2]])
  BY <1>5
<1> HIDE DEF D
<1> QED
  BY <1>1, <1>4, <1>5, <1>6, <1>7 DEF D

\* 1..n has n members.
LEMMA IntervalCounts ==
  ASSUME NEW n \in Nat
  PROVE  IsFiniteSet(1..n) /\ Cardinality(1..n) = n
BY FS_Interval

UniqueIn(A) == Cardinality(IdsOf(A)) = Len(A)

\* When the ids are their own, no two positions carry the same.
LEMMA UniquePositions ==
  ASSUME NEW A, RecordSeq(A), UniqueIn(A), NEW s, s = Resolving!Sorted(A)
  PROVE  \A m, n \in 1..Len(A) : s[m].id = s[n].id => m = n
<1> DEFINE g == [n \in 1..Len(A) |-> s[n].id]
<1>1. /\ Len(A) \in Nat /\ DOMAIN s = 1..Len(A) /\ Range(s) = Range(A)
      /\ \A n \in 1..Len(A) : s[n] \in Range(A)
  BY SortedHas
<1>2. g \in Surjection(1..Len(A), IdsOf(A))
  <2>1. \A n \in 1..Len(A) : g[n] \in IdsOf(A)
    BY <1>1 DEF IdsOf
  <2>2. ASSUME NEW i \in IdsOf(A) PROVE \E n \in 1..Len(A) : g[n] = i
    <3>1. PICK r \in Range(s) : i = r.id
      BY <1>1 DEF IdsOf
    <3>2. PICK n \in 1..Len(A) : s[n] = r
      BY <1>1 DEF Range
    <3> QED  BY <3>1, <3>2
  <2> QED  BY <2>1, <2>2 DEF Surjection
<1>3. /\ IsFiniteSet(1..Len(A)) /\ Cardinality(1..Len(A)) = Cardinality(IdsOf(A))
      /\ IsFiniteSet(IdsOf(A))
  <2>1. IsFiniteSet(1..Len(A)) /\ Cardinality(1..Len(A)) = Len(A)
    BY <1>1, IntervalCounts
  <2> QED  BY <2>1, ByIdIs DEF UniqueIn
<1>4. g \in Injection(1..Len(A), IdsOf(A))
  <2> HIDE DEF g
  <2> QED  BY <1>2, <1>3, FS_SurjSameCardinalityImpliesInj
<1>5. \A m, n \in 1..Len(A) : g[m] = g[n] => m = n
  <2> HIDE DEF g
  <2> QED  BY <1>4 DEF Injection, IsInjective
<1> QED
  BY <1>5

\* Sets without a common member add up.
LEMMA DisjointAdds ==
  ASSUME NEW S, IsFiniteSet(S), NEW T, IsFiniteSet(T), S \cap T = {}
  PROVE  /\ IsFiniteSet(S \cup T) /\ Cardinality(S) \in Nat /\ Cardinality(T) \in Nat
         /\ Cardinality(S \cup T) = Cardinality(S) + Cardinality(T)
<1>1. Cardinality(S) \in Nat /\ Cardinality(T) \in Nat /\ Cardinality({}) = 0
  BY FS_CardinalityType, FS_EmptySet
<1>2. IsFiniteSet(S \cup T)
      /\ Cardinality(S \cup T) = Cardinality(S) + Cardinality(T) - Cardinality(S \cap T)
  BY FS_Union
<1>3. Cardinality(S \cap T) = 0
  BY <1>1
<1> QED
  BY <1>1, <1>2, <1>3

StrictPairs(S) == {p \in S \X S : p[1] < p[2]}

\* Of n numbers n (n - 1) / 2 pairs can be made.
LEMMA PairsAreCounted ==
  ASSUME NEW S, IsFiniteSet(S), S \subseteq Nat
  PROVE  /\ IsFiniteSet(StrictPairs(S)) /\ Cardinality(StrictPairs(S)) \in Nat /\ Cardinality(S) \in Nat
         /\ 2 * Cardinality(StrictPairs(S)) + Cardinality(S) = Cardinality(S) * Cardinality(S)
<1> DEFINE T == StrictPairs(S)
           U == {p \in S \X S : p[2] < p[1]}
           D == {p \in S \X S : p[1] = p[2]}
           f == [p \in T |-> <<p[2], p[1]>>]
           g == [x \in S |-> <<x, x>>]
<1>1. IsFiniteSet(S \X S) /\ Cardinality(S \X S) = Cardinality(S) * Cardinality(S)
  BY FS_Product
<1>2. T \subseteq S \X S /\ U \subseteq S \X S /\ D \subseteq S \X S
  BY DEF StrictPairs
<1>3. IsFiniteSet(T) /\ IsFiniteSet(U) /\ IsFiniteSet(D)
  <2> HIDE DEF T, U, D
  <2> QED  BY <1>1, <1>2, FS_Subset
<1>4. Cardinality(U) = Cardinality(T)
  <2>1. f \in [T -> U]
    BY DEF StrictPairs
  <2>2. ASSUME NEW p \in T, NEW q \in T, f[p] = f[q] PROVE p = q
    <3>1. p[1] = q[1] /\ p[2] = q[2] /\ p = <<p[1], p[2]>> /\ q = <<q[1], q[2]>>
      BY <2>2 DEF StrictPairs
    <3> QED  BY <3>1
  <2>3. ASSUME NEW p \in U PROVE \E q \in T : f[q] = p
    <3>1. <<p[2], p[1]>> \in T /\ p = <<p[1], p[2]>>
      BY DEF StrictPairs
    <3> QED  BY <3>1
  <2>4. f \in Bijection(T, U)
    <3> HIDE DEF f, T, U
    <3> QED  BY <2>1, <2>2, <2>3 DEF Bijection, Injection, Surjection, IsInjective
  <2> HIDE DEF f, T, U
  <2> QED  BY <1>3, <2>4, FS_Bijection DEF ExistsBijection
<1>5. Cardinality(D) = Cardinality(S)
  <2>1. g \in [S -> D]
    OBVIOUS
  <2>2. \A x, y \in S : g[x] = g[y] => x = y
    OBVIOUS
  <2>3. ASSUME NEW p \in D PROVE \E x \in S : g[x] = p
    <3>1. p[1] \in S /\ p = <<p[1], p[1]>>
      OBVIOUS
    <3> QED  BY <3>1
  <2>4. g \in Bijection(S, D)
    <3> HIDE DEF g, D
    <3> QED  BY <2>1, <2>2, <2>3 DEF Bijection, Injection, Surjection, IsInjective
  <2> HIDE DEF g, D
  <2> QED  BY <2>4, FS_Bijection DEF ExistsBijection
<1>6. S \X S = (T \cup U) \cup D /\ T \cap U = {} /\ (T \cup U) \cap D = {}
  <2>1. \A p \in S \X S : p[1] \in Nat /\ p[2] \in Nat
    OBVIOUS
  <2>2. \A p \in S \X S : p \in T \/ p \in U \/ p \in D
    BY <2>1 DEF StrictPairs
  <2>3. \A p \in S \X S : ~ (p \in T /\ p \in U) /\ ~ (p \in T /\ p \in D) /\ ~ (p \in U /\ p \in D)
    BY <2>1 DEF StrictPairs
  <2> HIDE DEF T, U, D
  <2> QED  BY <1>2, <2>2, <2>3
<1>7. Cardinality(T) \in Nat /\ Cardinality(S) \in Nat /\ Cardinality({}) = 0
  BY <1>3, FS_CardinalityType, FS_EmptySet
<1> HIDE DEF T, U, D
<1>8. IsFiniteSet(T \cup U) /\ Cardinality(T \cup U) = Cardinality(T) + Cardinality(U)
  BY <1>3, <1>6, DisjointAdds
<1>9. Cardinality((T \cup U) \cup D) = Cardinality(T \cup U) + Cardinality(D)
  BY <1>3, <1>6, <1>8, DisjointAdds
<1>10. 2 * Cardinality(T) + Cardinality(S) = Cardinality(S) * Cardinality(S)
  <2>1. Cardinality(S \X S) = Cardinality(T) + Cardinality(T) + Cardinality(S)
    BY <1>4, <1>5, <1>6, <1>8, <1>9
  <2> QED  BY <1>1, <1>7, <2>1
<1> QED
  BY <1>3, <1>7, <1>10 DEF T

\* A batch that is resolved holds what resolve_entities returns for its rows.
ResolvingInv ==
  /\ input \in Batches
  /\ output = Resolving!Unresolved \/ output = Resolving!Resolve(Resolving!Entities(input))

\* Every verdict is of one of three kinds.
LEMMA KindsAddUp ==
  ASSUME NEW A, RecordSeq(A)
  PROVE  Cardinality(OfKind(A, "AUTO_MATCH")) + Cardinality(OfKind(A, "REVIEW")) + Cardinality(OfKind(A, "NO_MATCH"))
           = Cardinality(CandidatesOf(A))
<1> DEFINE X == OfKind(A, "AUTO_MATCH")
           Y == OfKind(A, "REVIEW")
           Z == OfKind(A, "NO_MATCH")
<1>1. X \cup Y \cup Z = DecisionsOf(A) /\ X \cap Y = {} /\ (X \cup Y) \cap Z = {}
  <2>1. \A d \in DecisionsOf(A) : d.decision \in Verdicts
    BY DecisionsAre
  <2> QED  BY <2>1 DEF OfKind, Verdicts
<1>2. IsFiniteSet(X) /\ IsFiniteSet(Y) /\ IsFiniteSet(Z)
  <2>1. X \subseteq DecisionsOf(A) /\ Y \subseteq DecisionsOf(A) /\ Z \subseteq DecisionsOf(A) /\ IsFiniteSet(DecisionsOf(A))
    BY <1>1, DecisionsAre
  <2> HIDE DEF X, Y, Z
  <2> QED  BY <2>1, FS_Subset
<1> HIDE DEF X, Y, Z
<1>3. IsFiniteSet(X \cup Y) /\ Cardinality(X \cup Y) = Cardinality(X) + Cardinality(Y)
  BY <1>1, <1>2, DisjointAdds
<1>4. Cardinality(X \cup Y \cup Z) = Cardinality(X \cup Y) + Cardinality(Z)
  BY <1>1, <1>2, <1>3, DisjointAdds
<1>5. Cardinality(DecisionsOf(A)) = Cardinality(CandidatesOf(A))
  BY DecisionsAre
<1> QED
  BY <1>1, <1>3, <1>4, <1>5 DEF X, Y, Z

\* Among records of their own ids no candidate is a record with itself.
LEMMA CandidatesAreBounded ==
  ASSUME NEW A, RecordSeq(A), UniqueIn(A)
  PROVE  Cardinality(CandidatesOf(A)) <= Resolving!PossiblePairs(Len(A))
<1> DEFINE s == Resolving!Sorted(A)
           S == IdsOf(A)
           n == Len(A)
           c == Cardinality(CandidatesOf(A))
           t == Cardinality(StrictPairs(S))
<1>1. /\ n \in Nat /\ DOMAIN s = 1..n
      /\ \A i \in 1..n : s[i] \in Range(A) /\ HasNumbers(s[i])
      /\ \A i, j \in 1..n : s[i].id = s[j].id => i = j
  BY SortedHas, UniquePositions
<1>2. ASSUME NEW p \in CandidatesOf(A) PROVE p \in StrictPairs(S)
  <2>1. PICK x \in (DOMAIN s) \X (DOMAIN s) : p = Resolving!OrderedPair(s[x[1]].id, s[x[2]].id) /\ x[1] < x[2]
    BY DEF CandidatesOf, Resolving!Candidates
  <2> DEFINE a == s[x[1]].id
             b == s[x[2]].id
  <2>2. a \in Nat /\ b \in Nat /\ a # b
    <3>1. x[1] \in 1..n /\ x[2] \in 1..n /\ x[1] # x[2]
      <4> HIDE DEF s
      <4> QED  BY <1>1, <2>1
    <3> HIDE DEF s, n
    <3> QED  BY <1>1, <3>1 DEF HasNumbers
  <2>3. p[1] < p[2]
    <3> HIDE DEF a, b
    <3>1. p = Resolving!OrderedPair(a, b)
      BY <2>1 DEF a, b
    <3> QED  BY <2>2, <3>1, OrderedPairIs
  <2>4. p \in S \X S
    BY CandidatesArePairs DEF CandidatesOf, OrderedIn
  <2> QED  BY <2>3, <2>4 DEF StrictPairs
<1>3. IsFiniteSet(S) /\ S \subseteq Nat
  BY ByIdIs
<1> HIDE DEF s, S
<1>4. t \in Nat /\ 2 * t + n = n * n /\ c <= t /\ c \in Nat
  <2>1. IsFiniteSet(StrictPairs(S)) /\ t \in Nat /\ 2 * t + n = n * n
    BY <1>3, PairsAreCounted DEF UniqueIn, S
  <2>2. CandidatesOf(A) \in SUBSET StrictPairs(S)
    BY <1>2
  <2> QED  BY <2>1, <2>2, FS_Subset, FS_CardinalityType
<1> HIDE DEF t, n, c
<1>5. Resolving!PossiblePairs(n) = IF n < 2 THEN 0 ELSE (n * (n - 1)) \div 2
  BY DEF Resolving!PossiblePairs
<1>6. n * (n - 1) = 2 * t
  BY <1>1, <1>4
<1>7. CASE n < 2
  <2>1. n = 0 \/ n = 1
    BY <1>1, <1>7
  <2>2. 2 * t = 0
    BY <1>4, <2>1
  <2>3. c = 0
    BY <1>4, <2>2
  <2> QED  BY <1>5, <1>7, <2>3 DEF c, n
<1>8. CASE ~ (n < 2)
  <2>1. (2 * t) \div 2 = t
    BY <1>4
  <2>2. Resolving!PossiblePairs(n) = t
    BY <1>5, <1>6, <1>8, <2>1
  <2> QED  BY <1>4, <2>2 DEF c, n
<1> QED
  BY <1>7, <1>8

\* What the resolved batch is, in the terms of the properties.
LEMMA BatchIs ==
  ASSUME ResolvingInv, NEW A, A = Resolving!Entities(input)
  PROVE  /\ RecordSeq(A) /\ Resolving!Ids = IdsOf(A)
         /\ Resolving!Unique <=> UniqueIn(A)
         /\ (Resolving!Done => output = Resolving!Resolve(A))
         /\ (output = Resolving!Unresolved => output.outcome = "unresolved")
<1>1. RecordSeq(A) /\ Len(A) = Len(input)
  BY EntitiesAreRecords DEF ResolvingInv
<1>2. Resolving!Ids = IdsOf(A)
  BY ResolvingRange DEF Resolving!Ids, IdsOf
<1>3. Resolving!Unique <=> UniqueIn(A)
  BY <1>1, <1>2, ResolvingCounts DEF Resolving!Unique, UniqueIn
<1>4. output = Resolving!Unresolved => output.outcome = "unresolved"
  BY DEF Resolving!Unresolved
<1>5. Resolving!Done => output = Resolving!Resolve(A)
  BY <1>4 DEF ResolvingInv, Resolving!Done
<1> QED
  BY <1>1, <1>2, <1>3, <1>4, <1>5

\* A resolution has pairs and clusters of the ids of its records.
LEMMA ResolutionIsTyped ==
  ASSUME ResolvingInv
  PROVE  Resolving!TypeOK
<1> DEFINE A == Resolving!Entities(input)
<1>1. /\ RecordSeq(A) /\ Resolving!Ids = IdsOf(A)
      /\ (Resolving!Done => output = Resolving!Resolve(A))
      /\ (output = Resolving!Unresolved => output.outcome = "unresolved")
  BY BatchIs
<1> HIDE DEF A
<1>2. output.outcome \in {"unresolved", "resolved", "forbidden field"}
  <2>1. Resolving!Resolve(A).outcome = "resolved"
    BY <1>1, ResolvedIs
  <2> QED  BY <1>1, <2>1 DEF ResolvingInv, A
<1>3. ASSUME Resolving!Done
      PROVE  /\ DOMAIN output.records = IdsOf(A)
             /\ \A d \in output.decisions : d.pair[1] \in IdsOf(A) /\ d.pair[2] \in IdsOf(A) /\ d.score \in Scores
  <2>1. output.records = ById(A) /\ output.decisions = DecisionsOf(A)
    BY <1>1, <1>3, ResolvedIs
  <2>2. \A d \in DecisionsOf(A) : d.pair \in IdsOf(A) \X IdsOf(A) /\ d.score \in Scores
    BY <1>1, DecisionsAre
  <2> QED  BY <1>1, <2>1, <2>2, ByIdIs
<1>4. Scores = 0..Resolving!MaxScore
  BY DEF Scores
<1> QED
  BY <1>1, <1>2, <1>3, <1>4 DEF Resolving!TypeOK

\* Every candidate has exactly one decision, and there are no more than the records allow.
LEMMA VerdictsAddUp ==
  ASSUME ResolvingInv
  PROVE  Resolving!DecisionsAddUp
<1> SUFFICES ASSUME Resolving!Done
             PROVE  /\ {d.pair : d \in output.decisions} = output.candidates
                    /\ output.summary.auto + output.summary.review + output.summary.none = Cardinality(output.candidates)
                    /\ Resolving!Unique => Cardinality(output.candidates) <= output.summary.possible
  BY ResolvingCounts DEF Resolving!DecisionsAddUp
<1> DEFINE A == Resolving!Entities(input)
<1>1. RecordSeq(A) /\ output = Resolving!Resolve(A) /\ (Resolving!Unique => UniqueIn(A))
  BY BatchIs
<1> HIDE DEF A
<1>2. /\ output.candidates = CandidatesOf(A) /\ output.decisions = DecisionsOf(A)
      /\ output.summary.possible = Resolving!PossiblePairs(Len(A))
      /\ output.summary.auto = Cardinality(OfKind(A, "AUTO_MATCH"))
      /\ output.summary.review = Cardinality(OfKind(A, "REVIEW"))
      /\ output.summary.none = Cardinality(OfKind(A, "NO_MATCH"))
  BY <1>1, ResolvedIs
<1>3. {d.pair : d \in DecisionsOf(A)} = CandidatesOf(A)
  <2>1. \A d \in DecisionsOf(A) : d.pair \in CandidatesOf(A)
    BY <1>1, DecisionsAre
  <2>2. \A p \in CandidatesOf(A) : \E d \in DecisionsOf(A) : d.pair = p
    BY <1>1, DecisionsAre
  <2> QED  BY <2>1, <2>2
<1> QED
  BY <1>1, <1>2, <1>3, KindsAddUp, CandidatesAreBounded

\* Two records that an AUTO_MATCH would join share a key, so they are compared.
LEMMA NoMatchIsMissed ==
  ASSUME ResolvingInv
  PROVE  Resolving!BlockingMissesNoAutoMatch
<1> DEFINE A == Resolving!Entities(input)
           s == Resolving!Sorted(A)
<1> SUFFICES ASSUME Resolving!Done, NEW a \in Resolving!Ids, NEW b \in Resolving!Ids, a < b,
                    Resolving!Decision(output.records[a], output.records[b]).decision = "AUTO_MATCH",
                    Resolving!Get(output.records[a], "email") \notin 1..9
             PROVE  <<a, b>> \in output.candidates
  BY DEF Resolving!BlockingMissesNoAutoMatch
<1>1. RecordSeq(A) /\ output = Resolving!Resolve(A) /\ Resolving!Ids = IdsOf(A)
  BY BatchIs
<1> HIDE DEF A
<1>2. output.records = ById(A) /\ output.candidates = CandidatesOf(A)
  BY <1>1, ResolvedIs
<1> DEFINE l == ById(A)[a]
           r == ById(A)[b]
<1>3. a \in Nat /\ b \in Nat /\ HasNumbers(l) /\ HasNumbers(r) /\ l.id = a /\ r.id = b /\ l \in Range(A) /\ r \in Range(A)
  BY <1>1, ByIdIs
<1>4. Resolving!SharedKeys(l, r) # {}
  <2> HIDE DEF l, r
  <2>1. Resolving!StrongIdentity(Resolving!Evidence(l, r))
    BY <1>2, <1>3, DecisionIs DEF l, r
  <2> QED  BY <1>2, <1>3, <2>1, StrongSharesKey DEF l
<1> HIDE DEF l, r
<1>5. /\ Len(A) \in Nat /\ DOMAIN s = 1..Len(A) /\ Range(s) = Range(A)
      /\ \A n \in 1..Len(A) : HasNumbers(s[n])
      /\ \A m, n \in 1..Len(A) : m < n => s[m].id <= s[n].id
  BY <1>1, SortedHas
<1> HIDE DEF s
<1>6. PICK i \in 1..Len(A), j \in 1..Len(A) : s[i] = l /\ s[j] = r
  BY <1>3, <1>5 DEF Range
<1>7. i < j
  <2>1. s[i].id = a /\ s[j].id = b
    BY <1>3, <1>6
  <2>2. i # j /\ ~ (j < i)
    <3>1. i \in Nat /\ j \in Nat /\ (j < i => b <= a)
      BY <1>5, <2>1
    <3> QED  BY ONLY <1>3, <2>1, <3>1, a < b
  <2> QED  BY <2>2
<1>8. Resolving!OrderedPair(s[i].id, s[j].id) = <<a, b>>
  BY <1>3, <1>6, OrderedPairIs
<1>9. <<i, j>> \in {x \in (DOMAIN s) \X (DOMAIN s) : x[1] < x[2] /\ Resolving!SharedKeys(s[x[1]], s[x[2]]) # {}}
  BY <1>4, <1>5, <1>6, <1>7
<1>10. <<a, b>> \in Resolving!Candidates(s)
  <2> DEFINE x == <<i, j>>
  <2>1. x[1] = i /\ x[2] = j
    OBVIOUS
  <2>2. <<a, b>> = Resolving!OrderedPair(s[x[1]].id, s[x[2]].id)
    BY <1>8
  <2> HIDE DEF x
  <2>3. x \in {y \in (DOMAIN s) \X (DOMAIN s) : y[1] < y[2] /\ Resolving!SharedKeys(s[y[1]], s[y[2]]) # {}}
    BY <1>9 DEF x
  <2> QED  BY <2>2, <2>3 DEF Resolving!Candidates
<1> QED
  BY <1>2, <1>10 DEF CandidatesOf, s

\* Two decisions about different pairs are before one another in one way.
LEMMA BeforeIsStrict ==
  ASSUME NEW A, RecordSeq(A), NEW S \in SUBSET DecisionsOf(A)
  PROVE  StrictOrder(S, [x \in S |-> {y \in S : Resolving!Before(y, x)}])
<1> DEFINE R == [x \in S |-> {y \in S : Resolving!Before(y, x)}]
<1>1. ASSUME NEW x \in S
      PROVE  x.score \in Nat /\ x.pair[1] \in Nat /\ x.pair[2] \in Nat /\ x.pair = <<x.pair[1], x.pair[2]>>
  <2>1. x.score \in Scores /\ x.pair \in IdsOf(A) \X IdsOf(A)
    BY DecisionsAre
  <2>2. Scores \subseteq Nat
    BY DEF Scores, Resolving!MaxScore
  <2>3. IdsOf(A) \subseteq Nat
    BY ByIdIs
  <2> DEFINE p == x.pair
  <2>4. p \in Nat \X Nat
    BY <2>1, <2>3
  <2> HIDE DEF p
  <2>5. p[1] \in Nat /\ p[2] \in Nat /\ p = <<p[1], p[2]>>
    BY <2>4
  <2> QED  BY <2>1, <2>2, <2>5 DEF p
<1>2. \A x, y \in S : x # y => x.pair[1] # y.pair[1] \/ x.pair[2] # y.pair[2]
  <2>1. \A x, y \in S : x.pair = y.pair => x = y
    BY DecisionsAre
  <2> QED  BY <1>1, <2>1
<1>3. \A x, y \in S : x \in R[y] <=> (\/ x.score > y.score
                                      \/ (x.score = y.score
                                           /\ (x.pair[1] < y.pair[1]
                                                \/ (x.pair[1] = y.pair[1] /\ x.pair[2] < y.pair[2]))))
  BY DEF Resolving!Before
<1>4. R \in [S -> SUBSET S]
  OBVIOUS
<1> HIDE DEF R
<1>5. \A x \in S : x \notin R[x]
  BY <1>1, <1>3
<1>6. \A x, y \in S : x # y => x \in R[y] \/ y \in R[x]
  BY <1>1, <1>2, <1>3
<1>7. \A x, y, z \in S : x \in R[y] /\ y \in R[z] => x \in R[z]
  BY <1>1, <1>3
<1>8. StrictOrder(S, R)
  BY <1>4, <1>5, <1>6, <1>7 DEF StrictOrder
<1> QED
  BY <1>8 DEF R

\* e names every member of S once.
Enumerates(e, S) ==
  /\ e \in [1..Cardinality(S) -> S]
  /\ \A x \in S : \E n \in 1..Cardinality(S) : e[n] = x
  /\ \A m, n \in 1..Cardinality(S) : e[m] = e[n] => m = n

\* Sorting decisions loses none and doubles none.
LEMMA DecisionsSort ==
  ASSUME NEW A, RecordSeq(A), NEW S \in SUBSET DecisionsOf(A), NEW e,
         e = Resolving!SortedBy(S, Resolving!Before)
  PROVE  Enumerates(e, S)
<1> DEFINE R == [x \in S |-> {y \in S : Resolving!Before(y, x)}]
           N == Cardinality(S)
<1>1. IsFiniteSet(S) /\ StrictOrder(S, R) /\ N \in Nat
  BY DecisionsAre, BeforeIsStrict, FS_Subset, FS_CardinalityType
<1> DEFINE first(n) == CHOOSE x \in S : Resolving!Cardinality({y \in S : Resolving!Before(y, x)}) = n - 1
<1>2. e = [n \in 1..N |-> first(n)]
  <2>1. e = [n \in 1..Resolving!Cardinality(S) |-> first(n)]
    BY DEF Resolving!SortedBy
  <2> HIDE DEF first
  <2> QED  BY <2>1, ResolvingCounts
<1>3. \A x \in S : R[x] = {y \in S : Resolving!Before(y, x)}
  OBVIOUS
<1>4. ASSUME NEW n \in 1..N PROVE e[n] \in S /\ Cardinality(R[e[n]]) = n - 1
  <2> DEFINE before(x) == {y \in S : Resolving!Before(y, x)}
  <2>1. PICK x \in S : Cardinality(R[x]) = n - 1
    <3> HIDE DEF R
    <3> QED  BY <1>1, RanksSort
  <2>2. e[n] = CHOOSE z \in S : Resolving!Cardinality(before(z)) = n - 1
    <3>1. e[n] = first(n)
      <4> HIDE DEF first
      <4> QED  BY <1>2
    <3> QED  BY <3>1
  <2>3. \A z \in S : before(z) = R[z]
    BY <1>3
  <2> HIDE DEF before, R
  <2>4. Resolving!Cardinality(before(x)) = n - 1
    BY <2>1, <2>3, ResolvingCounts
  <2>5. e[n] \in S /\ Resolving!Cardinality(before(e[n])) = n - 1
    BY <2>2, <2>4
  <2> QED  BY <2>3, <2>5, ResolvingCounts
<1>5. SortsInto(S, R, e)
  <2>1. e = [n \in 1..N |-> e[n]]
    <3> HIDE DEF first
    <3> QED  BY <1>2
  <2> HIDE DEF R
  <2> QED  BY <1>1, <1>4, <2>1, RanksSort
<1>6. \A m, n \in 1..N : e[m] = e[n] => m = n
  <2>1. \A m, n \in 1..N : m < n => e[m] # e[n]
    BY <1>5 DEF SortsInto
  <2> QED  BY <2>1, <1>1
<1> QED
  BY <1>5, <1>6 DEF SortsInto, Enumerates

-----------------------------------------------------------------------------
(* The walk over the AUTO_MATCH edges *)

\* What the walk over the edges of ids I can hold.
WalkStates(I) == [comps : Parts(I), accepted : SUBSET (I \X I), guarded : Nat]

StartOf(I) == [comps |-> {{id} : id \in I}, accepted |-> {}, guarded |-> 0]

\* Two classes made one leave a partition.
LEMMA MergingKeepsParts ==
  ASSUME NEW I, NEW cs \in Parts(I), NEW L \in cs, NEW R \in cs
  PROVE  (cs \ {L, R}) \cup {L \cup R} \in Parts(I)
<1> DEFINE J == (cs \ {L, R}) \cup {L \cup R}
<1>1. /\ cs \in SUBSET SUBSET I /\ {} \notin cs /\ UNION cs = I
      /\ \A C, D \in cs : C = D \/ C \cap D = {}
  BY DEF Parts
<1>2. J \in SUBSET SUBSET I
  BY <1>1
<1>3. {} \notin J
  BY <1>1
<1>4. UNION J = I
  <2>1. ASSUME NEW x \in I PROVE \E C \in J : x \in C
    <3>1. PICK C \in cs : x \in C
      BY <1>1
    <3>2. C \in J \/ C \in {L, R}
      OBVIOUS
    <3>3. L \cup R \in J
      OBVIOUS
    <3> QED  BY <3>1, <3>2, <3>3
  <2> HIDE DEF J
  <2> QED  BY <1>2, <2>1
<1>5. \A C, D \in J : C = D \/ C \cap D = {}
  <2> DEFINE U == L \cup R
  <2>1. ASSUME NEW C \in cs \ {L, R} PROVE C \cap U = {}
    <3>1. C \cap L = {} /\ C \cap R = {}
      BY <1>1
    <3> QED  BY <3>1
  <2>2. J = (cs \ {L, R}) \cup {U}
    OBVIOUS
  <2> HIDE DEF U, J
  <2> QED  BY <1>1, <2>1, <2>2
<1> QED
  BY <1>2, <1>3, <1>4, <1>5 DEF Parts

\* The walk begins with every record alone, and a turn of the loop keeps its type.
LEMMA WalkIsTyped ==
  ASSUME NEW I, NEW B
  PROVE  /\ StartOf(I) \in WalkStates(I)
         /\ \A st \in WalkStates(I) : \A edge : edge.pair \in I \X I => Resolving!Along(st, edge, B) \in WalkStates(I)
<1>1. StartOf(I) \in WalkStates(I)
  <2>1. {{id} : id \in I} \in Parts(I)
    BY DEF Parts
  <2> QED  BY <2>1 DEF StartOf, WalkStates
<1>2. ASSUME NEW st \in WalkStates(I), NEW edge, edge.pair \in I \X I
      PROVE  Resolving!Along(st, edge, B) \in WalkStates(I)
  <2> DEFINE L == Resolving!ComponentOf(st.comps, edge.pair[1])
             R == Resolving!ComponentOf(st.comps, edge.pair[2])
             J == (st.comps \ {L, R}) \cup {L \cup R}
  <2>1. st.comps \in Parts(I) /\ st.accepted \in SUBSET (I \X I) /\ st.guarded \in Nat
    BY DEF WalkStates
  <2>2. L \in st.comps /\ R \in st.comps
    <3>1. \A r \in I : \E C \in st.comps : r \in C
      BY <2>1 DEF Parts
    <3>2. edge.pair[1] \in I /\ edge.pair[2] \in I
      BY <1>2
    <3> QED  BY <3>1, <3>2 DEF Resolving!ComponentOf
  <2>3. Resolving!Along(st, edge, B) =
          IF L # R /\ Guard /\ Resolving!InternalConflict(L \cup R, B)
            THEN [st EXCEPT !.guarded = @ + 1]
            ELSE [st EXCEPT !.comps = J, !.accepted = @ \cup {edge.pair}]
    BY DEF Resolving!Along
  <2> HIDE DEF L, R
  <2>4. J \in Parts(I)
    BY <2>1, <2>2, MergingKeepsParts
  <2> HIDE DEF J
  <2>5. [st EXCEPT !.guarded = @ + 1] \in WalkStates(I)
    BY <2>1 DEF WalkStates
  <2>6. [st EXCEPT !.comps = J, !.accepted = @ \cup {edge.pair}] \in WalkStates(I)
    BY <2>1, <2>4, <1>2 DEF WalkStates
  <2> QED  BY <2>3, <2>5, <2>6
<1> QED
  BY <1>1, <1>2

\* The loop over the edges e goes through states w, one edge after the other.
Walked(w, e, n, I, B) ==
  /\ w \in [0..n -> WalkStates(I)]
  /\ w[0] = StartOf(I)
  /\ \A k \in 0..n : k # 0 => w[k] = Resolving!Along(w[k - 1], e[k], B)

\* Where the fold of the library ends.
EndOf(e, I, B) == Resolving!FoldLeft(LAMBDA st, x : Resolving!Along(st, x, B), StartOf(I), e)

\* The fold over the edges is such a walk.
LEMMA WalkIsThere ==
  ASSUME NEW n \in Nat, NEW I, NEW B, NEW e, \A i \in 1..n : e[i].pair \in I \X I, DOMAIN e = 1..n
  PROVE  \E w : Walked(w, e, n, I, B) /\ EndOf(e, I, B) = w[n]
<1> DEFINE D == WalkStates(I)
           F == [x \in (1..n) \X D |-> Resolving!Along(x[2], e[x[1]], B)]
           Body(h) == [s \in SUBSET (1..n) |->
                         IF s = {} THEN StartOf(I)
                         ELSE Resolving!Along(h[s \ {Resolving!Max(s)}], e[Resolving!Max(s)], B)]
           fold == CHOOSE h : h = Body(h)
<1>1. EndOf(e, I, B) = fold[1..n]
  BY DEF EndOf, Resolving!FoldLeft, Resolving!MapThenFoldSet
<1>2. \A s : Resolving!Max(s) = LastOf(s)
  BY DEF Resolving!Max, LastOf
<1>12. F \in [(1..n) \X D -> D]
  BY WalkIsTyped
<1>3. \A i \in 1..n, st \in D : F[<<i, st>>] = Resolving!Along(st, e[i], B)
  OBVIOUS
<1> HIDE DEF F
<1>4. PICK h : FoldsUp(h, n, D, StartOf(I), F)
  <2>1. StartOf(I) \in D
    BY WalkIsTyped
  <2> HIDE DEF D
  <2> QED  BY <1>12, <2>1, IndexFold
<1>5. h = Body(h)
  <2>1. ASSUME NEW s \in SUBSET (1..n), s # {}
        PROVE  h[s] = Resolving!Along(h[s \ {Resolving!Max(s)}], e[Resolving!Max(s)], B)
    <3>1. LastOf(s) \in 1..n /\ s \ {LastOf(s)} \in SUBSET (1..n)
      BY <2>1, LastOfInterval
    <3>2. h[s \ {LastOf(s)}] \in D
      BY <3>1, <1>4 DEF FoldsUp
    <3>3. h[s] = F[<<LastOf(s), h[s \ {LastOf(s)}]>>]
      BY <1>4, <2>1 DEF FoldsUp
    <3> HIDE DEF D
    <3> QED  BY <1>2, <1>3, <3>1, <3>2, <3>3
  <2>2. h = [s \in SUBSET (1..n) |-> h[s]]
    BY <1>4 DEF FoldsUp
  <2>3. \A s \in SUBSET (1..n) : h[s] = IF s = {} THEN StartOf(I) ELSE Resolving!Along(h[s \ {Resolving!Max(s)}], e[Resolving!Max(s)], B)
    BY <1>4, <2>1 DEF FoldsUp
  <2> HIDE DEF D
  <2> QED  BY <2>2, <2>3
<1>6. fold = Body(fold)
  <2> HIDE DEF Body
  <2> QED  BY <1>5
<1> HIDE DEF fold
<1>7. /\ fold[{}] = StartOf(I)
      /\ \A k \in 1..n : fold[1..k] = Resolving!Along(fold[1..(k - 1)], e[k], B)
  <2>1. fold[{}] = StartOf(I)
    BY <1>6
  <2>2. ASSUME NEW k \in 1..n PROVE fold[1..k] = Resolving!Along(fold[1..(k - 1)], e[k], B)
    <3>1. 1..k \in SUBSET (1..n) /\ 1..k # {} /\ k \in Nat /\ k # 0
      OBVIOUS
    <3>2. Resolving!Max(1..k) = k /\ (1..k) \ {k} = 1..(k - 1)
      BY <1>2, <3>1, LastOfInterval
    <3>3. \A s \in SUBSET (1..n) : s # {} => fold[s] = Resolving!Along(fold[s \ {Resolving!Max(s)}], e[Resolving!Max(s)], B)
      BY <1>6
    <3>4. fold[1..k] = Resolving!Along(fold[(1..k) \ {Resolving!Max(1..k)}], e[Resolving!Max(1..k)], B)
      BY <3>1, <3>3, Zenon
    <3> QED  BY <3>2, <3>4
  <2> QED  BY <2>1, <2>2
<1> DEFINE w == [k \in 0..n |-> fold[1..k]]
           G == {k \in Nat : k <= n => w[k] \in D}
<1>8. w[0] = StartOf(I) /\ \A k \in 0..n : k # 0 => w[k] = Resolving!Along(w[k - 1], e[k], B)
  <2>1. 1..0 = {}
    OBVIOUS
  <2>2. w[0] = StartOf(I)
    BY <1>7, <2>1
  <2>3. ASSUME NEW k \in 0..n, k # 0 PROVE w[k] = Resolving!Along(w[k - 1], e[k], B)
    <3>1. k \in 1..n /\ k - 1 \in 0..n
      BY <2>3
    <3> QED  BY <1>7, <3>1
  <2> QED  BY <2>2, <2>3
<1> HIDE DEF w
<1>9. Nat \subseteq G
  <2>1. 0 \in G
    BY <1>8, WalkIsTyped
  <2>2. ASSUME NEW k \in Nat, k \in G PROVE k + 1 \in G
    <3>1. ASSUME k + 1 <= n PROVE w[k + 1] \in D
      <4>1. k + 1 \in 0..n /\ k + 1 # 0 /\ k + 1 - 1 = k /\ k + 1 \in 1..n /\ k <= n
        BY <3>1
      <4>2. w[k] \in D
        BY <2>2, <4>1
      <4>3. w[k + 1] = Resolving!Along(w[k], e[k + 1], B)
        BY <1>8, <4>1
      <4> QED  BY <4>1, <4>2, <4>3, WalkIsTyped
    <3> QED  BY <3>1
  <2> HIDE DEF G
  <2> QED  BY <2>1, <2>2, NatInduct
<1>10. w \in [0..n -> D]
  <2>1. w = [k \in 0..n |-> w[k]]
    BY DEF w
  <2>2. \A k \in 0..n : w[k] \in D
    BY <1>9
  <2> QED  BY <2>1, <2>2
<1>11. w[n] = fold[1..n]
  BY DEF w
<1> QED
  BY <1>1, <1>8, <1>10, <1>11 DEF Walked

\* Accepted edges lead from every part of C to the rest of it.
HeldTogether(C, accepted) ==
  \A S \in (SUBSET C) \ {{}, C} :
    \E p \in accepted : p[1] \in C /\ p[2] \in C /\ (p[1] \in S) # (p[2] \in S)

\* The edge was taken, or the guard kept its two classes apart.
Settled(st, p, B) ==
  \/ p \in st.accepted
  \/ /\ p[1] # p[2] /\ Guard
     /\ \E C, D \in st.comps : p[1] \in C /\ p[2] \in D /\ Resolving!InternalConflict(C \cup D, B)

\* What the walk keeps over its first k edges.
Kept(st, e, k, I, B) ==
  /\ st \in WalkStates(I)
  /\ st.accepted \subseteq {e[i].pair : i \in 1..k} /\ IsFiniteSet(st.accepted)
  /\ Cardinality(st.accepted) + st.guarded = k
  /\ Guard => \A C \in st.comps : ~ Resolving!InternalConflict(C, B)
  /\ \A C \in st.comps : HeldTogether(C, st.accepted)
  /\ \A p \in st.accepted : Joins(st.comps, p)
  /\ \A i \in 1..k : Settled(st, e[i].pair, B)

\* A larger class has the conflicts of a smaller one, and one record has none.
LEMMA ConflictsGrow ==
  /\ \A C, D, B : C \subseteq D /\ Resolving!InternalConflict(C, B) => Resolving!InternalConflict(D, B)
  /\ \A id \in Nat : \A B : ~ Resolving!InternalConflict({id}, B)
BY DEF Resolving!InternalConflict

\* At first nothing is taken and every record is alone.
LEMMA StartIsKept ==
  ASSUME NEW I \in SUBSET Nat, NEW B, NEW e
  PROVE  Kept(StartOf(I), e, 0, I, B)
<1> DEFINE st == StartOf(I)
<1>1. st \in WalkStates(I) /\ st.comps = {{id} : id \in I} /\ st.accepted = {} /\ st.guarded = 0
  BY WalkIsTyped DEF StartOf
<1> HIDE DEF st
<1>2. IsFiniteSet(st.accepted) /\ Cardinality(st.accepted) + st.guarded = 0
  BY <1>1, FS_EmptySet
<1>3. \A C \in st.comps : ~ Resolving!InternalConflict(C, B) /\ HeldTogether(C, st.accepted)
  <2>1. ASSUME NEW id \in I PROVE ~ Resolving!InternalConflict({id}, B) /\ HeldTogether({id}, st.accepted)
    <3>1. \A S \in SUBSET {id} : S = {} \/ S = {id}
      OBVIOUS
    <3> QED  BY <3>1, ConflictsGrow DEF HeldTogether
  <2> QED  BY <1>1, <2>1
<1>4. 1..0 = {}
  OBVIOUS
<1> QED
  BY <1>1, <1>2, <1>3, <1>4 DEF Kept, st

\* Two classes that an accepted edge joins are held together.
LEMMA TogetherByEdge ==
  ASSUME NEW L, NEW R, NEW acc, NEW p, p[1] \in L, p[2] \in R, L = R \/ L \cap R = {},
         HeldTogether(L, acc), HeldTogether(R, acc)
  PROVE  HeldTogether(L \cup R, acc \cup {p})
<1> DEFINE U == L \cup R
<1> SUFFICES ASSUME NEW S \in SUBSET U, S # {}, S # U
             PROVE  \E q \in acc \cup {p} : q[1] \in U /\ q[2] \in U /\ (q[1] \in S) # (q[2] \in S)
  BY DEF HeldTogether
<1>1. CASE S \cap L \notin {{}, L}
  <2>1. PICK q \in acc : q[1] \in L /\ q[2] \in L /\ (q[1] \in S \cap L) # (q[2] \in S \cap L)
    BY <1>1 DEF HeldTogether
  <2> QED  BY <2>1
<1>2. CASE S \cap R \notin {{}, R}
  <2>1. PICK q \in acc : q[1] \in R /\ q[2] \in R /\ (q[1] \in S \cap R) # (q[2] \in S \cap R)
    BY <1>2 DEF HeldTogether
  <2> QED  BY <2>1
<1>3. CASE S \cap L \in {{}, L} /\ S \cap R \in {{}, R}
  <2>1. L # R
    BY <1>3
  <2>2. (S = L /\ S \cap R = {}) \/ (S = R /\ S \cap L = {})
    BY <1>3, <2>1
  <2> QED  BY <2>1, <2>2
<1> QED
  BY <1>1, <1>2, <1>3

\* One turn of the loop keeps it.
LEMMA TurnKeeps ==
  ASSUME NEW I \in SUBSET Nat, NEW B, NEW e, NEW k \in Nat, NEW st, Kept(st, e, k, I, B),
         e[k + 1].pair \in I \X I, \A i \in 1..k : e[i].pair # e[k + 1].pair
  PROVE  Kept(Resolving!Along(st, e[k + 1], B), e, k + 1, I, B)
<1> DEFINE p == e[k + 1].pair
           L == Resolving!ComponentOf(st.comps, p[1])
           R == Resolving!ComponentOf(st.comps, p[2])
           J == (st.comps \ {L, R}) \cup {L \cup R}
           next == Resolving!Along(st, e[k + 1], B)
           apart == L # R /\ Guard /\ Resolving!InternalConflict(L \cup R, B)
<1>1. next = IF apart THEN [st EXCEPT !.guarded = @ + 1] ELSE [st EXCEPT !.comps = J, !.accepted = @ \cup {p}]
  BY DEF Resolving!Along
<1>2. st.comps \in Parts(I) /\ st.accepted \in SUBSET (I \X I) /\ st.guarded \in Nat
      /\ st = [comps |-> st.comps, accepted |-> st.accepted, guarded |-> st.guarded]
  BY DEF Kept, WalkStates
<1>3. L \in st.comps /\ R \in st.comps /\ p[1] \in L /\ p[2] \in R
  <2>1. \A r \in I : \E C \in st.comps : r \in C
    BY <1>2 DEF Parts
  <2>2. p[1] \in I /\ p[2] \in I
    OBVIOUS
  <2> QED  BY <2>1, <2>2 DEF Resolving!ComponentOf
<1>4. p[1] = p[2] => L = R
  OBVIOUS
<1>5. next \in WalkStates(I)
  BY WalkIsTyped DEF Kept
<1>6. \A i \in 1..(k + 1) : i \in 1..k \/ i = k + 1
  OBVIOUS
<1>7. /\ st.accepted \subseteq {e[i].pair : i \in 1..k} /\ IsFiniteSet(st.accepted)
      /\ Cardinality(st.accepted) + st.guarded = k
      /\ (Guard => \A C \in st.comps : ~ Resolving!InternalConflict(C, B))
      /\ \A C \in st.comps : HeldTogether(C, st.accepted)
      /\ \A q \in st.accepted : Joins(st.comps, q)
      /\ \A i \in 1..k : Settled(st, e[i].pair, B)
  BY DEF Kept
<1>8. {e[i].pair : i \in 1..(k + 1)} = {e[i].pair : i \in 1..k} \cup {p}
  BY <1>6
<1>9. p \notin st.accepted
  BY <1>7
<1>10. Cardinality(st.accepted) \in Nat
  BY <1>7, FS_CardinalityType
<1> HIDE DEF L, R, p
<1>11. CASE apart
  <2>1. next.comps = st.comps /\ next.accepted = st.accepted /\ next.guarded = st.guarded + 1
    BY <1>1, <1>2, <1>11
  <2>2. Settled(next, p, B)
    BY <1>3, <1>4, <1>11, <2>1 DEF Settled
  <2>3. \A i \in 1..(k + 1) : Settled(next, e[i].pair, B)
    BY <1>6, <1>7, <2>1, <2>2 DEF Settled, p
  <2>4. Cardinality(next.accepted) + next.guarded = k + 1
    BY <1>2, <1>7, <1>10, <2>1
  <2>5. next.accepted \subseteq {e[i].pair : i \in 1..(k + 1)}
    BY <1>7, <1>8, <2>1
  <2> HIDE DEF next
  <2>6. Kept(next, e, k + 1, I, B)
    BY <1>5, <1>7, <2>1, <2>3, <2>4, <2>5, ZenonT(30) DEF Kept
  <2> QED  BY <2>6 DEF next
<1>12. CASE ~ apart
  <2>1. next.comps = J /\ next.accepted = st.accepted \cup {p} /\ next.guarded = st.guarded
    BY <1>1, <1>2, <1>12
  <2> HIDE DEF next
  <2>2. IsFiniteSet(next.accepted) /\ Cardinality(next.accepted) = Cardinality(st.accepted) + 1
    BY <1>7, <1>9, <2>1, FS_AddElement
  <2>3. Cardinality(next.accepted) + next.guarded = k + 1
    BY <1>2, <1>7, <1>10, <2>1, <2>2
  <2>4. next.accepted \subseteq {e[i].pair : i \in 1..(k + 1)}
    BY <1>7, <1>8, <2>1
  <2>5. Guard => \A C \in J : ~ Resolving!InternalConflict(C, B)
    <3>1. Guard /\ L # R => ~ Resolving!InternalConflict(L \cup R, B)
      BY <1>12
    <3>2. Guard /\ L = R => ~ Resolving!InternalConflict(L \cup R, B)
      <4>1. L = R => L \cup R = L
        OBVIOUS
      <4> QED  BY <1>3, <1>7, <4>1
    <3> QED  BY <1>7, <3>1, <3>2
  <2>6. L = R \/ L \cap R = {}
    BY <1>2, <1>3 DEF Parts
  <2>7. \A C \in J : HeldTogether(C, next.accepted)
    <3>1. HeldTogether(L \cup R, next.accepted)
      <4>1. HeldTogether(L, st.accepted) /\ HeldTogether(R, st.accepted)
        BY <1>3, <1>7
      <4> HIDE DEF J, apart
      <4>2. HeldTogether(L \cup R, st.accepted \cup {p})
        BY ONLY <1>3, <2>6, <4>1, TogetherByEdge
      <4> QED  BY <2>1, <4>2
    <3>2. \A C \in st.comps : HeldTogether(C, next.accepted)
      BY <1>7, <2>1 DEF HeldTogether
    <3> QED  BY <3>1, <3>2
  <2>8. \A C \in st.comps : \E D \in J : C \subseteq D
    <3>1. ASSUME NEW C \in st.comps PROVE \E D \in J : C \subseteq D
      <4>1. L \cup R \in J /\ (C \in J \/ C = L \/ C = R)
        OBVIOUS
      <4> HIDE DEF J
      <4> QED  BY <4>1
    <3> QED  BY <3>1
  <2>9. \A q \in next.accepted : Joins(J, q)
    <3>1. Joins(J, p)
      <4>1. L \cup R \in J /\ p[1] \in L \cup R /\ p[2] \in L \cup R
        BY <1>3
      <4> HIDE DEF J
      <4> QED  BY <4>1 DEF Joins
    <3>2. \A q \in st.accepted : Joins(J, q)
      <4> HIDE DEF J
      <4> QED  BY <1>7, <2>8 DEF Joins
    <3> QED  BY <2>1, <3>1, <3>2
  <2>10. \A i \in 1..(k + 1) : Settled(next, e[i].pair, B)
    <3>1. Settled(next, p, B)
      BY <2>1 DEF Settled
    <3>2. ASSUME NEW q, Settled(st, q, B) PROVE Settled(next, q, B)
      <4>1. CASE q \in st.accepted
        BY <2>1, <4>1 DEF Settled
      <4>2. CASE q \notin st.accepted
        <5>1. PICK C \in st.comps, D \in st.comps :
                   q[1] # q[2] /\ Guard /\ q[1] \in C /\ q[2] \in D /\ Resolving!InternalConflict(C \cup D, B)
          BY <3>2, <4>2 DEF Settled
        <5>2. PICK C2 \in J, D2 \in J : C \subseteq C2 /\ D \subseteq D2
          BY <2>8
        <5>3. C \cup D \subseteq C2 \cup D2
          BY <5>2
        <5>4. Resolving!InternalConflict(C2 \cup D2, B)
          BY <5>1, <5>3, ConflictsGrow
        <5> HIDE DEF J
        <5> QED  BY <2>1, <5>1, <5>2, <5>4 DEF Settled
      <4> QED  BY <4>1, <4>2
    <3> QED  BY <1>6, <1>7, <3>1, <3>2 DEF p
  <2> HIDE DEF J
  <2>11. Kept(next, e, k + 1, I, B)
    BY <1>5, <2>1, <2>2, <2>3, <2>4, <2>5, <2>7, <2>9, <2>10 DEF Kept
  <2> QED  BY <2>11 DEF next
<1> QED
  BY <1>11, <1>12

\* So the whole walk keeps it.
LEMMA WalkKeeps ==
  ASSUME NEW I \in SUBSET Nat, NEW B, NEW n \in Nat, NEW e, \A i \in 1..n : e[i].pair \in I \X I,
         \A i, j \in 1..n : e[i].pair = e[j].pair => i = j, NEW w, Walked(w, e, n, I, B)
  PROVE  Kept(w[n], e, n, I, B)
<1> DEFINE G == {k \in Nat : k <= n => Kept(w[k], e, k, I, B)}
<1>1. 0 \in G
  <2>1. w[0] = StartOf(I)
    BY DEF Walked
  <2>2. Kept(StartOf(I), e, 0, I, B)
    BY StartIsKept
  <2> QED  BY ONLY <2>1, <2>2
<1>2. ASSUME NEW k \in Nat, k \in G PROVE k + 1 \in G
  <2>1. ASSUME k + 1 <= n PROVE Kept(w[k + 1], e, k + 1, I, B)
    <3>1. k + 1 \in 0..n /\ k + 1 # 0 /\ k + 1 - 1 = k /\ k + 1 \in 1..n /\ k <= n
      BY <2>1
    <3>2. Kept(w[k], e, k, I, B)
      BY <1>2, <3>1
    <3>3. w[k + 1] = Resolving!Along(w[k], e[k + 1], B)
      BY <3>1 DEF Walked
    <3>4. e[k + 1].pair \in I \X I /\ \A i \in 1..k : e[i].pair # e[k + 1].pair
      <4>1. \A i \in 1..k : i \in 1..n /\ i # k + 1
        BY <2>1
      <4> QED  BY <3>1, <4>1
    <3> QED  BY <3>2, <3>3, <3>4, TurnKeeps
  <2> QED  BY <2>1
<1>3. Nat \subseteq G
  <2> HIDE DEF G
  <2> QED  BY <1>1, <1>2, NatInduct
<1> QED
  BY <1>3

\* The cluster of a class, and the clusters of a partition.
ClusterOf(st, C, B) ==
  [number   |-> Cardinality({D \in st.comps : Resolving!Min(D) <= Resolving!Min(C)}),
   members  |-> C,
   edges    |-> {p \in st.accepted : p[1] \in C /\ p[2] \in C},
   conflict |-> Resolving!InternalConflict(C, B)]

ClustersOf(st, B) == {ClusterOf(st, C, B) : C \in {D \in st.comps : Cardinality(D) > 1}}

GroupIn(clusters, id) == UNION ({{id}} \cup {c.members : c \in {k \in clusters : id \in k.members}})

AutosOf(A) == OfKind(A, "AUTO_MATCH")

\* e names the AUTO_MATCH decisions, and st is where the walk over them ends.
EndsIn(A, e, st) ==
  /\ Enumerates(e, AutosOf(A))
  /\ Kept(st, e, Cardinality(AutosOf(A)), IdsOf(A), ById(A))
  /\ ClusteredOf(A).guarded = st.guarded
  /\ ClusteredOf(A).clusters = ClustersOf(st, ById(A))

\* The clusters of a batch are those of a walk over its AUTO_MATCH edges.
LEMMA ClusteredIs ==
  ASSUME NEW A, RecordSeq(A)
  PROVE  \E e, st : EndsIn(A, e, st)
<1> DEFINE S == AutosOf(A)
           I == IdsOf(A)
           B == ById(A)
           n == Cardinality(S)
           e == Resolving!SortedBy(S, Resolving!Before)
           fold == EndOf(e, I, B)
<1>1. S \in SUBSET DecisionsOf(A) /\ IsFiniteSet(S) /\ n \in Nat
  <2>1. S \in SUBSET DecisionsOf(A)
    BY DEF AutosOf, OfKind
  <2> HIDE DEF S
  <2> QED  BY <2>1, DecisionsAre, FS_Subset, FS_CardinalityType
<1>2. Enumerates(e, S)
  <2> HIDE DEF S
  <2> QED  BY <1>1, DecisionsSort
<1>3. /\ \A i \in 1..n : e[i].pair \in I \X I
      /\ \A i, j \in 1..n : e[i].pair = e[j].pair => i = j
  <2>1. \A d \in S : d.pair \in I \X I
    BY <1>1, DecisionsAre
  <2>2. \A c, d \in S : c.pair = d.pair => c = d
    BY <1>1, DecisionsAre
  <2> HIDE DEF S, e, I
  <2> QED  BY <1>2, <2>1, <2>2 DEF Enumerates
<1>4. DOMAIN e = 1..n
  <2> HIDE DEF e, S
  <2> QED  BY <1>2 DEF Enumerates
<1>5. I \in SUBSET Nat /\ DOMAIN B = I
  BY ByIdIs
<1>6. ClusteredOf(A) =
        [clusters |-> {[number   |-> Resolving!Cardinality({D \in fold.comps : Resolving!Min(D) <= Resolving!Min(C)}),
                        members  |-> C,
                        edges    |-> {p \in fold.accepted : p[1] \in C /\ p[2] \in C},
                        conflict |-> Resolving!InternalConflict(C, B)] :
                         C \in {D \in fold.comps : Resolving!Cardinality(D) > 1}},
         guarded  |-> fold.guarded]
  <2>1. StartOf(I) = [comps |-> {{id} : id \in DOMAIN B}, accepted |-> {}, guarded |-> 0]
    BY <1>5 DEF StartOf
  <2> QED  BY <2>1 DEF ClusteredOf, AutosOf, Resolving!Clustered, EndOf
<1> HIDE DEF S, I, B, e, fold
<1>7. PICK w : Walked(w, e, n, I, B) /\ fold = w[n]
  <2> HIDE DEF n
  <2> QED  BY <1>1, <1>3, <1>4, WalkIsThere DEF fold
<1>8. Kept(fold, e, n, I, B)
  <2> HIDE DEF n, fold
  <2> QED  BY <1>1, <1>3, <1>5, <1>7, WalkKeeps
<1>9. ClusteredOf(A).guarded = fold.guarded /\ ClusteredOf(A).clusters = ClustersOf(fold, B)
  <2> DEFINE one(C) == [number   |-> Resolving!Cardinality({D \in fold.comps : Resolving!Min(D) <= Resolving!Min(C)}),
                        members  |-> C,
                        edges    |-> {p \in fold.accepted : p[1] \in C /\ p[2] \in C},
                        conflict |-> Resolving!InternalConflict(C, B)]
             big == {D \in fold.comps : Resolving!Cardinality(D) > 1}
  <2>1. ClusteredOf(A).guarded = fold.guarded /\ ClusteredOf(A).clusters = {one(C) : C \in big}
    BY <1>6
  <2>2. big = {D \in fold.comps : Cardinality(D) > 1}
    BY ResolvingCounts
  <2>3. \A C : one(C) = ClusterOf(fold, C, B)
    BY ResolvingCounts DEF ClusterOf
  <2> HIDE DEF one, big
  <2>4. {one(C) : C \in big} = {ClusterOf(fold, C, B) : C \in big}
    BY <2>3
  <2> QED  BY <2>1, <2>2, <2>4 DEF ClustersOf
<1>10. EndsIn(A, e, fold)
  BY <1>2, <1>8, <1>9 DEF EndsIn, S, I, B, n
<1> QED
  BY <1>10

\* The least member of a class tells it from the others.
LEMMA LeastIsIn ==
  ASSUME NEW I \in SUBSET Nat, NEW cs \in Parts(I), NEW C \in cs
  PROVE  Resolving!Min(C) \in C /\ Resolving!Min(C) \in Nat
<1>1. C \in SUBSET Nat /\ C # {}
  <2>1. cs \in SUBSET SUBSET I /\ {} \notin cs
    BY DEF Parts
  <2> QED  BY <2>1
<1>2. \E x \in C : \A y \in C : x <= y
  <2>1. IsWellFoundedOn(OpToRel(<, Nat), Nat)
    BY NatLessThanWellFounded
  <2>2. \E x \in C : \A y \in C : ~ (<<y, x>> \in OpToRel(<, Nat))
    BY <1>1, <2>1, WFMin
  <2>3. PICK x \in C : \A y \in C : ~ (<<y, x>> \in OpToRel(<, Nat))
    BY <2>2
  <2>4. \A y \in C : ~ (y < x)
    BY <1>1, <2>3 DEF OpToRel
  <2> QED  BY <1>1, <2>4
<1> QED
  BY <1>1, <1>2 DEF Resolving!Min

\* Clusters share no record and no number.
LEMMA ClustersAreApart ==
  ASSUME NEW I \in SUBSET Nat, IsFiniteSet(I), NEW st \in WalkStates(I), NEW B,
         NEW C \in st.comps, NEW D \in st.comps, C # D
  PROVE  C \cap D = {} /\ ClusterOf(st, C, B).number # ClusterOf(st, D, B).number
<1> DEFINE cs == st.comps
           least(X) == Resolving!Min(X)
           upto(X) == {Y \in cs : least(Y) <= least(X)}
<1>1. cs \in Parts(I)
  BY DEF WalkStates
<1>2. C \cap D = {}
  BY <1>1 DEF Parts
<1>3. \A X \in cs : least(X) \in X /\ least(X) \in Nat
  BY <1>1, LeastIsIn
<1>4. IsFiniteSet(cs)
  <2>1. cs \in SUBSET SUBSET I
    BY <1>1 DEF Parts
  <2> HIDE DEF cs
  <2> QED  BY <2>1, FS_SUBSET, FS_Subset
<1> HIDE DEF least, cs
<1>5. ASSUME NEW X \in cs, NEW Y \in cs, least(X) < least(Y)
      PROVE  Cardinality(upto(X)) # Cardinality(upto(Y))
  <2>1. upto(X) \in SUBSET upto(Y)
    BY <1>3, <1>5
  <2>2. Y \in upto(Y) /\ Y \notin upto(X)
    BY <1>3, <1>5
  <2>3. IsFiniteSet(upto(Y))
    BY <1>4, FS_Subset
  <2> HIDE DEF upto
  <2>4. upto(X) # upto(Y)
    BY <2>2
  <2> QED  BY <2>1, <2>3, <2>4, FS_Subset
<1>6. least(C) < least(D) \/ least(D) < least(C)
  <2>1. C \in cs /\ D \in cs
    BY DEF cs
  <2>2. least(C) \in C /\ least(D) \in D /\ least(C) \in Nat /\ least(D) \in Nat
    BY <1>3, <2>1
  <2>3. least(C) # least(D)
    BY <1>2, <2>2
  <2> QED  BY <2>2, <2>3
<1>7. Cardinality(upto(C)) # Cardinality(upto(D))
  <2>1. C \in cs /\ D \in cs
    BY DEF cs
  <2> HIDE DEF upto
  <2> QED  BY <1>5, <1>6, <2>1
<1> QED
  BY <1>2, <1>7 DEF ClusterOf, upto, least, cs

\* A class of one holds that one.
LEMMA LoneClass ==
  ASSUME NEW C, IsFiniteSet(C), NEW id \in C
  PROVE  /\ Cardinality(C) = 1 <=> C = {id}
         /\ Cardinality(C) > 1 <=> C # {id}
         /\ Cardinality(C) \in Nat
<1>1. IsFiniteSet({id}) /\ Cardinality({id}) = 1 /\ {id} \in SUBSET C
  BY FS_Singleton
<1>2. Cardinality(C) \in Nat /\ Cardinality({id}) <= Cardinality(C)
      /\ (Cardinality(C) = Cardinality({id}) => C = {id})
  BY <1>1, FS_Subset, FS_CardinalityType
<1> QED
  BY <1>1, <1>2

\* The group of a record is its class.
LEMMA GroupIsClass ==
  ASSUME NEW I, IsFiniteSet(I), NEW st \in WalkStates(I), NEW B, NEW C \in st.comps, NEW id \in C
  PROVE  GroupIn(ClustersOf(st, B), id) = C /\ IsFiniteSet(C)
<1> DEFINE cl == ClustersOf(st, B)
           mine == {c.members : c \in {k \in cl : id \in k.members}}
<1>1. st.comps \in Parts(I)
  BY DEF WalkStates
<1>2. IsFiniteSet(C) /\ \A D \in st.comps : id \in D => D = C
  <2>1. C \in SUBSET I
    BY <1>1 DEF Parts
  <2> QED  BY <1>1, <2>1, FS_Subset DEF Parts
<1>3. \A c \in cl : c.members \in st.comps /\ Cardinality(c.members) > 1
  <2>1. ASSUME NEW c \in cl PROVE c.members \in st.comps /\ Cardinality(c.members) > 1
    <3>1. PICK X \in {D \in st.comps : Cardinality(D) > 1} : c = ClusterOf(st, X, B)
      BY DEF ClustersOf
    <3>2. c.members = X
      BY <3>1 DEF ClusterOf
    <3> QED  BY <3>1, <3>2
  <2> QED  BY <2>1
<1>4. \A m \in mine : m = C /\ Cardinality(C) > 1
  <2> HIDE DEF cl
  <2> QED  BY <1>2, <1>3
<1>5. CASE Cardinality(C) > 1
  <2>1. ClusterOf(st, C, B) \in cl /\ ClusterOf(st, C, B).members = C
    BY <1>5 DEF ClustersOf, ClusterOf
  <2>2. mine = {C}
    <3>1. C \in mine
      <4> HIDE DEF cl
      <4> QED  BY <2>1
    <3> HIDE DEF mine
    <3> QED  BY <1>4, <3>1
  <2>3. UNION ({{id}} \cup mine) = C
    <3> HIDE DEF mine
    <3> QED  BY <2>2
  <2> QED  BY <1>2, <2>3 DEF GroupIn
<1>6. CASE ~ (Cardinality(C) > 1)
  <2>1. C = {id}
    BY <1>2, <1>6, LoneClass
  <2>2. mine = {}
    <3> HIDE DEF mine
    <3> QED  BY <1>4, <1>6
  <2>3. UNION ({{id}} \cup mine) = C
    <3> HIDE DEF mine
    <3> QED  BY <2>1, <2>2
  <2> QED  BY <1>2, <2>3 DEF GroupIn
<1> QED
  BY <1>5, <1>6

AutoPairs(A) == {d.pair : d \in AutosOf(A)}

\* Every AUTO_MATCH edge is settled, and counted as taken or kept out.
LEMMA AutosAreSettled ==
  ASSUME NEW A, RecordSeq(A), NEW e, NEW st, EndsIn(A, e, st)
  PROVE  /\ st \in WalkStates(IdsOf(A)) /\ AutoPairs(A) \subseteq IdsOf(A) \X IdsOf(A)
         /\ st.accepted \subseteq AutoPairs(A) /\ IsFiniteSet(st.accepted)
         /\ \A p \in AutoPairs(A) : Settled(st, p, ById(A))
         /\ Cardinality(AutoPairs(A)) = st.guarded + Cardinality(st.accepted)
<1> DEFINE S == AutosOf(A)
           n == Cardinality(S)
           P == AutoPairs(A)
           f == [d \in S |-> d.pair]
<1>1. S \in SUBSET DecisionsOf(A) /\ IsFiniteSet(S)
  <2>1. S \in SUBSET DecisionsOf(A)
    BY DEF AutosOf, OfKind
  <2> HIDE DEF S
  <2> QED  BY <2>1, DecisionsAre, FS_Subset
<1>2. /\ \A d \in S : d.pair \in IdsOf(A) \X IdsOf(A)
      /\ \A c, d \in S : c.pair = d.pair => c = d
  BY <1>1, DecisionsAre
<1>3. P = {d.pair : d \in S}
  BY DEF AutoPairs
<1>4. /\ st \in WalkStates(IdsOf(A)) /\ st.accepted \subseteq {e[i].pair : i \in 1..n} /\ IsFiniteSet(st.accepted)
      /\ Cardinality(st.accepted) + st.guarded = n
      /\ \A i \in 1..n : Settled(st, e[i].pair, ById(A))
      /\ e \in [1..n -> S] /\ \A x \in S : \E i \in 1..n : e[i] = x
  BY DEF EndsIn, Kept, Enumerates
<1> HIDE DEF S, P
<1>5. f \in Bijection(S, P)
  <2>1. f \in [S -> P] /\ \A d \in S : f[d] = d.pair
    BY <1>3
  <2> HIDE DEF f
  <2> QED  BY <1>2, <1>3, <2>1 DEF Bijection, Injection, Surjection, IsInjective
<1>6. Cardinality(P) = n
  <2> HIDE DEF f
  <2> QED  BY <1>1, <1>5, FS_Bijection DEF ExistsBijection
<1>7. \A p \in P : p \in IdsOf(A) \X IdsOf(A) /\ Settled(st, p, ById(A))
  BY <1>2, <1>3, <1>4
<1>8. st.accepted \subseteq P
  BY <1>3, <1>4
<1>9. Cardinality(st.accepted) \in Nat /\ st.guarded \in Nat
  BY <1>4, FS_CardinalityType DEF WalkStates
<1>10. Cardinality(P) = st.guarded + Cardinality(st.accepted)
  BY <1>4, <1>6, <1>9
<1> QED
  BY <1>4, <1>7, <1>8, <1>10 DEF P

\* The edges of the clusters, and the records of one id that match and stay alone.
EdgesIn(cl) == UNION {c.edges : c \in cl}
LoneAutos(A, cl) == {p \in AutoPairs(A) : p[1] = p[2] /\ Cardinality(GroupIn(cl, p[1])) = 1}

\* The accepted edges are those of the clusters and the records that match themselves.
LEMMA AcceptedAreCounted ==
  ASSUME NEW A, RecordSeq(A), NEW e, NEW st, EndsIn(A, e, st), NEW cl, cl = ClusteredOf(A).clusters
  PROVE  /\ Cardinality(st.accepted) = Cardinality(EdgesIn(cl)) + Cardinality(LoneAutos(A, cl))
         /\ Cardinality(EdgesIn(cl)) \in Nat /\ Cardinality(LoneAutos(A, cl)) \in Nat
<1> DEFINE I == IdsOf(A)
           B == ById(A)
           U == UNION {c.edges : c \in cl}
           V == {p \in AutoPairs(A) : p[1] = p[2] /\ Cardinality(GroupIn(cl, p[1])) = 1}
<1>1. cl = ClustersOf(st, B) /\ \A p \in st.accepted : Joins(st.comps, p)
  BY DEF EndsIn, Kept
<1>2. /\ st \in WalkStates(I) /\ AutoPairs(A) \subseteq I \X I /\ st.accepted \subseteq AutoPairs(A) /\ IsFiniteSet(st.accepted)
      /\ \A p \in AutoPairs(A) : Settled(st, p, B)
  BY AutosAreSettled
<1>3. IsFiniteSet(I) /\ st.comps \in Parts(I)
  BY <1>2, ByIdIs DEF WalkStates
<1>4. \A C \in st.comps : \A id \in C : GroupIn(cl, id) = C /\ IsFiniteSet(C)
  <2> HIDE DEF I, B
  <2> QED  BY <1>1, <1>2, <1>3, GroupIsClass
<1>5. \A x : x \in U <=> \E C \in st.comps : Cardinality(C) > 1 /\ x \in st.accepted /\ x[1] \in C /\ x[2] \in C
  <2>1. \A c \in cl : \E C \in st.comps : Cardinality(C) > 1 /\ c.edges = {p \in st.accepted : p[1] \in C /\ p[2] \in C}
    <3>1. ASSUME NEW c \in cl
          PROVE  \E C \in st.comps : Cardinality(C) > 1 /\ c.edges = {p \in st.accepted : p[1] \in C /\ p[2] \in C}
      <4>1. PICK C \in {D \in st.comps : Cardinality(D) > 1} : c = ClusterOf(st, C, B)
        BY <1>1 DEF ClustersOf
      <4> QED  BY <4>1 DEF ClusterOf
    <3> QED  BY <3>1
  <2>2. \A C \in st.comps : Cardinality(C) > 1
          => \E c \in cl : c.edges = {p \in st.accepted : p[1] \in C /\ p[2] \in C}
    <3>1. ASSUME NEW C \in st.comps, Cardinality(C) > 1
          PROVE  \E c \in cl : c.edges = {p \in st.accepted : p[1] \in C /\ p[2] \in C}
      <4>1. ClusterOf(st, C, B) \in cl
        BY <1>1, <3>1 DEF ClustersOf
      <4>2. ClusterOf(st, C, B).edges = {p \in st.accepted : p[1] \in C /\ p[2] \in C}
        BY DEF ClusterOf
      <4> QED  BY <4>1, <4>2
    <3> QED  BY <3>1
  <2> QED  BY <2>1, <2>2
<1>6. V \subseteq st.accepted /\ U \subseteq st.accepted
  BY <1>2, <1>5 DEF Settled
<1>7. st.accepted \subseteq U \cup V
  <2>1. ASSUME NEW p \in st.accepted PROVE p \in U \/ p \in V
    <3>1. PICK C \in st.comps : p[1] \in C /\ p[2] \in C
      BY <1>1 DEF Joins
    <3>2. IsFiniteSet(C) /\ GroupIn(cl, p[1]) = C
      BY <1>4, <3>1
    <3>3. CASE Cardinality(C) > 1
      <4> HIDE DEF U
      <4> QED  BY <1>5, <3>1, <3>3
    <3>4. CASE ~ (Cardinality(C) > 1)
      <4>1. C = {p[1]} /\ Cardinality(C) = 1
        BY <3>1, <3>2, <3>4, LoneClass
      <4> QED  BY <1>2, <3>1, <3>2, <4>1
    <3> QED  BY <3>3, <3>4
  <2> QED  BY <2>1
<1>8. U \cap V = {}
  <2>1. ASSUME NEW p \in U, p \in V PROVE FALSE
    <3>1. PICK C \in st.comps : Cardinality(C) > 1 /\ p[1] \in C
      <4> HIDE DEF U
      <4> QED  BY <1>5
    <3>2. Cardinality(GroupIn(cl, p[1])) = 1 /\ GroupIn(cl, p[1]) = C
      BY <1>4, <2>1, <3>1
    <3> QED  BY <3>1, <3>2
  <2> QED  BY <2>1
<1> HIDE DEF U, V
<1>9. IsFiniteSet(U) /\ IsFiniteSet(V) /\ st.accepted = U \cup V
  BY <1>2, <1>6, <1>7, FS_Subset
<1>10. /\ Cardinality(st.accepted) = Cardinality(U) + Cardinality(V)
       /\ Cardinality(U) \in Nat /\ Cardinality(V) \in Nat
  BY <1>8, <1>9, DisjointAdds
<1> QED
  BY <1>10 DEF U, V, EdgesIn, LoneAutos

\* Every AUTO_MATCH ends in one cluster or the guard kept it out, and none is lost.
LEMMA AutosAreGrouped ==
  ASSUME ResolvingInv
  PROVE  Resolving!AutoMatchesAreGrouped
<1> DEFINE A == Resolving!Entities(input)
           cl == output.clusters
           group(id) == UNION ({{id}} \cup {c.members : c \in {k \in cl : id \in k.members}})
           auto == {d.pair : d \in {x \in output.decisions : x.decision = "AUTO_MATCH"}}
<1> SUFFICES ASSUME Resolving!Done
             PROVE  /\ \A p \in auto : \/ group(p[1]) = group(p[2])
                                       \/ /\ Guard
                                          /\ Resolving!InternalConflict(group(p[1]) \cup group(p[2]), output.records)
                    /\ Resolving!Cardinality(auto)
                         = output.summary.guarded
                           + Resolving!Cardinality(UNION {c.edges : c \in cl})
                           + Resolving!Cardinality({p \in auto : p[1] = p[2] /\ Resolving!Cardinality(group(p[1])) = 1})
  BY DEF Resolving!AutoMatchesAreGrouped
<1>1. RecordSeq(A) /\ output = Resolving!Resolve(A)
  BY BatchIs
<1> HIDE DEF A
<1>2. /\ output.records = ById(A) /\ output.decisions = DecisionsOf(A) /\ cl = ClusteredOf(A).clusters
      /\ output.summary.guarded = ClusteredOf(A).guarded
  BY <1>1, ResolvedIs
<1>3. PICK e, st : EndsIn(A, e, st)
  BY <1>1, ClusteredIs
<1> DEFINE I == IdsOf(A)
           B == ById(A)
<1>4. cl = ClustersOf(st, B) /\ output.summary.guarded = st.guarded /\ \A p \in st.accepted : Joins(st.comps, p)
  BY <1>2, <1>3 DEF EndsIn, Kept
<1>5. /\ st \in WalkStates(I) /\ AutoPairs(A) \subseteq I \X I /\ IsFiniteSet(st.accepted)
      /\ \A p \in AutoPairs(A) : Settled(st, p, B)
      /\ Cardinality(AutoPairs(A)) = st.guarded + Cardinality(st.accepted)
  BY <1>1, <1>3, AutosAreSettled
<1>6. auto = AutoPairs(A)
  BY <1>2 DEF AutoPairs, AutosOf, OfKind
<1>7. \A id : group(id) = GroupIn(cl, id)
  BY DEF GroupIn
<1>8. IsFiniteSet(I) /\ st.comps \in Parts(I)
  BY <1>1, <1>5, ByIdIs DEF WalkStates
<1> HIDE DEF cl, group, auto, I, B
<1>9. \A C \in st.comps : \A id \in C : GroupIn(cl, id) = C
  BY <1>4, <1>5, <1>8, GroupIsClass
<1>10. ASSUME NEW p \in auto
       PROVE  \/ group(p[1]) = group(p[2])
              \/ Guard /\ Resolving!InternalConflict(group(p[1]) \cup group(p[2]), output.records)
  <2>1. Settled(st, p, B)
    BY <1>5, <1>6
  <2>2. CASE p \in st.accepted
    <3>1. PICK C \in st.comps : p[1] \in C /\ p[2] \in C
      BY <1>4, <2>2 DEF Joins
    <3> QED  BY <1>7, <1>9, <3>1
  <2>3. CASE p \notin st.accepted
    <3>1. PICK C \in st.comps, D \in st.comps :
               Guard /\ p[1] \in C /\ p[2] \in D /\ Resolving!InternalConflict(C \cup D, B)
      BY <2>1, <2>3 DEF Settled
    <3>2. group(p[1]) = C /\ group(p[2]) = D
      BY <1>7, <1>9, <3>1
    <3> QED  BY <1>2, <3>1, <3>2 DEF B
  <2> QED  BY <2>2, <2>3
<1> DEFINE U == UNION {c.edges : c \in cl}
           V == {p \in auto : p[1] = p[2] /\ Cardinality(group(p[1])) = 1}
<1>11. /\ Cardinality(st.accepted) = Cardinality(U) + Cardinality(V)
       /\ Cardinality(U) \in Nat /\ Cardinality(V) \in Nat
  <2>1. cl = ClusteredOf(A).clusters
    BY <1>2
  <2> DEFINE W == {p \in AutoPairs(A) : p[1] = p[2] /\ Cardinality(GroupIn(cl, p[1])) = 1}
  <2>2. V = W
    BY <1>6, <1>7
  <2>3. /\ Cardinality(st.accepted) = Cardinality(EdgesIn(cl)) + Cardinality(LoneAutos(A, cl))
        /\ Cardinality(EdgesIn(cl)) \in Nat /\ Cardinality(LoneAutos(A, cl)) \in Nat
    BY <1>1, <1>3, <2>1, AcceptedAreCounted
  <2>4. U = EdgesIn(cl) /\ W = LoneAutos(A, cl)
    BY DEF EdgesIn, LoneAutos
  <2> HIDE DEF U, V, W
  <2> QED  BY <2>2, <2>3, <2>4
<1>12. V = {p \in auto : p[1] = p[2] /\ Resolving!Cardinality(group(p[1])) = 1}
  BY ResolvingCounts
<1>13. Cardinality(auto) = output.summary.guarded + Cardinality(U) + Cardinality(V)
  <2>1. st.guarded \in Nat
    BY <1>5 DEF WalkStates
  <2> HIDE DEF U, V
  <2> QED  BY <1>4, <1>5, <1>6, <1>11, <2>1
<1> QED
  BY <1>10, <1>12, <1>13, ResolvingCounts DEF U, V

\* No cluster holds a severe conflict under the guard, clusters share nothing, and each
\* is joined by its own edges.
LEMMA ClustersHoldTogether ==
  ASSUME ResolvingInv
  PROVE  Resolving!ClustersAreConsistent
<1> DEFINE A == Resolving!Entities(input)
           cl == output.clusters
           B == ById(A)
           I == IdsOf(A)
<1> SUFFICES ASSUME Resolving!Done
             PROVE  /\ Guard => \A c \in cl : ~ Resolving!InternalConflict(c.members, output.records)
                    /\ \A c, d \in cl : c # d => c.members \cap d.members = {} /\ c.number # d.number
                    /\ \A c \in cl : \A S \in (SUBSET c.members) \ {{}, c.members} :
                         \E p \in c.edges : (p[1] \in S) # (p[2] \in S)
  BY DEF Resolving!ClustersAreConsistent
<1>1. RecordSeq(A) /\ output = Resolving!Resolve(A)
  BY BatchIs
<1> HIDE DEF A
<1>2. output.records = B /\ cl = ClusteredOf(A).clusters
  BY <1>1, ResolvedIs
<1>3. PICK e, st : EndsIn(A, e, st)
  BY <1>1, ClusteredIs
<1>4. /\ cl = ClustersOf(st, B) /\ st \in WalkStates(I)
      /\ (Guard => \A C \in st.comps : ~ Resolving!InternalConflict(C, B))
      /\ \A C \in st.comps : HeldTogether(C, st.accepted)
  BY <1>2, <1>3 DEF EndsIn, Kept
<1>5. IsFiniteSet(I) /\ I \in SUBSET Nat
  BY <1>1, ByIdIs
<1> HIDE DEF cl, B, I
<1>6. ASSUME NEW c \in cl PROVE \E C \in st.comps : c = ClusterOf(st, C, B)
  BY <1>4 DEF ClustersOf
<1>7. ASSUME NEW c \in cl PROVE Guard => ~ Resolving!InternalConflict(c.members, output.records)
  <2>1. PICK C \in st.comps : c = ClusterOf(st, C, B)
    BY <1>6
  <2>2. c.members = C
    BY <2>1 DEF ClusterOf
  <2> QED  BY <1>2, <1>4, <2>2
<1>8. ASSUME NEW c \in cl, NEW d \in cl, c # d PROVE c.members \cap d.members = {} /\ c.number # d.number
  <2>1. PICK C \in st.comps : c = ClusterOf(st, C, B)
    BY <1>6
  <2>2. PICK D \in st.comps : d = ClusterOf(st, D, B)
    BY <1>6
  <2>3. c.members = C /\ d.members = D /\ C # D
    <3>1. c.members = C /\ d.members = D
      BY <2>1, <2>2 DEF ClusterOf
    <3> QED  BY <1>8, <2>1, <2>2, <3>1
  <2>4. C \cap D = {} /\ ClusterOf(st, C, B).number # ClusterOf(st, D, B).number
    BY <1>4, <1>5, <2>3, ClustersAreApart
  <2> QED  BY <2>1, <2>2, <2>3, <2>4
<1>9. ASSUME NEW c \in cl, NEW S \in SUBSET c.members, S # {}, S # c.members
      PROVE  \E p \in c.edges : (p[1] \in S) # (p[2] \in S)
  <2>1. PICK C \in st.comps : c = ClusterOf(st, C, B)
    BY <1>6
  <2>2. c.members = C /\ c.edges = {p \in st.accepted : p[1] \in C /\ p[2] \in C}
    BY <2>1 DEF ClusterOf
  <2>3. PICK p \in st.accepted : p[1] \in C /\ p[2] \in C /\ (p[1] \in S) # (p[2] \in S)
    BY <1>4, <1>9, <2>2 DEF HeldTogether
  <2> QED  BY <2>2, <2>3
<1> QED
  BY <1>7, <1>8, <1>9

-----------------------------------------------------------------------------
(* The order of the rows *)

\* Records of ids of their own are sorted the same way in whatever order they come.
LEMMA SortedAgree ==
  ASSUME NEW A, RecordSeq(A), NEW C, RecordSeq(C), UniqueIn(A), Range(A) = Range(C), Len(A) = Len(C)
  PROVE  Resolving!Sorted(A) = Resolving!Sorted(C)
<1> DEFINE s == Resolving!Sorted(A)
           t == Resolving!Sorted(C)
           N == Len(A)
           G == {k \in Nat : \A i \in 1..N : i <= k => s[i] = t[i]}
<1>1. UniqueIn(C)
  BY DEF UniqueIn, IdsOf
<1>2. /\ N \in Nat /\ DOMAIN s = 1..N /\ DOMAIN t = 1..N /\ Range(s) = Range(A) /\ Range(t) = Range(A)
      /\ \A n \in 1..N : s[n].id \in Nat /\ t[n].id \in Nat
      /\ \A m, n \in 1..N : m < n => s[m].id < s[n].id
      /\ \A m, n \in 1..N : m < n => t[m].id < t[n].id
  <2>1. /\ N \in Nat /\ DOMAIN s = 1..N /\ Range(s) = Range(A)
        /\ \A n \in 1..N : HasNumbers(s[n])
        /\ \A m, n \in 1..N : m < n => s[m].id <= s[n].id
        /\ \A m, n \in 1..N : s[m].id = s[n].id => m = n
    BY SortedHas, UniquePositions
  <2>2. /\ DOMAIN t = 1..N /\ Range(t) = Range(A)
        /\ \A n \in 1..N : HasNumbers(t[n])
        /\ \A m, n \in 1..N : m < n => t[m].id <= t[n].id
        /\ \A m, n \in 1..N : t[m].id = t[n].id => m = n
    BY <1>1, SortedHas, UniquePositions
  <2> HIDE DEF s, t, N
  <2>3. \A n \in 1..N : s[n].id \in Nat /\ t[n].id \in Nat
    BY ONLY <2>1, <2>2 DEF HasNumbers
  <2> QED  BY <2>1, <2>2, <2>3
<1>3. s = [n \in 1..N |-> s[n]] /\ t = [n \in 1..N |-> t[n]]
  BY <1>2 DEF Resolving!Sorted
<1> HIDE DEF s, t, N
<1>4. \A i \in 1..N : \E j \in 1..N : s[i] = t[j]
  BY <1>2 DEF Range
<1>5. \A i \in 1..N : \E j \in 1..N : t[i] = s[j]
  BY <1>2 DEF Range
<1>6. 0 \in G
  OBVIOUS
<1>7. ASSUME NEW k \in Nat, k \in G PROVE k + 1 \in G
  <2>1. ASSUME k + 1 <= N PROVE s[k + 1] = t[k + 1]
    <3>1. k + 1 \in 1..N
      BY <1>2, <2>1
    <3>2. \A i \in 1..N : i <= k => s[i] = t[i]
      BY <1>7
    <3>3. PICK j \in 1..N : s[k + 1] = t[j]
      BY <1>4, <3>1
    <3>4. PICK l \in 1..N : t[k + 1] = s[l]
      BY <1>5, <3>1
    <3>5. \A m, n \in 1..N : s[m] = s[n] => m = n
      BY <1>2
    <3>6. \A m, n \in 1..N : t[m] = t[n] => m = n
      BY <1>2
    <3>7. k + 1 <= j
      BY <1>2, <3>1, <3>2, <3>3, <3>5
    <3>8. k + 1 <= l
      BY <1>2, <3>1, <3>2, <3>4, <3>6
    <3>9. k + 1 # l => s[k + 1].id < s[l].id
      BY <1>2, <3>1, <3>8
    <3>10. k + 1 # j => t[k + 1].id < t[j].id
      BY <1>2, <3>1, <3>7
    <3>11. s[k + 1].id \in Nat /\ s[l].id \in Nat /\ t[k + 1].id = s[l].id /\ t[j].id = s[k + 1].id
      BY <1>2, <3>1, <3>3, <3>4
    <3>12. k + 1 = l \/ k + 1 = j
      BY <3>9, <3>10, <3>11
    <3> QED  BY <3>3, <3>4, <3>12
  <2>2. ASSUME NEW i \in 1..N, i <= k + 1 PROVE s[i] = t[i]
    <3>1. i <= k \/ i = k + 1
      BY <1>2, <2>2
    <3> QED  BY <1>2, <1>7, <2>1, <2>2, <3>1
  <2> QED  BY <2>2
<1>8. Nat \subseteq G
  <2> HIDE DEF G
  <2> QED  BY <1>6, <1>7, NatInduct
<1>9. \A n \in 1..N : s[n] = t[n]
  <2>1. N \in G
    BY <1>2, <1>8
  <2>2. \A i \in 1..N : i <= N => s[i] = t[i]
    BY <2>1
  <2> QED  BY <1>2, <2>2
<1>10. s = t
  BY <1>3, <1>9
<1> QED
  BY <1>10 DEF s, t

\* What resolve_entities returns rests on the sorted records, their set and number.
LEMMA ResolveRestsOnSorted ==
  ASSUME NEW A, NEW C, Resolving!Sorted(A) = Resolving!Sorted(C), Range(A) = Range(C), Len(A) = Len(C)
  PROVE  Resolving!Resolve(A) = Resolving!Resolve(C)
<1> DEFINE
  byId(s) == [id \in {r.id : r \in Resolving!Range(s)} |-> s[Resolving!Max({i \in DOMAIN s : s[i].id = id})]]
  decisions(s) == {Resolving!Decision(byId(s)[p[1]], byId(s)[p[2]]) : p \in Resolving!Candidates(s)}
  of(s, v) == {x \in decisions(s) : x.decision = v}
  clustered(s) == Resolving!Clustered(of(s, "AUTO_MATCH"), byId(s))
  result(s, R, n) ==
    IF \E r \in R : DOMAIN r.fields \cap Resolving!Forbidden # {} THEN Resolving!Refused
    ELSE [outcome |-> "resolved", records |-> byId(s), candidates |-> Resolving!Candidates(s),
          decisions |-> decisions(s), review |-> Resolving!SortedBy(of(s, "REVIEW"), Resolving!Before),
          clusters |-> clustered(s).clusters,
          summary |-> [records |-> n, possible |-> Resolving!PossiblePairs(n),
                       auto |-> Resolving!Cardinality(of(s, "AUTO_MATCH")),
                       review |-> Resolving!Cardinality(of(s, "REVIEW")),
                       none |-> Resolving!Cardinality(of(s, "NO_MATCH")), guarded |-> clustered(s).guarded]]
<1>1. Resolving!Resolve(A) = result(Resolving!Sorted(A), Resolving!Range(A), Len(A))
  BY DEF Resolving!Resolve
<1>2. Resolving!Resolve(C) = result(Resolving!Sorted(C), Resolving!Range(C), Len(C))
  BY DEF Resolving!Resolve
<1> HIDE DEF result
<1> QED
  BY <1>1, <1>2, ResolvingRange

Turned(b, n) == SubSeq(b, n, Len(b)) \o SubSeq(b, 1, n - 1)

\* A sequence turned by n holds the same, from n on.
LEMMA TurnedIs ==
  ASSUME NEW S, NEW b \in Seq(S), NEW n \in 1..Len(b)
  PROVE  /\ Turned(b, n) \in Seq(S) /\ Len(Turned(b, n)) = Len(b)
         /\ \A i \in 1..Len(b) : Turned(b, n)[i] = IF i <= Len(b) - n + 1 THEN b[n + i - 1] ELSE b[i - (Len(b) - n + 1)]
<1> DEFINE u == SubSeq(b, n, Len(b))
           v == SubSeq(b, 1, n - 1)
           L == Len(b)
<1>1. L \in Nat /\ n \in Nat /\ 1 <= n /\ n <= L
  OBVIOUS
<1>2. u \in Seq(S) /\ Len(u) = L - n + 1 /\ \A i \in 1..(L - n + 1) : u[i] = b[n + i - 1]
  OBVIOUS
<1>3. v \in Seq(S) /\ Len(v) = n - 1 /\ \A i \in 1..(n - 1) : v[i] = b[i]
  OBVIOUS
<1>4. Turned(b, n) = u \o v
  BY DEF Turned
<1> HIDE DEF u, v, L
<1>5. /\ u \o v \in Seq(S) /\ Len(u \o v) = Len(u) + Len(v)
      /\ \A i \in 1..(Len(u) + Len(v)) : (u \o v)[i] = IF i <= Len(u) THEN u[i] ELSE v[i - Len(u)]
  BY <1>2, <1>3
<1>6. Len(u) + Len(v) = L
  BY <1>1, <1>2, <1>3
<1>7. ASSUME NEW i \in 1..L
      PROVE  (u \o v)[i] = IF i <= L - n + 1 THEN b[n + i - 1] ELSE b[i - (L - n + 1)]
  <2>1. CASE i <= L - n + 1
    <3>1. i \in 1..(L - n + 1)
      BY <1>1, <2>1
    <3> QED  BY <1>2, <1>5, <1>6, <2>1, <3>1
  <2>2. CASE ~ (i <= L - n + 1)
    <3>1. i - (L - n + 1) \in 1..(n - 1)
      BY <1>1, <2>2
    <3>2. (u \o v)[i] = v[i - (L - n + 1)]
      BY <1>2, <1>5, <1>6, <2>2
    <3>3. v[i - (L - n + 1)] = b[i - (L - n + 1)]
      BY <1>3, <3>1
    <3> QED  BY <2>2, <3>2, <3>3
  <2> QED  BY <2>1, <2>2
<1> QED
  BY <1>4, <1>5, <1>6, <1>7 DEF L

\* Rows with ids of their sources make the same records in any rotation.
LEMMA TurnedEntities ==
  ASSUME NEW b \in Batches, \A m \in DOMAIN b : b[m].source # 0, NEW n \in DOMAIN b,
         NEW A, A = Resolving!Entities(b), NEW C, C = Resolving!Entities(Turned(b, n))
  PROVE  RecordSeq(C) /\ Range(A) = Range(C) /\ Len(A) = Len(C)
<1> DEFINE S == Resolving!Range(b)
           L == Len(b)
           t == Turned(b, n)
           rec(row) == [id |-> row.source, fields |-> [f \in DOMAIN row.values \ Resolving!Forbidden |-> row.values[f]]]
<1>1. b \in Seq(S)
  BY PipelineAssumption DEF Resolving!BatchAssumption
<1>2. L \in Nat /\ DOMAIN b = 1..L /\ n \in 1..L
  <2> HIDE DEF S
  <2> QED  BY <1>1
<1>3. /\ t \in Seq(S) /\ Len(t) = L
      /\ \A i \in 1..L : t[i] = IF i <= L - n + 1 THEN b[n + i - 1] ELSE b[i - (L - n + 1)]
  <2> HIDE DEF S
  <2> QED  BY <1>1, <1>2, TurnedIs
<1> HIDE DEF t, S
<1>4. DOMAIN t = 1..L
  BY <1>3
<1>5. \A i \in 1..L : \E j \in 1..L : t[i] = b[j]
  <2>1. ASSUME NEW i \in 1..L PROVE \E j \in 1..L : t[i] = b[j]
    <3>1. CASE i <= L - n + 1
      <4>1. n + i - 1 \in 1..L
        BY <1>2, <3>1
      <4> QED  BY <1>3, <3>1, <4>1
    <3>2. CASE ~ (i <= L - n + 1)
      <4>1. i - (L - n + 1) \in 1..L
        BY <1>2, <3>2
      <4> QED  BY <1>3, <3>2, <4>1
    <3> QED  BY <3>1, <3>2
  <2> QED  BY <2>1
<1>6. \A j \in 1..L : \E i \in 1..L : t[i] = b[j]
  <2>1. ASSUME NEW j \in 1..L PROVE \E i \in 1..L : t[i] = b[j]
    <3>1. CASE n <= j
      <4>1. j - n + 1 \in 1..L /\ j - n + 1 <= L - n + 1 /\ n + (j - n + 1) - 1 = j
        BY <1>2, <3>1
      <4>2. t[j - n + 1] = b[n + (j - n + 1) - 1]
        BY <1>3, <4>1
      <4> QED  BY <4>1, <4>2
    <3>2. CASE ~ (n <= j)
      <4>1. /\ L - n + 1 + j \in 1..L /\ ~ (L - n + 1 + j <= L - n + 1)
            /\ (L - n + 1 + j) - (L - n + 1) = j
        BY <1>2, <3>2
      <4>2. t[L - n + 1 + j] = b[(L - n + 1 + j) - (L - n + 1)]
        BY <1>3, <4>1
      <4> QED  BY <4>1, <4>2
    <3> QED  BY <3>1, <3>2
  <2> QED  BY <2>1
<1>7. A = [m \in 1..L |-> Resolving!Entity(b[m], m)] /\ C = [m \in 1..L |-> Resolving!Entity(t[m], m)]
  BY <1>2, <1>4 DEF Resolving!Entities, t
<1>8. \A m \in 1..L : A[m] = rec(b[m])
  BY <1>2, <1>7 DEF Resolving!Entity, Resolving!Nothing
<1>9. \A m \in 1..L : C[m] = rec(t[m])
  <2>1. \A m \in 1..L : t[m].source # 0
    BY <1>2, <1>5
  <2> QED  BY <1>7, <2>1 DEF Resolving!Entity, Resolving!Nothing
<1> HIDE DEF rec
<1>10. DOMAIN A = 1..L /\ DOMAIN C = 1..L
  BY <1>7
<1>11. Range(A) = Range(C)
  <2> HIDE DEF L
  <2>1. \A i \in 1..L : \E j \in 1..L : A[i] = C[j]
    BY ONLY <1>6, <1>8, <1>9
  <2>2. \A i \in 1..L : \E j \in 1..L : C[i] = A[j]
    BY ONLY <1>5, <1>8, <1>9
  <2>3. Range(A) = {A[i] : i \in 1..L} /\ Range(C) = {C[i] : i \in 1..L}
    BY <1>10 DEF Range
  <2>4. Range(A) \subseteq Range(C)
    BY <2>1, <2>3
  <2>5. Range(C) \subseteq Range(A)
    BY <2>2, <2>3
  <2> QED  BY <2>4, <2>5
<1>12. RecordSeq(A) /\ Len(A) = L
  BY EntitiesAreRecords
<1>13. C \in Seq(Range(C)) /\ Len(C) = L
  <2>1. \A m \in 1..L : C[m] \in Range(C)
    BY <1>10 DEF Range
  <2>2. C = [m \in 1..L |-> C[m]]
    BY <1>7
  <2> QED  BY <1>2, <2>1, <2>2
<1> QED
  BY <1>11, <1>12, <1>13 DEF RecordSeq

\* The order of the rows changes nothing.
LEMMA OrderIsImmaterial ==
  ASSUME ResolvingInv
  PROVE  Resolving!RowOrderIsImmaterial
<1> SUFFICES ASSUME Resolving!Done, Resolving!Unique, \A m \in DOMAIN input : input[m].source # 0,
                    NEW n \in DOMAIN input
             PROVE  Resolving!Resolve(Resolving!Entities(Turned(input, n))) = output
  BY DEF Resolving!RowOrderIsImmaterial, Resolving!Nothing, Turned
<1> DEFINE A == Resolving!Entities(input)
           C == Resolving!Entities(Turned(input, n))
<1>1. RecordSeq(A) /\ output = Resolving!Resolve(A) /\ UniqueIn(A)
  BY BatchIs
<1>2. input \in Batches
  BY DEF ResolvingInv
<1>3. RecordSeq(C) /\ Range(A) = Range(C) /\ Len(A) = Len(C)
  BY <1>2, TurnedEntities
<1> HIDE DEF A, C
<1>4. Resolving!Sorted(A) = Resolving!Sorted(C)
  BY <1>1, <1>3, SortedAgree
<1>5. Resolving!Resolve(A) = Resolving!Resolve(C)
  BY <1>3, <1>4, ResolveRestsOnSorted
<1> QED
  BY <1>1, <1>5 DEF C

-----------------------------------------------------------------------------
\* Entity resolution starts with a batch, and resolves it.
LEMMA ResolvingKeeps ==
  /\ Resolving!Init => ResolvingInv
  /\ ResolvingInv /\ Resolving!Next => ResolvingInv'
<1>1. Resolving!Init => ResolvingInv
  BY DEF Resolving!Init, ResolvingInv
<1>2. ASSUME ResolvingInv, Resolving!Next PROVE ResolvingInv'
  <2>1. input \in Batches /\ input' = input /\ output' = Resolving!Resolve(Resolving!Entities(input))
    BY <1>2 DEF Resolving!Next, Resolving!ResolveBatch, ResolvingInv
  <2> QED  BY <2>1 DEF ResolvingInv
<1> QED
  BY <1>1, <1>2

-----------------------------------------------------------------------------
(* Schema mapping *)

\* Cardinality, Range and the sums are those of the library.
LEMMA MappingCounts ==
  /\ \A S : Mapping!Cardinality(S) = Cardinality(S)
  /\ \A f : Mapping!Range(f) = Range(f)
  /\ \A c : Mapping!Filled(c) = {row \in DOMAIN c : c[row].kind \notin {"null", "blank"}}
<1>1. \A S : Mapping!Cardinality(S) = Cardinality(S)
  BY DEF Mapping!Cardinality, Cardinality, Mapping!IsFiniteSet, IsFiniteSet
<1> QED
  BY <1>1 DEF Mapping!Range, Range, Mapping!Filled

Percents == 0..100

\* A part of a whole is a percentage of it.
LEMMA PercentIs ==
  ASSUME NEW n \in Nat, NEW t \in Nat, n <= t
  PROVE  Mapping!Percent(n, t) \in Percents
<1>1. CASE t = 0
  BY <1>1 DEF Mapping!Percent, Percents
<1>2. CASE t # 0
  <2> DEFINE q == (100 * n) \div t
             m == 100 * n
  <2>1. m \in Nat /\ m <= 100 * t
    OBVIOUS
  <2> HIDE DEF m
  <2>2. m \div t \in Int /\ 0 <= m \div t /\ (m \div t) * t <= m
    <3>1. t \in Nat /\ t > 0
      BY <1>2
    <3> QED  BY <2>1, <3>1
  <2>3. m \div t <= 100
    <3> DEFINE k == m \div t
    <3>1. k \in Nat /\ k * t <= 100 * t
      BY <2>1, <2>2
    <3> HIDE DEF k
    <3>2. ASSUME k >= 101 PROVE FALSE
      <4>1. k * t >= 101 * t
        BY <1>2, <3>1, <3>2
      <4> QED  BY <1>2, <3>1, <4>1
    <3> QED  BY <3>1, <3>2 DEF k
  <2> QED  BY <1>2, <2>2, <2>3 DEF Mapping!Percent, Percents, m
<1> QED
  BY <1>1, <1>2

\* A column as it stands in a file.
IsColumn(c) ==
  /\ c.cells \in Seq(Range(c.cells))
  /\ \A cell \in Range(c.cells) : cell.kind = "null" => cell = Mapping!Null
  /\ \A f \in Mapping!Mappable : c.header.similarity[f] \in Percents

\* A profile holds percentages.
IsProfile(p) ==
  /\ p.rows \in Nat /\ p.complete \in Percents /\ p.unique \in Percents /\ p.email \in Percents
  /\ p.phone \in Percents /\ p.numeric \in Percents

\* A share of the values is a percentage.
LEMMA ShareIs ==
  ASSUME NEW cells, cells \in Seq(Range(cells)), NEW kinds
  PROVE  /\ Mapping!Share(cells, kinds) \in Percents
         /\ IsFiniteSet(Mapping!Filled(cells)) /\ Cardinality(Mapping!Filled(cells)) \in Nat
         /\ Cardinality(Mapping!Filled(cells)) <= Len(cells) /\ Len(cells) \in Nat
<1> DEFINE F == Mapping!Filled(cells)
           S == Mapping!Sample(cells)
           K == {row \in S : cells[row].kind \in kinds}
<1>1. Len(cells) \in Nat /\ DOMAIN cells = 1..Len(cells)
  OBVIOUS
<1>2. F \in SUBSET (1..Len(cells))
  BY <1>1 DEF Mapping!Filled
<1> HIDE DEF F
<1>3. IsFiniteSet(F) /\ Cardinality(F) <= Len(cells)
  <2>1. IsFiniteSet(1..Len(cells)) /\ Cardinality(1..Len(cells)) = Len(cells)
    BY <1>1, IntervalCounts
  <2> QED  BY <1>2, <2>1, FS_Subset
<1>4. S \in SUBSET F /\ K \in SUBSET S
  BY DEF Mapping!Sample, F
<1>5. Mapping!Share(cells, kinds) = Mapping!Percent(Cardinality(K), Cardinality(S))
  BY MappingCounts DEF Mapping!Share
<1> HIDE DEF K, S
<1>6. /\ Cardinality(K) <= Cardinality(S) /\ Cardinality(K) \in Nat /\ Cardinality(S) \in Nat
      /\ Cardinality(F) \in Nat
  <2>1. IsFiniteSet(S)
    BY <1>3, <1>4, FS_Subset
  <2> QED  BY <1>3, <1>4, <2>1, FS_Subset, FS_CardinalityType
<1>7. Mapping!Share(cells, kinds) \in Percents
  BY <1>5, <1>6, PercentIs
<1> QED
  BY <1>1, <1>3, <1>6, <1>7 DEF F

\* So does the profile of a column.
LEMMA ProfileIs ==
  ASSUME NEW c, IsColumn(c)
  PROVE  IsProfile(Mapping!Profile(c))
<1> DEFINE cells == c.cells
           F == Mapping!Filled(cells)
           U == {cells[row] : row \in F}
           p == Mapping!Profile(c)
<1>1. cells \in Seq(Range(cells))
  BY DEF IsColumn
<1>2. /\ p.rows = Len(cells) /\ p.complete = Mapping!Percent(Cardinality(F), Len(cells))
      /\ p.unique = Mapping!Percent(Cardinality(U), Cardinality(F))
      /\ p.email = Mapping!Share(cells, {"email"}) /\ p.phone = Mapping!Share(cells, {"phone", "digits", "date"})
      /\ p.numeric = Mapping!Share(cells, {"digits", "count"})
  BY MappingCounts DEF Mapping!Profile
<1> HIDE DEF p, cells
<1>3. IsFiniteSet(F) /\ Cardinality(F) \in Nat /\ Cardinality(F) <= Len(cells) /\ Len(cells) \in Nat
      /\ \A k : Mapping!Share(cells, k) \in Percents
  BY <1>1, ShareIs
<1> HIDE DEF F
<1>4. Cardinality(U) \in Nat /\ Cardinality(U) <= Cardinality(F)
  <2>1. \A x \in U : \E a \in F : x = cells[a]
    OBVIOUS
  <2> HIDE DEF U
  <2> QED  BY <1>3, <2>1, ImageIsFinite
<1> HIDE DEF U
<1>5. p.complete \in Percents /\ p.unique \in Percents
  BY <1>2, <1>3, <1>4, PercentIs
<1>6. IsProfile(p)
  BY <1>2, <1>3, <1>5 DEF IsProfile
<1> QED
  BY <1>6 DEF p

\* What the contributions of some evidence add up to.
TotalOf(E) == Mapping!MapThenSumSet(LAMBDA e : e.contribution, E)

\* The contributions to a candidate add up to a number, bounded by their count.
LEMMA TotalIs ==
  ASSUME NEW E, IsFiniteSet(E), \A e \in E : e.contribution \in Int
  PROVE  /\ TotalOf(E) \in Int
         /\ \A m \in Nat : (\A e \in E : e.contribution <= m) => TotalOf(E) <= m * Cardinality(E)
<1> DEFINE Body(h) == [s \in SUBSET E |-> IF s = {} THEN 0 ELSE (CHOOSE x \in s : TRUE).contribution + h[s \ {CHOOSE x \in s : TRUE}]]
           sum == CHOOSE h : h = Body(h)
           g == [e \in E |-> e.contribution]
<1>1. TotalOf(E) = sum[E]
  BY DEF TotalOf, Mapping!MapThenSumSet, Mapping!MapThenFoldSet
<1>2. g \in [E -> Int] /\ \A e \in E : g[e] = e.contribution
  OBVIOUS
<1>3. \A h : Sums(h, E, g) <=> h = Body(h)
  <2> TAKE h
  <2>1. \A s \in SUBSET E : s # {} => g[AnyOf(s)] = (CHOOSE x \in s : TRUE).contribution
    BY DEF AnyOf
  <2> HIDE DEF g
  <2>2. Body(h) = [s \in SUBSET E |-> IF s = {} THEN 0 ELSE g[AnyOf(s)] + h[s \ {AnyOf(s)}]]
    BY <2>1 DEF AnyOf
  <2> HIDE DEF Body
  <2> QED  BY <2>2 DEF Sums
<1> HIDE DEF g
<1>4. sum = Body(sum)
  <2>1. \E h : Sums(h, E, g)
    BY <1>2, SumExists
  <2> HIDE DEF Body
  <2> QED  BY <1>3, <2>1
<1> HIDE DEF sum
<1>5. sum[E] \in Int /\ \A m \in Nat : (\A x \in E : g[x] <= m) => sum[E] <= m * Cardinality(E)
  <2>1. Sums(sum, E, g)
    <3> HIDE DEF Body
    <3> QED  BY <1>3, <1>4
  <2> QED  BY <1>2, <2>1, SumIsBounded
<1> QED
  BY <1>1, <1>2, <1>5

\* The greatest of three numbers and the lesser of two.
LEMMA ThreeAndTwo ==
  /\ \A a, b, c \in Int : /\ Mapping!Max({a, b, c}) \in {a, b, c} /\ a <= Mapping!Max({a, b, c})
                          /\ b <= Mapping!Max({a, b, c}) /\ c <= Mapping!Max({a, b, c})
  /\ \A a, b \in Int : Mapping!Min({a, b}) \in {a, b} /\ Mapping!Min({a, b}) <= a /\ Mapping!Min({a, b}) <= b
<1>1. ASSUME NEW a \in Int, NEW b \in Int, NEW c \in Int
      PROVE  /\ Mapping!Max({a, b, c}) \in {a, b, c} /\ a <= Mapping!Max({a, b, c})
             /\ b <= Mapping!Max({a, b, c}) /\ c <= Mapping!Max({a, b, c})
  <2> DEFINE T == {a, b, c}
  <2>1. \E x \in T : \A y \in T : x >= y
    OBVIOUS
  <2>2. Mapping!Max(T) \in T /\ \A y \in T : Mapping!Max(T) >= y
    <3> HIDE DEF T
    <3> QED  BY <2>1 DEF Mapping!Max
  <2>3. T \subseteq Int
    OBVIOUS
  <2> QED  BY <2>2, <2>3
<1>2. ASSUME NEW a \in Int, NEW b \in Int
      PROVE  Mapping!Min({a, b}) \in {a, b} /\ Mapping!Min({a, b}) <= a /\ Mapping!Min({a, b}) <= b
  <2> DEFINE T == {a, b}
  <2>1. \E x \in T : \A y \in T : x <= y
    OBVIOUS
  <2>2. Mapping!Min(T) \in T /\ \A y \in T : Mapping!Min(T) <= y
    <3> HIDE DEF T
    <3> QED  BY <2>1 DEF Mapping!Min
  <2> QED  BY <2>2
<1> QED
  BY <1>1, <1>2

\* A score is a number, and without a pattern it takes large contributions to be sure.
LEMMA ScoreIs ==
  ASSUME NEW E, IsFiniteSet(E), \A e \in E : e.contribution \in Int, NEW rows \in Nat
  PROVE  /\ Mapping!Score(E, rows) \in Nat
         /\ (/\ \A e \in E : e.contribution <= 1200
             /\ Cardinality(E) <= 7 /\ Cardinality(E) \in Nat
             /\ ~ Mapping!Has(E, "PATTERN"))
              => Mapping!Score(E, rows) < Mapping!AutoMapThreshold
<1> DEFINE decisive == rows >= 2 /\ \E e \in E : e.type = "PATTERN" /\ e.value >= Mapping!PatternAutoMapSupport
           sure == IF decisive THEN Mapping!AutoMapThreshold ELSE 0
           high == Mapping!Max({0, TotalOf(E), sure})
           top == 10000
           sc == Mapping!Min({top, high})
<1>1. Mapping!Score(E, rows) = sc
  BY DEF Mapping!Score, TotalOf
<1>2. TotalOf(E) \in Int /\ sure \in Int
  BY TotalIs DEF Mapping!AutoMapThreshold
<1>3. ~ Mapping!Has(E, "PATTERN") => sure = 0
  BY DEF Mapping!Has
<1>4. top \in Nat
  OBVIOUS
<1> HIDE DEF sure, top
<1>5. high \in {0, TotalOf(E), sure} /\ 0 <= high
  <2> DEFINE t == TotalOf(E)
             zero == 0
  <2>1. t \in Int /\ zero \in Int /\ sure \in Int
    BY <1>2
  <2> HIDE DEF t, zero
  <2>2. Mapping!Max({zero, t, sure}) \in {zero, t, sure} /\ zero <= Mapping!Max({zero, t, sure})
    BY <2>1, ThreeAndTwo
  <2> QED  BY <2>2 DEF t, zero
<1> HIDE DEF high
<1>6. high \in Nat
  BY <1>2, <1>5
<1>7. sc \in {top, high} /\ sc <= high
  BY <1>4, <1>6, ThreeAndTwo
<1> HIDE DEF sc
<1>8. sc \in Nat
  BY <1>4, <1>6, <1>7
<1>9. ASSUME \A e \in E : e.contribution <= 1200, Cardinality(E) <= 7, Cardinality(E) \in Nat,
             ~ Mapping!Has(E, "PATTERN")
      PROVE  sc < Mapping!AutoMapThreshold
  <2>1. TotalOf(E) <= 1200 * Cardinality(E)
    BY <1>9, TotalIs
  <2>2. TotalOf(E) <= 8400
    BY <1>2, <1>9, <2>1
  <2>3. high <= 8400
    BY <1>2, <1>3, <1>5, <1>9, <2>2
  <2> QED  BY <1>6, <1>7, <1>8, <2>3 DEF Mapping!AutoMapThreshold
<1> QED
  BY <1>1, <1>8, <1>9

IsHeader(h) == \A f \in Mapping!Mappable : h.similarity[f] \in Percents

\* An alias is what the header is an alias of, a pattern what the values have.
LEMMA EvidenceIs ==
  ASSUME NEW h, IsHeader(h), NEW p, IsProfile(p), NEW f \in Mapping!Mappable, NEW E, E = Mapping!Evidence(h, p, f)
  PROVE  /\ IsFiniteSet(E) /\ \A e \in E : e.contribution \in Int
         /\ Mapping!Has(E, "EXACT_ALIAS") => h.alias = f
         /\ Mapping!Has(E, "PATTERN") => Mapping!PatternOf(p, f) >= Mapping!PatternDominance
         /\ Mapping!StrongPattern(E) => Mapping!PatternOf(p, f) >= Mapping!PatternAutoMapSupport
         /\ (/\ ~ Mapping!Has(E, "EXACT_ALIAS") /\ ~ Mapping!Has(E, "PATTERN")
             /\ ~ Mapping!Has(E, "LEXICAL_SIMILARITY"))
              => /\ \A e \in E : e.contribution <= 1200
                 /\ Cardinality(E) <= 7 /\ Cardinality(E) \in Nat
<1> DEFINE lexical == Mapping!Lexical(h, f)
           pattern == Mapping!PatternOf(p, f)
           alias == Mapping!Item("EXACT_ALIAS", 100, 9500)
           edge == Mapping!Item("LEXICAL_SIMILARITY", 100, 5800)
           like == Mapping!Item("LEXICAL_SIMILARITY", lexical, 35 * lexical)
           fits == Mapping!Item("TYPE_COMPATIBILITY", 100, 1200)
           misfits == Mapping!Item("TYPE_INCOMPATIBILITY", 100, -2500)
           shape == Mapping!Item("PATTERN", pattern, 40 * pattern)
           digits == Mapping!Item("PATTERN_NUMERIC", p.numeric, -1500)
           full == Mapping!Item("COMPLETENESS", p.complete, 5 * p.complete)
           own == Mapping!Item("UNIQUENESS", p.unique, 3 * p.unique)
<1>1. lexical \in Int
  <2> DEFINE a == h.similarity[f]
             b == IF f \in h.shares THEN 72 ELSE 0
             c == IF f \in h.contains THEN 86 ELSE 0
  <2>1. a \in Int /\ b \in Int /\ c \in Int
    BY DEF IsHeader, Percents
  <2>2. lexical = Mapping!Max({a, b, c})
    BY DEF Mapping!Lexical
  <2> HIDE DEF a, b, c, lexical
  <2>3. lexical \in {a, b, c}
    BY <2>1, <2>2, ThreeAndTwo
  <2> QED  BY <2>1, <2>3
<1>2. pattern \in Percents
  <2>1. p.email \in Percents /\ p.phone \in Percents /\ 0 \in Percents
    BY DEF IsProfile, Percents
  <2> QED  BY <2>1 DEF Mapping!PatternOf
<1>3. p.numeric \in Nat /\ p.complete \in Percents /\ p.unique \in Percents
  BY DEF IsProfile, Percents
<1>4. /\ alias = [type |-> "EXACT_ALIAS", value |-> 100, contribution |-> 9500]
      /\ edge = [type |-> "LEXICAL_SIMILARITY", value |-> 100, contribution |-> 5800]
      /\ like = [type |-> "LEXICAL_SIMILARITY", value |-> lexical, contribution |-> 35 * lexical]
      /\ fits = [type |-> "TYPE_COMPATIBILITY", value |-> 100, contribution |-> 1200]
      /\ misfits = [type |-> "TYPE_INCOMPATIBILITY", value |-> 100, contribution |-> -2500]
      /\ shape = [type |-> "PATTERN", value |-> pattern, contribution |-> 40 * pattern]
      /\ digits = [type |-> "PATTERN_NUMERIC", value |-> p.numeric, contribution |-> -1500]
      /\ full = [type |-> "COMPLETENESS", value |-> p.complete, contribution |-> 5 * p.complete]
      /\ own = [type |-> "UNIQUENESS", value |-> p.unique, contribution |-> 3 * p.unique]
  BY DEF Mapping!Item
<1> HIDE DEF lexical, pattern, alias, edge, like, fits, misfits, shape, digits, full, own
<1>5. ASSUME NEW e \in E
      PROVE  \/ e = alias /\ h.alias = f
             \/ e \in {edge, like}
             \/ e = shape /\ pattern >= Mapping!PatternDominance
             \/ e \in {fits, misfits, digits, full, own}
  <2>1. E = (IF h.alias = f THEN {alias} ELSE {})
            \cup (IF h.alias = Mapping!None /\ f \in h.contains /\ h.edge THEN {edge} ELSE {})
            \cup (IF lexical >= Mapping!LexicalMinimum THEN {like} ELSE {})
            \cup (IF p.type = "string" THEN {fits} ELSE {})
            \cup (IF p.type # "string" THEN {misfits} ELSE {})
            \cup (IF pattern >= Mapping!PatternDominance THEN {shape} ELSE {})
            \cup (IF f \in {"email", "phone"} /\ p.numeric >= 95 /\ pattern < Mapping!PatternDominance
                  THEN {digits} ELSE {})
            \cup (IF p.complete >= 80 THEN {full} ELSE {})
            \cup (IF p.unique >= 90 THEN {own} ELSE {})
    BY DEF Mapping!Evidence, Mapping!When, lexical, pattern, alias, edge, like, fits, misfits, shape, digits, full, own
  <2> QED  BY <2>1
<1>6. /\ alias.type = "EXACT_ALIAS" /\ edge.type = "LEXICAL_SIMILARITY" /\ like.type = "LEXICAL_SIMILARITY"
      /\ fits.type = "TYPE_COMPATIBILITY" /\ misfits.type = "TYPE_INCOMPATIBILITY" /\ shape.type = "PATTERN"
      /\ digits.type = "PATTERN_NUMERIC" /\ full.type = "COMPLETENESS" /\ own.type = "UNIQUENESS"
      /\ shape.value = pattern
  BY <1>4
<1>7. /\ alias.contribution \in Int /\ edge.contribution \in Int /\ like.contribution \in Int
      /\ shape.contribution \in Int
      /\ \A e \in {fits, misfits, digits, full, own} : e.contribution \in Int /\ e.contribution <= 1200
  BY <1>1, <1>2, <1>3, <1>4 DEF Percents
<1>8. IsFiniteSet(E)
  <2> DEFINE g == <<alias, edge, like, shape, fits, misfits, digits, full, own>>
  <2>1. \A x \in E : \E a \in 1..9 : x = g[a]
    <3>1. /\ g[1] = alias /\ g[2] = edge /\ g[3] = like /\ g[4] = shape /\ g[5] = fits
          /\ g[6] = misfits /\ g[7] = digits /\ g[8] = full /\ g[9] = own
      OBVIOUS
    <3> HIDE DEF g
    <3> QED  BY <1>5, <3>1
  <2>2. IsFiniteSet(1..9)
    BY IntervalCounts
  <2> HIDE DEF g
  <2> QED  BY <2>1, <2>2, ImageIsFinite
<1>9. Mapping!Has(E, "EXACT_ALIAS") => h.alias = f
  BY <1>5, <1>6 DEF Mapping!Has
<1>10. Mapping!Has(E, "PATTERN") => pattern >= Mapping!PatternDominance
  BY <1>5, <1>6 DEF Mapping!Has
<1>11. Mapping!StrongPattern(E) => pattern >= Mapping!PatternAutoMapSupport
  BY <1>5, <1>6 DEF Mapping!StrongPattern
<1>12. ASSUME ~ Mapping!Has(E, "EXACT_ALIAS"), ~ Mapping!Has(E, "PATTERN"), ~ Mapping!Has(E, "LEXICAL_SIMILARITY")
       PROVE  /\ \A e \in E : e.contribution <= 1200
              /\ Cardinality(E) <= 7 /\ Cardinality(E) \in Nat
  <2>1. \A e \in E : e \in {fits, misfits, digits, full, own}
    BY <1>5, <1>6, <1>12 DEF Mapping!Has
  <2> DEFINE g == <<fits, misfits, digits, full, own>>
  <2>2. \A x \in E : \E a \in 1..5 : x = g[a]
    <3>1. g[1] = fits /\ g[2] = misfits /\ g[3] = digits /\ g[4] = full /\ g[5] = own
      OBVIOUS
    <3> HIDE DEF g
    <3> QED  BY <2>1, <3>1
  <2>3. IsFiniteSet(1..5) /\ Cardinality(1..5) = 5
    BY IntervalCounts
  <2> HIDE DEF g
  <2>4. Cardinality(E) <= 5 /\ Cardinality(E) \in Nat
    BY <2>2, <2>3, ImageIsFinite
  <2> QED  BY <1>7, <2>1, <2>4
<1>13. \A e \in E : e.contribution \in Int
  BY <1>5, <1>7
<1> QED
  BY <1>8, <1>9, <1>10, <1>11, <1>12, <1>13 DEF pattern

\* Every field has a place of its own in the order of the names.
LEMMA FieldsHavePlaces ==
  /\ IsFiniteSet(Mapping!Mappable) /\ Mapping!None \notin Mapping!Mappable
  /\ \A f \in Mapping!Mappable : Mapping!Position(f) \in Nat
  /\ \A f, g \in Mapping!Mappable : Mapping!Position(f) = Mapping!Position(g) => f = g
<1> DEFINE o == Mapping!FieldOrder
<1>1. DOMAIN o = 1..8
  BY DEF Mapping!FieldOrder
<1>2. \A n \in 1..8 : o[n] # "none"
  BY DEF Mapping!FieldOrder
<1>3. Mapping!Mappable = {o[n] : n \in DOMAIN o}
  BY DEF Mapping!Mappable, Mapping!Range
<1> HIDE DEF o
<1>4. \A f \in Mapping!Mappable : Mapping!Position(f) \in DOMAIN o /\ o[Mapping!Position(f)] = f
  <2>1. \A f \in Mapping!Mappable : \E n \in DOMAIN o : o[n] = f
    BY <1>3
  <2> QED  BY <2>1 DEF Mapping!Position, o
<1>5. IsFiniteSet(Mapping!Mappable)
  <2>1. IsFiniteSet(1..8)
    BY IntervalCounts
  <2>2. \A x \in Mapping!Mappable : \E n \in 1..8 : x = o[n]
    BY <1>1, <1>3
  <2> QED  BY <2>1, <2>2, ImageIsFinite
<1> QED
  BY <1>1, <1>2, <1>3, <1>4, <1>5 DEF Mapping!None

\* A field with its evidence and its score for a column.
CandidateOf(h, p, f) ==
  [field |-> f, evidence |-> Mapping!Evidence(h, p, f), score |-> Mapping!Score(Mapping!Evidence(h, p, f), p.rows)]

CandidateFields(h, p) == {c \in {CandidateOf(h, p, f) : f \in Mapping!Mappable} : c.score > 0}

\* Two candidates of a column are of different fields: one comes first.
LEMMA BetterIsStrict ==
  ASSUME NEW h, IsHeader(h), NEW p, IsProfile(p), NEW S, S = CandidateFields(h, p)
  PROVE  /\ IsFiniteSet(S) /\ StrictOrder(S, [x \in S |-> {y \in S : Mapping!Better(y, x)}])
         /\ \A c \in S : c.score \in Nat
<1> DEFINE R == [x \in S |-> {y \in S : Mapping!Better(y, x)}]
<1>1. ASSUME NEW x \in S
      PROVE  x.score \in Nat /\ x.field \in Mapping!Mappable /\ x = CandidateOf(h, p, x.field)
  <2>1. PICK f \in Mapping!Mappable : x = CandidateOf(h, p, f)
    BY DEF CandidateFields
  <2>2. x.field = f /\ x.score = Mapping!Score(Mapping!Evidence(h, p, f), p.rows)
    BY <2>1 DEF CandidateOf
  <2> DEFINE E == Mapping!Evidence(h, p, f)
  <2>3. IsFiniteSet(E) /\ \A e \in E : e.contribution \in Int
    <3> HIDE DEF E
    <3>1. E = Mapping!Evidence(h, p, f) => IsFiniteSet(E) /\ \A e \in E : e.contribution \in Int
      BY EvidenceIs
    <3> QED  BY <3>1 DEF E
  <2> HIDE DEF E
  <2>4. Mapping!Score(E, p.rows) \in Nat
    BY <2>3, ScoreIs DEF IsProfile
  <2> QED  BY <2>1, <2>2, <2>4 DEF E
<1>2. \A x \in S : Mapping!Position(x.field) \in Nat
  BY <1>1, FieldsHavePlaces
<1>3. \A x, y \in S : x # y => Mapping!Position(x.field) # Mapping!Position(y.field)
  BY <1>1, FieldsHavePlaces
<1>4. \A x, y \in S : x \in R[y] <=> (\/ x.score > y.score
                                      \/ (x.score = y.score /\ Mapping!Position(x.field) < Mapping!Position(y.field)))
  BY DEF Mapping!Better
<1>5. R \in [S -> SUBSET S]
  OBVIOUS
<1>6. IsFiniteSet(S)
  <2> DEFINE g == [f \in Mapping!Mappable |-> CandidateOf(h, p, f)]
  <2>1. \A x \in S : \E f \in Mapping!Mappable : x = g[f]
    BY DEF CandidateFields
  <2> HIDE DEF g
  <2> QED  BY <2>1, FieldsHavePlaces, ImageIsFinite
<1> HIDE DEF R
<1>7. \A x \in S : x \notin R[x]
  BY <1>1, <1>2, <1>4
<1>8. \A x, y \in S : x # y => x \in R[y] \/ y \in R[x]
  BY <1>1, <1>2, <1>3, <1>4
<1>9. \A x, y, z \in S : x \in R[y] /\ y \in R[z] => x \in R[z]
  BY <1>1, <1>2, <1>4
<1>10. StrictOrder(S, R)
  BY <1>5, <1>7, <1>8, <1>9 DEF StrictOrder
<1> QED
  BY <1>1, <1>6, <1>10 DEF R

\* The first of the ranked candidates is one of them.
LEMMA RankedIs ==
  ASSUME NEW h, IsHeader(h), NEW p, IsProfile(p), NEW r, r = Mapping!Ranked(h, p)
  PROVE  r # <<>> => \E f \in Mapping!Mappable : r[1] = CandidateOf(h, p, f) /\ r[1].score \in Nat
<1> DEFINE S == CandidateFields(h, p)
           R == [x \in S |-> {y \in S : Mapping!Better(y, x)}]
           N == Cardinality(S)
           first(T, n) == CHOOSE x \in T : Mapping!Cardinality({y \in T : Mapping!Better(y, x)}) = n - 1
<1>1. IsFiniteSet(S) /\ StrictOrder(S, R) /\ N \in Nat /\ \A c \in S : c.score \in Nat
  <2> HIDE DEF S, R
  <2>1. S = CandidateFields(h, p) => /\ IsFiniteSet(S) /\ StrictOrder(S, R) /\ \A c \in S : c.score \in Nat
    BY BetterIsStrict DEF R
  <2> QED  BY <2>1, FS_CardinalityType DEF S
<1>2. r = [n \in 1..N |-> first(S, n)]
  <2> DEFINE scored == [f \in Mapping!Mappable |->
                   LET e == Mapping!Evidence(h, p, f)
                   IN [field |-> f, evidence |-> e, score |-> Mapping!Score(e, p.rows)]]
             T == {c \in Mapping!Range(scored) : c.score > 0}
  <2>1. r = Mapping!SortedBy(T, Mapping!Better)
    BY DEF Mapping!Ranked
  <2>2. Mapping!Range(scored) = {CandidateOf(h, p, f) : f \in Mapping!Mappable}
    <3>1. \A f \in Mapping!Mappable : scored[f] = CandidateOf(h, p, f)
      BY DEF CandidateOf
    <3>2. DOMAIN scored = Mapping!Mappable
      OBVIOUS
    <3> HIDE DEF scored
    <3> QED  BY <3>1, <3>2 DEF Mapping!Range
  <2> HIDE DEF scored
  <2>3. T = S
    BY <2>2 DEF CandidateFields
  <2> HIDE DEF T, S
  <2>4. r = [n \in 1..Mapping!Cardinality(T) |-> first(T, n)]
    BY <2>1 DEF Mapping!SortedBy
  <2> HIDE DEF first
  <2> QED  BY <2>3, <2>4, MappingCounts
<1> HIDE DEF first
<1>3. ASSUME r # <<>> PROVE 1 \in 1..N
  <2>1. CASE N = 0
    <3>1. r = <<>>
      BY <1>2, <2>1
    <3> QED  BY <1>3, <3>1
  <2> HIDE DEF N
  <2>2. N # 0 => 1 \in 1..N
    BY <1>1
  <2> QED  BY <2>1, <2>2
<1>4. ASSUME 1 \in 1..N PROVE r[1] \in S
  <2> DEFINE before(x) == {y \in S : Mapping!Better(y, x)}
  <2>1. \A x \in S : before(x) = R[x]
    OBVIOUS
  <2>2. r[1] = CHOOSE x \in S : Mapping!Cardinality(before(x)) = 1 - 1
    <3>1. r[1] = first(S, 1)
      BY <1>2, <1>4
    <3> HIDE DEF S
    <3> QED  BY <3>1 DEF first
  <2> HIDE DEF R, N, before, S
  <2>3. PICK x \in S : Cardinality(R[x]) = 1 - 1
    BY <1>1, <1>4, RanksSort DEF N
  <2>4. Mapping!Cardinality(before(x)) = 1 - 1
    BY <2>1, <2>3, MappingCounts
  <2> QED  BY <2>2, <2>4
<1>5. ASSUME r # <<>> PROVE \E f \in Mapping!Mappable : r[1] = CandidateOf(h, p, f) /\ r[1].score \in Nat
  <2>1. r[1] \in S
    BY <1>3, <1>4, <1>5
  <2> QED  BY <1>1, <2>1 DEF CandidateFields
<1> QED
  BY <1>5

\* A file: its columns, all of them as long as the others.
IsSheet(s) ==
  /\ s \in Seq(Range(s))
  /\ \A i \in DOMAIN s : IsColumn(s[i])
  /\ \A i, j \in DOMAIN s : Len(s[i].cells) = Len(s[j].cells)

RankedAt(c) == Mapping!Ranked(c.header, Mapping!Profile(c))

Wants(s) == [i \in DOMAIN s |-> Mapping!Provisional(RankedAt(s[i]))]

CollidesAt(s, i) == Wants(s)[i] # Mapping!None /\ \E j \in (DOMAIN s) \ {i} : Wants(s)[j] = Wants(s)[i]

DecisionAt(s, i) ==
  IF RankedAt(s[i]) = <<>> THEN "UNMAPPED" ELSE Mapping!Verdict(s[i].header, RankedAt(s[i]), CollidesAt(s, i))

EntryAt(s, i) ==
  [decision |-> DecisionAt(s, i),
   field    |-> IF DecisionAt(s, i) = "UNMAPPED" THEN Mapping!None ELSE RankedAt(s[i])[1].field,
   evidence |-> IF RankedAt(s[i]) = <<>> THEN {} ELSE RankedAt(s[i])[1].evidence]

\* The plan is made of the decisions about the columns.
LEMMA PlanIs ==
  ASSUME NEW s
  PROVE  Mapping!Plan(s) = [i \in DOMAIN s |-> EntryAt(s, i)]
<1> DEFINE ranked == [i \in DOMAIN s |-> Mapping!Ranked(s[i].header, Mapping!Profile(s[i]))]
           wants == [i \in DOMAIN s |-> Mapping!Provisional(ranked[i])]
           decision(i) == IF ranked[i] = <<>> THEN "UNMAPPED"
                          ELSE Mapping!Verdict(s[i].header, ranked[i], Mapping!Collides(wants, i))
           entry(i) == [decision |-> decision(i),
                        field    |-> IF decision(i) = "UNMAPPED" THEN Mapping!None ELSE ranked[i][1].field,
                        evidence |-> IF ranked[i] = <<>> THEN {} ELSE ranked[i][1].evidence]
<1>1. Mapping!Plan(s) = [i \in DOMAIN s |-> entry(i)]
  BY DEF Mapping!Plan
<1>2. \A i \in DOMAIN s : ranked[i] = RankedAt(s[i])
  BY DEF RankedAt
<1> HIDE DEF ranked
<1>3. wants = Wants(s) /\ DOMAIN wants = DOMAIN s
  BY <1>2 DEF Wants
<1> HIDE DEF wants
<1>4. \A i \in DOMAIN s : Mapping!Collides(wants, i) <=> CollidesAt(s, i)
  BY <1>3 DEF Mapping!Collides, CollidesAt
<1>5. ASSUME NEW i \in DOMAIN s PROVE decision(i) = DecisionAt(s, i)
  <2>1. Mapping!Verdict(s[i].header, RankedAt(s[i]), Mapping!Collides(wants, i))
          = Mapping!Verdict(s[i].header, RankedAt(s[i]), CollidesAt(s, i))
    BY <1>4 DEF Mapping!Verdict
  <2> QED  BY <1>2, <2>1 DEF DecisionAt
<1> HIDE DEF decision
<1>6. \A i \in DOMAIN s : entry(i) = EntryAt(s, i)
  BY <1>2, <1>5 DEF EntryAt
<1> HIDE DEF entry
<1> QED
  BY <1>1, <1>6

\* The verdicts, and what a column has that is mapped.
LEMMA VerdictIs ==
  ASSUME NEW h, NEW r, NEW k \in BOOLEAN, r[1].score \in Nat
  PROVE  /\ Mapping!Verdict(h, r, k) \in {"AUTO_MAP", "REVIEW", "UNMAPPED", "CONFLICT"}
         /\ Mapping!Verdict(h, r, k) = "AUTO_MAP" =>
              /\ ~ k /\ r[1].score >= Mapping!AutoMapThreshold
              /\ ~ Mapping!LexicalOnly(r[1].evidence)
              /\ h.ambiguous => Mapping!Has(r[1].evidence, "EXACT_ALIAS") \/ Mapping!StrongPattern(r[1].evidence)
<1> DEFINE top == r[1]
           margin == top.score - (IF Mapping!Len(r) > 1 THEN r[2].score ELSE 0)
           odd == Mapping!TypeOrPatternConflict(top) /\ top.score >= Mapping!ReviewThreshold
           low == top.score < Mapping!ReviewThreshold
           weak == h.ambiguous /\ top.score >= 3500
           alike == h.ambiguous /\ Mapping!LexicalOnly(top.evidence)
           tight == margin < Mapping!AmbiguityMargin
           sure == /\ top.score >= Mapping!AutoMapThreshold
                   /\ h.ambiguous => Mapping!Has(top.evidence, "EXACT_ALIAS") \/ Mapping!StrongPattern(top.evidence)
                   /\ ~ Mapping!LexicalOnly(top.evidence)
           v == Mapping!Verdict(h, r, k)
<1>1. v = IF k THEN "CONFLICT"
          ELSE IF odd THEN "REVIEW"
          ELSE IF low THEN IF weak THEN "REVIEW" ELSE "UNMAPPED"
          ELSE IF alike THEN "REVIEW"
          ELSE IF tight THEN "REVIEW"
          ELSE IF sure THEN "AUTO_MAP"
          ELSE "REVIEW"
  BY DEF Mapping!Verdict
<1>4. odd \in BOOLEAN /\ low \in BOOLEAN /\ alike \in BOOLEAN /\ tight \in BOOLEAN /\ sure \in BOOLEAN
  BY DEF Mapping!TypeOrPatternConflict, Mapping!LexicalOnly
<1> HIDE DEF margin, odd, low, weak, alike, tight, sure, v
<1>2. v \in {"AUTO_MAP", "REVIEW", "UNMAPPED", "CONFLICT"}
  BY <1>1
<1>3. v = "AUTO_MAP" => ~ k /\ sure
  BY <1>1, <1>4
<1> QED
  BY <1>2, <1>3 DEF v, sure

\* A column that is mapped is the only one that asks for its field, which its header is
\* an alias of or its values have the pattern of.
LEMMA EntryIs ==
  ASSUME NEW s, IsSheet(s), NEW i \in DOMAIN s, NEW e, e = EntryAt(s, i)
  PROVE  /\ e.decision \in {"AUTO_MAP", "REVIEW", "UNMAPPED", "CONFLICT"}
         /\ e.field \in Mapping!Mappable \cup {Mapping!None}
         /\ e.decision = "AUTO_MAP" =>
              /\ e.field \in Mapping!Mappable /\ Wants(s)[i] = e.field
              /\ \A j \in (DOMAIN s) \ {i} : Wants(s)[j] # e.field
              /\ \/ s[i].header.alias = e.field
                 \/ Mapping!PatternOf(Mapping!Profile(s[i]), e.field)
                      >= IF s[i].header.ambiguous THEN Mapping!PatternAutoMapSupport ELSE Mapping!PatternDominance
<1> DEFINE h == s[i].header
           p == Mapping!Profile(s[i])
           r == RankedAt(s[i])
<1>7. CollidesAt(s, i) \in BOOLEAN
  BY DEF CollidesAt
<1>1. IsColumn(s[i]) /\ IsHeader(h) /\ IsProfile(p)
  BY ProfileIs DEF IsSheet, IsColumn, IsHeader
<1>2. r = Mapping!Ranked(h, p)
  BY DEF RankedAt
<1>3. /\ e.decision = IF r = <<>> THEN "UNMAPPED" ELSE Mapping!Verdict(h, r, CollidesAt(s, i))
      /\ e.field = IF e.decision = "UNMAPPED" THEN Mapping!None ELSE r[1].field
  BY DEF EntryAt, DecisionAt
<1>4. Wants(s)[i] = Mapping!Provisional(r)
  BY DEF Wants
<1> HIDE DEF h, p, r
<1>5. CASE r = <<>>
  BY <1>3, <1>5
<1>6. CASE r # <<>>
  <2>1. PICK f \in Mapping!Mappable : r[1] = CandidateOf(h, p, f) /\ r[1].score \in Nat
    BY <1>1, <1>2, <1>6, RankedIs
  <2> DEFINE E == Mapping!Evidence(h, p, f)
  <2>2. r[1].field = f /\ r[1].evidence = E /\ r[1].score = Mapping!Score(E, p.rows)
    BY <2>1 DEF CandidateOf
  <2>3. /\ IsFiniteSet(E) /\ \A x \in E : x.contribution \in Int
        /\ Mapping!Has(E, "EXACT_ALIAS") => h.alias = f
        /\ Mapping!Has(E, "PATTERN") => Mapping!PatternOf(p, f) >= Mapping!PatternDominance
        /\ Mapping!StrongPattern(E) => Mapping!PatternOf(p, f) >= Mapping!PatternAutoMapSupport
        /\ (/\ ~ Mapping!Has(E, "EXACT_ALIAS") /\ ~ Mapping!Has(E, "PATTERN")
            /\ ~ Mapping!Has(E, "LEXICAL_SIMILARITY"))
             => /\ \A x \in E : x.contribution <= 1200
                /\ Cardinality(E) <= 7 /\ Cardinality(E) \in Nat
    BY <1>1, EvidenceIs
  <2> HIDE DEF E
  <2>4. e.decision = Mapping!Verdict(h, r, CollidesAt(s, i)) /\ e.decision \in {"AUTO_MAP", "REVIEW", "UNMAPPED", "CONFLICT"}
    BY <1>3, <1>6, <1>7, <2>1, VerdictIs
  <2>5. e.field \in {f, Mapping!None}
    BY <1>3, <2>2
  <2>6. ASSUME e.decision = "AUTO_MAP"
        PROVE  /\ e.field = f /\ Wants(s)[i] = f
               /\ \A j \in (DOMAIN s) \ {i} : Wants(s)[j] # f
               /\ \/ h.alias = f
                  \/ Mapping!PatternOf(p, f)
                       >= IF h.ambiguous THEN Mapping!PatternAutoMapSupport ELSE Mapping!PatternDominance
    <3>1. /\ ~ CollidesAt(s, i) /\ r[1].score >= Mapping!AutoMapThreshold
          /\ ~ Mapping!LexicalOnly(E)
          /\ h.ambiguous => Mapping!Has(E, "EXACT_ALIAS") \/ Mapping!StrongPattern(E)
      BY <1>7, <2>1, <2>2, <2>4, <2>6, VerdictIs
    <3>2. e.field = f
      BY <1>3, <2>2, <2>6
    <3>3. Wants(s)[i] = f
      BY <1>4, <1>6, <2>1, <2>2, <3>1 DEF Mapping!Provisional, Mapping!AutoMapThreshold, Mapping!ReviewThreshold
    <3>4. \A j \in (DOMAIN s) \ {i} : Wants(s)[j] # f
      BY <3>1, <3>3, FieldsHavePlaces DEF CollidesAt
    <3>5. Mapping!Has(E, "EXACT_ALIAS") \/ Mapping!Has(E, "PATTERN")
      <4>1. ~ Mapping!Has(E, "EXACT_ALIAS") /\ ~ Mapping!Has(E, "PATTERN") => ~ Mapping!Has(E, "LEXICAL_SIMILARITY")
        BY <3>1 DEF Mapping!LexicalOnly
      <4>2. p.rows \in Nat
        BY <1>1 DEF IsProfile
      <4>3. r[1].score < Mapping!AutoMapThreshold \/ Mapping!Has(E, "EXACT_ALIAS") \/ Mapping!Has(E, "PATTERN")
        BY <2>2, <2>3, <4>1, <4>2, ScoreIs
      <4> QED  BY <2>1, <3>1, <4>3 DEF Mapping!AutoMapThreshold
    <3>6. \/ h.alias = f
          \/ Mapping!PatternOf(p, f)
               >= IF h.ambiguous THEN Mapping!PatternAutoMapSupport ELSE Mapping!PatternDominance
      <4>1. CASE h.ambiguous
        BY <2>3, <3>1, <4>1
      <4>2. CASE ~ h.ambiguous
        BY <2>3, <3>5, <4>2
      <4> QED  BY <4>1, <4>2
    <3> QED  BY <3>2, <3>3, <3>4, <3>6
  <2> QED  BY <2>4, <2>5, <2>6 DEF h, p
<1> QED
  BY <1>5, <1>6

\* A file that is mapped holds what build_mapping_plan and apply_mapping_plan return.
MappingInv ==
  /\ input \in Sheets
  /\ output = Mapping!NotMapped \/ output = Mapping!MapSheet(input)

\* What is known of a file that was mapped.
LEMMA SheetIs ==
  ASSUME MappingInv, Mapping!Done
  PROVE  /\ IsSheet(input)
         /\ output.plan = [i \in DOMAIN input |-> EntryAt(input, i)]
         /\ output.missing = {f \in Mapping!Mappable : Mapping!AutoMapped(output.plan, f) = {}}
         /\ output.records = [row \in DOMAIN input[1].cells |->
                                [values |-> Mapping!Canonical(input, output.plan, row),
                                 aside |-> Mapping!SetAside(input, output.plan, row)]]
<1>0. Mapping!NotMapped.outcome = "not mapped"
  BY DEF Mapping!NotMapped
<1>1. output = Mapping!MapSheet(input)
  BY <1>0 DEF MappingInv, Mapping!Done
<1>2. IsSheet(input)
  <2> DEFINE s == input
  <2>1. /\ s \in Seq(Range(s))
        /\ \A c, d \in Range(s) : Mapping!Len(c.cells) = Mapping!Len(d.cells)
        /\ \A c \in Range(s) : /\ c.cells \in Seq(Range(c.cells))
                               /\ \A cell \in Range(c.cells) : cell.kind = "null" => cell = Mapping!Null
                               /\ \A f \in Mapping!Mappable : c.header.similarity[f] \in 0..100
    BY PipelineAssumption, MappingCounts DEF Mapping!SheetAssumption, MappingInv
  <2> HIDE DEF s
  <2>2. \A i \in DOMAIN s : s[i] \in Range(s)
    BY DEF Range
  <2> QED  BY <2>1, <2>2 DEF IsSheet, IsColumn, Percents, s
<1>3. output.plan = [i \in DOMAIN input |-> EntryAt(input, i)]
  BY <1>1, PlanIs DEF Mapping!MapSheet
<1> QED
  BY <1>1, <1>2, <1>3 DEF Mapping!MapSheet

\* Every column has one of the four decisions, and a field or none.
LEMMA MappingIsTyped ==
  ASSUME MappingInv
  PROVE  Mapping!TypeOK
<1>1. output.outcome \in {"not mapped", "mapped"}
  <2>1. Mapping!NotMapped.outcome = "not mapped"
    BY DEF Mapping!NotMapped
  <2>2. Mapping!MapSheet(input).outcome = "mapped"
    BY DEF Mapping!MapSheet
  <2> QED  BY <2>1, <2>2 DEF MappingInv
<1>2. ASSUME Mapping!Done, NEW i \in DOMAIN output.plan
      PROVE  /\ output.plan[i].decision \in {"AUTO_MAP", "REVIEW", "UNMAPPED", "CONFLICT"}
             /\ output.plan[i].field \in Mapping!Mappable \cup {Mapping!None}
  <2>1. IsSheet(input) /\ i \in DOMAIN input /\ output.plan[i] = EntryAt(input, i)
    BY <1>2, SheetIs
  <2> QED  BY <2>1, EntryIs
<1> QED
  BY <1>1, <1>2 DEF Mapping!TypeOK

\* Columns are mapped with evidence.
LEMMA MappingIsFounded ==
  ASSUME MappingInv
  PROVE  Mapping!NothingIsGuessed
<1> SUFFICES ASSUME Mapping!Done, NEW i \in DOMAIN input, output.plan[i].decision = "AUTO_MAP"
             PROVE  \/ input[i].header.alias = output.plan[i].field
                    \/ Mapping!PatternOf(Mapping!Profile(input[i]), output.plan[i].field)
                         >= IF input[i].header.ambiguous THEN Mapping!PatternAutoMapSupport ELSE Mapping!PatternDominance
  BY DEF Mapping!NothingIsGuessed
<1>1. IsSheet(input) /\ output.plan[i] = EntryAt(input, i)
  BY SheetIs
<1> QED
  BY <1>1, EntryIs

\* Two columns do not fill the same field.
LEMMA FieldsAreFilledOnce ==
  ASSUME MappingInv, Mapping!Done, NEW f, NEW i \in Mapping!AutoMapped(output.plan, f)
  PROVE  Mapping!AutoMapped(output.plan, f) = {i}
<1>1. IsSheet(input) /\ DOMAIN output.plan = DOMAIN input
      /\ \A j \in DOMAIN input : output.plan[j] = EntryAt(input, j)
  BY SheetIs
<1>2. ASSUME NEW j \in Mapping!AutoMapped(output.plan, f)
      PROVE  /\ j \in DOMAIN input /\ Wants(input)[j] = f
             /\ \A k \in (DOMAIN input) \ {j} : Wants(input)[k] # f
  <2>1. j \in DOMAIN input /\ output.plan[j].decision = "AUTO_MAP" /\ output.plan[j].field = f
    BY <1>1 DEF Mapping!AutoMapped
  <2> QED  BY <1>1, <2>1, EntryIs
<1>3. \A j \in Mapping!AutoMapped(output.plan, f) : j = i
  BY <1>2
<1> QED
  BY <1>3

\* Every cell has one place.
LEMMA CellsHaveTheirPlace ==
  ASSUME MappingInv
  PROVE  Mapping!EveryCellHasItsPlace
<1> SUFFICES ASSUME Mapping!Done PROVE Mapping!EveryCellHasItsPlace
  BY DEF Mapping!EveryCellHasItsPlace
<1> DEFINE plan == output.plan
           place(row, i) ==
             LET cell == input[i].cells[row]
                 record == output.records[row]
             IN IF plan[i].decision = "AUTO_MAP"
                  THEN record.values[plan[i].field] = cell /\ i \notin DOMAIN record.aside
                  ELSE i \in DOMAIN record.aside /\ record.aside[i] = cell
<1>1. /\ IsSheet(input) /\ DOMAIN plan = DOMAIN input
      /\ \A i \in DOMAIN input : plan[i] = EntryAt(input, i)
      /\ output.missing = {f \in Mapping!Mappable : Mapping!AutoMapped(plan, f) = {}}
      /\ DOMAIN output.records = DOMAIN input[1].cells
      /\ \A row \in DOMAIN output.records :
           /\ output.records[row].values = Mapping!Canonical(input, plan, row)
           /\ output.records[row].aside = Mapping!SetAside(input, plan, row)
  BY SheetIs
<1>2. \A f : \A i \in Mapping!AutoMapped(plan, f) : Mapping!AutoMapped(plan, f) = {i}
  BY FieldsAreFilledOnce
<1> HIDE DEF plan
<1>3. \A f \in Mapping!Mappable : Mapping!Cardinality(Mapping!AutoMapped(plan, f)) <= 1
  <2> TAKE f \in Mapping!Mappable
  <2> DEFINE A == Mapping!AutoMapped(plan, f)
  <2>1. A = {} \/ \E i \in A : A = {i}
    BY <1>2
  <2> HIDE DEF A
  <2>2. Cardinality(A) <= 1
    BY <2>1, FS_EmptySet, FS_Singleton
  <2> QED  BY <2>2, MappingCounts DEF A
<1>4. ASSUME NEW row \in DOMAIN output.records, NEW i \in DOMAIN input PROVE place(row, i)
  <2> DEFINE f == plan[i].field
             A == Mapping!AutoMapped(plan, f)
             given == {k \in A : input[k].cells[row].kind # "null"}
             cell == input[i].cells[row]
             values == output.records[row].values
             aside == output.records[row].aside
  <2>1. aside = [k \in {j \in DOMAIN plan : plan[j].decision # "AUTO_MAP"} |-> input[k].cells[row]]
    BY <1>1 DEF Mapping!SetAside
  <2>2. ASSUME plan[i].decision = "AUTO_MAP" PROVE values[f] = cell
    <3>1. f \in Mapping!Mappable
      <4>1. plan[i] = EntryAt(input, i) /\ IsSheet(input)
        BY <1>1
      <4> QED  BY <2>2, <4>1, EntryIs
    <3>2. i \in A
      BY <1>1, <2>2 DEF Mapping!AutoMapped
    <3>3. A = {i}
      <4> HIDE DEF f
      <4> QED  BY <1>2, <3>2
    <3>4. values[f] = IF given = {} THEN Mapping!Null ELSE input[Mapping!Max(given)].cells[row]
      <4>1. values = Mapping!Canonical(input, plan, row)
        BY <1>1
      <4> HIDE DEF values, f
      <4> QED  BY <3>1, <4>1 DEF Mapping!Canonical
    <3> HIDE DEF A, f, values
    <3>5. CASE cell.kind = "null"
      <4>1. given = {}
        BY <3>3, <3>5
      <4>2. cell \in Range(input[i].cells)
        <5>1. row \in DOMAIN input[i].cells
          <6> DEFINE a == input[1].cells
                     b == input[i].cells
          <6>1. i \in DOMAIN input => 1 \in DOMAIN input
            BY <1>1 DEF IsSheet
          <6>2. a \in Seq(Range(a)) /\ b \in Seq(Range(b)) /\ Len(a) = Len(b)
            BY <1>1, <6>1 DEF IsSheet, IsColumn
          <6>3. row \in DOMAIN a
            BY <1>1
          <6> HIDE DEF a, b
          <6>4. DOMAIN a = DOMAIN b
            BY <6>2
          <6> QED  BY <6>3, <6>4 DEF b
        <5> QED  BY <5>1 DEF Range
      <4>3. cell = Mapping!Null
        BY <1>1, <3>5, <4>2 DEF IsSheet, IsColumn
      <4> QED  BY <3>4, <4>1, <4>3
    <3>6. CASE cell.kind # "null"
      <4>1. given = {i}
        BY <3>3, <3>6
      <4> HIDE DEF given
      <4>2. i \in Nat
        BY <1>1 DEF IsSheet
      <4>3. Mapping!Max(given) = i
        BY <4>1, <4>2 DEF Mapping!Max
      <4> QED  BY <3>4, <4>1, <4>3
    <3> QED  BY <3>5, <3>6
  <2>3. i \in DOMAIN aside <=> plan[i].decision # "AUTO_MAP"
    BY <1>1, <2>1
  <2>4. i \in DOMAIN aside => aside[i] = cell
    BY <2>1
  <2> HIDE DEF aside, values, cell, f
  <2>5. IF plan[i].decision = "AUTO_MAP" THEN values[f] = cell /\ i \notin DOMAIN aside
          ELSE i \in DOMAIN aside /\ aside[i] = cell
    BY ONLY <2>2, <2>3, <2>4
  <2> QED  BY <2>5, ZenonT(30) DEF aside, values, cell, f
<1>5. ASSUME NEW row \in DOMAIN output.records, NEW f \in output.missing
      PROVE  output.records[row].values[f] = Mapping!Null
  <2>1. f \in Mapping!Mappable /\ Mapping!AutoMapped(plan, f) = {}
    BY <1>1
  <2>2. output.records[row].values = Mapping!Canonical(input, plan, row)
    BY <1>1
  <2> QED  BY <2>1, <2>2, ZenonT(30) DEF Mapping!Canonical
<1> QED
  BY <1>3, <1>4, <1>5 DEF Mapping!EveryCellHasItsPlace, plan

\* A file with its columns turned round.
LEMMA TurnedSheet ==
  ASSUME NEW s, IsSheet(s), NEW t, t = Mapping!Reverse(s)
  PROVE  /\ Len(s) \in Nat /\ DOMAIN s = 1..Len(s) /\ DOMAIN t = 1..Len(s)
         /\ \A i \in 1..Len(s) : t[i] = s[Len(s) - i + 1] /\ Len(s) - i + 1 \in 1..Len(s)
<1>1. t = [i \in 1..Len(s) |-> s[(Len(s) - i) + 1]]
  BY DEF Mapping!Reverse
<1>2. Len(s) \in Nat /\ DOMAIN s = 1..Len(s)
  BY DEF IsSheet
<1> QED
  BY <1>1, <1>2

\* The order of the columns changes no decision.
LEMMA ColumnOrderIsNothing ==
  ASSUME MappingInv
  PROVE  Mapping!ColumnOrderIsImmaterial
<1> SUFFICES ASSUME Mapping!Done PROVE Mapping!Plan(Mapping!Reverse(input)) = Mapping!Reverse(output.plan)
  BY DEF Mapping!ColumnOrderIsImmaterial
<1> DEFINE s == input
           t == Mapping!Reverse(s)
           n == Len(s)
           at(i) == n - i + 1
           plan == output.plan
<1>1. IsSheet(s) /\ plan = [i \in DOMAIN s |-> EntryAt(s, i)]
  BY SheetIs
<1> HIDE DEF plan, s
<1>2. /\ n \in Nat /\ DOMAIN s = 1..n /\ DOMAIN t = 1..n
      /\ \A i \in 1..n : t[i] = s[at(i)] /\ at(i) \in 1..n
  BY <1>1, TurnedSheet
<1> HIDE DEF t
<1>3. \A i \in 1..n : at(at(i)) = i
  BY <1>2
<1>4. \A i, j \in 1..n : at(i) = at(j) => i = j
  BY <1>2
<1> HIDE DEF at, n
<1>5. ASSUME NEW i \in 1..n PROVE Wants(t)[i] = Wants(s)[at(i)]
  BY <1>2 DEF Wants
<1>6. ASSUME NEW i \in 1..n PROVE CollidesAt(t, i) <=> CollidesAt(s, at(i))
  <2>1. Wants(t)[i] = Wants(s)[at(i)]
    BY <1>5
  <2>2. ASSUME NEW j \in (1..n) \ {i} PROVE at(j) \in (1..n) \ {at(i)} /\ Wants(t)[j] = Wants(s)[at(j)]
    BY <1>2, <1>4, <1>5
  <2>3. ASSUME NEW j \in (1..n) \ {at(i)} PROVE at(j) \in (1..n) \ {i} /\ Wants(t)[at(j)] = Wants(s)[j]
    BY <1>2, <1>3, <1>5
  <2>4. (\E j \in (1..n) \ {i} : Wants(t)[j] = Wants(t)[i])
          <=> \E j \in (1..n) \ {at(i)} : Wants(s)[j] = Wants(s)[at(i)]
    BY <2>1, <2>2, <2>3
  <2> QED  BY <1>2, <2>1, <2>4 DEF CollidesAt
<1>7. ASSUME NEW i \in 1..n PROVE EntryAt(t, i) = EntryAt(s, at(i))
  <2>1. t[i] = s[at(i)]
    BY <1>2
  <2> DEFINE h == s[at(i)].header
             r == RankedAt(s[at(i)])
  <2>2. Mapping!Verdict(h, r, CollidesAt(t, i)) = Mapping!Verdict(h, r, CollidesAt(s, at(i)))
    BY <1>6 DEF Mapping!Verdict
  <2>3. DecisionAt(t, i) = DecisionAt(s, at(i))
    BY <2>1, <2>2 DEF DecisionAt
  <2> QED  BY <2>1, <2>3 DEF EntryAt
<1>8. Mapping!Plan(t) = [i \in 1..n |-> EntryAt(s, at(i))]
  BY <1>2, <1>7, PlanIs
<1>9. Mapping!Reverse(plan) = [i \in 1..n |-> EntryAt(s, at(i))]
  <2>1. Len(plan) = n
    BY <1>1, <1>2
  <2>2. Mapping!Reverse(plan) = [i \in 1..n |-> plan[at(i)]]
    BY <2>1 DEF Mapping!Reverse, at
  <2>3. \A i \in 1..n : plan[at(i)] = EntryAt(s, at(i))
    BY <1>1, <1>2
  <2> HIDE DEF plan
  <2> QED  BY <2>2, <2>3
<1> QED
  BY <1>8, <1>9 DEF t, s, plan

\* Mapping starts with a file that is not mapped, and maps it.
LEMMA MappingKeeps ==
  /\ Mapping!Init => MappingInv
  /\ MappingInv /\ Mapping!Next => MappingInv'
<1>1. Mapping!Init => MappingInv
  BY DEF Mapping!Init, MappingInv
<1>2. ASSUME MappingInv, Mapping!Next PROVE MappingInv'
  <2>1. input \in Sheets /\ input' = input /\ output' = Mapping!MapSheet(input)
    BY <1>2 DEF Mapping!Next, Mapping!MapColumns, MappingInv
  <2> QED  BY <2>1 DEF MappingInv
<1> QED
  BY <1>1, <1>2

-----------------------------------------------------------------------------
(* Reading *)

\* Cardinality, Range and Front are those of the library.
LEMMA ReadingCounts ==
  /\ \A S : Reading!Cardinality(S) = Cardinality(S)
  /\ \A f : Reading!Range(f) = Range(f)
  /\ \A s : Reading!Front(s) = SubSeq(s, 1, Len(s) - 1)
<1>1. \A S : Reading!Cardinality(S) = Cardinality(S)
  BY DEF Reading!Cardinality, Cardinality, Reading!IsFiniteSet, IsFiniteSet
<1> QED
  BY <1>1 DEF Reading!Range, Range, Reading!Front

\* A line of a file, and a file that is a sequence of lines.
IsLine(l) ==
  /\ l.cells \in Seq(Nat) /\ l.delimiters \subseteq Reading!Delimiters
  /\ Len(l.cells) > 1 => l.delimiters # {}

IsText(s) == s \in Seq(Range(s)) /\ \A i \in 1..Len(s) : IsLine(s[i])

\* What a line leaves when a quoted cell begins at its end.
Swallowed(l) == Reading!Front(l.cells) \o <<Reading!Merged>>

ReadStates == [done : Seq(Seq(Nat)), open : Seq(Nat)]

StartOfRead == [done |-> <<>>, open |-> <<>>]

\* The pieces of a line are rows of cells.
LEMMA LinePieces ==
  ASSUME NEW l, IsLine(l), NEW d
  PROVE  /\ Reading!Split(l, d) \in Seq(Nat)
         /\ Swallowed(l) \in Seq(Nat) /\ Len(Swallowed(l)) >= 1
         /\ (Len(l.cells) \in Nat /\ Len(Swallowed(l)) = (IF Len(l.cells) = 0 THEN 1 ELSE Len(l.cells)))
         /\ Reading!Front(Swallowed(l)) = Reading!Front(l.cells)
         /\ Reading!Merged \in Range(Swallowed(l))
<1> DEFINE c == l.cells
           f == Reading!Front(c)
           m == Reading!Merged
<1>1. c \in Seq(Nat)
  BY DEF IsLine
<1>2. m \in Nat
  BY DEF Reading!Merged
<1>3. Reading!Split(l, d) \in Seq(Nat)
  BY <1>1, <1>2 DEF Reading!Split
<1> HIDE DEF c, m
<1>4. f \in Seq(Nat) /\ Len(f) = (IF Len(c) = 0 THEN 0 ELSE Len(c) - 1)
  <2>1. f = SubSeq(c, 1, Len(c) - 1)
    BY ReadingCounts
  <2>2. CASE Len(c) = 0
    <3>1. f = <<>>
      BY <1>1, <2>1, <2>2
    <3> QED  BY <2>2, <3>1
  <2>3. CASE Len(c) # 0
    <3> DEFINE n == Len(c) - 1
    <3>1. n \in Nat /\ n <= Len(c) /\ f = SubSeq(c, 1, n)
      BY <1>1, <2>1, <2>3
    <3> HIDE DEF n
    <3>2. SubSeq(c, 1, n) \in Seq(Nat) /\ Len(SubSeq(c, 1, n)) = n
      BY <1>1, <3>1
    <3>3. f \in Seq(Nat) /\ Len(f) = n
      BY <3>1, <3>2
    <3> QED  BY <2>3, <3>3 DEF n
  <2> QED  BY <2>2, <2>3
<1> HIDE DEF f
<1>5. f \o <<m>> \in Seq(Nat) /\ Len(f \o <<m>>) = Len(f) + 1
  BY <1>2, <1>4
<1>6. Reading!Front(f \o <<m>>) = f
  <2> DEFINE g == f \o <<m>>
  <2>1. f \in Seq(Nat) /\ Len(f) \in Nat /\ Len(g) - 1 = Len(f)
    BY <1>4, <1>5
  <2>2. SubSeq(g, 1, Len(f)) = f
    BY <1>2, <2>1
  <2> HIDE DEF g
  <2> QED  BY <2>1, <2>2, ReadingCounts DEF g
<1>7. m \in Range(f \o <<m>>)
  <2> DEFINE g == f \o <<m>>
             k == Len(f) + 1
  <2>1. Len(f) \in Nat
    BY <1>4
  <2>2. g \in Seq(Nat) /\ Len(g) = k
    BY <1>5
  <2>3. g[k] = m
    <3>1. f \in Seq(Nat)
      BY <1>4
    <3> QED  BY ONLY <1>2, <3>1
  <2>4. k \in 1..k
    BY <2>1
  <2> HIDE DEF g, k
  <2>5. DOMAIN g = 1..k
    BY <2>2
  <2> QED  BY <2>3, <2>4, <2>5 DEF Range, g
<1> QED
  BY <1>1, <1>3, <1>4, <1>5, <1>6, <1>7 DEF Swallowed, c, f, m

\* Reading begins with no rows, and a line keeps the type of what was read.
LEMMA ReadIsTyped ==
  /\ StartOfRead \in ReadStates
  /\ \A st \in ReadStates : \A l, d : IsLine(l) => Reading!ReadLine(st, l, d) \in ReadStates
<1>1. StartOfRead \in ReadStates
  BY DEF StartOfRead, ReadStates
<1>2. ASSUME NEW st \in ReadStates, NEW l, NEW d, IsLine(l) PROVE Reading!ReadLine(st, l, d) \in ReadStates
  <2> DEFINE a == Reading!Split(l, d)
             b == Swallowed(l)
  <2>1. a \in Seq(Nat) /\ b \in Seq(Nat)
    BY <1>2, LinePieces
  <2>2. Reading!ReadLine(st, l, d) \in {st, [done |-> Append(st.done, st.open), open |-> <<>>],
                                        [st EXCEPT !.open = b], [st EXCEPT !.done = Append(@, a)]}
    BY DEF Reading!ReadLine, Swallowed
  <2> HIDE DEF a, b
  <2>3. st.done \in Seq(Seq(Nat)) /\ st.open \in Seq(Nat) /\ st = [done |-> st.done, open |-> st.open]
    BY DEF ReadStates
  <2>5. Append(st.done, st.open) \in Seq(Seq(Nat)) /\ Append(st.done, a) \in Seq(Seq(Nat))
    <3> DEFINE S == Seq(Nat)
               t == st.done
               o == st.open
    <3>1. t \in Seq(S) /\ o \in S /\ a \in S
      BY <2>1, <2>3
    <3> HIDE DEF S, t, o
    <3>2. Append(t, o) \in Seq(S) /\ Append(t, a) \in Seq(S)
      BY <3>1
    <3> QED  BY <3>2 DEF S, t, o
  <2>4. /\ [done |-> Append(st.done, st.open), open |-> <<>>] \in ReadStates
        /\ [st EXCEPT !.open = b] \in ReadStates
        /\ [st EXCEPT !.done = Append(@, a)] \in ReadStates
    <3> DEFINE S == Seq(Nat)
               T == Seq(S)
               x == Append(st.done, st.open)
               y == Append(st.done, a)
               z == <<>>
    <3>1. x \in T /\ y \in T /\ z \in S /\ a \in S /\ b \in S /\ st.done \in T /\ st.open \in S
      BY <2>1, <2>3, <2>5
    <3>2. ReadStates = [done : T, open : S]
      BY DEF ReadStates
    <3> HIDE DEF S, T, x, y, z
    <3>3. [done |-> x, open |-> z] \in ReadStates
      BY <3>1, <3>2
    <3>4. [st EXCEPT !.open = b] \in ReadStates
      BY <3>1, <3>2
    <3>5. [st EXCEPT !.done = y] \in ReadStates
      BY <3>1, <3>2
    <3> QED  BY <3>3, <3>4, <3>5 DEF x, y, z
  <2> QED  BY <2>2, <2>4
<1> QED
  BY <1>1, <1>2

\* csv.reader goes through states w, one line after the other.
ReadsAs(w, lines, n, d) ==
  /\ w \in [0..n -> ReadStates]
  /\ w[0] = StartOfRead
  /\ \A k \in 0..n : k # 0 => w[k] = Reading!ReadLine(w[k - 1], lines[k], d)

\* Where the fold of the library ends.
EndOfRead(lines, d) == Reading!FoldLeft(LAMBDA st, line : Reading!ReadLine(st, line, d), StartOfRead, lines)

\* The fold over the lines is such a walk.
LEMMA ReadIsThere ==
  ASSUME NEW n \in Nat, NEW d, NEW e, DOMAIN e = 1..n, \A i \in 1..n : IsLine(e[i])
  PROVE  \E w : ReadsAs(w, e, n, d) /\ EndOfRead(e, d) = w[n]
<1> DEFINE D == ReadStates
           F == [x \in (1..n) \X D |-> Reading!ReadLine(x[2], e[x[1]], d)]
           Body(h) == [s \in SUBSET (1..n) |->
                         IF s = {} THEN StartOfRead
                         ELSE Reading!ReadLine(h[s \ {Reading!Max(s)}], e[Reading!Max(s)], d)]
           fold == CHOOSE h : h = Body(h)
<1>1. EndOfRead(e, d) = fold[1..n]
  BY DEF EndOfRead, Reading!FoldLeft, Reading!MapThenFoldSet
<1>2. \A s : Reading!Max(s) = LastOf(s)
  BY DEF Reading!Max, LastOf
<1>12. F \in [(1..n) \X D -> D]
  BY ReadIsTyped
<1>3. \A i \in 1..n, st \in D : F[<<i, st>>] = Reading!ReadLine(st, e[i], d)
  OBVIOUS
<1> HIDE DEF F
<1>4. PICK h : FoldsUp(h, n, D, StartOfRead, F)
  <2>1. StartOfRead \in D
    BY ReadIsTyped
  <2> HIDE DEF D
  <2> QED  BY <1>12, <2>1, IndexFold
<1>5. h = Body(h)
  <2>1. ASSUME NEW s \in SUBSET (1..n), s # {}
        PROVE  h[s] = Reading!ReadLine(h[s \ {Reading!Max(s)}], e[Reading!Max(s)], d)
    <3>1. LastOf(s) \in 1..n /\ s \ {LastOf(s)} \in SUBSET (1..n)
      BY <2>1, LastOfInterval
    <3>2. h[s \ {LastOf(s)}] \in D
      BY <3>1, <1>4 DEF FoldsUp
    <3>3. h[s] = F[<<LastOf(s), h[s \ {LastOf(s)}]>>]
      BY <1>4, <2>1 DEF FoldsUp
    <3> HIDE DEF D
    <3> QED  BY <1>2, <1>3, <3>1, <3>2, <3>3
  <2>2. h = [s \in SUBSET (1..n) |-> h[s]]
    BY <1>4 DEF FoldsUp
  <2>3. \A s \in SUBSET (1..n) : h[s] = IF s = {} THEN StartOfRead ELSE Reading!ReadLine(h[s \ {Reading!Max(s)}], e[Reading!Max(s)], d)
    BY <1>4, <2>1 DEF FoldsUp
  <2> HIDE DEF D
  <2> QED  BY <2>2, <2>3
<1>6. fold = Body(fold)
  <2> HIDE DEF Body
  <2> QED  BY <1>5
<1> HIDE DEF fold
<1>7. /\ fold[{}] = StartOfRead
      /\ \A k \in 1..n : fold[1..k] = Reading!ReadLine(fold[1..(k - 1)], e[k], d)
  <2>1. fold[{}] = StartOfRead
    BY <1>6
  <2>2. ASSUME NEW k \in 1..n PROVE fold[1..k] = Reading!ReadLine(fold[1..(k - 1)], e[k], d)
    <3>1. 1..k \in SUBSET (1..n) /\ 1..k # {} /\ k \in Nat /\ k # 0
      OBVIOUS
    <3>2. Reading!Max(1..k) = k /\ (1..k) \ {k} = 1..(k - 1)
      BY <1>2, <3>1, LastOfInterval
    <3>3. \A s \in SUBSET (1..n) : s # {} => fold[s] = Reading!ReadLine(fold[s \ {Reading!Max(s)}], e[Reading!Max(s)], d)
      BY <1>6
    <3>4. fold[1..k] = Reading!ReadLine(fold[(1..k) \ {Reading!Max(1..k)}], e[Reading!Max(1..k)], d)
      BY <3>1, <3>3, Zenon
    <3> QED  BY <3>2, <3>4
  <2> QED  BY <2>1, <2>2
<1> DEFINE w == [k \in 0..n |-> fold[1..k]]
           G == {k \in Nat : k <= n => w[k] \in D}
<1>8. w[0] = StartOfRead /\ \A k \in 0..n : k # 0 => w[k] = Reading!ReadLine(w[k - 1], e[k], d)
  <2>1. 1..0 = {}
    OBVIOUS
  <2>2. w[0] = StartOfRead
    BY <1>7, <2>1
  <2>3. ASSUME NEW k \in 0..n, k # 0 PROVE w[k] = Reading!ReadLine(w[k - 1], e[k], d)
    <3>1. k \in 1..n /\ k - 1 \in 0..n
      BY <2>3
    <3> QED  BY <1>7, <3>1
  <2> QED  BY <2>2, <2>3
<1> HIDE DEF w
<1>9. Nat \subseteq G
  <2>1. 0 \in G
    BY <1>8, ReadIsTyped
  <2>2. ASSUME NEW k \in Nat, k \in G PROVE k + 1 \in G
    <3>1. ASSUME k + 1 <= n PROVE w[k + 1] \in D
      <4>1. k + 1 \in 0..n /\ k + 1 # 0 /\ k + 1 - 1 = k /\ k + 1 \in 1..n /\ k <= n
        BY <3>1
      <4>2. w[k] \in D
        BY <2>2, <4>1
      <4>3. w[k + 1] = Reading!ReadLine(w[k], e[k + 1], d)
        BY <1>8, <4>1
      <4> QED  BY <4>1, <4>2, <4>3, ReadIsTyped
    <3> QED  BY <3>1
  <2> HIDE DEF G
  <2> QED  BY <2>1, <2>2, NatInduct
<1>10. w \in [0..n -> D]
  <2>1. w = [k \in 0..n |-> w[k]]
    BY DEF w
  <2>2. \A k \in 0..n : w[k] \in D
    BY <1>9
  <2> QED  BY <2>1, <2>2
<1>11. w[n] = fold[1..n]
  BY DEF w
<1> QED
  BY <1>1, <1>8, <1>10, <1>11 DEF ReadsAs

\* A row is a line that falls into cells, or the beginning of one that swallowed others.
FromLine(row, l, d) == row = Reading!Split(l, d) \/ row = Swallowed(l)

\* What is known of what was read of k lines.
ReadSoFar(st, e, n, d, k) ==
  /\ \A m \in 1..Len(st.done) : \E i \in 1..n : FromLine(st.done[m], e[i], d)
  /\ st.open # <<>> => \E i \in 1..n : st.open = Swallowed(e[i])
  /\ k = 0 => st.open = <<>> /\ Len(st.done) = 0
  /\ k # 0 => IF Len(st.done) = 0 THEN st.open = Swallowed(e[1]) ELSE FromLine(st.done[1], e[1], d)
  /\ (\A i \in 1..n : ~ Reading!Quoted(e[i]))
       => st.open = <<>> /\ Len(st.done) = k /\ \A m \in 1..k : st.done[m] = Reading!Split(e[m], d)

\* One more line keeps it.
LEMMA LineIsRead ==
  ASSUME NEW n \in Nat, NEW d, NEW e, \A i \in 1..n : IsLine(e[i]), NEW k \in Nat, k + 1 <= n,
         NEW st \in ReadStates, ReadSoFar(st, e, n, d, k), NEW s, s = Reading!ReadLine(st, e[k + 1], d)
  PROVE  ReadSoFar(s, e, n, d, k + 1)
<1> DEFINE l == e[k + 1]
           a == Reading!Split(l, d)
           b == Swallowed(l)
           done == st.done
           open == st.open
           plain == \A i \in 1..n : ~ Reading!Quoted(e[i])
<1>1. /\ k + 1 \in 1..n /\ 1 \in 1..n /\ k + 1 # 0 /\ (k = 0 => l = e[1])
      /\ \A i \in 1..n : Swallowed(e[i]) # <<>>
  <2>1. \A i \in 1..n : Len(Swallowed(e[i])) >= 1
    BY LinePieces
  <2> QED  BY <2>1
<1>2. done \in Seq(Seq(Nat)) /\ st = [done |-> done, open |-> open] /\ Len(done) \in Nat
  BY DEF ReadStates
<1>3. /\ \A m \in 1..Len(done) : \E i \in 1..n : FromLine(done[m], e[i], d)
      /\ open # <<>> => \E i \in 1..n : open = Swallowed(e[i])
      /\ k = 0 => open = <<>> /\ Len(done) = 0
      /\ k # 0 => IF Len(done) = 0 THEN open = Swallowed(e[1]) ELSE FromLine(done[1], e[1], d)
      /\ plain => open = <<>> /\ Len(done) = k /\ \A m \in 1..k : done[m] = Reading!Split(e[m], d)
  BY DEF ReadSoFar
<1>4. \/ s = st /\ open # <<>> /\ ~ Reading!Quoted(l)
      \/ s = [done |-> Append(done, open), open |-> <<>>] /\ open # <<>> /\ Reading!Quoted(l)
      \/ s = [st EXCEPT !.open = b] /\ open = <<>> /\ Reading!Quoted(l)
      \/ s = [st EXCEPT !.done = Append(@, a)] /\ open = <<>>
  BY DEF Reading!ReadLine, Swallowed, Reading!Quoted
<1>5. plain => ~ Reading!Quoted(l)
  BY <1>1
<1>6. /\ FromLine(a, l, d) /\ FromLine(b, l, d)
      /\ \A i \in 1..n : FromLine(Swallowed(e[i]), e[i], d)
  BY DEF FromLine
<1> HIDE DEF a, b, done, open, plain
<1>7. CASE s = st /\ open # <<>> /\ ~ Reading!Quoted(l)
  <2>1. s.done = done /\ s.open = open
    BY <1>7 DEF done, open
  <2> HIDE DEF l
  <2>2. k # 0 /\ ~ plain
    BY <1>3, <1>7
  <2> QED  BY <1>1, <1>3, <1>7, <2>1, <2>2 DEF ReadSoFar, plain
<1>8. CASE s = [done |-> Append(done, open), open |-> <<>>] /\ open # <<>> /\ Reading!Quoted(l)
  <2>1. s.done = Append(done, open) /\ s.open = <<>>
    BY <1>8
  <2>2. k # 0 /\ ~ plain
    BY <1>3, <1>5, <1>8
  <2> HIDE DEF l
  <2> DEFINE t == Append(done, open)
  <2>3. Len(t) = Len(done) + 1 /\ t[Len(done) + 1] = open /\ \A m \in 1..Len(done) : t[m] = done[m]
    BY <1>2
  <2> HIDE DEF t
  <2>4. PICK j \in 1..n : open = Swallowed(e[j])
    BY <1>3, <1>8
  <2>5. \A m \in 1..Len(t) : \E i \in 1..n : FromLine(t[m], e[i], d)
    <3>1. \A m \in 1..Len(t) : m = Len(done) + 1 \/ m \in 1..Len(done)
      BY <1>2, <2>3
    <3>2. FromLine(open, e[j], d)
      BY <1>6, <2>4
    <3> QED  BY <1>3, <2>3, <3>1, <3>2
  <2>6. Len(t) # 0 /\ FromLine(t[1], e[1], d)
    <3>1. CASE Len(done) = 0
      <4>1. t[1] = Swallowed(e[1])
        BY <1>3, <2>2, <2>3, <3>1
      <4> QED  BY <1>1, <1>2, <1>6, <2>3, <4>1
    <3>2. CASE Len(done) # 0
      <4>1. 1 \in 1..Len(done)
        BY <1>2, <3>2
      <4> QED  BY <1>2, <1>3, <2>2, <2>3, <3>2, <4>1
    <3> QED  BY <3>1, <3>2
  <2> QED  BY <1>1, <2>1, <2>2, <2>5, <2>6 DEF ReadSoFar, plain, t
<1>9. CASE s = [st EXCEPT !.open = b] /\ open = <<>> /\ Reading!Quoted(l)
  <2>1. s.done = done /\ s.open = b
    BY <1>2, <1>9
  <2>2. ~ plain
    BY <1>5, <1>9
  <2>3. Len(done) = 0 => b = Swallowed(e[1])
    BY <1>1, <1>3, <1>9 DEF b
  <2>4. Len(done) # 0 => FromLine(done[1], e[1], d)
    BY <1>3
  <2>5. \E i \in 1..n : b = Swallowed(e[i])
    BY <1>1 DEF b
  <2> HIDE DEF l
  <2> QED  BY <1>1, <1>3, <2>1, <2>2, <2>3, <2>4, <2>5 DEF ReadSoFar, plain
<1>10. CASE s = [st EXCEPT !.done = Append(@, a)] /\ open = <<>>
  <2>1. s.done = Append(done, a) /\ s.open = <<>>
    BY <1>2, <1>10 DEF done, open
  <2> DEFINE t == Append(done, a)
  <2>2. Len(t) = Len(done) + 1 /\ t[Len(done) + 1] = a /\ \A m \in 1..Len(done) : t[m] = done[m]
    BY <1>2
  <2> HIDE DEF t
  <2>3. \A m \in 1..Len(t) : \E i \in 1..n : FromLine(t[m], e[i], d)
    <3>1. \A m \in 1..Len(t) : m = Len(done) + 1 \/ m \in 1..Len(done)
      BY <1>2, <2>2
    <3> QED  BY <1>1, <1>3, <1>6, <2>2, <3>1
  <2>4. Len(t) # 0 /\ FromLine(t[1], e[1], d)
    <3>1. CASE k = 0
      <4>1. t[1] = a /\ l = e[1]
        BY <1>1, <1>3, <2>2, <3>1
      <4> QED  BY <1>2, <1>6, <2>2, <4>1
    <3>2. CASE k # 0
      <4>1. Len(done) # 0
        BY <1>1, <1>3, <1>10, <3>2
      <4>2. 1 \in 1..Len(done)
        BY <1>2, <4>1
      <4> QED  BY <1>2, <1>3, <2>2, <3>2, <4>1, <4>2
    <3> QED  BY <3>1, <3>2
  <2>5. plain => Len(t) = k + 1 /\ \A m \in 1..(k + 1) : t[m] = Reading!Split(e[m], d)
    <3> SUFFICES ASSUME plain PROVE Len(t) = k + 1 /\ \A m \in 1..(k + 1) : t[m] = Reading!Split(e[m], d)
      OBVIOUS
    <3>1. Len(done) = k /\ \A m \in 1..k : done[m] = Reading!Split(e[m], d)
      BY <1>3
    <3>2. t[k + 1] = Reading!Split(e[k + 1], d)
      BY <2>2, <3>1 DEF a
    <3>3. \A m \in 1..(k + 1) : m = k + 1 \/ m \in 1..k
      OBVIOUS
    <3> QED  BY <2>2, <3>1, <3>2, <3>3
  <2> HIDE DEF l
  <2> QED  BY <1>1, <2>1, <2>3, <2>4, <2>5 DEF ReadSoFar, plain, t
<1> QED
  BY <1>4, <1>7, <1>8, <1>9, <1>10

\* The rows of a CSV file.
LEMMA RowsAre ==
  ASSUME NEW e, IsText(e), NEW d, NEW r, r = Reading!CsvRows(e, d)
  PROVE  /\ r \in Seq(Seq(Nat))
         /\ \A m \in 1..Len(r) : \E i \in 1..Len(e) : FromLine(r[m], e[i], d)
         /\ Len(e) # 0 => Len(r) # 0 /\ FromLine(r[1], e[1], d)
         /\ (\A i \in 1..Len(e) : ~ Reading!Quoted(e[i]))
              => Len(r) = Len(e) /\ \A m \in 1..Len(e) : r[m] = Reading!Split(e[m], d)
<1> DEFINE n == Len(e)
<1>1. n \in Nat /\ DOMAIN e = 1..n /\ \A i \in 1..n : IsLine(e[i])
  BY DEF IsText
<1> HIDE DEF n
<1>2. PICK w : ReadsAs(w, e, n, d) /\ EndOfRead(e, d) = w[n]
  BY <1>1, ReadIsThere
<1> DEFINE G == {k \in Nat : k <= n => ReadSoFar(w[k], e, n, d, k)}
           st == EndOfRead(e, d)
<1>3. Nat \subseteq G
  <2>1. 0 \in G
    <3>1. w[0].open = <<>> /\ w[0].done = <<>>
      BY <1>2 DEF ReadsAs, StartOfRead
    <3>2. Len(<<>>) = 0 /\ 1..0 = {}
      OBVIOUS
    <3> QED  BY <3>1, <3>2 DEF ReadSoFar
  <2>2. ASSUME NEW k \in Nat, k \in G PROVE k + 1 \in G
    <3>1. ASSUME k + 1 <= n PROVE ReadSoFar(w[k + 1], e, n, d, k + 1)
      <4>1. k \in 0..n /\ k + 1 \in 0..n /\ k + 1 # 0 /\ k + 1 - 1 = k /\ k <= n
        BY <1>1, <3>1
      <4>2. w[k] \in ReadStates /\ w[k + 1] = Reading!ReadLine(w[k], e[k + 1], d) /\ ReadSoFar(w[k], e, n, d, k)
        BY <1>2, <2>2, <4>1 DEF ReadsAs
      <4> QED  BY <1>1, <3>1, <4>2, LineIsRead
    <3> QED  BY <3>1
  <2> HIDE DEF G
  <2> QED  BY <2>1, <2>2, NatInduct
<1>4. st \in ReadStates /\ ReadSoFar(st, e, n, d, n)
  <2>1. n \in 0..n /\ n \in G
    BY <1>1, <1>3
  <2> QED  BY <1>2, <2>1 DEF ReadsAs
<1> DEFINE done == st.done
           open == st.open
<1>5. r = IF open = <<>> THEN done ELSE Append(done, open)
  BY DEF Reading!CsvRows, EndOfRead, StartOfRead
<1>6. /\ done \in Seq(Seq(Nat)) /\ open \in Seq(Nat) /\ Len(done) \in Nat
      /\ \A m \in 1..Len(done) : \E i \in 1..n : FromLine(done[m], e[i], d)
      /\ open # <<>> => \E i \in 1..n : open = Swallowed(e[i])
      /\ n # 0 => IF Len(done) = 0 THEN open = Swallowed(e[1]) ELSE FromLine(done[1], e[1], d)
      /\ (\A i \in 1..n : ~ Reading!Quoted(e[i]))
           => open = <<>> /\ Len(done) = n /\ \A m \in 1..n : done[m] = Reading!Split(e[m], d)
  BY <1>4 DEF ReadSoFar, ReadStates
<1>9. n # 0 => Swallowed(e[1]) # <<>>
  <2>1. n # 0 => Len(Swallowed(e[1])) >= 1
    BY <1>1, LinePieces
  <2> QED  BY <2>1
<1> HIDE DEF st, done, open
<1>7. CASE open = <<>>
  BY <1>5, <1>6, <1>7, <1>9 DEF n
<1>8. CASE open # <<>>
  <2> DEFINE t == Append(done, open)
             S == Seq(Nat)
  <2>1. done \in Seq(S) /\ open \in S
    BY <1>6
  <2> HIDE DEF S
  <2>2. t \in Seq(S) /\ Len(t) = Len(done) + 1 /\ t[Len(done) + 1] = open /\ \A m \in 1..Len(done) : t[m] = done[m]
    BY <2>1
  <2> HIDE DEF t
  <2>3. PICK j \in 1..n : open = Swallowed(e[j])
    BY <1>6, <1>8
  <2>4. \A m \in 1..Len(t) : \E i \in 1..n : FromLine(t[m], e[i], d)
    <3>1. \A m \in 1..Len(t) : m = Len(done) + 1 \/ m \in 1..Len(done)
      BY <1>6, <2>2
    <3>2. FromLine(open, e[j], d)
      BY <2>3 DEF FromLine
    <3> QED  BY <1>6, <2>2, <3>1, <3>2
  <2>5. n # 0 => Len(t) # 0 /\ FromLine(t[1], e[1], d)
    <3>1. CASE Len(done) = 0
      <4>1. n # 0 => t[1] = Swallowed(e[1])
        BY <1>6, <2>2, <3>1
      <4> QED  BY <2>2, <3>1, <4>1 DEF FromLine
    <3>2. CASE Len(done) # 0
      <4>1. 1 \in 1..Len(done)
        BY <1>6, <3>2
      <4> QED  BY <1>6, <2>2, <3>2, <4>1
    <3> QED  BY <3>1, <3>2
  <2>6. r = t /\ ~ (\A i \in 1..n : ~ Reading!Quoted(e[i]))
    BY <1>5, <1>6, <1>8 DEF t
  <2> QED  BY <2>2, <2>4, <2>5, <2>6 DEF n, S
<1> QED
  BY <1>7, <1>8

\* N rows were judged, the n-th after the header as row n + 1.
IsJudged(J, N) == DOMAIN J = 1..N /\ \A n \in 1..N : J[n].row = n + 1

RowOrder(S) == [x \in S |-> {y \in S : y.row < x.row}]

AcceptedOf(J) == {j \in Range(J) : j.verdict = "accepted"}
RejectedOf(J) == {j \in Range(J) : j.verdict # "accepted"}

\* A row is known by its number.
LEMMA JudgedAre ==
  ASSUME NEW N \in Nat, NEW J, IsJudged(J, N)
  PROVE  /\ IsFiniteSet(Range(J)) /\ Cardinality(Range(J)) = N
         /\ \A x \in Range(J) : x.row \in 2..(N + 1)
         /\ \A x, y \in Range(J) : x.row = y.row => x = y
         /\ \A m \in 2..(N + 1) : \E x \in Range(J) : x.row = m
<1>1. Range(J) = {J[n] : n \in 1..N} /\ \A n \in 1..N : J[n].row = n + 1
  BY DEF Range, IsJudged
<1> DEFINE S == Range(J)
           g == [x \in S |-> x.row - 1]
<1>2. \A x \in S : \E n \in 1..N : x = J[n]
  BY <1>1
<1>3. \A n \in 1..N : \E x \in S : n = g[x]
  <2>1. \A n \in 1..N : J[n] \in S /\ g[J[n]] = n
    BY <1>1
  <2> QED  BY <2>1
<1>4. IsFiniteSet(1..N) /\ Cardinality(1..N) = N
  BY IntervalCounts
<1> HIDE DEF S, g
<1>5. IsFiniteSet(S) /\ Cardinality(S) <= N /\ Cardinality(S) \in Nat
  BY <1>2, <1>4, ImageIsFinite
<1>6. N <= Cardinality(S)
  BY <1>3, <1>4, <1>5, ImageIsFinite
<1>7. Cardinality(S) = N
  BY <1>5, <1>6
<1>8. \A m \in 2..(N + 1) : \E x \in S : x.row = m
  <2>1. \A m \in 2..(N + 1) : m - 1 \in 1..N /\ m - 1 + 1 = m
    OBVIOUS
  <2> QED  BY <1>1, <2>1 DEF S
<1>9. \A x \in S : x.row \in 2..(N + 1)
  BY <1>1, <1>2
<1>10. \A x, y \in S : x.row = y.row => x = y
  <2> SUFFICES ASSUME NEW x \in S, NEW y \in S, x.row = y.row PROVE x = y
    OBVIOUS
  <2>1. PICK a \in 1..N : x = J[a]
    BY <1>2
  <2>2. PICK b \in 1..N : y = J[b]
    BY <1>2
  <2>3. a + 1 = b + 1
    BY <1>1, <2>1, <2>2
  <2> QED  BY <2>1, <2>2, <2>3
<1> QED
  BY <1>5, <1>7, <1>8, <1>9, <1>10 DEF S

\* Some of the judged rows, sorted by their numbers.
LEMMA RowsSort ==
  ASSUME NEW N \in Nat, NEW J, IsJudged(J, N), NEW S \in SUBSET Range(J), NEW e, e = Reading!InRowOrder(S)
  PROVE  /\ IsFiniteSet(S) /\ Cardinality(S) \in Nat /\ StrictOrder(S, RowOrder(S)) /\ SortsInto(S, RowOrder(S), e)
         /\ DOMAIN e = 1..Cardinality(S) /\ e \in [1..Cardinality(S) -> S] /\ Len(e) = Cardinality(S)
<1> DEFINE R == RowOrder(S)
           M == Cardinality(S)
<1>1. IsFiniteSet(S) /\ M \in Nat
  BY JudgedAre, FS_Subset, FS_CardinalityType
<1>2. \A x \in S : x.row \in Int
  <2>1. \A x \in Range(J) : x.row \in 2..(N + 1)
    BY JudgedAre
  <2> QED  BY <2>1
<1>3. \A x, y \in S : x # y => x.row # y.row
  BY JudgedAre
<1>4. StrictOrder(S, R)
  <2>1. R \in [S -> SUBSET S] /\ \A x, y \in S : x \in R[y] <=> x.row < y.row
    BY DEF RowOrder
  <2> HIDE DEF R
  <2>2. \A x \in S : x \notin R[x]
    BY <1>2, <2>1
  <2>3. \A x, y \in S : x # y => x \in R[y] \/ y \in R[x]
    BY <1>2, <1>3, <2>1
  <2>4. \A x, y, z \in S : x \in R[y] /\ y \in R[z] => x \in R[z]
    BY <1>2, <2>1
  <2> QED  BY <2>1, <2>2, <2>3, <2>4 DEF StrictOrder
<1> DEFINE before(x) == {y \in S : y.row < x.row}
           first(n) == CHOOSE x \in S : Reading!Cardinality(before(x)) = n - 1
<1>5. e = [n \in 1..M |-> first(n)]
  <2>1. e = [n \in 1..Reading!Cardinality(S) |-> first(n)]
    BY DEF Reading!InRowOrder, Reading!SortedBy
  <2> HIDE DEF first
  <2> QED  BY <2>1, ReadingCounts
<1>6. ASSUME NEW n \in 1..M PROVE e[n] \in S /\ Cardinality(R[e[n]]) = n - 1
  <2>1. PICK x \in S : Cardinality(R[x]) = n - 1
    <3> HIDE DEF R
    <3> QED  BY <1>1, <1>4, RanksSort
  <2>2. \A z \in S : before(z) = R[z]
    BY DEF RowOrder
  <2>3. e[n] = CHOOSE z \in S : Reading!Cardinality(before(z)) = n - 1
    <3>1. e[n] = first(n)
      <4> HIDE DEF first
      <4> QED  BY <1>5
    <3> QED  BY <3>1
  <2> HIDE DEF before, R
  <2>4. Reading!Cardinality(before(x)) = n - 1
    BY <2>1, <2>2, ReadingCounts
  <2>5. e[n] \in S /\ Reading!Cardinality(before(e[n])) = n - 1
    BY <2>3, <2>4
  <2> QED  BY <2>2, <2>5, ReadingCounts
<1>7. e = [n \in 1..M |-> e[n]]
  <2> HIDE DEF first
  <2> QED  BY <1>5
<1> HIDE DEF R, M, first
<1>8. SortsInto(S, R, e)
  BY <1>1, <1>4, <1>6, <1>7, RanksSort DEF M
<1>9. DOMAIN e = 1..M
  BY <1>7
<1>10. e \in [1..M -> S]
  BY <1>6, <1>7
<1>11. Len(e) = M
  BY <1>1, <1>9, <1>10
<1> QED
  BY <1>1, <1>4, <1>8, <1>9, <1>10, <1>11 DEF R, M

\* The judged rows are accepted or rejected.
LEMMA VerdictsSplit ==
  ASSUME NEW N \in Nat, NEW J, IsJudged(J, N)
  PROVE  /\ Cardinality(AcceptedOf(J)) + Cardinality(RejectedOf(J)) = N
         /\ AcceptedOf(J) \in SUBSET Range(J) /\ RejectedOf(J) \in SUBSET Range(J)
         /\ AcceptedOf(J) \cap RejectedOf(J) = {} /\ AcceptedOf(J) \cup RejectedOf(J) = Range(J)
         /\ Reading!Accepted(J) = Reading!InRowOrder(AcceptedOf(J))
         /\ Reading!Rejected(J) = Reading!InRowOrder(RejectedOf(J))
<1> DEFINE X == AcceptedOf(J)
           Y == RejectedOf(J)
<1>1. X \cup Y = Range(J) /\ X \cap Y = {} /\ X \subseteq Range(J) /\ Y \subseteq Range(J)
  BY DEF AcceptedOf, RejectedOf
<1>2. X = {j \in Reading!Range(J) : j.verdict = "accepted"} /\ Y = {j \in Reading!Range(J) : j.verdict # "accepted"}
  BY ReadingCounts DEF AcceptedOf, RejectedOf
<1>3. Reading!Accepted(J) = Reading!InRowOrder(X) /\ Reading!Rejected(J) = Reading!InRowOrder(Y)
  <2>1. Reading!Accepted(J) = Reading!InRowOrder({j \in Reading!Range(J) : j.verdict = "accepted"})
    BY DEF Reading!Accepted
  <2>2. Reading!Rejected(J) = Reading!InRowOrder({j \in Reading!Range(J) : j.verdict # "accepted"})
    BY DEF Reading!Rejected
  <2> HIDE DEF X, Y
  <2> QED  BY <1>2, <2>1, <2>2
<1> HIDE DEF X, Y
<1>4. IsFiniteSet(X) /\ IsFiniteSet(Y) /\ Cardinality(Range(J)) = N
  BY <1>1, JudgedAre, FS_Subset
<1>5. Cardinality(X) + Cardinality(Y) = N
  BY <1>1, <1>4, DisjointAdds
<1> QED
  BY <1>1, <1>3, <1>5 DEF X, Y

\* The numbers of the accepted rows and then of the rejected ones.
NumbersOf(A, B) == [i \in DOMAIN A |-> A[i].row] \o [i \in DOMAIN B |-> B[i].row]

\* They are those of the rows of the file, each once.
LEMMA NumbersAre ==
  ASSUME NEW N \in Nat, NEW J, IsJudged(J, N), NEW q, q = NumbersOf(Reading!Accepted(J), Reading!Rejected(J))
  PROVE  q \in Seq(Nat) /\ Len(q) = N /\ Reading!IsInjective(q) /\ Reading!Range(q) = 2..(Len(q) + 1)
<1> DEFINE X == AcceptedOf(J)
           Y == RejectedOf(J)
           A == Reading!Accepted(J)
           B == Reading!Rejected(J)
           a == Cardinality(X)
           b == Cardinality(Y)
           u == [i \in DOMAIN A |-> A[i].row]
           v == [i \in DOMAIN B |-> B[i].row]
<1>1. /\ a + b = N /\ X \in SUBSET Range(J) /\ Y \in SUBSET Range(J) /\ X \cap Y = {} /\ X \cup Y = Range(J)
      /\ A = Reading!InRowOrder(X) /\ B = Reading!InRowOrder(Y)
  BY VerdictsSplit
<1> HIDE DEF X, Y, A, B
<1>2. /\ a \in Nat /\ SortsInto(X, RowOrder(X), A) /\ DOMAIN A = 1..a /\ A \in [1..a -> X]
      /\ b \in Nat /\ SortsInto(Y, RowOrder(Y), B) /\ DOMAIN B = 1..b /\ B \in [1..b -> Y]
  BY <1>1, RowsSort
<1>3. /\ \A i, j \in 1..a : i < j => A[i] # A[j]
      /\ \A i, j \in 1..b : i < j => B[i] # B[j]
      /\ \A x \in X : \E i \in 1..a : A[i] = x
      /\ \A x \in Y : \E i \in 1..b : B[i] = x
  BY <1>2 DEF SortsInto
<1> HIDE DEF a, b
<1>4. /\ \A x \in Range(J) : x.row \in 2..(N + 1)
      /\ \A x, y \in Range(J) : x.row = y.row => x = y
      /\ \A m \in 2..(N + 1) : \E x \in Range(J) : x.row = m
  BY JudgedAre
<1>5. u \in Seq(Nat) /\ Len(u) = a /\ \A i \in 1..a : u[i] = A[i].row
  <2>1. \A i \in 1..a : A[i].row \in Nat
    BY <1>1, <1>2, <1>4
  <2> QED  BY <1>2, <2>1
<1>6. v \in Seq(Nat) /\ Len(v) = b /\ \A i \in 1..b : v[i] = B[i].row
  <2>1. \A i \in 1..b : B[i].row \in Nat
    BY <1>1, <1>2, <1>4
  <2> QED  BY <1>2, <2>1
<1> HIDE DEF u, v
<1>7. q = u \o v
  BY DEF NumbersOf, A, B, u, v
<1>8. /\ q \in Seq(Nat) /\ Len(q) = a + b /\ DOMAIN q = 1..N
      /\ \A i \in 1..a : q[i] = u[i]
      /\ \A i \in 1..b : q[a + i] = v[i]
  <2>1. a \in Nat /\ b \in Nat /\ a + b = N /\ Len(u) = a /\ Len(v) = b
    BY <1>1, <1>2, <1>5, <1>6
  <2>2. u \in Seq(Nat) /\ v \in Seq(Nat)
    BY <1>5, <1>6
  <2> HIDE DEF a, b
  <2>7. q \in Seq(Nat)
    BY ONLY <1>7, <2>2
  <2>8. Len(q) = Len(u) + Len(v)
    BY ONLY <1>7, <2>2
  <2>3. q \in Seq(Nat) /\ Len(q) = a + b
    BY <2>1, <2>7, <2>8
  <2>4. \A i \in 1..a : q[i] = u[i]
    BY ONLY <1>7, <2>1, <2>2
  <2>5. \A i \in 1..b : q[a + i] = v[i]
    BY ONLY <1>7, <2>1, <2>2
  <2>6. DOMAIN q = 1..N
    BY <2>1, <2>3
  <2> QED  BY <2>3, <2>4, <2>5, <2>6
<1>9. \A i \in 1..N : i \in 1..a \/ \E k \in 1..b : i = a + k
  <2> SUFFICES ASSUME NEW i \in 1..N, i \notin 1..a PROVE \E k \in 1..b : i = a + k
    OBVIOUS
  <2>1. i - a \in 1..b /\ i = a + (i - a)
    BY <1>1, <1>2
  <2> QED  BY <2>1
<1>10. /\ \A i \in 1..a : A[i] \in Range(J) /\ A[i] \in X /\ q[i] = A[i].row
       /\ \A i \in 1..b : B[i] \in Range(J) /\ B[i] \in Y /\ q[a + i] = B[i].row
  BY <1>1, <1>2, <1>5, <1>6, <1>8
<1>11. \A i, j \in 1..N : q[i] = q[j] => i = j
  <2>1. \A i, j \in 1..a : q[i] = q[j] => i = j
    BY <1>2, <1>3, <1>4, <1>10
  <2>2. \A i, j \in 1..b : q[a + i] = q[a + j] => i = j
    <3> SUFFICES ASSUME NEW i \in 1..b, NEW j \in 1..b, q[a + i] = q[a + j] PROVE i = j
      OBVIOUS
    <3>1. B[i].row = B[j].row
      BY <1>10
    <3>2. B[i] = B[j]
      BY <1>4, <1>10, <3>1
    <3> QED  BY <1>2, <1>3, <3>2
  <2>3. \A i \in 1..a, j \in 1..b : q[i] # q[a + j]
    BY <1>1, <1>4, <1>10
  <2> QED  BY <1>9, <2>1, <2>2, <2>3
<1>12. Range(q) = 2..(N + 1)
  <2>1. Range(q) = {q[i] : i \in 1..N}
    BY <1>8 DEF Range
  <2>2. \A i \in 1..N : q[i] \in 2..(N + 1)
    BY <1>4, <1>9, <1>10
  <2>3. ASSUME NEW m \in 2..(N + 1) PROVE \E i \in 1..N : q[i] = m
    <3>1. PICK x \in Range(J) : x.row = m
      BY <1>4
    <3>2. CASE x \in X
      <4>1. PICK i \in 1..a : A[i] = x
        BY <1>3, <3>2
      <4>2. i \in 1..N
        BY <1>1, <1>2
      <4> QED  BY <1>10, <3>1, <4>1, <4>2
    <3>3. CASE x \in Y
      <4>1. PICK i \in 1..b : B[i] = x
        BY <1>3, <3>3
      <4>2. a + i \in 1..N
        BY <1>1, <1>2
      <4> QED  BY <1>10, <3>1, <4>1, <4>2
    <3> QED  BY <1>1, <3>2, <3>3
  <2> QED  BY <2>1, <2>2, <2>3
<1>13. Reading!IsInjective(q)
  BY <1>8, <1>11 DEF Reading!IsInjective
<1> QED
  BY <1>1, <1>8, <1>12, <1>13, ReadingCounts

\* A file that is read holds what parse_file returns.
ReadingInv ==
  /\ input \in Sources
  /\ output = Reading!NotParsed \/ output = Reading!ParseFile(input)

\* A file is a record of its lines.
LEMMA SourceIs ==
  ASSUME NEW s \in Sources
  PROVE  /\ IsText(s.lines)
         /\ s = [format |-> s.format, exists |-> s.exists, size |-> s.size, coding |-> s.coding, lines |-> s.lines]
<1> DEFINE e == s.lines
<1>1. /\ e \in Seq(Range(e))
      /\ \A l \in Range(e) : /\ l.cells \in Seq(Nat) /\ l.delimiters \subseteq Reading!Delimiters
                             /\ Len(l.cells) > 1 => l.delimiters # {}
      /\ s = [format |-> s.format, exists |-> s.exists, size |-> s.size, coding |-> s.coding, lines |-> s.lines]
  BY PipelineAssumption, ReadingCounts DEF Reading!FileAssumption
<1> HIDE DEF e
<1>2. \A i \in 1..Len(e) : e[i] \in Range(e)
  BY <1>1 DEF Range
<1> QED
  BY <1>1, <1>2 DEF IsText, IsLine, e

\* How often a delimiter is in each of the sampled lines is a number.
LEMMA EvennessIs ==
  ASSUME NEW d, NEW S, IsFiniteSet(S), \A l \in S : IsLine(l)
  PROVE  /\ Reading!Evenness(S, d) \in Int
         /\ Reading!Evenness(S, d) # 0 =>
              \A l \in S : Len(Reading!Split(l, d)) - 1 = Reading!Evenness(S, d)
         /\ \A c \in Int : S # {} /\ (\A l \in S : Len(Reading!Split(l, d)) - 1 = c) => Reading!Evenness(S, d) = c
<1> DEFINE C == {Len(Reading!Split(l, d)) - 1 : l \in S}
           v == Reading!Evenness(S, d)
<1>1. v = IF Cardinality(C) = 1 THEN Reading!Max(C) ELSE 0
  BY ReadingCounts DEF Reading!Evenness
<1>2. C \subseteq Int
  <2>1. \A l \in S : Len(Reading!Split(l, d)) \in Nat
    BY LinePieces
  <2> QED  BY <2>1
<1>3. \A l \in S : Len(Reading!Split(l, d)) - 1 \in C
  OBVIOUS
<1>4. \A c \in C : \E l \in S : c = Len(Reading!Split(l, d)) - 1
  OBVIOUS
<1> HIDE DEF C, v
<1>5. \A c \in Int : C = {c} => v = c
  <2>1. ASSUME NEW c \in Int PROVE Cardinality({c}) = 1 /\ Reading!Max({c}) = c
    <3>1. Cardinality({c}) = 1
      BY FS_Singleton
    <3>2. Reading!Max({c}) = c
      BY DEF Reading!Max
    <3> QED  BY <3>1, <3>2
  <2> QED  BY <1>1, <2>1
<1>6. ASSUME Cardinality(C) = 1, C # {} PROVE \E c \in Int : C = {c}
  <2>1. IsFiniteSet(C)
    <3> DEFINE g == [l \in S |-> Len(Reading!Split(l, d)) - 1]
    <3>1. \A c \in C : \E l \in S : c = g[l]
      BY <1>4
    <3> HIDE DEF g
    <3> QED  BY <3>1, ImageIsFinite
  <2>2. \E c : C = {c}
    BY <1>6, <2>1, FS_Singleton
  <2> QED  BY <1>2, <2>2
<1>7. Cardinality(C) = 1 => C # {}
  BY FS_EmptySet
<1>8. v \in Int
  BY <1>1, <1>5, <1>6, <1>7
<1>9. v # 0 => \A l \in S : Len(Reading!Split(l, d)) - 1 = v
  BY <1>1, <1>3, <1>5, <1>6, <1>7
<1>10. ASSUME NEW c \in Int, S # {}, \A l \in S : Len(Reading!Split(l, d)) - 1 = c PROVE v = c
  <2>1. C = {c}
    BY <1>3, <1>4, <1>10
  <2> QED  BY <1>5, <2>1
<1> QED
  BY <1>8, <1>9, <1>10 DEF v

EvenIn(e, d) == Reading!Evenness(Reading!Sample(e), d)

\* The sampled lines are lines of the file.
LEMMA SampleIs ==
  ASSUME NEW e, IsText(e)
  PROVE  /\ IsFiniteSet(Reading!Sample(e)) /\ \A l \in Reading!Sample(e) : IsLine(l) /\ ~ Reading!BlankLine(l)
         /\ \A l \in Reading!Sample(e) : \E i \in 1..Len(e) : l = e[i]
         /\ Len(e) # 0 /\ ~ Reading!BlankLine(e[1]) => e[1] \in Reading!Sample(e)
<1> DEFINE B == {i \in DOMAIN e : ~ Reading!BlankLine(e[i])}
           K == {j \in B : Cardinality({k \in B : k <= j}) <= Reading!SampleLines}
<1>1. DOMAIN e = 1..Len(e) /\ Len(e) \in Nat /\ \A i \in 1..Len(e) : IsLine(e[i])
  BY DEF IsText
<1>2. Reading!Sample(e) = {e[i] : i \in K}
  BY ReadingCounts DEF Reading!Sample
<1>3. K \subseteq B /\ B \subseteq 1..Len(e) /\ \A i \in B : ~ Reading!BlankLine(e[i])
  BY <1>1
<1>4. ASSUME Len(e) # 0, ~ Reading!BlankLine(e[1]) PROVE 1 \in K
  <2>1. 1 \in B
    BY <1>1, <1>4
  <2>2. {k \in B : k <= 1} = {1}
    BY <1>3, <2>1
  <2>3. Cardinality({k \in B : k <= 1}) = 1
    <3> HIDE DEF B
    <3> QED  BY <2>2, FS_Singleton
  <2> HIDE DEF B
  <2> QED  BY <2>1, <2>3 DEF Reading!SampleLines
<1> HIDE DEF K, B
<1>5. IsFiniteSet(Reading!Sample(e))
  <2>1. IsFiniteSet(1..Len(e))
    BY <1>1, IntervalCounts
  <2>2. \A l \in Reading!Sample(e) : \E i \in 1..Len(e) : l = e[i]
    BY <1>2, <1>3
  <2> QED  BY <2>1, <2>2, ImageIsFinite
<1> QED
  BY <1>1, <1>2, <1>3, <1>4, <1>5

\* There is a delimiter, one of the two.
LEMMA DetectedIs ==
  ASSUME NEW e, IsText(e), NEW F, F = Reading!Detected(e)
  PROVE  /\ F # {} /\ F \subseteq Reading!Delimiters
         /\ \A d \in F : (EvenIn(e, ",") = 0 /\ EvenIn(e, ";") = 0) => d = ","
         /\ \A d \in F, x \in Reading!Delimiters : EvenIn(e, x) <= EvenIn(e, d) \/ (EvenIn(e, ",") = 0 /\ EvenIn(e, ";") = 0)
<1> DEFINE a == EvenIn(e, ",")
           b == EvenIn(e, ";")
<1>1. Reading!Delimiters = {",", ";"}
  BY DEF Reading!Delimiters
<1>2. F = IF \A d \in Reading!Delimiters : EvenIn(e, d) = 0 THEN {","}
          ELSE {d \in Reading!Delimiters : \A x \in Reading!Delimiters : EvenIn(e, x) <= EvenIn(e, d)}
  BY DEF Reading!Detected, EvenIn
<1>3. a \in Int /\ b \in Int
  BY SampleIs, EvennessIs DEF EvenIn
<1> HIDE DEF a, b
<1>4. (\A d \in Reading!Delimiters : EvenIn(e, d) = 0) <=> a = 0 /\ b = 0
  BY <1>1 DEF a, b
<1>5. CASE a = 0 /\ b = 0
  <2>1. F = {","}
    BY <1>2, <1>4, <1>5
  <2> QED  BY <1>1, <1>5, <2>1 DEF a, b
<1>6. CASE ~ (a = 0 /\ b = 0)
  <2>1. F = {d \in Reading!Delimiters : \A x \in Reading!Delimiters : EvenIn(e, x) <= EvenIn(e, d)}
    BY <1>2, <1>4, <1>6
  <2>2. a <= b \/ b <= a
    BY <1>3
  <2>3. a <= a /\ b <= b
    BY <1>3
  <2>4. "," \in F \/ ";" \in F
    BY <1>1, <2>1, <2>2, <2>3 DEF a, b
  <2> QED  BY <1>6, <2>1, <2>4 DEF a, b
<1> QED
  BY <1>5, <1>6

\* The parts of a CSV file by a delimiter, and the rows that are judged.
RowsOf(file, d) == Reading!CsvRows(file.lines, d)

HeadersOf(file, d) == Reading!CsvHeaders(RowsOf(file, d)[1], file.coding)

JudgedCsv(file, d) ==
  [n \in 1..(Len(RowsOf(file, d)) - 1) |->
     Reading!JudgeCsvRow(n + 1, RowsOf(file, d)[n + 1], Len(HeadersOf(file, d)), Len(RowsOf(file, d)),
                         Reading!UnclosedAtEof(file.lines))]

\* What stands when a CSV file was read by its delimiter.
CsvTable(file, d, t) ==
  /\ d \in Reading!Detected(file.lines) /\ ~ (Cardinality(Reading!Detected(file.lines)) > 1)
  /\ Reading!HeaderFault(HeadersOf(file, d)) = ""
  /\ ~ (Len(RowsOf(file, d)) - 1 > MaxRows)
  /\ t = Reading!Table(HeadersOf(file, d), JudgedCsv(file, d))

AllBlank(file) == \A i \in DOMAIN file.lines : Reading!BlankLine(file.lines[i])

\* A CSV file that is not refused has no lines but blank ones, or a table.
LEMMA CsvIs ==
  ASSUME NEW file, IsText(file.lines), NEW t, t = Reading!ParseCsv(file), t.outcome = "parsed"
  PROVE  \/ AllBlank(file) /\ t = Reading!Table(<<>>, <<>>)
         \/ ~ AllBlank(file) /\ \E d : CsvTable(file, d, t)
<1> DEFINE found == Reading!Detected(file.lines)
           d == CHOOSE x \in found : TRUE
           rows == Reading!CsvRows(file.lines, d)
           headers == Reading!CsvHeaders(rows[1], file.coding)
           last == Len(rows)
           fault == Reading!HeaderFault(headers)
           judged == [n \in 1..(last - 1) |->
                        Reading!JudgeCsvRow(n + 1, rows[n + 1], Len(headers), last, Reading!UnclosedAtEof(file.lines))]
<1>1. t = IF AllBlank(file) THEN Reading!Table(<<>>, <<>>)
          ELSE IF Reading!Cardinality(found) > 1 THEN Reading!Refused("delimiter_detection_error")
          ELSE IF fault # "" THEN Reading!Refused(fault)
          ELSE IF last - 1 > MaxRows THEN Reading!Refused("row_limit_exceeded")
          ELSE Reading!Table(headers, judged)
  BY DEF Reading!ParseCsv, AllBlank
<1>2. d \in found
  BY DetectedIs
<1>3. \A code : Reading!Refused(code).outcome = "refused"
  BY DEF Reading!Refused
<1> DEFINE table == Reading!Table(headers, judged)
<1>4. AllBlank(file) \in BOOLEAN
  BY DEF AllBlank
<1>5. /\ rows = RowsOf(file, d) /\ headers = HeadersOf(file, d) /\ judged = JudgedCsv(file, d)
  BY DEF RowsOf, HeadersOf, JudgedCsv
<1> HIDE DEF found, d, rows, headers, last, fault, judged
<1>6. CASE AllBlank(file)
  BY <1>1, <1>6
<1>7. CASE ~ AllBlank(file)
  <2>1. ~ (Reading!Cardinality(found) > 1) /\ fault = "" /\ ~ (last - 1 > MaxRows) /\ t = table
    BY <1>1, <1>3, <1>7
  <2>2. CsvTable(file, d, t)
    BY <1>2, <1>5, <2>1, ReadingCounts DEF CsvTable, found, last, fault
  <2> QED  BY <1>7, <2>2
<1> QED
  BY <1>6, <1>7

XRowsOf(file) == [i \in DOMAIN file.lines |-> file.lines[i].cells]

XHeadersOf(file) == Reading!XlsxHeaders(XRowsOf(file)[1])

JudgedXlsx(file) ==
  [n \in 1..(Len(XRowsOf(file)) - 1) |-> Reading!JudgeXlsxRow(n + 1, XRowsOf(file)[n + 1], Len(XHeadersOf(file)))]

\* A worksheet that is not refused has a table, and what is within the limits is not refused.
LEMMA XlsxIs ==
  ASSUME NEW file, NEW t, t = Reading!ParseXlsx(file)
  PROVE  /\ t.outcome = "parsed" =>
              /\ XRowsOf(file) # <<>> /\ Reading!HeaderFault(XHeadersOf(file)) = ""
              /\ t = Reading!Table(XHeadersOf(file), JudgedXlsx(file))
         /\ (/\ XRowsOf(file) # <<>> /\ Reading!HeaderFault(XHeadersOf(file)) = ""
             /\ ~ (Len(Reading!Accepted(JudgedXlsx(file))) > MaxRows))
              => t = Reading!Table(XHeadersOf(file), JudgedXlsx(file))
<1> DEFINE rows == XRowsOf(file)
           headers == XHeadersOf(file)
           judged == JudgedXlsx(file)
           fault == Reading!HeaderFault(headers)
           table == Reading!Table(headers, judged)
           many == Len(Reading!Accepted(judged)) > MaxRows
<1>1. t = IF rows = <<>> THEN Reading!Refused("empty_file")
          ELSE IF fault # "" THEN Reading!Refused(fault)
          ELSE IF many THEN Reading!Refused("row_limit_exceeded")
          ELSE table
  BY DEF Reading!ParseXlsx, XRowsOf, XHeadersOf, JudgedXlsx
<1>2. \A code : Reading!Refused(code).outcome = "refused"
  BY DEF Reading!Refused
<1>3. many \in BOOLEAN
  OBVIOUS
<1> HIDE DEF rows, headers, judged, fault, table, many
<1>4. t.outcome = "parsed" => rows # <<>> /\ fault = "" /\ t = table
  BY <1>1, <1>2
<1>5. rows # <<>> /\ fault = "" /\ ~ many => t = table
  BY <1>1, <1>3
<1> QED
  BY <1>4, <1>5 DEF rows, headers, judged, fault, table, many

\* A judged row keeps its number and, when it is accepted, its cells.
LEMMA JudgeCsvIs ==
  ASSUME NEW row, NEW cells, NEW width, NEW last, NEW unclosed \in BOOLEAN, NEW j,
         j = Reading!JudgeCsvRow(row, cells, width, last, unclosed)
  PROVE  /\ j.row = row
         /\ j.verdict = "accepted" => j.values = cells /\ Len(cells) = width
         /\ unclosed /\ row = last => j.verdict = "unclosed_quote"
  BY DEF Reading!JudgeCsvRow, Reading!Accept, Reading!Reject

\* A row of a worksheet keeps its number, and is as wide as the headers when accepted.
LEMMA JudgeXlsxIs ==
  ASSUME NEW row, NEW cells, NEW width \in Nat, NEW j, j = Reading!JudgeXlsxRow(row, cells, width)
  PROVE  j.row = row /\ (j.verdict = "accepted" => Len(j.values) = width)
<1> DEFINE padded == [i \in 1..width |-> IF i > Len(cells) THEN Reading!Empty ELSE Reading!Stripped(cells[i])]
<1>1. Len(padded) = width
  <2> DEFINE v(i) == IF i > Len(cells) THEN Reading!Empty ELSE Reading!Stripped(cells[i])
  <2>1. padded = [i \in 1..width |-> v(i)]
    OBVIOUS
  <2> HIDE DEF padded, v
  <2> QED  BY <2>1
<1>2. \/ j = Reading!Reject(row, "inconsistent_column_count")
      \/ j = Reading!Reject(row, "entirely_blank_row")
      \/ j = Reading!Accept(row, padded)
  BY DEF Reading!JudgeXlsxRow
<1> HIDE DEF padded
<1>3. /\ \A v : Reading!Accept(row, v).row = row /\ Reading!Accept(row, v).values = v
      /\ \A r : Reading!Reject(row, r).row = row /\ Reading!Reject(row, r).verdict = r
  BY DEF Reading!Accept, Reading!Reject
<1> QED
  BY <1>1, <1>2, <1>3

\* The headers of a worksheet.
LEMMA XHeadersAre ==
  ASSUME NEW first \in Seq(Nat), NEW h, h = Reading!XlsxHeaders(first)
  PROVE  /\ Len(h) \in Nat
         /\ (Len(first) # 0 /\ \A i \in 1..Len(first) : Reading!Stripped(first[i]) # Reading!Empty)
              => h = [i \in 1..Len(first) |-> Reading!Stripped(first[i])]
<1> DEFINE n == Len(first)
           names == [i \in DOMAIN first |-> Reading!Stripped(first[i])]
           S == {0} \cup {i \in DOMAIN names : names[i] # Reading!Empty}
           m == Reading!Max(S)
<1>1. n \in Nat /\ DOMAIN first = 1..n
  OBVIOUS
<1>2. h = SubSeq(names, 1, m)
  BY DEF Reading!XlsxHeaders
<1>3. names \in Seq(Nat) /\ DOMAIN names = 1..n /\ \A i \in 1..n : names[i] = Reading!Stripped(first[i])
  <2>1. \A i \in 1..n : Reading!Stripped(first[i]) \in Nat
    BY DEF Reading!Stripped, Reading!Empty
  <2> QED  BY <1>1, <2>1
<1> HIDE DEF n, names
<1>4. S \subseteq 0..n /\ 0 \in S
  BY <1>1, <1>3
<1>5. m \in S /\ \A y \in S : m >= y
  <2>1. IsFiniteSet(0..n) /\ 0..n \subseteq Int
    BY <1>1, FS_Interval
  <2>2. \E x \in S : \A y \in S : x >= y
    <3> HIDE DEF S
    <3> QED  BY <1>4, <2>1, Greatest
  <2> HIDE DEF S
  <2> QED  BY <2>2 DEF Reading!Max
<1> HIDE DEF m
<1>6. m \in Nat /\ m <= n
  BY <1>1, <1>4, <1>5
<1>7. Len(names) = n
  BY <1>1, <1>3
<1>8. Len(h) \in Nat
  <2>1. SubSeq(names, 1, m) \in Seq(Nat)
    BY <1>3, <1>6, <1>7
  <2> QED  BY <1>2, <2>1
<1>9. ASSUME n # 0, \A i \in 1..n : Reading!Stripped(first[i]) # Reading!Empty
      PROVE  h = [i \in 1..n |-> Reading!Stripped(first[i])]
  <2>1. n \in S
    BY <1>1, <1>3, <1>9
  <2>2. m = n
    BY <1>1, <1>5, <1>6, <2>1
  <2>3. h = [i \in 1..n |-> names[i]]
    BY <1>2, <1>3, <1>6, <1>7, <2>2
  <2>4. \A i \in 1..n : names[i] = Reading!Stripped(first[i])
    BY <1>3
  <2> QED  BY <2>3, <2>4
<1> QED
  BY <1>8, <1>9 DEF n

\* The rows that are judged are those after the first.
LEMMA JudgedIs ==
  /\ \A file, d : IsText(file.lines) =>
       LET R == RowsOf(file, d)
           J == JudgedCsv(file, d)
       IN Len(file.lines) # 0 => Len(R) - 1 \in Nat /\ IsJudged(J, Len(R) - 1)
  /\ \A file : IsText(file.lines) /\ Len(file.lines) # 0 =>
       Len(XRowsOf(file)) = Len(file.lines) /\ IsJudged(JudgedXlsx(file), Len(file.lines) - 1)
<1>1. ASSUME NEW file, NEW d, IsText(file.lines), Len(file.lines) # 0
      PROVE  Len(RowsOf(file, d)) - 1 \in Nat /\ IsJudged(JudgedCsv(file, d), Len(RowsOf(file, d)) - 1)
  <2> DEFINE R == RowsOf(file, d)
             J == JudgedCsv(file, d)
             N == Len(R) - 1
             u == Reading!UnclosedAtEof(file.lines)
             w == Len(HeadersOf(file, d))
  <2>1. R \in Seq(Seq(Nat)) /\ Len(R) # 0
    BY <1>1, RowsAre DEF RowsOf
  <2>2. N \in Nat
    BY <2>1
  <2>3. J = [n \in 1..N |-> Reading!JudgeCsvRow(n + 1, R[n + 1], w, Len(R), u)]
    BY DEF JudgedCsv
  <2>4. u \in BOOLEAN
    BY DEF Reading!UnclosedAtEof
  <2> HIDE DEF N, J, R, u, w
  <2>5. \A n \in 1..N : Reading!JudgeCsvRow(n + 1, R[n + 1], w, Len(R), u).row = n + 1
    BY <2>4, JudgeCsvIs
  <2>6. IsJudged(J, N)
    BY <2>3, <2>5 DEF IsJudged
  <2> QED  BY <2>2, <2>6 DEF N, J, R
<1>2. ASSUME NEW file, IsText(file.lines), Len(file.lines) # 0
      PROVE  Len(XRowsOf(file)) = Len(file.lines) /\ IsJudged(JudgedXlsx(file), Len(file.lines) - 1)
  <2> DEFINE e == file.lines
             X == XRowsOf(file)
             J == JudgedXlsx(file)
             w == Len(XHeadersOf(file))
  <2>1. Len(e) \in Nat /\ DOMAIN e = 1..Len(e) /\ \A i \in 1..Len(e) : e[i].cells \in Seq(Nat)
    BY <1>2 DEF IsText, IsLine
  <2>2. X = [i \in 1..Len(e) |-> e[i].cells]
    BY <2>1 DEF XRowsOf
  <2>3. Len(X) = Len(e) /\ X[1] \in Seq(Nat)
    BY <1>2, <2>1, <2>2
  <2>4. w \in Nat
    BY <2>3, XHeadersAre DEF XHeadersOf
  <2>5. J = [n \in 1..(Len(X) - 1) |-> Reading!JudgeXlsxRow(n + 1, X[n + 1], w)]
    BY DEF JudgedXlsx
  <2> HIDE DEF J, X, e, w
  <2>6. \A n \in 1..(Len(e) - 1) : Reading!JudgeXlsxRow(n + 1, X[n + 1], w).row = n + 1
    BY <2>4, JudgeXlsxIs
  <2>7. IsJudged(J, Len(e) - 1)
    BY <2>3, <2>5, <2>6 DEF IsJudged
  <2> QED  BY <2>3, <2>7 DEF J, X, e
<1> QED
  BY <1>1, <1>2

\* A worksheet that was read.
XlsxTable(file, t) ==
  /\ XRowsOf(file) # <<>> /\ Reading!HeaderFault(XHeadersOf(file)) = ""
  /\ t = Reading!Table(XHeadersOf(file), JudgedXlsx(file))

\* What the result of a file can be when it is not refused.
LEMMA ReadIs ==
  ASSUME NEW s, IsText(s.lines), NEW t, t = Reading!ParseFile(s), t.outcome = "parsed"
  PROVE  /\ s.exists /\ s.size # "empty" /\ s.size # "large"
         /\ \/ s.format = "csv" /\ t = Reading!ParseCsv(s) /\ AllBlank(s) /\ t = Reading!Table(<<>>, <<>>)
            \/ s.format = "csv" /\ t = Reading!ParseCsv(s) /\ ~ AllBlank(s) /\ \E d : CsvTable(s, d, t)
            \/ s.format = "xlsx" /\ t = Reading!ParseXlsx(s) /\ XlsxTable(s, t)
<1> DEFINE csv == Reading!ParseCsv(s)
           xlsx == Reading!ParseXlsx(s)
<1>1. t = IF ~ s.exists THEN Reading!Refused("file_not_found")
          ELSE IF s.format \notin {"csv", "xlsx"} THEN Reading!Refused("unsupported_file_type")
          ELSE IF s.size = "empty" THEN Reading!Refused("empty_file")
          ELSE IF s.size = "large" THEN Reading!Refused("file_too_large")
          ELSE IF s.format = "csv" THEN csv
          ELSE xlsx
  BY DEF Reading!ParseFile
<1>2. \A code : Reading!Refused(code).outcome = "refused"
  BY DEF Reading!Refused
<1> HIDE DEF csv, xlsx
<1>3. /\ s.exists /\ s.size # "empty" /\ s.size # "large"
      /\ (s.format = "csv" /\ t = csv) \/ (s.format = "xlsx" /\ t = xlsx)
  BY <1>1, <1>2
<1>4. t = csv => \/ AllBlank(s) /\ t = Reading!Table(<<>>, <<>>)
                 \/ ~ AllBlank(s) /\ \E d : CsvTable(s, d, t)
  BY CsvIs DEF csv
<1>5. t = xlsx => XlsxTable(s, t)
  BY XlsxIs DEF xlsx, XlsxTable
<1> QED
  BY <1>3, <1>4, <1>5 DEF csv, xlsx

\* A file that is done was parsed.
LEMMA DoneIs ==
  ASSUME ReadingInv
  PROVE  /\ IsText(input.lines)
         /\ Reading!Done => output = Reading!ParseFile(input)
<1>1. Reading!NotParsed.outcome = "not parsed"
  BY DEF Reading!NotParsed
<1> QED
  BY <1>1, SourceIs DEF ReadingInv, Reading!Done

\* A table has the rows that were judged.
LEMMA TableIs ==
  ASSUME NEW h, NEW J, NEW t, t = Reading!Table(h, J)
  PROVE  /\ t.outcome = "parsed" /\ t.headers = h /\ t.rows = Reading!Accepted(J) /\ t.rejected = Reading!Rejected(J)
  BY DEF Reading!Table

\* No rows are judged as no rows.
LEMMA NoRowsJudged == IsJudged(<<>>, 0)
  BY DEF IsJudged

\* The N rows J that were judged make the table that was returned.
IsTableOf(J, N) ==
  /\ IsJudged(J, N) /\ output.rows = Reading!Accepted(J) /\ output.rejected = Reading!Rejected(J)
  /\ \A n \in 1..N : J[n].verdict = "accepted" => Len(J[n].values) = Len(output.headers)
  /\ (output.headers # <<>>
      /\ ~ (input.format = "csv" /\ \E i \in DOMAIN input.lines : Reading!Quoted(input.lines[i])))
       => N = Len(input.lines) - 1
  /\ input.format = "csv" /\ Reading!UnclosedAtEof(input.lines) /\ N # 0 => J[N].verdict = "unclosed_quote"

\* A file that was read has a table of the rows J that were judged.
LEMMA TablesAre ==
  ASSUME ReadingInv, Reading!Done
  PROVE  \E N \in Nat : \E J : IsTableOf(J, N)
<1> DEFINE e == input.lines
<1>1. IsText(e) /\ output = Reading!ParseFile(input) /\ output.outcome = "parsed"
  BY DoneIs DEF Reading!Done
<1>2. \/ input.format = "csv" /\ output = Reading!Table(<<>>, <<>>)
      \/ input.format = "csv" /\ ~ AllBlank(input) /\ \E d : CsvTable(input, d, output)
      \/ input.format = "xlsx" /\ XlsxTable(input, output)
  BY <1>1, ReadIs
<1>3. Len(e) \in Nat /\ DOMAIN e = 1..Len(e)
  BY <1>1 DEF IsText
<1>4. CASE input.format = "csv" /\ output = Reading!Table(<<>>, <<>>)
  <2> DEFINE none == <<>>
  <2>1. output.headers = none /\ output.rows = Reading!Accepted(none) /\ output.rejected = Reading!Rejected(none)
    BY <1>4, TableIs
  <2>2. IsTableOf(none, 0)
    BY <1>4, <2>1, NoRowsJudged DEF IsTableOf
  <2> HIDE DEF none
  <2>3. 0 \in Nat
    OBVIOUS
  <2> QED  BY <2>2, <2>3
<1>5. CASE input.format = "csv" /\ ~ AllBlank(input) /\ \E d : CsvTable(input, d, output)
  <2>1. PICK d : CsvTable(input, d, output)
    BY <1>5
  <2> DEFINE R == RowsOf(input, d)
             J == JudgedCsv(input, d)
             N == Len(R) - 1
             u == Reading!UnclosedAtEof(e)
             w == Len(HeadersOf(input, d))
  <2>2. Len(e) # 0
    BY <1>3, <1>5 DEF AllBlank
  <2>3. N \in Nat /\ IsJudged(J, N)
    BY <1>1, <2>2, JudgedIs
  <2>4. J = [n \in 1..N |-> Reading!JudgeCsvRow(n + 1, R[n + 1], w, Len(R), u)]
    BY DEF JudgedCsv
  <2>5. u \in BOOLEAN
    BY DEF Reading!UnclosedAtEof
  <2>6. output.headers = HeadersOf(input, d) /\ output.rows = Reading!Accepted(J) /\ output.rejected = Reading!Rejected(J)
    <3>1. output = Reading!Table(HeadersOf(input, d), J)
      BY <2>1 DEF CsvTable
    <3> HIDE DEF J
    <3> QED  BY <3>1, TableIs
  <2>7. (\A i \in 1..Len(e) : ~ Reading!Quoted(e[i])) => Len(R) = Len(e)
    BY <1>1, RowsAre DEF RowsOf
  <2>8. Len(R) \in Nat
    BY <1>1, RowsAre DEF RowsOf
  <2> HIDE DEF J, R, e, w, u
  <2>9. \A n \in 1..N : J[n].verdict = "accepted" => Len(J[n].values) = w
    BY <2>4, <2>5, JudgeCsvIs
  <2>10. u /\ N # 0 => J[N].verdict = "unclosed_quote"
    <3> SUFFICES ASSUME u = TRUE, N # 0 PROVE J[N].verdict = "unclosed_quote"
      BY <2>5
    <3>1. \A n \in Nat : n # 0 => n \in 1..n
      OBVIOUS
    <3>2. N + 1 = Len(R)
      BY <2>8
    <3> HIDE DEF N
    <3>3. N \in 1..N
      BY <2>3, <3>1
    <3>4. J[N] = Reading!JudgeCsvRow(N + 1, R[N + 1], w, Len(R), u)
      BY <2>4, <3>3
    <3> DEFINE j == J[N]
    <3>5. j = Reading!JudgeCsvRow(N + 1, R[N + 1], w, N + 1, TRUE)
      BY <3>2, <3>4
    <3> HIDE DEF j
    <3>6. j = Reading!Reject(N + 1, "unclosed_quote")
      BY ONLY <3>5 DEF Reading!JudgeCsvRow
    <3>7. j.verdict = "unclosed_quote"
      BY ONLY <3>6 DEF Reading!Reject
    <3> QED  BY <3>7 DEF j
  <2>12. ~ (input.format = "csv" /\ \E i \in DOMAIN e : Reading!Quoted(e[i])) => N = Len(e) - 1
    <3>1. ~ (input.format = "csv" /\ \E i \in DOMAIN e : Reading!Quoted(e[i])) => \A i \in 1..Len(e) : ~ Reading!Quoted(e[i])
      BY <1>3, <1>5 DEF e
    <3>2. Len(R) = Len(e) => N = Len(e) - 1
      OBVIOUS
    <3> QED  BY ONLY <3>1, <3>2, <2>7
  <2> HIDE DEF N
  <2>11. IsTableOf(J, N)
    <3>1. IsJudged(J, N) /\ output.rows = Reading!Accepted(J) /\ output.rejected = Reading!Rejected(J)
      BY <2>3, <2>6
    <3>2. \A n \in 1..N : J[n].verdict = "accepted" => Len(J[n].values) = Len(output.headers)
      BY <2>6, <2>9 DEF w
    <3>3. input.format = "csv" /\ Reading!UnclosedAtEof(e) /\ N # 0 => J[N].verdict = "unclosed_quote"
      BY <2>10 DEF u
    <3> QED  BY ONLY <3>1, <3>2, <3>3, <2>12 DEF IsTableOf, e
  <2> HIDE DEF N
  <2> QED  BY <2>3, <2>11
<1>6. CASE input.format = "xlsx" /\ XlsxTable(input, output)
  <2> DEFINE X == XRowsOf(input)
             J == JudgedXlsx(input)
             N == Len(e) - 1
             w == Len(XHeadersOf(input))
  <2>1. Len(e) # 0
    <3>1. Len(e) = 0 => X = <<>>
      BY <1>3 DEF XRowsOf
    <3> QED  BY <1>6, <3>1 DEF XlsxTable
  <2>2. N \in Nat /\ IsJudged(J, N) /\ Len(X) = Len(e)
    BY <1>1, <1>3, <2>1, JudgedIs
  <2>3. J = [n \in 1..(Len(X) - 1) |-> Reading!JudgeXlsxRow(n + 1, X[n + 1], w)]
    BY DEF JudgedXlsx
  <2>4. X[1] \in Seq(Nat)
    BY <1>1, <1>3, <2>1 DEF XRowsOf, IsText, IsLine
  <2>5. w \in Nat
    BY <2>4, XHeadersAre DEF XHeadersOf
  <2>6. output.headers = XHeadersOf(input) /\ output.rows = Reading!Accepted(J) /\ output.rejected = Reading!Rejected(J)
    <3>1. output = Reading!Table(XHeadersOf(input), J)
      BY <1>6 DEF XlsxTable
    <3> HIDE DEF J
    <3> QED  BY <3>1, TableIs
  <2> HIDE DEF J, X, e, w
  <2>7. \A n \in 1..N : J[n].verdict = "accepted" => Len(J[n].values) = w
    BY <2>2, <2>3, <2>5, JudgeXlsxIs
  <2>8. IsTableOf(J, N)
    BY <1>6, <2>2, <2>6, <2>7 DEF w, e, IsTableOf
  <2> HIDE DEF N
  <2> QED  BY <2>2, <2>8
<1> QED
  BY <1>2, <1>4, <1>5, <1>6

\* A file is refused or has a table whose rows are as wide as its headers.
LEMMA ReadingIsTyped ==
  ASSUME ReadingInv
  PROVE  Reading!TypeOK
<1>1. output.outcome \in {"not parsed", "refused", "parsed"}
  <2>1. \A file : Reading!ParseFile(file).outcome \in {"refused", "parsed"}
    <3>1. /\ \A code : Reading!Refused(code).outcome = "refused"
          /\ \A h, J : Reading!Table(h, J).outcome = "parsed"
      BY DEF Reading!Refused, Reading!Table
    <3>2. \A file : Reading!ParseCsv(file).outcome \in {"refused", "parsed"}
      BY <3>1 DEF Reading!ParseCsv
    <3>3. \A file : Reading!ParseXlsx(file).outcome \in {"refused", "parsed"}
      BY <3>1 DEF Reading!ParseXlsx
    <3> QED  BY <3>1, <3>2, <3>3 DEF Reading!ParseFile
  <2>2. Reading!NotParsed.outcome = "not parsed"
    BY DEF Reading!NotParsed
  <2> QED  BY <2>1, <2>2 DEF ReadingInv
<1>2. ASSUME Reading!Done, NEW j \in Reading!Range(output.rows) PROVE Len(j.values) = Len(output.headers)
  <2>0. PICK N \in Nat : \E J : IsTableOf(J, N)
    BY <1>2, TablesAre
  <2>a. PICK J : IsTableOf(J, N)
    BY <2>0
  <2>1. /\ IsJudged(J, N) /\ output.rows = Reading!Accepted(J)
        /\ \A n \in 1..N : J[n].verdict = "accepted" => Len(J[n].values) = Len(output.headers)
    BY <2>a DEF IsTableOf
  <2> DEFINE S == AcceptedOf(J)
             A == output.rows
  <2>2. S \in SUBSET Range(J) /\ A = Reading!InRowOrder(S)
    BY <2>1, VerdictsSplit
  <2>3. A \in [1..Cardinality(S) -> S]
    BY <2>1, <2>2, RowsSort
  <2>4. j \in S
    <3> HIDE DEF A, S
    <3>1. j \in Range(A)
      BY <1>2, ReadingCounts DEF A
    <3> QED  BY <2>3, <3>1 DEF Range
  <2>5. PICK n \in 1..N : j = J[n]
    BY <2>1, <2>4 DEF AcceptedOf, Range, IsJudged
  <2> QED  BY <2>1, <2>4, <2>5 DEF AcceptedOf
<1> QED
  BY <1>1, <1>2 DEF Reading!TypeOK

\* Every row of a file is accepted or rejected.
LEMMA RowsAreAccounted ==
  ASSUME ReadingInv
  PROVE  Reading!EveryRowIsAccountedFor
<1> SUFFICES ASSUME Reading!Done PROVE Reading!EveryRowIsAccountedFor
  BY DEF Reading!EveryRowIsAccountedFor
<1>0. PICK N \in Nat : \E J : IsTableOf(J, N)
  BY TablesAre
<1>a. PICK J : IsTableOf(J, N)
  BY <1>0
<1>1. /\ IsJudged(J, N) /\ output.rows = Reading!Accepted(J) /\ output.rejected = Reading!Rejected(J)
      /\ (output.headers # <<>>
          /\ ~ (input.format = "csv" /\ \E i \in DOMAIN input.lines : Reading!Quoted(input.lines[i])))
           => N = Len(input.lines) - 1
      /\ input.format = "csv" /\ Reading!UnclosedAtEof(input.lines) /\ N # 0 => J[N].verdict = "unclosed_quote"
  BY <1>a DEF IsTableOf
<1> DEFINE q == NumbersOf(output.rows, output.rejected)
<1>2. q \in Seq(Nat) /\ Len(q) = N /\ Reading!IsInjective(q) /\ Reading!Range(q) = 2..(Len(q) + 1)
  BY <1>1, NumbersAre
<1>3. q # <<>> => N # 0
  <2> HIDE DEF q
  <2> QED  BY <1>2
<1>4. ASSUME input.format = "csv", Reading!UnclosedAtEof(input.lines), q # <<>>
      PROVE  \E j \in Reading!Range(output.rejected) : j.verdict = "unclosed_quote"
  <2>1. J[N].verdict = "unclosed_quote" /\ N \in 1..N
    BY <1>1, <1>3, <1>4
  <2> DEFINE S == RejectedOf(J)
             B == output.rejected
  <2>2. J[N] \in S
    BY <1>1, <2>1 DEF RejectedOf, Range, IsJudged
  <2>3. S \in SUBSET Range(J) /\ B = Reading!InRowOrder(S)
    BY <1>1, VerdictsSplit
  <2>4. DOMAIN B = 1..Cardinality(S) /\ SortsInto(S, RowOrder(S), B)
    BY <1>1, <2>3, RowsSort
  <2> HIDE DEF S, B
  <2>5. \E n \in DOMAIN B : B[n] = J[N]
    BY <2>2, <2>4 DEF SortsInto
  <2>6. J[N] \in Reading!Range(B)
    BY <2>5, ReadingCounts DEF Range
  <2> QED  BY <2>1, <2>6 DEF B
<1>5. Reading!EveryRowIsAccountedFor <=>
        /\ Reading!IsInjective(q)
        /\ Reading!Range(q) = 2..(Len(q) + 1)
        /\ output.headers # <<>> /\ ~ (input.format = "csv" /\ \E i \in DOMAIN input.lines : Reading!Quoted(input.lines[i]))
             => Len(q) = Len(input.lines) - 1
        /\ input.format = "csv" /\ Reading!UnclosedAtEof(input.lines) /\ q # <<>>
             => \E j \in Reading!Range(output.rejected) : j.verdict = "unclosed_quote"
  BY DEF Reading!EveryRowIsAccountedFor, NumbersOf
<1> HIDE DEF q
<1> QED
  BY <1>1, <1>2, <1>4, <1>5

\* An accepted row was judged.
LEMMA AcceptedIsJudged ==
  ASSUME NEW N \in Nat, NEW J, IsJudged(J, N), NEW j \in Reading!Range(Reading!Accepted(J))
  PROVE  j.verdict = "accepted" /\ \E n \in 1..N : j = J[n]
<1> DEFINE S == AcceptedOf(J)
           A == Reading!Accepted(J)
<1>1. S \in SUBSET Range(J) /\ A = Reading!InRowOrder(S)
  BY VerdictsSplit
<1>2. A \in [1..Cardinality(S) -> S]
  BY <1>1, RowsSort
<1>3. j \in S
  <2> HIDE DEF A, S
  <2>1. j \in Range(A)
    BY ReadingCounts DEF A
  <2> QED  BY <1>2, <2>1 DEF Range
<1> QED
  BY <1>3 DEF AcceptedOf, Range, IsJudged

\* The lines from which the delimiter is detected agree; a file of commas.
LinesAgree(e) ==
  \A k, l \in Reading!Sample(e) : Len(k.cells) = Len(l.cells) /\ k.delimiters = l.delimiters

IsOfCommas(e) == \A l \in Range(e) : l.delimiters \subseteq {","}

\* A delimiter that does not separate the cells of the first line of a file, which has
\* several, is not one that the sampled lines hold evenly.
LEMMA FirstLineDecides ==
  ASSUME NEW e, IsText(e), Len(e) # 0, NEW d \in Reading!Detected(e), Len(e[1].cells) > 1, d \notin e[1].delimiters
  PROVE  /\ d = ","
         /\ ~ LinesAgree(e)
<1> DEFINE f == e[1]
           S == Reading!Sample(e)
           w == Len(f.cells)
           v(x) == EvenIn(e, x)
<1>1. /\ Len(e) \in Nat /\ IsLine(f) /\ f.cells \in Seq(Nat) /\ f.delimiters \subseteq Reading!Delimiters
      /\ f.delimiters # {} /\ w \in Nat /\ w > 1
  BY DEF IsText, IsLine
<1>2. f \in S /\ IsFiniteSet(S) /\ \A l \in S : IsLine(l)
  BY <1>1, SampleIs DEF Reading!BlankLine
<1>3. PICK x \in f.delimiters : x # d
  BY <1>1
<1>4. x \in {",", ";"} /\ d \in {",", ";"}
  BY <1>1, <1>3, DetectedIs DEF Reading!Delimiters
<1>5. Reading!Split(f, d) = <<Reading!Merged>> /\ Reading!Split(f, x) = f.cells
  BY <1>1, <1>3 DEF Reading!Split, Reading!SplitBy
<1>6. Len(Reading!Split(f, d)) - 1 = 0 /\ Len(Reading!Split(f, x)) - 1 = w - 1
  BY <1>5
<1>7. v(d) \in Int /\ v(x) \in Int
  BY <1>2, EvennessIs DEF EvenIn
<1>8. v(d) = 0 /\ (v(x) = 0 \/ v(x) = w - 1)
  <2>1. \A y : v(y) # 0 => v(y) = Len(Reading!Split(f, y)) - 1
    BY <1>2, EvennessIs DEF EvenIn
  <2> HIDE DEF v
  <2> QED  BY <1>6, <2>1
<1>9. EvenIn(e, ",") = 0 /\ EvenIn(e, ";") = 0 /\ d = ","
  <2> DEFINE a == EvenIn(e, ",")
             b == EvenIn(e, ";")
             s == v(x)
             t == v(d)
  <2>1. s <= t \/ (a = 0 /\ b = 0)
    BY <1>4, DetectedIs DEF Reading!Delimiters
  <2>2. a = 0 /\ b = 0 => d = ","
    BY DetectedIs
  <2>3. (s = a /\ t = b) \/ (s = b /\ t = a)
    <3>1. (x = "," /\ d = ";") \/ (x = ";" /\ d = ",")
      BY <1>3, <1>4
    <3>2. CASE x = "," /\ d = ";"
      BY <3>2
    <3>3. CASE x = ";" /\ d = ","
      BY <3>3
    <3> QED  BY <3>1, <3>2, <3>3
  <2>4. t = 0 /\ (s = 0 \/ s = w - 1)
    BY <1>8
  <2> HIDE DEF a, b, s, t, w
  <2>5. s = 0 \/ (a = 0 /\ b = 0)
    BY <1>1, <2>1, <2>4
  <2>6. a = 0 /\ b = 0
    BY <2>3, <2>4, <2>5
  <2> QED  BY <2>2, <2>6 DEF a, b
<1>10. ASSUME \A k, l \in S : Len(k.cells) = Len(l.cells) /\ k.delimiters = l.delimiters
       PROVE  FALSE
  <2>1. ASSUME NEW l \in S PROVE Len(Reading!Split(l, x)) - 1 = w - 1
    <3>1. Len(l.cells) = w /\ x \in l.delimiters
      BY <1>2, <1>3, <1>10
    <3>2. Reading!Split(l, x) = l.cells
      BY <3>1 DEF Reading!Split, Reading!SplitBy
    <3> QED  BY <3>1, <3>2
  <2>2. w - 1 \in Int /\ w - 1 # 0
    <3> HIDE DEF w
    <3> QED  BY <1>1
  <2>3. v(x) = w - 1
    <3> DEFINE c == w - 1
    <3>1. c \in Int /\ S # {} /\ \A l \in S : Len(Reading!Split(l, x)) - 1 = c
      BY ONLY <1>2, <2>1, <2>2
    <3> HIDE DEF c, S
    <3>2. Reading!Evenness(S, x) = c
      BY <1>2, <3>1, EvennessIs
    <3> QED  BY <3>2 DEF c, S, EvenIn
  <2>4. v(x) = 0
    BY <1>4, <1>9
  <2> QED  BY <2>2, <2>3, <2>4
<1> QED
  BY <1>9, <1>10 DEF LinesAgree

\* A row that is one cell because the delimiter is not in its line stands in a file
\* that begins with a line of one cell.
LEMMA MergedRows ==
  ASSUME NEW e, IsText(e), Len(e) # 0, NEW d \in Reading!Detected(e), NEW R, R = Reading!CsvRows(e, d),
         Len(R[1]) = 1,
         LinesAgree(e) \/ IsOfCommas(e)
  PROVE  Len(e[1].cells) \in Nat /\ Len(e[1].cells) <= 1
<1> DEFINE f == e[1]
           c == f.cells
<1>1. IsLine(f) /\ c \in Seq(Nat) /\ Len(c) \in Nat /\ f \in Range(e)
  <2>1. Len(e) \in Nat /\ DOMAIN e = 1..Len(e) /\ 1 \in 1..Len(e)
    BY DEF IsText
  <2>2. IsLine(f) /\ f \in Range(e)
    BY <2>1 DEF IsText, Range
  <2> QED  BY <2>2 DEF IsLine
<1>2. FromLine(R[1], f, d)
  BY RowsAre
<1>3. ASSUME Len(c) > 1 PROVE FALSE
  <2>1. Len(Swallowed(f)) # 1
    <3>1. Len(Swallowed(f)) = IF Len(c) = 0 THEN 1 ELSE Len(c)
      BY <1>1, LinePieces
    <3> DEFINE k == Len(c)
    <3>2. k \in Nat /\ k > 1 /\ Len(Swallowed(f)) = IF k = 0 THEN 1 ELSE k
      BY <1>1, <1>3, <3>1
    <3> HIDE DEF k
    <3> QED  BY ONLY <3>2
  <2>2. R[1] = Reading!Split(f, d)
    BY <1>2, <2>1 DEF FromLine
  <2>3. d \in f.delimiters => R[1] = c
    BY <2>2 DEF Reading!Split, Reading!SplitBy
  <2>4. d \notin f.delimiters
    <3> DEFINE k == Len(c)
    <3>1. k \in Nat /\ k > 1 /\ (d \in f.delimiters => k = 1)
      BY <1>1, <1>3, <2>3
    <3> HIDE DEF k, f
    <3> QED  BY ONLY <3>1
  <2>5. d = "," /\ ~ LinesAgree(e)
    BY <1>3, <2>4, FirstLineDecides
  <2>6. f.delimiters \subseteq {","} /\ f.delimiters # {}
    <3>1. f.delimiters # {}
      BY <1>1, <1>3 DEF IsLine
    <3>2. \A l \in Range(e) : l.delimiters \subseteq {","}
      BY <2>5 DEF IsOfCommas
    <3> QED  BY <1>1, <3>1, <3>2
  <2> HIDE DEF f
  <2> QED  BY <2>4, <2>5, <2>6
<1> HIDE DEF c
<1>4. Len(c) \in Nat /\ Len(c) <= 1
  BY <1>1, <1>3
<1> QED
  BY <1>4 DEF c

\* The values of an accepted row are in their columns.
LEMMA ValuesAreInTheirColumn ==
  ASSUME ReadingInv
  PROVE  Reading!ValuesStayInTheirColumn
<1> DEFINE e == input.lines
           AsRead(v, l) == IF Reading!Merged \in Range(v) THEN Reading!Front(v) = Reading!Front(l.cells) ELSE v = l.cells
<1> SUFFICES ASSUME Reading!Done, input.format = "csv", LinesAgree(e) \/ IsOfCommas(e), NEW j \in Reading!Range(output.rows)
             PROVE  \E l \in Range(e) : AsRead(j.values, l)
  BY ReadingCounts DEF Reading!ValuesStayInTheirColumn, LinesAgree, IsOfCommas
<1>1. IsText(e) /\ output = Reading!ParseFile(input) /\ output.outcome = "parsed"
  BY DoneIs DEF Reading!Done
<1>2. \/ output = Reading!Table(<<>>, <<>>)
      \/ ~ AllBlank(input) /\ \E d : CsvTable(input, d, output)
  BY <1>1, ReadIs
<1>3. ~ (output = Reading!Table(<<>>, <<>>))
  <2> SUFFICES ASSUME output = Reading!Table(<<>>, <<>>) PROVE FALSE
    OBVIOUS
  <2> DEFINE none == <<>>
  <2>1. output.rows = Reading!Accepted(none)
    BY TableIs
  <2>2. IsJudged(none, 0)
    BY NoRowsJudged
  <2>3. 0 \in Nat /\ 1..0 = {}
    OBVIOUS
  <2> HIDE DEF none
  <2> QED  BY <2>1, <2>2, <2>3, AcceptedIsJudged
<1>4. PICK d : CsvTable(input, d, output)
  BY <1>2, <1>3
<1>5. Len(e) \in Nat /\ DOMAIN e = 1..Len(e) /\ Len(e) # 0
  BY <1>1, <1>2, <1>3 DEF IsText, AllBlank
<1> DEFINE R == RowsOf(input, d)
           J == JudgedCsv(input, d)
           N == Len(R) - 1
           u == Reading!UnclosedAtEof(e)
           w == Len(HeadersOf(input, d))
<1>6. N \in Nat /\ IsJudged(J, N)
  BY <1>1, <1>5, JudgedIs
<1>7. output.rows = Reading!Accepted(J)
  <2>1. output = Reading!Table(HeadersOf(input, d), J)
    BY <1>4 DEF CsvTable
  <2> HIDE DEF J
  <2> QED  BY <2>1, TableIs
<1>8. PICK n \in 1..N : j = J[n]
  <2> HIDE DEF J, N
  <2> QED  BY <1>6, <1>7, AcceptedIsJudged
<1>9. j.verdict = "accepted"
  <2> HIDE DEF J, N
  <2> QED  BY <1>6, <1>7, AcceptedIsJudged
<1>10. j.values = R[n + 1] /\ Len(R[n + 1]) = w
  <2>1. u \in BOOLEAN
    BY DEF Reading!UnclosedAtEof
  <2>2. j = Reading!JudgeCsvRow(n + 1, R[n + 1], w, Len(R), u)
    BY <1>8 DEF JudgedCsv
  <2> HIDE DEF u, R, w, N
  <2> QED  BY <1>9, <2>1, <2>2, JudgeCsvIs
<1>11. R \in Seq(Seq(Nat)) /\ Len(R) # 0 /\ \A m \in 1..Len(R) : \E i \in 1..Len(e) : FromLine(R[m], e[i], d)
  BY <1>1, <1>5, RowsAre DEF RowsOf
<1>12. n + 1 \in 1..Len(R) /\ 1 \in 1..Len(R)
  <2>1. Len(R) \in Nat
    BY <1>11
  <2> HIDE DEF R
  <2> QED  BY <1>11, <2>1
<1>13. w = Len(R[1]) /\ R[1] \in Seq(Nat)
  <2> DEFINE S == Seq(Nat)
             first == R[1]
  <2>1. first \in S
    <3>1. R \in Seq(S)
      BY <1>11
    <3> HIDE DEF S, R
    <3> QED  BY <1>12, <3>1
  <2> HIDE DEF first, R
  <2>2. Reading!CsvHeaders(first, input.coding) = [i \in 1..Len(first) |-> IF i = 1 /\ input.coding = "marked"
            THEN Reading!Marked(Reading!Stripped(first[1])) ELSE Reading!Stripped(first[i])]
    BY <2>1 DEF Reading!CsvHeaders
  <2> DEFINE g(i) == IF i = 1 /\ input.coding = "marked"
            THEN Reading!Marked(Reading!Stripped(first[1])) ELSE Reading!Stripped(first[i])
             h == Reading!CsvHeaders(first, input.coding)
             k == Len(first)
  <2>3. h = [i \in 1..k |-> g(i)] /\ k \in Nat
    BY <2>1, <2>2
  <2>5. h = HeadersOf(input, d)
    BY DEF HeadersOf, first, R
  <2> HIDE DEF h, k, g
  <2>4. Len(h) = k
    BY <2>3
  <2> QED  BY <2>1, <2>4, <2>5 DEF k, first
<1>14. PICK i \in 1..Len(e) : FromLine(R[n + 1], e[i], d)
  BY <1>11, <1>12
<1> DEFINE l == e[i]
           v == j.values
<1>15. l \in Range(e) /\ IsLine(l) /\ e[1] \in Range(e) /\ IsLine(e[1])
  <2>1. \A m \in 1..Len(e) : e[m] \in Range(e) /\ IsLine(e[m])
    BY ONLY <1>1, <1>5 DEF IsText, Range
  <2>2. 1 \in 1..Len(e)
    BY ONLY <1>5
  <2> QED  BY ONLY <2>1, <2>2
<1>16. CASE v = Swallowed(l)
  <2>1. Reading!Front(v) = Reading!Front(l.cells)
    BY <1>15, <1>16, LinePieces
  <2>2. Reading!Merged \in Range(Swallowed(l))
    BY <1>15, LinePieces
  <2>3. AsRead(v, l)
    BY <1>16, <2>1, <2>2
  <2> HIDE DEF AsRead
  <2> QED  BY <1>15, <2>3
<1>17. CASE v = l.cells
  <2>1. AsRead(v, l)
    BY <1>17
  <2> HIDE DEF AsRead
  <2> QED  BY <1>15, <2>1
<1>18. CASE v = <<Reading!Merged>>
  <2>1. Len(v) = 1
    BY <1>18
  <2>2. Len(R[1]) = 1 /\ R = Reading!CsvRows(e, d) /\ d \in Reading!Detected(e)
    BY <1>4, <1>10, <1>13, <2>1 DEF CsvTable, RowsOf
  <2>3. Len(e[1].cells) \in Nat /\ Len(e[1].cells) <= 1
    <3> HIDE DEF R, e
    <3> QED  BY <1>1, <1>5, <2>2, MergedRows DEF e
  <2>4. Reading!Front(v) = <<>> /\ Reading!Front(e[1].cells) = <<>>
    <3> DEFINE c == e[1].cells
               k == Len(c)
    <3>1. c \in Seq(Nat) /\ k \in Nat /\ k <= 1
      BY <1>15, <2>3 DEF IsLine
    <3>2. Reading!Front(c) = SubSeq(c, 1, k - 1)
      BY ReadingCounts
    <3> HIDE DEF c, k
    <3>3. Reading!Front(c) = <<>>
      BY <3>1, <3>2
    <3>4. Reading!Front(<<Reading!Merged>>) = <<>>
      <4> DEFINE x == <<Reading!Merged>>
      <4>1. Len(x) = 1 /\ SubSeq(x, 1, 0) = <<>>
        BY DEF Reading!Merged
      <4>2. Reading!Front(x) = SubSeq(x, 1, Len(x) - 1)
        BY ReadingCounts
      <4> HIDE DEF x
      <4>3. Reading!Front(x) = <<>>
        BY <4>1, <4>2
      <4> QED  BY <4>3 DEF x
    <3> QED  BY <1>18, <3>3, <3>4 DEF c
  <2>5. AsRead(v, e[1])
    <3>1. Reading!Merged \in Range(v)
      BY <1>18 DEF Range
    <3> QED  BY <2>4, <3>1
  <2> HIDE DEF AsRead
  <2> QED  BY <1>15, <2>5
<1> QED
  BY <1>10, <1>14, <1>16, <1>17, <1>18 DEF FromLine, Reading!Split

\* The numbers of some rows, and those of them before one.
NumbersIn(S) == {y.row : y \in S}

Below(K, m) == {k \in K : k < m}

\* The rank of a row is that of its number.
LEMMA RanksOfRows ==
  ASSUME NEW N \in Nat, NEW J, IsJudged(J, N), NEW S \in SUBSET Range(J)
  PROVE  /\ Cardinality(S) = Cardinality(NumbersIn(S))
         /\ \A x \in S : Cardinality(RowOrder(S)[x]) = Cardinality(Below(NumbersIn(S), x.row))
<1>1. IsFiniteSet(S) /\ \A x, y \in S : x.row = y.row => x = y
  BY JudgedAre, FS_Subset
<1>2. ASSUME NEW T \in SUBSET S PROVE Cardinality(T) = Cardinality(NumbersIn(T))
  <2> DEFINE g == [y \in T |-> y.row]
             V == {g[y] : y \in T}
  <2>1. V = NumbersIn(T)
    BY DEF NumbersIn
  <2>2. IsFiniteSet(T)
    BY <1>1, FS_Subset
  <2>3. g \in Bijection(T, V)
    BY <1>1 DEF Bijection, Injection, Surjection, IsInjective
  <2> HIDE DEF g, V
  <2>5. Cardinality(V) = Cardinality(T)
    BY <2>2, <2>3, FS_Bijection DEF ExistsBijection
  <2> QED  BY <2>1, <2>5
<1>3. ASSUME NEW x \in S PROVE Cardinality(RowOrder(S)[x]) = Cardinality(Below(NumbersIn(S), x.row))
  <2> DEFINE T == {y \in S : y.row < x.row}
  <2>1. RowOrder(S)[x] = T
    BY DEF RowOrder
  <2>2. NumbersIn(T) = Below(NumbersIn(S), x.row)
    BY DEF NumbersIn, Below
  <2>3. T \in SUBSET S
    OBVIOUS
  <2> HIDE DEF T
  <2> QED  BY <1>2, <2>1, <2>2, <2>3
<1> QED
  BY <1>2, <1>3

\* The rows a and b are the same place of J and L.
InPlace(J, L, N, a, b) == \E n \in 1..N : J[n].verdict = "accepted" /\ a = J[n] /\ b = L[n]

IsFunction(f) == f = [i \in DOMAIN f |-> f[i]]

\* Rows that are judged alike are accepted in the same places.
LEMMA JudgedAlike ==
  ASSUME NEW N \in Nat, NEW J, NEW L, IsJudged(J, N), IsJudged(L, N),
         \A n \in 1..N : J[n].verdict = L[n].verdict,
         \A n \in 1..N : J[n].verdict # "accepted" => J[n] = L[n]
  PROVE  /\ Reading!Rejected(J) = Reading!Rejected(L)
         /\ DOMAIN Reading!Accepted(J) = DOMAIN Reading!Accepted(L)
         /\ IsFunction(Reading!Accepted(L))
         /\ Len(Reading!Accepted(L)) \in Nat /\ Len(Reading!Accepted(L)) <= N
         /\ \A i \in DOMAIN Reading!Accepted(J) :
              InPlace(J, L, N, Reading!Accepted(J)[i], Reading!Accepted(L)[i])
<1> DEFINE X == AcceptedOf(J)
           Y == AcceptedOf(L)
           A == Reading!Accepted(J)
           B == Reading!Accepted(L)
           K == NumbersIn(X)
           c == Cardinality(X)
<1>1. RejectedOf(J) = RejectedOf(L)
  BY DEF RejectedOf, Range, IsJudged
<1>2. Reading!Rejected(J) = Reading!Rejected(L)
  BY <1>1, VerdictsSplit
<1>3. /\ X \in SUBSET Range(J) /\ Y \in SUBSET Range(L)
      /\ A = Reading!InRowOrder(X) /\ B = Reading!InRowOrder(Y)
      /\ Cardinality(Y) + Cardinality(RejectedOf(L)) = N
  BY VerdictsSplit
<1>4. /\ \A m \in 1..N : J[m].row = m + 1 /\ L[m].row = m + 1
      /\ \A m \in 1..N : J[m] \in X <=> J[m].verdict = "accepted"
      /\ \A m \in 1..N : L[m] \in Y <=> J[m].verdict = "accepted"
      /\ \A x \in X : \E m \in 1..N : x = J[m]
      /\ \A y \in Y : \E m \in 1..N : y = L[m]
  BY DEF AcceptedOf, Range, IsJudged
<1>5. NumbersIn(Y) = K
  <2> HIDE DEF X, Y
  <2>1. ASSUME NEW x \in X PROVE \E y \in Y : y.row = x.row
    <3>1. PICK m \in 1..N : x = J[m]
      BY <1>4
    <3>2. L[m] \in Y /\ L[m].row = x.row
      BY <1>4, <3>1
    <3> QED  BY <3>2
  <2>2. ASSUME NEW y \in Y PROVE \E x \in X : y.row = x.row
    <3>1. PICK m \in 1..N : y = L[m]
      BY <1>4
    <3>2. J[m] \in X /\ J[m].row = y.row
      BY <1>4, <3>1
    <3> QED  BY <3>2
  <2> QED  BY <2>1, <2>2 DEF NumbersIn
<1>6. /\ StrictOrder(X, RowOrder(X)) /\ SortsInto(X, RowOrder(X), A) /\ DOMAIN A = 1..c /\ Len(A) = c /\ c \in Nat
      /\ IsFiniteSet(X) /\ IsFiniteSet(Y)
      /\ SortsInto(Y, RowOrder(Y), B) /\ DOMAIN B = 1..Cardinality(Y) /\ Len(B) = Cardinality(Y)
  BY <1>3, RowsSort
<1>7. Cardinality(Y) = c
  BY <1>3, <1>5, RanksOfRows
<1>8. c <= N
  <2>1. RejectedOf(L) \in SUBSET Range(L) /\ IsFiniteSet(Range(L))
    BY VerdictsSplit, JudgedAre
  <2>2. Cardinality(RejectedOf(L)) \in Nat
    BY <2>1, FS_Subset, FS_CardinalityType
  <2> HIDE DEF c, X, Y
  <2> QED  BY <1>3, <1>6, <1>7, <2>2
<1>9. ASSUME NEW i \in 1..c
      PROVE  \E n \in 1..N : J[n].verdict = "accepted" /\ A[i] = J[n] /\ B[i] = L[n]
  <2> HIDE DEF X, Y, A, B, c, K
  <2>1. A[i] \in X /\ B[i] \in Y
    BY <1>6, <1>7 DEF SortsInto, c
  <2>2. Cardinality(RowOrder(X)[A[i]]) = i - 1 /\ Cardinality(RowOrder(Y)[B[i]]) = i - 1
    BY <1>6, <1>7 DEF SortsInto, c
  <2>3. PICK a \in 1..N : A[i] = J[a]
    BY <1>4, <2>1
  <2>4. PICK b \in 1..N : B[i] = L[b]
    BY <1>4, <2>1
  <2>5. J[a].verdict = "accepted" /\ J[b] \in X /\ J[a] \in X
    BY <1>4, <2>1, <2>3, <2>4
  <2>6. Cardinality(RowOrder(Y)[B[i]]) = Cardinality(Below(K, b + 1))
    BY <1>3, <1>4, <1>5, <2>1, <2>4, RanksOfRows
  <2>7. Cardinality(RowOrder(X)[J[b]]) = Cardinality(Below(K, b + 1))
    BY <1>3, <1>4, <2>5, RanksOfRows DEF K
  <2>8. Cardinality(RowOrder(X)[J[a]]) = Cardinality(RowOrder(X)[J[b]])
    BY <2>2, <2>3, <2>6, <2>7
  <2>9. J[a] = J[b]
    <3> DEFINE x == J[a]
               y == J[b]
               R == RowOrder(X)
    <3>1. /\ \A z \in X : Cardinality(R[z]) + 1 \in 1..Cardinality(X)
          /\ \A s, t \in X : s \in R[t] => Cardinality(R[s]) < Cardinality(R[t])
      BY <1>6, RanksIncrease
    <3>2. x # y => x \in R[y] \/ y \in R[x]
      BY <1>6, <2>5 DEF StrictOrder
    <3>3. x \in R[y] => Cardinality(R[x]) < Cardinality(R[y])
      BY <2>5, <3>1
    <3>4. y \in R[x] => Cardinality(R[y]) < Cardinality(R[x])
      BY <2>5, <3>1
    <3> DEFINE p == Cardinality(R[x])
               q == Cardinality(R[y])
    <3>5. p = i - 1 /\ q = i - 1
      BY <2>2, <2>3, <2>8
    <3> HIDE DEF p, q
    <3>6. ~ (p < q) /\ ~ (q < p)
      BY <3>5
    <3> QED  BY <3>2, <3>3, <3>4, <3>6 DEF p, q
  <2>10. a = b
    BY <1>4, <2>9
  <2> QED  BY <2>3, <2>4, <2>5, <2>10
<1> HIDE DEF X, Y, A, B, c
<1>10. DOMAIN A = DOMAIN B /\ IsFunction(B) /\ Len(B) \in Nat /\ Len(B) <= N
  <2>1. B \in [1..c -> Y]
    BY <1>6, <1>7 DEF SortsInto
  <2> QED  BY <1>6, <1>7, <1>8, <2>1 DEF IsFunction
<1>11. \A i \in DOMAIN A : InPlace(J, L, N, A[i], B[i])
  BY <1>6, <1>9 DEF InPlace
<1> QED
  BY <1>2, <1>10, <1>11 DEF A, B

\* A row whose cells have lost their white space.
StripRow(j) == [j EXCEPT !.values = [c \in DOMAIN @ |-> Reading!Stripped(@[c])]]

\* A file of even lines without quotes.
IsEven(e) ==
  \A l \in Range(e) : /\ Len(l.cells) = Len(e[1].cells) /\ ~ Reading!Quoted(l)
                      /\ l.delimiters = e[1].delimiters

\* Its rows are its lines.
LEMMA EvenRows ==
  ASSUME NEW e, IsText(e), Len(e) # 0, IsEven(e), NEW d \in Reading!Detected(e), NEW R, R = Reading!CsvRows(e, d)
  PROVE  /\ Len(e) \in Nat /\ DOMAIN e = 1..Len(e) /\ \A m \in 1..Len(e) : e[m] \in Range(e) /\ IsLine(e[m])
         /\ R \in Seq(Seq(Nat)) /\ Len(R) = Len(e) /\ \A m \in 1..Len(e) : R[m] = e[m].cells
         /\ Reading!UnclosedAtEof(e) = FALSE
<1>1. Len(e) \in Nat /\ DOMAIN e = 1..Len(e) /\ \A m \in 1..Len(e) : e[m] \in Range(e) /\ IsLine(e[m])
  BY DEF IsText, Range
<1> DEFINE n == Len(e)
<1> HIDE DEF n
<1>2. \A m \in 1..n : ~ Reading!Quoted(e[m])
  BY <1>1 DEF IsEven, n
<1>3. R \in Seq(Seq(Nat)) /\ Len(R) = n /\ \A m \in 1..n : R[m] = Reading!Split(e[m], d)
  BY <1>2, RowsAre DEF n
<1>4. LinesAgree(e)
  <2>1. \A l \in Reading!Sample(e) : l \in Range(e)
    BY <1>1, SampleIs
  <2> QED  BY <2>1 DEF LinesAgree, IsEven
<1>5. ASSUME NEW m \in 1..n PROVE Reading!SplitBy(e[m], d)
  <2> DEFINE k == Len(e[1].cells)
  <2>1. Len(e[m].cells) = k /\ e[m].delimiters = e[1].delimiters
    BY <1>1 DEF IsEven, n
  <2>2. ~ (k > 1 /\ d \notin e[1].delimiters)
    BY <1>4, FirstLineDecides
  <2>3. k \in Nat
    BY <1>1 DEF IsLine
  <2> HIDE DEF k
  <2>4. k <= 1 \/ d \in e[m].delimiters
    BY <2>1, <2>2, <2>3
  <2> QED  BY <2>1, <2>4 DEF Reading!SplitBy
<1>6. \A m \in 1..n : R[m] = e[m].cells
  BY <1>3, <1>5 DEF Reading!Split
<1>7. Reading!UnclosedAtEof(e) = FALSE
  <2> DEFINE Q == {i \in DOMAIN e : Reading!Quoted(e[i])}
  <2>1. Q = {}
    BY <1>1, <1>2 DEF n
  <2>2. Reading!UnclosedAtEof(e) = (Reading!Cardinality(Q) % 2 = 1)
    BY DEF Reading!UnclosedAtEof
  <2>3. Cardinality(Q) = 0
    <3> HIDE DEF Q
    <3> QED  BY <2>1, FS_EmptySet
  <2>4. Reading!Cardinality(Q) = 0
    BY <2>3, ReadingCounts
  <2> HIDE DEF Q
  <2>5. Reading!UnclosedAtEof(e) = (0 % 2 = 1)
    BY <2>2, <2>4
  <2>6. (0 % 2 = 1) = FALSE
    OBVIOUS
  <2> QED  BY <2>5, <2>6
<1> QED
  BY <1>1, <1>3, <1>6, <1>7 DEF n

\* Headers that can be used.
IsUsable(h) == Reading!HeaderFault(h) = ""

\* They are there and none is empty.
LEMMA UsableAre ==
  ASSUME NEW h, IsUsable(h)
  PROVE  h # <<>> /\ Reading!Empty \notin Reading!Range(h)
<1>1. "missing_header" # "" /\ "blank_header_cell" # ""
  OBVIOUS
<1> QED
  BY <1>1, Zenon DEF IsUsable, Reading!HeaderFault

\* The headers of a plain file are those of a worksheet when they can be used.
LEMMA SameHeaders ==
  ASSUME NEW first \in Seq(Nat), NEW h, h = Reading!CsvHeaders(first, "plain"), IsUsable(h)
  PROVE  Len(h) = Len(first) /\ Reading!XlsxHeaders(first) = h
<1> DEFINE n == Len(first)
           v(i) == Reading!Stripped(first[i])
<1>1. n \in Nat /\ DOMAIN first = 1..n
  OBVIOUS
<1>2. h = [i \in 1..n |-> v(i)]
  BY <1>1 DEF Reading!CsvHeaders
<1>3. h # <<>> /\ Reading!Empty \notin Range(h)
  BY UsableAre, ReadingCounts
<1> HIDE DEF n, v
<1>4. Len(h) = n /\ DOMAIN h = 1..n /\ \A i \in 1..n : h[i] = v(i)
  BY <1>1, <1>2
<1>5. n # 0
  <2>1. n = 0 => h = <<>>
    BY <1>2
  <2> QED  BY <1>3, <2>1
<1>6. \A i \in 1..n : v(i) # Reading!Empty
  BY <1>3, <1>4 DEF Range
<1>7. Reading!XlsxHeaders(first) = [i \in 1..n |-> v(i)]
  BY <1>5, <1>6, XHeadersAre DEF n, v
<1> QED
  BY <1>2, <1>4, <1>7 DEF n

\* An even row is judged alike, but for its white space.
LEMMA EvenJudged ==
  ASSUME NEW row, NEW cells \in Seq(Nat), NEW w, Len(cells) = w, NEW last, NEW open \in BOOLEAN, ~ open, NEW j, NEW k,
         j = Reading!JudgeCsvRow(row, cells, w, last, open), k = Reading!JudgeXlsxRow(row, cells, w)
  PROVE  /\ j.verdict = k.verdict
         /\ j.verdict # "accepted" => j = k
         /\ j.verdict = "accepted" => k = StripRow(j)
<1> DEFINE blank == Reading!BlankRow(cells)
           padded == [i \in 1..w |-> IF i > Len(cells) THEN Reading!Empty ELSE Reading!Stripped(cells[i])]
           short == [i \in DOMAIN cells |-> Reading!Stripped(cells[i])]
<1>1. w \in Nat /\ DOMAIN cells = 1..w
  OBVIOUS
<1>2. padded = short
  BY <1>1
<1>3. blank \in BOOLEAN
  BY DEF Reading!BlankRow
<1>4. j = IF blank THEN Reading!Reject(row, "entirely_blank_row") ELSE Reading!Accept(row, cells)
  BY DEF Reading!JudgeCsvRow
<1>5. k = IF blank THEN Reading!Reject(row, "entirely_blank_row") ELSE Reading!Accept(row, padded)
  BY <1>1 DEF Reading!JudgeXlsxRow
<1> HIDE DEF padded
<1>6. StripRow(Reading!Accept(row, cells)) = Reading!Accept(row, short)
  <2> DEFINE j0 == Reading!Accept(row, cells)
  <2>1. j0 = [row |-> row, verdict |-> "accepted", values |-> cells]
    BY DEF Reading!Accept
  <2>2. j0.values = cells
    BY <2>1
  <2> HIDE DEF j0, short
  <2>3. [j0 EXCEPT !.values = short] = [row |-> row, verdict |-> "accepted", values |-> short]
    BY <2>1
  <2>4. StripRow(j0) = [j0 EXCEPT !.values = short]
    BY <2>2 DEF StripRow, short
  <2> QED  BY <2>3, <2>4 DEF Reading!Accept, j0
<1>7. /\ Reading!Reject(row, "entirely_blank_row").verdict = "entirely_blank_row"
      /\ \A x : Reading!Accept(row, x).verdict = "accepted"
  BY DEF Reading!Reject, Reading!Accept
<1> HIDE DEF blank, short
<1> QED
  BY <1>2, <1>3, <1>4, <1>5, <1>6, <1>7

\* A table means the same in both formats.
LEMMA FormatsMeanTheSame ==
  ASSUME ReadingInv
  PROVE  Reading!FormatsAgree
<1> DEFINE e == input.lines
           s1 == [input EXCEPT !.format = "csv"]
           s2 == [input EXCEPT !.format = "xlsx"]
           csv == Reading!ParseFile(s1)
           xlsx == Reading!ParseFile(s2)
           Same == /\ xlsx.outcome = "parsed" /\ xlsx.headers = csv.headers
                   /\ xlsx.rows = [i \in DOMAIN csv.rows |-> StripRow(csv.rows[i])]
                   /\ xlsx.rejected = csv.rejected
<1>1. ASSUME Reading!Done, e # <<>>, csv.outcome = "parsed", input.coding = "plain", IsEven(e), csv.headers # <<>>
      PROVE  Same
  <2>1. IsText(e) /\ output = Reading!ParseFile(input) /\ output.outcome = "parsed"
    BY <1>1, DoneIs DEF Reading!Done
  <2>2. input.exists /\ input.size # "empty" /\ input.size # "large"
    BY <2>1, ReadIs
  <2>3. /\ s1.lines = e /\ s1.format = "csv" /\ s1.coding = "plain"
        /\ s2.lines = e /\ s2.format = "xlsx" /\ s2.exists /\ s2.size # "empty" /\ s2.size # "large"
    <3>1. input = [format |-> input.format, exists |-> input.exists, size |-> input.size,
                   coding |-> input.coding, lines |-> input.lines]
      BY SourceIs DEF ReadingInv
    <3>2. /\ s1.lines = input.lines /\ s1.format = "csv" /\ s1.coding = input.coding
          /\ s2.lines = input.lines /\ s2.format = "xlsx" /\ s2.exists = input.exists /\ s2.size = input.size
      BY <3>1
    <3> HIDE DEF s1, s2
    <3> QED  BY <1>1, <2>2, <3>2
  <2> DEFINE n == Len(e)
  <2>4. n \in Nat /\ n # 0
    <3>1. e \in Seq(Range(e))
      BY <2>1 DEF IsText
    <3> HIDE DEF e
    <3> QED  BY <1>1, <3>1
  <2> HIDE DEF s1, s2, e
  <2>5. \E d : CsvTable(s1, d, csv)
    <3>1. \/ csv = Reading!Table(<<>>, <<>>)
          \/ \E d : CsvTable(s1, d, csv)
      BY <1>1, <2>1, <2>3, ReadIs
    <3>2. \A J, h : Reading!Table(h, J).headers = h
      BY TableIs
    <3> QED  BY <1>1, <3>1, <3>2
  <2>6. PICK d : CsvTable(s1, d, csv)
    BY <2>5
  <2> DEFINE R == Reading!CsvRows(e, d)
             first == R[1]
             w == Len(first)
             h == Reading!CsvHeaders(first, "plain")
             X == XRowsOf(s2)
             N == n - 1
             open == Reading!UnclosedAtEof(e)
             J == JudgedCsv(s1, d)
             L == JudgedXlsx(s2)
  <2>7. RowsOf(s1, d) = R /\ HeadersOf(s1, d) = h
    BY <2>3 DEF RowsOf, HeadersOf
  <2>8. /\ d \in Reading!Detected(e) /\ IsUsable(h) /\ ~ (Len(R) - 1 > MaxRows) /\ csv = Reading!Table(h, J)
    BY <2>3, <2>6, <2>7, Zenon DEF CsvTable, IsUsable
  <2>9. /\ \A m \in 1..n : e[m] \in Range(e) /\ IsLine(e[m])
        /\ R \in Seq(Seq(Nat)) /\ Len(R) = n /\ \A m \in 1..n : R[m] = e[m].cells
        /\ DOMAIN e = 1..n
        /\ open = FALSE
    <3> HIDE DEF R
    <3> QED  BY <1>1, <2>1, <2>4, <2>8, EvenRows DEF R
  <2> HIDE DEF n, R, open
  <2>10. \A m \in 1..n : R[m] \in Seq(Nat) /\ Len(R[m]) = w
    <3>1. 1 \in 1..n
      BY <2>4
    <3>2. \A m \in 1..n : Len(e[m].cells) = Len(e[1].cells) /\ e[m].cells \in Seq(Nat)
      BY <1>1, <2>9 DEF IsEven, IsLine
    <3> QED  BY <2>9, <3>1, <3>2
  <2>11. first \in Seq(Nat)
    BY <2>4, <2>10
  <2>12. Len(h) = w /\ Reading!XlsxHeaders(first) = h
    <3> HIDE DEF first, h
    <3>1. h = Reading!CsvHeaders(first, "plain")
      BY DEF h
    <3> QED  BY <2>8, <2>11, <3>1, SameHeaders DEF w
  <2>13. X = [i \in 1..n |-> e[i].cells] /\ Len(X) = n /\ \A m \in 1..n : X[m] = R[m]
    <3>1. X = [i \in 1..n |-> e[i].cells]
      BY <2>3, <2>9 DEF XRowsOf
    <3> HIDE DEF X
    <3> QED  BY <2>4, <2>9, <3>1
  <2>14. X # <<>> /\ XHeadersOf(s2) = h
    <3>1. X[1] = first
      BY <2>4, <2>13
    <3>2. XHeadersOf(s2) = Reading!XlsxHeaders(X[1])
      BY DEF XHeadersOf
    <3> HIDE DEF X, first, h
    <3>3. X # <<>>
      BY <2>4, <2>13
    <3> QED  BY <2>12, <3>1, <3>2, <3>3
  <2>15. N \in Nat /\ IsJudged(J, N) /\ IsJudged(L, N)
    <3>1. Len(s1.lines) # 0 /\ IsText(s1.lines) /\ Len(s2.lines) = n /\ Len(s2.lines) # 0 /\ IsText(s2.lines)
      BY <2>1, <2>3, <2>4 DEF n
    <3>2. Len(RowsOf(s1, d)) = n
      BY <2>7, <2>9
    <3> HIDE DEF J, L
    <3>3. N \in Nat
      BY <2>4
    <3> QED  BY <3>1, <3>2, <3>3, JudgedIs DEF J, L
  <2>16. J = [m \in 1..N |-> Reading!JudgeCsvRow(m + 1, R[m + 1], w, n, open)]
    <3>1. J = [m \in 1..(Len(R) - 1) |-> Reading!JudgeCsvRow(m + 1, R[m + 1], Len(h), Len(R), open)]
      BY <2>3, <2>7 DEF JudgedCsv, open
    <3> HIDE DEF J, h, w
    <3> QED  BY <2>9, <2>12, <3>1
  <2>17. L = [m \in 1..N |-> Reading!JudgeXlsxRow(m + 1, X[m + 1], w)]
    <3>1. L = [m \in 1..(Len(X) - 1) |-> Reading!JudgeXlsxRow(m + 1, X[m + 1], Len(h))]
      BY <2>14 DEF JudgedXlsx
    <3> HIDE DEF L, h, w, X
    <3> QED  BY <2>12, <2>13, <3>1
  <2> HIDE DEF J, L, h, w, X, first
  <2>18. ASSUME NEW m \in 1..N
         PROVE  /\ J[m].verdict = L[m].verdict
                /\ J[m].verdict # "accepted" => J[m] = L[m]
                /\ J[m].verdict = "accepted" => L[m] = StripRow(J[m])
    <3>1. m + 1 \in 1..n
      BY <2>4
    <3> DEFINE c == R[m + 1]
    <3>2. c \in Seq(Nat) /\ Len(c) = w /\ X[m + 1] = c
      BY <2>10, <2>13, <3>1
    <3> HIDE DEF c, N
    <3>3. J[m] = Reading!JudgeCsvRow(m + 1, c, w, n, open) /\ L[m] = Reading!JudgeXlsxRow(m + 1, c, w)
      BY <2>16, <2>17, <3>2 DEF c
    <3>8. open \in BOOLEAN /\ ~ open
      BY <2>9
    <3> DEFINE a == J[m]
               b == L[m]
    <3>4. a = Reading!JudgeCsvRow(m + 1, c, w, n, open) /\ b = Reading!JudgeXlsxRow(m + 1, c, w)
      BY <3>3
    <3> HIDE DEF a, b
    <3>5. a.verdict = b.verdict
      BY ONLY <3>8, <3>2, <3>4, EvenJudged
    <3>6. a.verdict # "accepted" => a = b
      BY ONLY <3>8, <3>2, <3>4, EvenJudged
    <3>7. a.verdict = "accepted" => b = StripRow(a)
      BY ONLY <3>8, <3>2, <3>4, EvenJudged
    <3> QED  BY <3>5, <3>6, <3>7 DEF a, b
  <2> DEFINE A == Reading!Accepted(J)
             B == Reading!Accepted(L)
  <2> HIDE DEF N, A, B
  <2>19. /\ Reading!Rejected(J) = Reading!Rejected(L)
         /\ DOMAIN A = DOMAIN B /\ IsFunction(B)
         /\ Len(B) \in Nat /\ Len(B) <= N
         /\ \A i \in DOMAIN A : \E m \in 1..N : J[m].verdict = "accepted" /\ A[i] = J[m] /\ B[i] = L[m]
    <3>1. /\ \A m \in 1..N : J[m].verdict = L[m].verdict
          /\ \A m \in 1..N : J[m].verdict # "accepted" => J[m] = L[m]
      BY <2>18
    <3>2. Reading!Rejected(J) = Reading!Rejected(L) /\ DOMAIN A = DOMAIN B
      BY ONLY <2>15, <3>1, JudgedAlike DEF A, B
    <3>3. IsFunction(B)
      BY ONLY <2>15, <3>1, JudgedAlike DEF B
    <3>4. Len(B) \in Nat /\ Len(B) <= N
      BY ONLY <2>15, <3>1, JudgedAlike DEF B
    <3>5. \A i \in DOMAIN A : InPlace(J, L, N, A[i], B[i])
      BY ONLY <2>15, <3>1, JudgedAlike DEF A, B
    <3> QED  BY <3>2, <3>3, <3>4, <3>5 DEF InPlace
  <2>20. B = [i \in DOMAIN A |-> StripRow(A[i])]
    <3>1. \A i \in DOMAIN A : B[i] = StripRow(A[i])
      BY <2>18, <2>19
    <3> QED  BY <2>19, <3>1 DEF IsFunction
  <2>21. ~ (Len(B) > MaxRows)
    <3>1. MaxRows \in Nat
      BY PipelineAssumption DEF Reading!LimitAssumption
    <3>2. ~ (N > MaxRows)
      BY <2>8, <2>9 DEF N
    <3>3. N \in Nat /\ Len(B) \in Nat /\ Len(B) <= N
      BY <2>15, <2>19
    <3> QED  BY ONLY <3>1, <3>2, <3>3
  <2>22. xlsx = Reading!ParseXlsx(s2)
    <3> DEFINE p == Reading!ParseXlsx(s2)
               q == Reading!ParseCsv(s2)
    <3>1. xlsx = IF ~ s2.exists THEN Reading!Refused("file_not_found")
                 ELSE IF s2.format \notin {"csv", "xlsx"} THEN Reading!Refused("unsupported_file_type")
                 ELSE IF s2.size = "empty" THEN Reading!Refused("empty_file")
                 ELSE IF s2.size = "large" THEN Reading!Refused("file_too_large")
                 ELSE IF s2.format = "csv" THEN q
                 ELSE p
      BY DEF Reading!ParseFile
    <3> HIDE DEF p, q, xlsx
    <3>2. xlsx = p
      BY <2>3, <3>1
    <3> QED  BY <3>2 DEF p, xlsx
  <2>23. Reading!ParseXlsx(s2) = Reading!Table(h, L)
    BY <2>8, <2>14, <2>21, XlsxIs DEF IsUsable, X, L, B
  <2> DEFINE t == csv
             u == xlsx
  <2>24. t = Reading!Table(h, J) /\ u = Reading!Table(h, L)
    BY <2>8, <2>22, <2>23
  <2> HIDE DEF t, u
  <2>25. /\ u.outcome = "parsed" /\ u.headers = h /\ u.rows = B /\ u.rejected = Reading!Rejected(L)
         /\ t.headers = h /\ t.rows = A /\ t.rejected = Reading!Rejected(J)
    BY <2>24, TableIs DEF A, B
  <2>26. /\ u.outcome = "parsed" /\ u.headers = t.headers
         /\ u.rows = [i \in DOMAIN t.rows |-> StripRow(t.rows[i])]
         /\ u.rejected = t.rejected
    BY <2>19, <2>20, <2>25
  <2> QED  BY <2>26 DEF t, u
<1>2. (/\ Reading!Done /\ e # <<>> /\ csv.outcome = "parsed" /\ input.coding = "plain" /\ IsEven(e) /\ csv.headers # <<>>)
        => Same
  BY <1>1
<1> HIDE DEF csv, xlsx, e
<1> QED
  BY <1>2, ReadingCounts DEF Reading!FormatsAgree, IsEven, StripRow, csv, xlsx, e

\* Reading files keeps the invariant.
LEMMA ReadingKeeps ==
  /\ Reading!Init => ReadingInv
  /\ ReadingInv /\ Reading!Next => ReadingInv'
<1>1. Reading!Init => ReadingInv
  BY DEF Reading!Init, ReadingInv
<1>2. ASSUME ReadingInv, Reading!Next PROVE ReadingInv'
  <2>1. input \in Sources /\ input' = input /\ output' = Reading!ParseFile(input)
    BY <1>2 DEF Reading!Next, Reading!Parse, ReadingInv
  <2> QED  BY <2>1 DEF ReadingInv
<1> QED
  BY <1>1, <1>2

=============================================================================
