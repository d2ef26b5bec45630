------------------------------- MODULE Sorting -------------------------------
(***************************************************************************)
(* sorted(...) of Python over distinct keys, told by its result: the n-th  *)
(* element is the one with n - 1 before it.  SortSeq and SelectSeq of the  *)
(* library are built into the provers' parser without a definition, so     *)
(* nothing could be proved of what they return.                            *)
(***************************************************************************)
EXTENDS Naturals, FiniteSets

SortedBy(S, Before(_, _)) ==
  [n \in 1..Cardinality(S) |-> CHOOSE x \in S : Cardinality({y \in S : Before(y, x)}) = n - 1]
=============================================================================
