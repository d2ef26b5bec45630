------------------------- MODULE SemanticFormulas --------------------------
(***************************************************************************)
(* The computations of SemanticRouting over all small inputs: one state is *)
(* one input.  The formulas are compared with what they are for, not with  *)
(* a second copy of them.                                                  *)
(***************************************************************************)
EXTENDS SemanticRouting, FiniteSets

CONSTANTS MaxCount,  \* bound on the cases of a class and on max_cases
          MaxTokens  \* bound on the reported token counts

VARIABLES sampled, usage

Count == 0..MaxTokens \cup {Unknown}
Init ==
  /\ sampled \in [matches : 0..MaxCount, others : 0..MaxCount, max : 0..MaxCount]
  /\ usage \in [input : Count, cached : Count, output : Count, reasoning : Count]
Next == UNCHANGED <<sampled, usage>>
Spec == Init /\ [][Next]_<<sampled, usage>>

\* The cases of a class, in the order of their ids.
ClassOf(name, n) == [i \in 1..n |-> <<name, i>>]
Sample == StratifiedSample(ClassOf("match", sampled.matches), ClassOf("other", sampled.others), sampled.max)
Taken(k, name) == Cardinality({i \in 1..k : Sample[i][1] = name})
Smaller(a, b) == IF a < b THEN a ELSE b

\* A live benchmark asks as many cases as it may, each class in order and without a
\* gap, and at no point of the sample is one class ahead by more than a case unless
\* the other is used up (select_stratified_labelled_sample).
SampleIsBalanced ==
  /\ sampled.matches > 0 /\ sampled.others > 0 =>
       Len(Sample) = Smaller(sampled.max, sampled.matches + sampled.others)
  /\ \A k \in 1..Len(Sample) :
       LET m == Taken(k, "match")
           o == Taken(k, "other")
       IN /\ Sample[k] \in {<<"match", m>>, <<"other", o>>}
          /\ m > o + 1 => o = sampled.others
          /\ m < o => m = sampled.matches

\* Whatever usage the provider reports within the caps, a call costs at most its
\* reservation and at least its tokens at the cached rate, also when the report says
\* more tokens were cached than sent (estimate_cost, conservative_call_cost_usd).
CostIsBounded ==
  /\ OrZero(usage.input) <= MaxInputTokens /\ BilledOutput(usage) <= MaxOutputTokens
       => EstimateCost(usage) <= Reserved
  /\ UsageAvailable(usage) =>
       EstimateCost(usage) >= OrZero(usage.input) * CachedRate + BilledOutput(usage) * OutputRate

\* Reasoning tokens are part of the output: they are billed only when the output is
\* not reported (estimate_cost).
ReasoningIsNotBilledTwice ==
  usage.output # Unknown => EstimateCost(usage) = EstimateCost([usage EXCEPT !.reasoning = Unknown])
=============================================================================
