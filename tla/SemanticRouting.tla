-------------------------- MODULE SemanticRouting --------------------------
(***************************************************************************)
(* The decisions the semantic-review service takes before and after it     *)
(* talks to a language model: whether a case may be sent at all, how a     *)
(* failure of the provider is classified, whether an answer is accepted,   *)
(* what a call may cost, and which cases a benchmark samples.              *)
(*                                                                         *)
(* The text of a request is abstract: what matters of a case is whether    *)
(* its request can be built, leaks labels, or is too large.  Money is      *)
(* counted in whole units.  An operator commented "Broken variant" is a    *)
(* plausible bug of the one that follows it; no specification uses it.     *)
(***************************************************************************)
EXTENDS Integers, Sequences, SequencesExt

CONSTANTS
  InputRate, CachedRate, OutputRate,   \* the price of a token
  MaxInputTokens, MaxOutputTokens      \* the caps of the configuration

RateAssumption ==
  /\ InputRate \in Nat /\ CachedRate \in Nat /\ OutputRate \in Nat /\ CachedRate <= InputRate
  /\ MaxInputTokens \in Nat \ {0} /\ MaxOutputTokens \in Nat \ {0}

Unknown == -1   \* None, for a count of tokens and for a cost

\* A review case as the report gives it.  `records`: both are in the report;
\* `leaks`: a label of the data set would be in the request.
CaseFacts == [known : BOOLEAN, decision : {"REVIEW", "AUTO_MATCH", "NO_MATCH"},
              status : {"PENDING", "DEFERRED", "MATCH", "NO_MATCH"}, evidence : BOOLEAN,
              authorized : BOOLEAN, records : BOOLEAN, leaks : BOOLEAN, tokens : {"fit", "large"}]

\* build_semantic_review_request: the exception it raises, or "built".
BuildRequest(c) ==
  IF c.decision # "REVIEW" \/ c.status # "PENDING" THEN "ValueError"
  ELSE IF ~c.records THEN "KeyError"
  ELSE IF c.leaks THEN "ValueError"
  ELSE IF c.tokens = "large" THEN "InputTooLarge"
  ELSE "built"

\* Broken variant: the size is judged after the budget was asked.
RequestObstacleLate(c) ==
  IF BuildRequest(c) \in {"KeyError", "ValueError"} THEN "UNSAFE_OR_INELIGIBLE_CASE" ELSE "eligible"

RequestObstacle(c) ==
  CASE BuildRequest(c) = "InputTooLarge" -> "INPUT_TOO_LARGE"
    [] BuildRequest(c) \in {"KeyError", "ValueError"} -> "UNSAFE_OR_INELIGIBLE_CASE"
    [] OTHER -> "eligible"

\* The first reason that applies wins.
EvaluateRouting(c, enabled) ==
  IF ~enabled THEN "LLM_DISABLED"
  ELSE IF ~c.known THEN "CASE_NOT_FOUND"
  ELSE IF c.decision # "REVIEW" THEN "NOT_REVIEW_DECISION"
  ELSE IF c.status = "DEFERRED" THEN "CASE_TERMINAL"
  ELSE IF c.status \in {"MATCH", "NO_MATCH"} THEN "CASE_RESOLVED"
  ELSE IF ~c.evidence THEN "MISSING_EVIDENCE"
  ELSE IF ~c.authorized THEN "AUTHORIZATION_BLOCKED"
  ELSE RequestObstacle(c)

---------------------------------------------------------------------------
(* What comes back of a request.                                           *)

\* What the call of the SDK may raise: "sdk" is any other exception of the SDK, with
\* no status or none that is an error, "foreign" an exception that is not the SDK's.
Failures == {"timeout", "connection", "rate_limit", "auth", "status_4xx", "status_5xx", "sdk", "foreign"}
Advice == {"SUGGEST_MATCH", "SUGGEST_NO_MATCH", "INSUFFICIENT_EVIDENCE"}
HumanDecisions == {"MATCH", "NO_MATCH", "DEFERRED"}

\* Broken variant: a refusal is not looked at by its status, only as an exception of
\* the SDK.
ErrorOfAnySdk(failure) ==
  CASE failure = "timeout" -> "Timeout"
    [] failure = "rate_limit" -> "RateLimit"
    [] failure = "auth" -> "Configuration"
    [] failure \in {"connection", "status_4xx", "status_5xx", "sdk"} -> "Provider"
    [] OTHER -> "Client"

\* _map_openai_error: the exception a failed call becomes.
ErrorOf(failure) ==
  CASE failure = "timeout" -> "Timeout"
    [] failure = "rate_limit" -> "RateLimit"
    [] failure \in {"connection", "status_5xx", "sdk"} -> "Provider"
    [] failure = "auth" -> "Configuration"
    [] OTHER -> "Client"

RETRYABLE == {"Timeout", "RateLimit", "Provider"}

SemanticFailureCode ==
  {"CONFIGURATION_ERROR", "PROVIDER_TIMEOUT", "PROVIDER_RATE_LIMIT", "PROVIDER_UNAVAILABLE",
   "INVALID_STRUCTURED_OUTPUT", "RESPONSE_ID_MISMATCH", "INPUT_TOO_LARGE",
   "UNSAFE_OR_INELIGIBLE_CASE", "BUDGET_EXCEEDED"}

FailureCode(error) ==
  CASE error = "Timeout" -> "PROVIDER_TIMEOUT"
    [] error = "RateLimit" -> "PROVIDER_RATE_LIMIT"
    [] error \in {"Provider", "Client"} -> "PROVIDER_UNAVAILABLE"
    [] error = "Configuration" -> "CONFIGURATION_ERROR"
    [] error = "IdentityMismatch" -> "RESPONSE_ID_MISMATCH"
    [] error = "InvalidOutput" -> "INVALID_STRUCTURED_OUTPUT"

\* parse_provider_payload, for an answer of the model to a request about
\* case c: the exception it raises, or "accepted".
ParsePayload(a, c) ==
  IF ~a.object THEN "InvalidOutput"
  ELSE IF a.about # c \/ a.swapped THEN "IdentityMismatch"
  ELSE IF a.suggestion \notin Advice THEN "InvalidOutput"
  ELSE "accepted"

---------------------------------------------------------------------------
(* Money.                                                                  *)

OrZero(n) == IF n = Unknown THEN 0 ELSE n

\* parse_provider_usage: available when any count was reported.
UsageAvailable(u) == u.input # Unknown \/ u.output # Unknown \/ u.reasoning # Unknown

BilledOutput(u) == IF u.output # Unknown THEN u.output ELSE OrZero(u.reasoning)

CachedTokens(u) == IF OrZero(u.cached) > OrZero(u.input) THEN OrZero(u.input) ELSE OrZero(u.cached)

\* estimate_cost of a live call.
EstimateCost(u) ==
  IF UsageAvailable(u)
  THEN (OrZero(u.input) - CachedTokens(u)) * InputRate + CachedTokens(u) * CachedRate
         + BilledOutput(u) * OutputRate
  ELSE Unknown

\* conservative_call_cost_usd: both caps, nothing from the cache.
Reserved == MaxInputTokens * InputRate + MaxOutputTokens * OutputRate

---------------------------------------------------------------------------
(* The sample of a live benchmark.                                         *)

FirstOf(s, n) == IF Len(s) <= n THEN s ELSE SubSeq(s, 1, n)

\* One of a and one of b in turn, until the longer one continues alone.
Alternating(a, b) ==
  LET shorter == IF Len(a) < Len(b) THEN Len(a) ELSE Len(b)
  IN [k \in 1..(Len(a) + Len(b)) |->
        IF k > 2 * shorter THEN IF Len(a) > shorter THEN a[k - shorter] ELSE b[k - shorter]
        ELSE IF k % 2 = 1 THEN a[(k + 1) \div 2] ELSE b[k \div 2]]

\* select_stratified_labelled_sample: nothing is taken when a class is empty.
StratifiedSample(matches, nonMatches, maxCases) ==
  IF matches = <<>> \/ nonMatches = <<>> THEN <<>>
  ELSE FirstOf(Alternating(matches, nonMatches), maxCases)
=============================================================================
