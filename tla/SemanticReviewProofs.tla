------------------------ MODULE SemanticReviewProofs ------------------------
(***************************************************************************)
(* The budget of a live run, for any caps, prices, retries and number of   *)
(* cases: it holds for what left the process and for what the provider     *)
(* bills.                                                                  *)
(*                                                                         *)
(* The argument: a request leaves only while its reservation fits, so even *)
(* the dearest answer keeps the cap; and whatever comes back is charged at *)
(* no less than its bill and no more than its reservation.                 *)
(***************************************************************************)
EXTENDS SemanticReview, FiniteSetTheorems, TLAPS

\* The constants have their types, and the provider counts no more tokens in a prompt
\* than the configuration allows.
Configured == RateAssumption /\ LimitAssumption /\ MaxPrompt <= MaxInputTokens

\* There are finitely many cases, one at least, and their facts are those of a case.
Populated ==
  LimitAssumption /\ IsFiniteSet(Case) /\ Case # {} /\ Facts \subseteq CaseFacts

\* Where a request is under way it is the one that is not yet charged.
Uncharged == IF phase = "sent" THEN 1 ELSE 0

Counting ==
  /\ calls \in Nat /\ spent \in Nat /\ wire.sent \in Nat /\ wire.billed \in Nat
  /\ live \in BOOLEAN
  /\ wire = [sent |-> wire.sent, billed |-> wire.billed, asked |-> wire.asked,
             answered |-> wire.answered, event |-> wire.event]

BudgetInv ==
  /\ Configured /\ Counting
  /\ exit = "killed" => phase = "over"
  /\ live =>
       /\ exit # "killed" => calls + Uncharged = wire.sent
       /\ exit = "killed" => wire.sent \in {calls, calls + 1}
       /\ wire.sent <= MaxLiveCalls
       /\ phase = "sent" => spent + Reserved <= MaxLiveUsd
       /\ spent <= MaxLiveUsd /\ wire.billed <= spent

-----------------------------------------------------------------------------
(* Money *)

LEMMA Monotone ==
  ASSUME NEW a \in Nat, NEW b \in Nat, NEW k \in Nat, a <= b
  PROVE  a * k <= b * k /\ a * k \in Nat
  BY SMT

LEMMA ReservedIsNatural == Configured => Reserved \in Nat
  BY SMT DEF Configured, Reserved, RateAssumption

\* The bill of an answer is within the reservation, and is what its usage amounts to.
LEMMA BillsAreReserved ==
  ASSUME Configured, NEW u \in Used
  PROVE  Real(u) \in Nat /\ Real(u) <= Reserved /\ EstimateCost(u) = Real(u)
<1>1. /\ u.input \in Nat /\ u.input <= MaxInputTokens /\ u.output = MaxOutputTokens
      /\ u.cached \in Nat /\ u.input # Unknown /\ u.output # Unknown
      /\ MaxInputTokens \in Nat /\ MaxOutputTokens \in Nat
  BY DEF Configured, Used, Unknown, RateAssumption, LimitAssumption
<1>2. CachedTokens(u) \in Nat /\ CachedTokens(u) <= u.input /\ OrZero(u.input) = u.input
  BY <1>1 DEF CachedTokens, OrZero, Unknown
<1>3. BilledOutput(u) = u.output /\ UsageAvailable(u)
  BY <1>1 DEF BilledOutput, UsageAvailable
<1>4. EstimateCost(u) = Real(u)
  BY <1>2, <1>3 DEF EstimateCost, Real
<1> DEFINE c == CachedTokens(u)
           new == u.input - c
<1> HIDE DEF c
<1>5. c \in Nat /\ new \in Nat /\ new + c = u.input
  BY <1>1, <1>2 DEF c
<1>6. InputRate \in Nat /\ CachedRate \in Nat /\ OutputRate \in Nat /\ CachedRate <= InputRate
  BY DEF Configured, RateAssumption
<1>7. c * CachedRate \in Nat /\ new * InputRate \in Nat /\ u.output * OutputRate \in Nat
      /\ c * CachedRate <= c * InputRate
      /\ u.input * InputRate <= MaxInputTokens * InputRate
  <2>1. c * CachedRate \in Nat /\ new * InputRate \in Nat /\ u.output * OutputRate \in Nat
    BY <1>1, <1>5, <1>6, SMT
  <2>2. CachedRate * c <= InputRate * c
    BY <1>5, <1>6, Monotone
  <2>3. u.input * InputRate <= MaxInputTokens * InputRate
    BY <1>1, <1>6, Monotone
  <2> QED
    BY <2>1, <2>2, <2>3, <1>5, <1>6, SMT
<1>8. u.input * InputRate = new * InputRate + c * InputRate
  BY <1>1, <1>5, <1>6, SMT
<1>9. Real(u) = new * InputRate + c * CachedRate + u.output * OutputRate
  BY DEF Real, c
<1>10. Reserved = MaxInputTokens * InputRate + u.output * OutputRate
  BY <1>1 DEF Reserved
<1> HIDE DEF new
<1> QED
  BY <1>4, <1>5, <1>6, <1>7, <1>8, <1>9, <1>10, <1>1, SMT

-----------------------------------------------------------------------------
(* The steps *)

LEMMA InitBudget == Configured /\ Init => BudgetInv
<1> SUFFICES ASSUME Configured, Init
             PROVE  BudgetInv
  OBVIOUS
<1>1. Counting /\ ~ live
  BY DEF Init, Counting, FreshWire
<1>2. exit # "killed"
  BY DEF Init
<1> QED
  BY <1>1, <1>2 DEF BudgetInv

LEMMA StartStep ==
  ASSUME BudgetInv, Start
  PROVE  BudgetInv'
<1>1. /\ live' \in BOOLEAN /\ calls' = 0 /\ spent' = 0 /\ wire' = FreshWire
      /\ phase' \in {"over", "judge"} /\ exit' # "killed"
  BY DEF Start
<1>2. Counting'
  BY <1>1 DEF Counting, FreshWire
<1> QED
  BY <1>1, <1>2 DEF Configured, BudgetInv, Uncharged, FreshWire, LimitAssumption

\* Steps that neither send nor charge.
LEMMA QuietStep ==
  ASSUME BudgetInv, UNCHANGED <<live, calls, spent>>, phase # "sent", phase' # "sent",
         phase # "over", exit' = "killed" => exit = "killed",
         \/ wire' = wire
         \/ wire' = [wire EXCEPT !.event = "none"]
         \/ wire' = [wire EXCEPT !.answered = @ \cup {Current}]
  PROVE  BudgetInv'
<1>1. Counting' /\ wire'.sent = wire.sent /\ wire'.billed = wire.billed
  BY DEF BudgetInv, Counting
<1>2. exit # "killed" /\ exit' # "killed" /\ (live => calls = wire.sent)
  BY DEF BudgetInv, Uncharged, Counting
<1> QED
  BY <1>1, <1>2 DEF BudgetInv, Uncharged

LEMMA SendStep ==
  ASSUME BudgetInv, Send
  PROVE  BudgetInv'
<1>1. /\ phase = "attempt" /\ phase' = "sent" /\ (live => CanCall) /\ UNCHANGED <<live, calls, spent, exit>>
      /\ wire' = [wire EXCEPT !.sent = @ + (IF live THEN 1 ELSE 0), !.asked = @ \cup {Current}]
  BY DEF Send, input, budget
<1>2. Counting' /\ wire'.billed = wire.billed /\ (live => wire'.sent = wire.sent + 1)
  <2> DEFINE more == IF live THEN 1 ELSE 0
  <2>1. more \in {0, 1} /\ (live => more = 1)
    OBVIOUS
  <2>2. wire' = [wire EXCEPT !.sent = @ + more, !.asked = @ \cup {Current}]
    BY <1>1
  <2> HIDE DEF more
  <2>3. /\ wire'.sent = wire.sent + more /\ wire'.billed = wire.billed
        /\ wire' = [sent |-> wire'.sent, billed |-> wire'.billed, asked |-> wire'.asked,
                    answered |-> wire'.answered, event |-> wire'.event]
    BY <2>2 DEF BudgetInv, Counting
  <2>4. wire'.sent \in Nat
    BY <2>1, <2>3 DEF BudgetInv, Counting
  <2> QED
    BY <1>1, <2>1, <2>3, <2>4 DEF BudgetInv, Counting
<1>3. live => exit # "killed" /\ calls = wire.sent
  BY <1>1 DEF BudgetInv, Uncharged, Counting
<1> QED
  BY <1>1, <1>2, <1>3 DEF Configured, BudgetInv, Uncharged, CanCall, Counting, LimitAssumption

\* An attempt comes back: it is charged at no less than its bill.
LEMMA ChargeStep ==
  ASSUME BudgetInv, phase = "sent", phase' # "sent", live' = live, exit' = exit,
         NEW cost, NEW amount \in Nat, NEW event, Charge(cost), Billed(amount, event),
         live => \/ cost = Unknown /\ amount <= Reserved
                 \/ cost \in Nat /\ amount <= cost /\ cost <= Reserved
  PROVE  BudgetInv'
<1>1. /\ Counting' /\ wire'.sent = wire.sent /\ wire'.billed = wire.billed + amount
  <2>1. wire' = [wire EXCEPT !.billed = @ + amount, !.event = event]
    BY DEF Billed
  <2>2. wire'.sent = wire.sent /\ wire'.billed = wire.billed + amount
        /\ wire' = [sent |-> wire'.sent, billed |-> wire'.billed, asked |-> wire'.asked,
                    answered |-> wire'.answered, event |-> wire'.event]
    BY <2>1 DEF BudgetInv, Counting
  <2>3. calls' \in Nat /\ spent' \in Nat
    <3>1. CASE live
      BY <3>1, ReservedIsNatural DEF Charge, BudgetInv, Counting, Unknown
    <3>2. CASE ~ live
      BY <3>2 DEF Charge, budget, BudgetInv, Counting
    <3> QED
      BY <3>1, <3>2
  <2> QED
    BY <2>2, <2>3 DEF BudgetInv, Counting
<1>2. ASSUME live
      PROVE  calls' = calls + 1 /\ spent' >= spent + amount /\ spent' <= spent + Reserved
  BY <1>2, ReservedIsNatural DEF Charge, BudgetInv, Counting, Unknown
<1>3. live => exit # "killed" /\ calls + 1 = wire.sent /\ spent + Reserved <= MaxLiveUsd
  BY DEF BudgetInv, Uncharged
<1>4. Reserved \in Nat /\ MaxLiveUsd \in Nat
  BY ReservedIsNatural DEF BudgetInv, Configured, LimitAssumption
<1> QED
  BY <1>1, <1>2, <1>3, <1>4 DEF BudgetInv, Uncharged, Counting

LEMMA CallFailsStep ==
  ASSUME BudgetInv, CallFails
  PROVE  BudgetInv'
<1>1. PICK failure \in Failures, amount \in {0, IF live THEN Reserved ELSE 0} :
        AfterError(ErrorOf(failure)) /\ Billed(amount, failure)
  BY DEF CallFails
<1>2. phase = "sent" /\ phase' # "sent" /\ live' = live /\ exit' = exit /\ Charge(Unknown)
  BY <1>1 DEF CallFails, AfterError, input
<1>3. amount \in Nat /\ (live => amount <= Reserved)
  BY ReservedIsNatural DEF BudgetInv
<1> QED
  BY <1>1, <1>2, <1>3, ChargeStep

LEMMA CallAnswersStep ==
  ASSUME BudgetInv, CallAnswers
  PROVE  BudgetInv'
<1>1. PICK answer \in Answers, used \in Used :
        /\ Billed(IF live THEN Real(used) ELSE 0, "answer")
        /\ LET verdict == ParsePayload(answer, Current)
           IN \/ verdict # "accepted" /\ AfterError(verdict)
              \/ \E usage \in {used, NotReported} :
                   /\ verdict = "accepted"
                   /\ Charge(EstimateCost(usage))
                   /\ phase' = "audit" /\ lastError' = "none"
                   /\ suggestion' = [case |-> Current, kind |-> answer.suggestion, attempts |-> attempt,
                                     code |-> "none", about |-> answer.about,
                                     cost |-> IF live THEN EstimateCost(usage) ELSE 0]
                   /\ UNCHANGED <<input, todo, attempt, filed, report, exit>>
  BY DEF CallAnswers
<1> DEFINE amount == IF live THEN Real(used) ELSE 0
<1>2. amount \in Nat /\ (live => amount <= Reserved) /\ EstimateCost(used) = Real(used) /\ Real(used) \in Nat
      /\ Real(used) <= Reserved
  BY BillsAreReserved DEF BudgetInv
<1>3. phase = "sent" /\ Billed(amount, "answer")
  BY <1>1 DEF CallAnswers
<1>4. CASE AfterError(ParsePayload(answer, Current))
  <2>1. phase' # "sent" /\ live' = live /\ exit' = exit /\ Charge(Unknown)
    BY <1>4 DEF AfterError, input
  <2> HIDE DEF amount
  <2> QED
    BY <1>2, <1>3, <2>1, ChargeStep
<1>5. ASSUME NEW usage \in {used, NotReported}, Charge(EstimateCost(usage)), phase' = "audit",
             UNCHANGED <<input, exit>>
      PROVE  BudgetInv'
  <2>1. EstimateCost(NotReported) = Unknown
    BY DEF NotReported, EstimateCost, UsageAvailable, Unknown
  <2>2. live' = live /\ exit' = exit /\ phase' # "sent"
    BY <1>5 DEF input
  <2>3. live => \/ EstimateCost(usage) = Unknown /\ amount <= Reserved
                \/ EstimateCost(usage) \in Nat /\ amount <= EstimateCost(usage) /\ EstimateCost(usage) <= Reserved
    BY <1>2, <2>1
  <2> HIDE DEF amount
  <2> QED
    BY <1>2, <1>3, <1>5, <2>2, <2>3, ChargeStep
<1> QED
  BY <1>1, <1>4, <1>5

LEMMA KilledStep ==
  ASSUME BudgetInv, Killed
  PROVE  BudgetInv'
<1>1. /\ phase \in {"judge", "attempt", "sent", "audit"} /\ phase' = "over" /\ exit' = "killed"
      /\ UNCHANGED <<live, calls, spent, wire>>
  BY DEF Killed, Over, input, budget
<1>2. live => exit # "killed" /\ calls + Uncharged = wire.sent
  BY <1>1 DEF BudgetInv
<1> QED
  BY <1>1, <1>2 DEF BudgetInv, Uncharged, Counting

LEMMA NextBudget == BudgetInv /\ [Next]_vars => BudgetInv'
<1> SUFFICES ASSUME BudgetInv, [Next]_vars
             PROVE  BudgetInv'
  OBVIOUS
<1>1. CASE Start
  BY <1>1, StartStep
<1>2. CASE Finish
  BY <1>2, QuietStep DEF Finish, Over, input, budget
<1>3. CASE Route
  <2>1. phase = "judge" /\ phase' # "sent" /\ UNCHANGED <<live, calls, spent>>
        /\ (exit' = "killed" => exit = "killed")
        /\ (wire' = wire \/ wire' = [wire EXCEPT !.event = "none"])
    BY <1>3 DEF Route, Over, input, budget
  <2> QED
    BY <2>1, QuietStep
<1>4. CASE Refused
  <2>1. phase = "attempt" /\ phase' # "sent" /\ UNCHANGED <<live, calls, spent, wire>>
        /\ (exit' = "killed" => exit = "killed")
    BY <1>4 DEF Refused, Over, input, budget
  <2> QED
    BY <2>1, QuietStep
<1>5. CASE Send
  BY <1>5, SendStep
<1>6. CASE CallFails
  BY <1>6, CallFailsStep
<1>7. CASE CallAnswers
  BY <1>7, CallAnswersStep
<1>8. CASE File
  <2>1. phase = "audit" /\ phase' # "sent" /\ UNCHANGED <<live, calls, spent>>
        /\ (exit' = "killed" => exit = "killed") /\ wire' = [wire EXCEPT !.answered = @ \cup {Current}]
    BY <1>8 DEF File, Over, input, budget
  <2> QED
    BY <2>1, QuietStep
<1>9. CASE FileFails
  BY <1>9, QuietStep DEF FileFails, Over, input, budget
<1>10. CASE Killed
  BY <1>10, KilledStep
<1>11. CASE UNCHANGED vars
  BY <1>11 DEF vars, BudgetInv, Counting, Uncharged
<1> QED
  BY <1>1, <1>2, <1>3, <1>4, <1>5, <1>6, <1>7, <1>8, <1>9, <1>10, <1>11 DEF Next, Work

-----------------------------------------------------------------------------
(* Retries *)

Transient == {"none", "timeout", "connection", "rate_limit", "status_5xx", "sdk"}

\* A case is attempted for the first time, or after a failure that may pass.
RetryInv ==
  /\ wire = [sent |-> wire.sent, billed |-> wire.billed, asked |-> wire.asked,
             answered |-> wire.answered, event |-> wire.event]
  /\ phase = "attempt" => wire.event \in Transient

LEMMA OnlyTransientIsRetryable ==
  /\ \A failure \in Failures : ErrorOf(failure) \in RETRYABLE => failure \in Transient
  /\ \A a, c : ParsePayload(a, c) \notin RETRYABLE
<1>1. \A failure \in Failures : ErrorOf(failure) \in RETRYABLE => failure \in Transient
  BY DEF Failures, ErrorOf, RETRYABLE, Transient
<1>2. \A a, c : ParsePayload(a, c) \in {"InvalidOutput", "IdentityMismatch", "accepted"}
  BY DEF ParsePayload
<1> QED
  BY <1>1, <1>2 DEF RETRYABLE

LEMMA NextRetry == RetryInv /\ [Next]_vars => RetryInv'
<1> SUFFICES ASSUME RetryInv, [Next]_vars
             PROVE  RetryInv'
  OBVIOUS
<1>1. CASE Start
  BY <1>1 DEF Start, RetryInv, FreshWire
<1>2. CASE Finish \/ FileFails \/ Killed
  BY <1>2 DEF Finish, FileFails, Killed, Over, RetryInv
<1>3. CASE Route
  <2>1. \/ wire' = [wire EXCEPT !.event = "none"]
        \/ wire' = wire /\ phase' # "attempt"
    BY <1>3 DEF Route, Over
  <2> QED
    BY <2>1 DEF RetryInv, Transient
<1>4. CASE Refused
  BY <1>4 DEF Refused, Over, RetryInv
<1>5. CASE Send
  BY <1>5 DEF Send, RetryInv
<1>6. CASE CallFails
  <2>1. PICK failure \in Failures, amount \in {0, IF live THEN Reserved ELSE 0} :
          AfterError(ErrorOf(failure)) /\ Billed(amount, failure)
    BY <1>6 DEF CallFails
  <2>2. phase' = "attempt" => failure \in Transient
    BY <2>1, OnlyTransientIsRetryable DEF AfterError
  <2> QED
    BY <2>1, <2>2 DEF Billed, RetryInv
<1>7. CASE CallAnswers
  <2>1. /\ phase' = "audit"
        /\ \E amount : Billed(amount, "answer")
    BY <1>7, OnlyTransientIsRetryable DEF CallAnswers, AfterError
  <2> QED
    BY <2>1 DEF Billed, RetryInv
<1>8. CASE File
  <2>1. phase' # "attempt" /\ wire' = [wire EXCEPT !.answered = @ \cup {Current}]
    BY <1>8 DEF File, Over
  <2> QED
    BY <2>1 DEF RetryInv
<1>9. CASE UNCHANGED vars
  BY <1>9 DEF vars, RetryInv
<1> QED
  BY <1>1, <1>2, <1>3, <1>4, <1>5, <1>6, <1>7, <1>8, <1>9 DEF Next, Work

-----------------------------------------------------------------------------
(* The theorems *)

\* Every request is charged, at no less than it is billed, and the caps on calls and
\* on money hold for what left the process (budget.py, suggest_for_case).
THEOREM BudgetsHold == Configured /\ Spec => [](NothingIsFree /\ CapsHold)
<1>1. BudgetInv => NothingIsFree /\ CapsHold
  <2> SUFFICES ASSUME BudgetInv, live
               PROVE  NothingIsFree /\ CapsHold
    BY DEF NothingIsFree, CapsHold
  <2>1. MaxLiveUsd \in Nat /\ MaxLiveCalls \in Nat
    BY DEF BudgetInv, Configured, LimitAssumption
  <2>2. CapsHold
    BY <2>1 DEF BudgetInv, Counting, CapsHold
  <2>3. NothingIsFree
    BY DEF BudgetInv, Counting, Uncharged, NothingIsFree, Waiting
  <2> QED
    BY <2>2, <2>3
<1> QED
  BY InitBudget, NextBudget, <1>1, PTL DEF Spec

\* No second request goes out for a case after an answer, a refusal (401, 403 or another
\* 4xx but 429) or an exception that is not the SDK's; an exception of the SDK without
\* an error status is taken for an outage and may be retried (service.RETRYABLE,
\* _map_openai_error).
THEOREM RetriesAreTransient == Spec => OnlyTransientIsRetried
<1>1. Init => RetryInv
  BY DEF Init, RetryInv, FreshWire
<1>2. RetryInv /\ [Next]_vars =>
        [phase = "attempt" /\ phase' = "sent" =>
           wire.event \in {"none", "timeout", "connection", "rate_limit", "status_5xx", "sdk"}]_vars
  BY DEF RetryInv, Transient
<1> QED
  BY <1>1, <1>2, NextRetry, PTL DEF Spec, OnlyTransientIsRetried

-----------------------------------------------------------------------------
(* Suggestions and the report *)

\* The outcome of a case: it is about that case, and costs no more than it was charged.
Sound(s) == s.about = s.case /\ s.kind \in Kinds

\* The kinds that count as an answer.
Answered(k) == k["SUGGEST_MATCH"] + k["SUGGEST_NO_MATCH"] + k["INSUFFICIENT_EVIDENCE"]

AdviceInv ==
  /\ Configured
  /\ phase = "audit" => Sound(suggestion)
  /\ \A s \in filed : Sound(s)

\* What the report adds up was charged, and what is about to be added was charged, too.
ReportInv ==
  /\ report.kinds \in [Kinds -> Nat] /\ report.successful \in Nat /\ report.cost \in Nat
  /\ report.successful = Answered(report.kinds)
  /\ phase = "audit" => Sound(suggestion) /\ suggestion.cost \in Nat \cup {Unknown}
  /\ live => report.cost + (IF phase = "audit" THEN OrZero(suggestion.cost) ELSE 0) <= spent

\* A case is routed once; what it was routed on does not change while it is attempted.
RouteInv == phase \in {"attempt", "sent"} => RequestObstacle(facts[Current]) = "eligible"

\* Only the case under way may be paid for and have no suggestion yet; before its first
\* attempt it is not paid for.
PaidInv ==
  /\ Configured
  /\ phase \in {"judge", "over"} /\ ~Stopped => wire.asked \subseteq wire.answered
  /\ phase = "attempt" /\ lastError = "none" => wire.asked \subseteq wire.answered
  /\ phase \in {"attempt", "sent", "audit"} => wire.asked \subseteq wire.answered \cup {Current}
  /\ wire = [sent |-> wire.sent, billed |-> wire.billed, asked |-> wire.asked,
             answered |-> wire.answered, event |-> wire.event]

\* Errors have names.
LEMMA ErrorsAreNamed ==
  /\ \A failure \in Failures : ErrorOf(failure) # "none"
  /\ \A a, c : ParsePayload(a, c) # "none"
  BY DEF Failures, ErrorOf, ParsePayload

\* An accepted answer is advice about the case that was asked about.
LEMMA AcceptedIsAdvice ==
  ASSUME NEW a, NEW c, ParsePayload(a, c) = "accepted"
  PROVE  a.about = c /\ a.suggestion \in Advice
  BY DEF ParsePayload

\* A case that routing lets through has a request that can be built.
LEMMA EligibleIsBuilt ==
  ASSUME NEW c
  PROVE  /\ \A on : EvaluateRouting(c, on) = "eligible" => RequestObstacle(c) = "eligible"
         /\ RequestObstacle(c) = "eligible" => BuildRequest(c) = "built"
<1>1. BuildRequest(c) \in {"ValueError", "KeyError", "InputTooLarge", "built"}
  BY DEF BuildRequest
<1>2. RequestObstacle(c) = "eligible" => BuildRequest(c) = "built"
  BY <1>1 DEF RequestObstacle
<1>3. ASSUME NEW on, EvaluateRouting(c, on) = "eligible"
      PROVE  RequestObstacle(c) = "eligible"
  BY <1>3 DEF EvaluateRouting
<1> QED
  BY <1>2, <1>3

\* A failure that is filed is about its case.
LEMMA FailuresAreSound ==
  ASSUME NEW error, NEW n
  PROVE  /\ Sound(FailureOf(error, n)) /\ FailureOf(error, n).case = Current
         /\ FailureOf(error, n).cost = IF live THEN Unknown ELSE 0
         /\ FailureOf(error, n).cost \in Nat \cup {Unknown}
         /\ live => OrZero(FailureOf(error, n).cost) = 0
  BY DEF FailureOf, Sound, Kinds, OrZero

\* The answer of a call: a failure to repeat or to file, or advice.
LEMMA AnswerOutcomes ==
  ASSUME Configured, CallAnswers
  PROVE  \/ \E error : error # "none" /\ AfterError(error)
         \/ /\ phase' = "audit" /\ lastError' = "none"
            /\ \E cost : /\ Charge(cost) /\ (cost = Unknown \/ cost \in Nat)
                         /\ suggestion'.cost = IF live THEN cost ELSE 0
            /\ Sound(suggestion')
            /\ UNCHANGED <<input, todo, attempt, filed, report, exit>>
<1>1. PICK answer \in Answers, used \in Used :
        LET verdict == ParsePayload(answer, Current)
        IN \/ verdict # "accepted" /\ AfterError(verdict)
           \/ \E usage \in {used, NotReported} :
                /\ verdict = "accepted"
                /\ Charge(EstimateCost(usage))
                /\ phase' = "audit" /\ lastError' = "none"
                /\ suggestion' = [case |-> Current, kind |-> answer.suggestion, attempts |-> attempt,
                                  code |-> "none", about |-> answer.about,
                                  cost |-> IF live THEN EstimateCost(usage) ELSE 0]
                /\ UNCHANGED <<input, todo, attempt, filed, report, exit>>
  BY DEF CallAnswers
<1>2. CASE AfterError(ParsePayload(answer, Current))
  BY <1>2, ErrorsAreNamed
<1>3. ASSUME NEW usage \in {used, NotReported}, ParsePayload(answer, Current) = "accepted",
             Charge(EstimateCost(usage)), phase' = "audit", lastError' = "none",
             suggestion' = [case |-> Current, kind |-> answer.suggestion, attempts |-> attempt,
                            code |-> "none", about |-> answer.about,
                            cost |-> IF live THEN EstimateCost(usage) ELSE 0],
             UNCHANGED <<input, todo, attempt, filed, report, exit>>
      PROVE  /\ \E cost : /\ Charge(cost) /\ (cost = Unknown \/ cost \in Nat)
                          /\ suggestion'.cost = IF live THEN cost ELSE 0
             /\ Sound(suggestion')
  <2>1. EstimateCost(NotReported) = Unknown
    BY DEF NotReported, EstimateCost, UsageAvailable, Unknown
  <2>2. EstimateCost(used) \in Nat
    BY BillsAreReserved
  <2>3. EstimateCost(usage) = Unknown \/ EstimateCost(usage) \in Nat
    BY <2>1, <2>2
  <2>4. suggestion'.cost = IF live THEN EstimateCost(usage) ELSE 0
    BY <1>3
  <2>5. suggestion'.about = answer.about /\ suggestion'.case = Current /\ suggestion'.kind = answer.suggestion
    BY <1>3
  <2>6. Sound(suggestion')
    BY <1>3, <2>5, AcceptedIsAdvice DEF Sound, Kinds
  <2> QED
    BY <1>3, <2>3, <2>4, <2>6
<1> QED
  BY <1>1, <1>2, <1>3

LEMMA NextAdvice == AdviceInv /\ [Next]_vars => AdviceInv'
<1> SUFFICES ASSUME AdviceInv, [Next]_vars
             PROVE  AdviceInv'
  OBVIOUS
<1>1. ASSUME NEW error, AfterError(error)
      PROVE  AdviceInv'
  BY <1>1, FailuresAreSound DEF AfterError, AdviceInv
<1>2. CASE Start \/ Finish \/ Route \/ Send \/ Killed
  BY <1>2 DEF Start, Finish, Route, Send, Killed, Over, AdviceInv
<1>3. CASE Refused
  BY <1>3, FailuresAreSound DEF Refused, Over, AdviceInv
<1>4. CASE CallFails
  BY <1>4, <1>1 DEF CallFails
<1>5. CASE CallAnswers
  BY <1>5, <1>1, AnswerOutcomes DEF AdviceInv
<1>6. CASE File \/ FileFails
  BY <1>6 DEF File, FileFails, Over, AdviceInv, Others
<1>7. CASE UNCHANGED vars
  BY <1>7 DEF vars, AdviceInv
<1> QED
  BY <1>2, <1>3, <1>4, <1>5, <1>6, <1>7 DEF Next, Work

LEMMA NextRoute == RouteInv /\ [Next]_vars => RouteInv'
<1> SUFFICES ASSUME RouteInv, [Next]_vars
             PROVE  RouteInv'
  OBVIOUS
<1>1. CASE Start \/ Finish \/ Refused \/ Killed \/ File \/ FileFails
  BY <1>1 DEF Start, Finish, Refused, Killed, File, FileFails, Over, RouteInv
<1>2. CASE Route
  BY <1>2, EligibleIsBuilt DEF Route, Over, RouteInv, input, Current
<1>3. CASE Send
  BY <1>3 DEF Send, RouteInv, input, Current
<1>4. CASE CallFails \/ CallAnswers
  <2>1. /\ phase = "sent" /\ phase' \in {"attempt", "audit"}
        /\ facts' = facts /\ todo' = todo
    BY <1>4 DEF CallFails, CallAnswers, AfterError, input
  <2> QED
    BY <2>1 DEF RouteInv, Current
<1>5. CASE UNCHANGED vars
  BY <1>5 DEF vars, RouteInv, Current
<1> QED
  BY <1>1, <1>2, <1>3, <1>4, <1>5 DEF Next, Work

LEMMA NextPaid == PaidInv /\ [Next]_vars => PaidInv'
<1> SUFFICES ASSUME PaidInv, [Next]_vars
             PROVE  PaidInv'
  OBVIOUS
<1>1. CASE Start
  BY <1>1 DEF Start, PaidInv, FreshWire
<1>2. CASE Finish
  BY <1>2 DEF Finish, Over, PaidInv, Stopped, Current
<1>3. CASE Route
  <2>1. wire.asked \subseteq wire.answered
    BY <1>3 DEF Route, PaidInv, Stopped
  <2>2. wire'.asked = wire.asked /\ wire'.answered = wire.answered
    BY <1>3 DEF Route, PaidInv
  <2>3. wire' = [sent |-> wire'.sent, billed |-> wire'.billed, asked |-> wire'.asked,
                 answered |-> wire'.answered, event |-> wire'.event]
    BY <1>3 DEF Route, PaidInv
  <2> QED
    BY <2>1, <2>2, <2>3 DEF PaidInv
<1>4. CASE Refused
  BY <1>4 DEF Refused, Over, PaidInv, Stopped, Current
<1>5. CASE Send
  <2>1. /\ phase = "attempt" /\ phase' = "sent" /\ todo' = todo
        /\ wire' = [wire EXCEPT !.sent = @ + (IF live THEN 1 ELSE 0), !.asked = @ \cup {Current}]
    BY <1>5 DEF Send
  <2>2. wire'.asked = wire.asked \cup {Current} /\ wire'.answered = wire.answered
    BY <2>1 DEF PaidInv
  <2>3. wire' = [sent |-> wire'.sent, billed |-> wire'.billed, asked |-> wire'.asked,
                 answered |-> wire'.answered, event |-> wire'.event]
    BY <2>1 DEF PaidInv
  <2> QED
    BY <2>1, <2>2, <2>3 DEF PaidInv, Current
<1>6. CASE CallFails \/ CallAnswers
  <2>1. /\ phase = "sent" /\ phase' \in {"attempt", "audit"} /\ todo' = todo
        /\ phase' = "attempt" => lastError' # "none"
        /\ \E amount, event : Billed(amount, event)
    <3>1. CASE CallFails
      BY <3>1, ErrorsAreNamed DEF CallFails, AfterError
    <3>2. CASE CallAnswers
      BY <3>2, ErrorsAreNamed DEF CallAnswers, AfterError
    <3> QED
      BY <1>6, <3>1, <3>2
  <2>2. /\ wire'.asked = wire.asked /\ wire'.answered = wire.answered
        /\ wire' = [sent |-> wire'.sent, billed |-> wire'.billed, asked |-> wire'.asked,
                    answered |-> wire'.answered, event |-> wire'.event]
    BY <2>1 DEF Billed, PaidInv
  <2> QED
    BY <2>1, <2>2 DEF PaidInv, Current
<1>7. CASE File
  <2>1. /\ phase = "audit" /\ phase' \in {"over", "judge"}
        /\ wire' = [wire EXCEPT !.answered = @ \cup {Current}]
    BY <1>7 DEF File, Over
  <2>2. wire'.asked = wire.asked /\ wire'.answered = wire.answered \cup {Current}
        /\ wire' = [sent |-> wire'.sent, billed |-> wire'.billed, asked |-> wire'.asked,
                    answered |-> wire'.answered, event |-> wire'.event]
    BY <2>1 DEF PaidInv
  <2>3. wire'.asked \subseteq wire'.answered
    BY <2>1, <2>2 DEF PaidInv
  <2> QED
    BY <2>1, <2>2, <2>3 DEF PaidInv
<1>8. CASE FileFails \/ Killed
  BY <1>8 DEF FileFails, Killed, Over, PaidInv, Stopped
<1>9. CASE UNCHANGED vars
  BY <1>9 DEF vars, PaidInv, Stopped, Current
<1> QED
  BY <1>1, <1>2, <1>3, <1>4, <1>5, <1>6, <1>7, <1>8, <1>9 DEF Next, Work

\* A suggestion is charged by the time it waits to be filed.
LEMMA ChargedReport ==
  ASSUME BudgetInv, ReportInv, phase = "sent", live' = live, report' = report,
         NEW cost, Charge(cost), cost = Unknown \/ cost \in Nat,
         \/ phase' = "attempt"
         \/ /\ phase' = "audit" /\ Sound(suggestion')
            /\ suggestion'.cost \in Nat \cup {Unknown}
            /\ live => OrZero(suggestion'.cost) \in {0, OrZero(cost)}
  PROVE  ReportInv'
<1>1. ASSUME live
      PROVE  spent' \in Nat /\ spent' >= spent /\ spent' >= spent + OrZero(cost)
  BY <1>1, ReservedIsNatural DEF Charge, BudgetInv, Counting, Unknown, OrZero
<1>2. live => report.cost <= spent
  BY DEF ReportInv
<1>3. ASSUME live
      PROVE  report.cost + (IF phase' = "audit" THEN OrZero(suggestion'.cost) ELSE 0) <= spent'
  <2>1. report.cost \in Nat /\ spent \in Nat /\ OrZero(cost) \in Nat
    BY DEF ReportInv, BudgetInv, Counting, OrZero
  <2> QED
    BY <1>1, <1>2, <1>3, <2>1
<1> QED
  BY <1>3 DEF ReportInv

\* One more suggestion of its kind.
LEMMA CountedReport ==
  ASSUME NEW k \in [Kinds -> Nat], NEW kind \in Kinds, NEW n, n = Answered(k)
  PROVE  /\ [k EXCEPT ![kind] = @ + 1] \in [Kinds -> Nat]
         /\ n + (IF kind # "PROVIDER_FAILURE" THEN 1 ELSE 0) = Answered([k EXCEPT ![kind] = @ + 1])
         /\ n \in Nat
<1>1. {"SUGGEST_MATCH", "SUGGEST_NO_MATCH", "INSUFFICIENT_EVIDENCE", "PROVIDER_FAILURE"} = Kinds
  BY DEF Kinds, Advice
<1> QED
  BY <1>1 DEF Answered

\* A report starts empty.
LEMMA ReportStarts == Init => ReportInv
<1>1. /\ FreshReport.kinds \in [Kinds -> Nat] /\ FreshReport.successful = 0 /\ FreshReport.cost = 0
      /\ Answered(FreshReport.kinds) = 0
  BY DEF FreshReport, Answered, Kinds, Advice
<1> QED
  BY <1>1 DEF Init, ReportInv

\* Every step keeps the report within what was charged.
LEMMA NextReport == BudgetInv /\ ReportInv /\ [Next]_vars => ReportInv'
<1> SUFFICES ASSUME BudgetInv, ReportInv, [Next]_vars
             PROVE  ReportInv'
  OBVIOUS
<1>1. ASSUME phase = "sent", NEW error, AfterError(error)
      PROVE  ReportInv'
  <2>1. live' = live /\ report' = report /\ Charge(Unknown)
    BY <1>1 DEF AfterError, input
  <2>2. \/ phase' = "attempt"
        \/ phase' = "audit" /\ suggestion' = FailureOf(error, attempt)
    BY <1>1 DEF AfterError
  <2> QED
    BY <1>1, <2>1, <2>2, FailuresAreSound, ChargedReport
<1>2. CASE Start
  <2>1. /\ report' = FreshReport /\ spent' = 0 /\ phase' \in {"over", "judge"}
    BY <1>2 DEF Start
  <2>2. /\ FreshReport.kinds \in [Kinds -> Nat] /\ FreshReport.successful = 0 /\ FreshReport.cost = 0
        /\ Answered(FreshReport.kinds) = 0
    BY DEF FreshReport, Answered, Kinds, Advice
  <2> QED
    BY <2>1, <2>2 DEF ReportInv
<1>3. CASE Finish \/ Route \/ Send \/ FileFails \/ Killed
  <2>1. UNCHANGED <<live, spent, report>> /\ phase' # "audit"
    BY <1>3 DEF Finish, Route, Send, FileFails, Killed, Over, input, budget
  <2>2. live => report.cost <= spent
    <3>1. report.cost \in Nat /\ spent \in Nat
      BY DEF ReportInv, BudgetInv, Counting
    <3>2. phase = "audit" => OrZero(suggestion.cost) \in Nat
      BY DEF ReportInv, OrZero
    <3> QED
      BY <3>1, <3>2 DEF ReportInv
  <2> QED
    BY <2>1, <2>2 DEF ReportInv
<1>4. CASE Refused
  <2>1. UNCHANGED <<live, spent, report>> /\ phase = "attempt"
    BY <1>4 DEF Refused, input, budget
  <2>2. \/ phase' = "over"
        \/ phase' = "audit" /\ suggestion' = FailureOf(lastError, attempt - 1)
    BY <1>4 DEF Refused, Over
  <2> QED
    BY <2>1, <2>2, FailuresAreSound DEF ReportInv
<1>5. CASE CallFails
  BY <1>5, <1>1 DEF CallFails
<1>6. CASE CallAnswers
  <2>1. phase = "sent"
    BY <1>6 DEF CallAnswers
  <2>2. ASSUME phase' = "audit", NEW cost, Charge(cost), cost = Unknown \/ cost \in Nat,
               suggestion'.cost = IF live THEN cost ELSE 0, Sound(suggestion'),
               UNCHANGED <<input, todo, attempt, filed, report, exit>>
        PROVE  ReportInv'
    <3>1. live' = live /\ report' = report
      BY <2>2 DEF input
    <3> QED
      BY <2>1, <2>2, <3>1, ChargedReport
  <2>3. Configured
    BY DEF BudgetInv
  <2> QED
    BY <1>1, <1>6, <2>1, <2>2, <2>3, AnswerOutcomes
<1>7. CASE File
  <2>1. /\ report' = Counted(suggestion) /\ UNCHANGED <<live, spent>>
        /\ phase = "audit" /\ phase' # "audit"
    BY <1>7 DEF File, Over, input, budget
  <2>2. suggestion.kind \in Kinds /\ OrZero(suggestion.cost) \in Nat
    BY <2>1 DEF ReportInv, Sound, OrZero
  <2>3. /\ report'.kinds = [report.kinds EXCEPT ![suggestion.kind] = @ + 1]
        /\ report'.successful = report.successful + (IF suggestion.kind # "PROVIDER_FAILURE" THEN 1 ELSE 0)
        /\ report'.cost = report.cost + OrZero(suggestion.cost)
    BY <2>1 DEF Counted
  <2>4. report'.kinds \in [Kinds -> Nat] /\ report'.successful = Answered(report'.kinds)
    BY <2>2, <2>3, CountedReport DEF ReportInv
  <2>5. report'.successful \in Nat /\ report'.cost \in Nat
    BY <2>2, <2>3 DEF ReportInv
  <2>6. live => report'.cost <= spent
    BY <2>1, <2>3 DEF ReportInv
  <2> QED
    BY <2>1, <2>4, <2>5, <2>6 DEF ReportInv
<1>8. CASE UNCHANGED vars
  BY <1>8 DEF vars, ReportInv
<1> QED
  BY <1>2, <1>3, <1>4, <1>5, <1>6, <1>7, <1>8 DEF Next, Work

\* A run that goes on or ends by itself has a suggestion for every case it paid for
\* (suggest_for_case).
THEOREM PaidCasesHaveSuggestions == Configured /\ Spec => []PaidCasesAreAnswered
<1>1. Configured /\ Init => PaidInv
  BY DEF Init, PaidInv, FreshWire
<1>2. PaidInv => PaidCasesAreAnswered
  BY DEF PaidInv, PaidCasesAreAnswered
<1> QED
  BY <1>1, <1>2, NextPaid, PTL DEF Spec

\* Advice is about the case it is filed under, and is no decision (parse_provider_payload).
THEOREM AdviceStaysAdvice == Configured /\ Spec => []AdviceIsForItsCase
<1>1. Configured /\ Init => AdviceInv
  BY DEF Init, AdviceInv
<1>2. AdviceInv => AdviceIsForItsCase
  BY DEF AdviceInv, AdviceIsForItsCase, Sound, Kinds, Advice, HumanDecisions
<1> QED
  BY <1>1, <1>2, NextAdvice, PTL DEF Spec

\* The benchmark's counters add up, and it reports no more than was charged
\* (run_semantic_review_benchmark).
THEOREM ReportsAddUp == Configured /\ Spec => []ReportAddsUp
<1>1. Init => ReportInv
  BY ReportStarts
<1>2. BudgetInv /\ ReportInv => ReportAddsUp
  <2> SUFFICES ASSUME BudgetInv, ReportInv
               PROVE  ReportAddsUp
    OBVIOUS
  <2>1. live => report.cost <= spent
    <3>1. report.cost \in Nat /\ spent \in Nat
      BY DEF ReportInv, BudgetInv, Counting
    <3>2. phase = "audit" => OrZero(suggestion.cost) \in Nat
      BY DEF ReportInv, OrZero
    <3> QED
      BY <3>1, <3>2 DEF ReportInv
  <2> QED
    BY <2>1 DEF ReportInv, ReportAddsUp, Answered
<1> QED
  BY <1>1, <1>2, InitBudget, NextBudget, NextReport, PTL DEF Spec

\* The request of a case that was routed can be built (evaluate_routing).
THEOREM SendableCasesAreSent == Spec => []SentWasSendable
<1>1. Init => RouteInv
  BY DEF Init, RouteInv
<1>2. RouteInv => SentWasSendable
  BY EligibleIsBuilt DEF RouteInv, SentWasSendable
<1> QED
  BY <1>1, <1>2, NextRoute, PTL DEF Spec
-----------------------------------------------------------------------------
(* The cases in order *)

\* A case has fewer before it than there are cases, and more than those before it.
LEMMA RanksDiffer ==
  ASSUME NEW S, S \subseteq Nat, IsFiniteSet(S)
  PROVE  /\ \A x \in S : Cardinality({y \in S : y < x}) + 1 \in 1..Cardinality(S)
         /\ \A x, z \in S : z < x => Cardinality({y \in S : y < z}) # Cardinality({y \in S : y < x})
<1> DEFINE B(x) == {y \in S : y < x}
<1>1. ASSUME NEW x \in S
      PROVE  /\ IsFiniteSet(B(x)) /\ Cardinality(B(x)) \in Nat
             /\ Cardinality(B(x)) < Cardinality(S)
  <2>1. B(x) \in SUBSET S /\ B(x) # S
    OBVIOUS
  <2> HIDE DEF B
  <2>2. IsFiniteSet(B(x)) /\ Cardinality(B(x)) <= Cardinality(S) /\ Cardinality(S) # Cardinality(B(x))
    BY <2>1, FS_Subset
  <2>3. Cardinality(B(x)) \in Nat /\ Cardinality(S) \in Nat
    BY <2>2, FS_CardinalityType
  <2> QED  BY <2>2, <2>3
<1>2. ASSUME NEW x \in S, NEW z \in S, z < x
      PROVE  Cardinality(B(z)) # Cardinality(B(x))
  <2>1. B(z) \in SUBSET B(x) /\ B(z) # B(x)
    <3>1. x \in Nat /\ z \in Nat /\ \A y \in S : y \in Nat
      OBVIOUS
    <3>2. \A y \in S : y < z => y < x
      BY <1>2, <3>1
    <3>3. z \in B(x) /\ z \notin B(z)
      BY <1>2, <3>1
    <3> QED  BY <3>2, <3>3
  <2> HIDE DEF B
  <2> QED  BY <1>1, <2>1, FS_Subset
<1>3. ASSUME NEW x \in S PROVE Cardinality(B(x)) + 1 \in 1..Cardinality(S)
  <2> HIDE DEF B
  <2>1. Cardinality(S) \in Nat
    BY FS_CardinalityType
  <2> QED  BY <1>1, <2>1
<1> QED
  BY <1>2, <1>3

\* There is a case of every rank.
LEMMA RanksAreTaken ==
  ASSUME NEW S, S \subseteq Nat, IsFiniteSet(S)
  PROVE  \A n \in 1..Cardinality(S) : \E x \in S : Cardinality({y \in S : y < x}) = n - 1
<1> DEFINE rank(x) == Cardinality({y \in S : y < x})
           f == [x \in S |-> rank(x) + 1]
           N == Cardinality(S)
<1>1. \A x \in S : rank(x) + 1 \in 1..N
  BY RanksDiffer
<1>2. N \in Nat /\ \A x \in S : rank(x) \in Nat
  <2>1. ASSUME NEW x \in S PROVE rank(x) \in Nat
    <3>1. IsFiniteSet({y \in S : y < x})
      BY FS_Subset
    <3> QED  BY <3>1, FS_CardinalityType
  <2> QED  BY <2>1, FS_CardinalityType
<1>8. \A x, z \in S : z < x => rank(z) # rank(x)
  BY RanksDiffer, Zenon
<1> HIDE DEF rank, N
<1>3. \A x, z \in S : x # z => rank(x) # rank(z)
  <2>1. \A x, z \in S : x # z => x < z \/ z < x
    OBVIOUS
  <2> QED  BY <1>8, <2>1
<1>4. f \in Injection(S, 1..N)
  BY <1>1, <1>2, <1>3 DEF Injection, IsInjective
<1>5. IsFiniteSet(1..N) /\ Cardinality(1..N) = N
  BY <1>2, FS_Interval
<1>6. f \in Surjection(S, 1..N)
  BY <1>4, <1>5, FS_Injection DEF N
<1>7. ASSUME NEW n \in 1..N PROVE \E x \in S : rank(x) = n - 1
  <2>1. PICK x \in S : f[x] = n
    BY <1>6 DEF Surjection
  <2> QED  BY <1>2, <2>1
<1> QED
  BY <1>7 DEF rank, N

\* Cases in the order of their ids are a sequence of cases, and one of them is the first.
LEMMA SortedIsSeq ==
  ASSUME NEW S, S \subseteq Nat, IsFiniteSet(S)
  PROVE  SortedBy(S, <) \in Seq(S) /\ (S # {} => Min(S) \in S)
<1> DEFINE N == Cardinality(S)
           s == [n \in 1..N |-> CHOOSE x \in S : Cardinality({y \in S : y < x}) = n - 1]
<1>1. N \in Nat
  BY FS_CardinalityType
<1>2. SortedBy(S, <) = s
  BY DEF SortedBy
<1>3. \A n \in 1..N : s[n] \in S
  <2> TAKE n \in 1..N
  <2>1. \E x \in S : Cardinality({y \in S : y < x}) = n - 1
    BY RanksAreTaken
  <2> QED  BY <2>1, Zenon
<1>4. s \in [1..N -> S]
  <2> HIDE DEF N
  <2>1. s = [n \in 1..N |-> s[n]]
    OBVIOUS
  <2> HIDE DEF s
  <2> QED  BY <1>3, <2>1
<1>5. ASSUME S # {} PROVE Min(S) \in S
  <2>1. 1 \in 1..N
    BY <1>1, <1>5, FS_EmptySet
  <2>2. PICK x \in S : Cardinality({y \in S : y < x}) = 1 - 1
    BY <2>1, RanksAreTaken
  <2>3. IsFiniteSet({y \in S : y < x})
    BY FS_Subset
  <2>4. {y \in S : y < x} = {}
    BY <2>2, <2>3, FS_EmptySet
  <2>5. \A y \in S : x =< y
    BY <2>4
  <2> QED  BY <2>5, Zenon DEF Min
<1> HIDE DEF N, s
<1>6. s \in Seq(S)
  BY <1>1, <1>4
<1>7. SortedBy(S, <) \in Seq(S)
  BY <1>2, <1>6, Zenon
<1> QED
  BY <1>5, <1>7, Zenon

\* The cases a benchmark asks about are cases.
LEMMA SampleIsSeq ==
  ASSUME Populated, NEW f, NEW onLine, NEW same \in SUBSET Case, NEW different \in SUBSET Case
  PROVE  SampleOf(f, onLine, same, different) \in Seq(Case)
<1>1. ASSUME NEW cases \in SUBSET Case PROVE Eligible(f, cases) \in Seq(Case)
  <2> DEFINE S == {c \in cases : EvaluateRouting(f[c], TRUE) = "eligible"}
  <2>1. S \in SUBSET Case
    OBVIOUS
  <2>2. Eligible(f, cases) = SortedBy(S, <)
    BY DEF Eligible
  <2> HIDE DEF S
  <2>3. S \subseteq Nat /\ IsFiniteSet(S)
    BY <2>1, FS_Subset DEF Populated, LimitAssumption
  <2>4. SortedBy(S, <) \in Seq(S)
    BY <2>3, SortedIsSeq
  <2>5. Seq(S) \subseteq Seq(Case)
    BY <2>1
  <2> QED  BY <2>2, <2>4, <2>5
<1>2. MaxCases \in Nat
  BY DEF Populated, LimitAssumption
<1>3. ASSUME NEW s \in Seq(Case) PROVE FirstOf(s, MaxCases) \in Seq(Case)
  BY <1>2, <1>3 DEF FirstOf
<1>4. ASSUME NEW a \in Seq(Case), NEW b \in Seq(Case) PROVE Alternating(a, b) \in Seq(Case)
  <2> DEFINE n == IF Len(a) < Len(b) THEN Len(a) ELSE Len(b)
             g(k) == IF k > 2 * n THEN IF Len(a) > n THEN a[k - n] ELSE b[k - n]
                     ELSE IF k % 2 = 1 THEN a[(k + 1) \div 2] ELSE b[k \div 2]
             N == Len(a) + Len(b)
  <2>1. /\ Len(a) \in Nat /\ Len(b) \in Nat /\ n \in Nat /\ N \in Nat /\ n <= Len(a) /\ n <= Len(b)
        /\ Len(a) = n \/ Len(b) = n
        /\ \A k \in 1..Len(a) : a[k] \in Case
        /\ \A k \in 1..Len(b) : b[k] \in Case
    OBVIOUS
  <2> HIDE DEF n
  <2>2. ASSUME NEW k \in 1..N PROVE g(k) \in Case
    <3>1. CASE k > 2 * n
      <4>1. CASE Len(a) > n
        <5>1. k - n \in 1..Len(a)
          BY <2>1, <3>1, <4>1
        <5> QED  BY <2>1, <3>1, <4>1, <5>1
      <4>2. CASE ~ (Len(a) > n)
        <5>1. k - n \in 1..Len(b)
          BY <2>1, <3>1, <4>2
        <5> QED  BY <2>1, <3>1, <4>2, <5>1
      <4> QED  BY <4>1, <4>2
    <3>2. CASE ~ (k > 2 * n) /\ k % 2 = 1
      <4>1. (k + 1) \div 2 \in 1..Len(a)
        BY <2>1, <3>2
      <4> QED  BY <2>1, <3>2, <4>1
    <3>3. CASE ~ (k > 2 * n) /\ k % 2 # 1
      <4>1. k \div 2 \in 1..Len(b)
        BY <2>1, <3>3
      <4> QED  BY <2>1, <3>3, <4>1
    <3> QED  BY <3>1, <3>2, <3>3
  <2>3. Alternating(a, b) = [k \in 1..N |-> g(k)]
    BY DEF Alternating, n
  <2> HIDE DEF g, N
  <2> QED  BY <2>1, <2>2, <2>3
<1>5. StratifiedSample(Eligible(f, same), Eligible(f, different), MaxCases) \in Seq(Case)
  <2>1. <<>> \in Seq(Case)
    OBVIOUS
  <2> QED  BY <1>1, <1>3, <1>4, <2>1 DEF StratifiedSample
<1>6. FirstOf(Eligible(f, Case), MaxCases) \in Seq(Case)
  BY <1>1, <1>3
<1> QED
  BY <1>5, <1>6 DEF SampleOf

-----------------------------------------------------------------------------
(* The types of a run *)

\* The errors of an attempt.
Errors == {"Timeout", "RateLimit", "Provider", "Client", "Configuration", "IdentityMismatch", "InvalidOutput"}

\* TypeOK, less the counts that BudgetInv and ReportInv have; where a case is under way
\* there is one.
TypeInv ==
  /\ Populated
  /\ phase \in {"idle", "judge", "attempt", "sent", "audit", "over"}
  /\ command \in {"suggest", "benchmark"}
  /\ live \in BOOLEAN /\ enabled \in BOOLEAN /\ runs \in Nat
  /\ facts \in [Case -> CaseFacts]
  /\ todo \in Seq(Case)
  /\ attempt \in 1..(MaxRetries + 1)
  /\ suggestion \in Suggestion
  /\ filed \subseteq Suggestion
  /\ exit \in {"none", "0", "3", "4", "5", "killed"}
  /\ wire.asked \subseteq Case
  /\ lastError \in Errors \cup {"none"}
  /\ phase \in {"attempt", "sent", "audit"} => todo # <<>>

\* The next case is one, and so are those after it.
LEMMA CurrentIsCase ==
  ASSUME NEW s \in Seq(Case), s # <<>>
  PROVE  Head(s) \in Case /\ Tail(s) \in Seq(Case)
  OBVIOUS

\* A failure has the type of a suggestion.
LEMMA FailuresAreTyped ==
  ASSUME TypeInv, todo # <<>>, NEW error \in Errors, NEW n \in 0..(MaxRetries + 1)
  PROVE  FailureOf(error, n) \in Suggestion
<1>1. Current \in Case
  BY CurrentIsCase DEF TypeInv, Current
<1>2. FailureCode(error) \in SemanticFailureCode
  BY DEF FailureCode, Errors, SemanticFailureCode
<1>3. Unknown \in Int /\ "PROVIDER_FAILURE" \in Kinds
  BY DEF Unknown, Kinds
<1> QED
  BY <1>1, <1>2, <1>3 DEF FailureOf, Suggestion

\* What follows an error is typed.
LEMMA ErrorIsTyped ==
  ASSUME TypeInv, phase = "sent", NEW error \in Errors, AfterError(error), wire'.asked = wire.asked
  PROVE  TypeInv'
<1>1. todo # <<>> /\ MaxRetries \in Nat
  BY DEF TypeInv, Populated, LimitAssumption
<1>2. /\ UNCHANGED <<input, todo, filed, exit>> /\ lastError' = error
      /\ \/ error \in RETRYABLE /\ attempt <= MaxRetries
            /\ phase' = "attempt" /\ attempt' = attempt + 1 /\ suggestion' = suggestion
         \/ phase' = "audit" /\ suggestion' = FailureOf(error, attempt) /\ attempt' = attempt
  BY DEF AfterError
<1>3. FailureOf(error, attempt) \in Suggestion
  BY <1>1, FailuresAreTyped DEF TypeInv
<1>4. attempt' \in 1..(MaxRetries + 1) /\ suggestion' \in Suggestion /\ phase' \in {"attempt", "audit"}
  BY <1>1, <1>2, <1>3 DEF TypeInv
<1> QED
  BY <1>1, <1>2, <1>4 DEF TypeInv, input

\* An answer is typed.
LEMMA AnswerIsTyped ==
  ASSUME BudgetInv, TypeInv, CallAnswers
  PROVE  TypeInv'
<1>1. PICK answer \in Answers, used \in Used :
        /\ Billed(IF live THEN Real(used) ELSE 0, "answer")
        /\ LET verdict == ParsePayload(answer, Current)
           IN \/ verdict # "accepted" /\ AfterError(verdict)
              \/ \E usage \in {used, NotReported} :
                   /\ verdict = "accepted"
                   /\ Charge(EstimateCost(usage))
                   /\ phase' = "audit" /\ lastError' = "none"
                   /\ suggestion' = [case |-> Current, kind |-> answer.suggestion, attempts |-> attempt,
                                     code |-> "none", about |-> answer.about,
                                     cost |-> IF live THEN EstimateCost(usage) ELSE 0]
                   /\ UNCHANGED <<input, todo, attempt, filed, report, exit>>
  BY DEF CallAnswers
<1>2. phase = "sent" /\ todo # <<>> /\ MaxRetries \in Nat /\ Configured
  BY DEF CallAnswers, TypeInv, Populated, LimitAssumption, BudgetInv
<1>3. wire'.asked = wire.asked
  BY <1>1 DEF Billed, BudgetInv, Counting
<1>4. CASE ParsePayload(answer, Current) # "accepted" /\ AfterError(ParsePayload(answer, Current))
  <2>1. ParsePayload(answer, Current) \in Errors
    BY <1>4 DEF ParsePayload, Errors
  <2> QED  BY <1>2, <1>3, <1>4, <2>1, ErrorIsTyped
<1>5. ASSUME NEW usage \in {used, NotReported}, ParsePayload(answer, Current) = "accepted",
             phase' = "audit", lastError' = "none",
             suggestion' = [case |-> Current, kind |-> answer.suggestion, attempts |-> attempt,
                            code |-> "none", about |-> answer.about,
                            cost |-> IF live THEN EstimateCost(usage) ELSE 0],
             UNCHANGED <<input, todo, attempt, filed, report, exit>>
      PROVE  TypeInv'
  <2>1. EstimateCost(NotReported) = Unknown
    BY DEF NotReported, EstimateCost, UsageAvailable, Unknown
  <2>2. EstimateCost(used) \in Nat
    BY <1>2, BillsAreReserved
  <2>3. EstimateCost(usage) \in Int
    BY <2>1, <2>2 DEF Unknown
  <2>4. Current \in Case
    BY <1>2, CurrentIsCase DEF TypeInv, Current
  <2>5. answer.about \in Case /\ answer.suggestion \in Kinds
    BY <1>5, <2>4, AcceptedIsAdvice DEF Kinds
  <2>6. attempt \in 0..(MaxRetries + 1) /\ (IF live THEN EstimateCost(usage) ELSE 0) \in Int
    BY <1>2, <2>3 DEF TypeInv
  <2>7. suggestion' \in Suggestion
    BY <1>5, <2>4, <2>5, <2>6 DEF Suggestion
  <2> QED  BY <1>2, <1>3, <1>5, <2>7 DEF TypeInv, input
<1> QED
  BY <1>1, <1>4, <1>5

\* Every step keeps the types.
LEMMA NextTyped == BudgetInv /\ TypeInv /\ [Next]_vars => TypeInv'
<1> SUFFICES ASSUME BudgetInv, TypeInv, [Next]_vars
             PROVE  TypeInv'
  OBVIOUS
<1>1. CASE Start
  <2>1. todo' \in Seq(Case)
    <3>1. CASE \E c \in Case : todo' = <<c>>
      BY <3>1
    <3>2. CASE \E same \in SUBSET Case : \E different \in SUBSET (Case \ same) :
                 todo' = SampleOf(facts', live', same, different)
      <4>1. PICK same \in SUBSET Case, different \in SUBSET Case :
              todo' = SampleOf(facts', live', same, different)
        BY <3>2
      <4> QED  BY <4>1, SampleIsSeq DEF TypeInv
    <3> QED  BY <1>1, <3>1, <3>2 DEF Start
  <2>2. /\ facts' \in [Case -> CaseFacts] /\ live' \in BOOLEAN /\ enabled' \in BOOLEAN /\ runs' \in Nat
        /\ command' \in {"suggest", "benchmark"} /\ UNCHANGED <<suggestion, filed>>
        /\ phase' \in {"over", "judge"} /\ exit' \in {"none", "5"}
        /\ attempt' = 1 /\ lastError' = "none" /\ wire'.asked = {}
    BY <1>1 DEF Start, TypeInv, Populated, FreshWire
  <2>3. 1 \in 1..(MaxRetries + 1)
    BY DEF TypeInv, Populated, LimitAssumption
  <2> QED  BY <2>1, <2>2, <2>3 DEF TypeInv
<1>2. CASE Route
  <2>1. todo # <<>> /\ Tail(todo) \in Seq(Case) /\ 1 \in 1..(MaxRetries + 1)
    BY <1>2, CurrentIsCase DEF Route, TypeInv, Populated, LimitAssumption
  <2>2. wire'.asked = wire.asked
    BY <1>2 DEF Route, BudgetInv, Counting
  <2> QED  BY <1>2, <2>1, <2>2 DEF Route, Over, TypeInv, input
<1>3. CASE Refused
  <2>1. todo # <<>> /\ attempt - 1 \in 0..(MaxRetries + 1)
    BY <1>3 DEF Refused, TypeInv, Populated, LimitAssumption
  <2>2. suggestion' \in Suggestion
    BY <1>3, <2>1, FailuresAreTyped DEF Refused, TypeInv
  <2>3. /\ phase' \in {"audit", "over"} /\ exit' \in {exit, "5"}
        /\ UNCHANGED <<input, todo, attempt, lastError, filed, wire>>
    BY <1>3 DEF Refused, Over
  <2> QED  BY <2>1, <2>2, <2>3 DEF TypeInv, input
<1>4. CASE Send
  <2>1. todo # <<>> /\ Current \in Case
    BY <1>4, CurrentIsCase DEF Send, TypeInv, Current
  <2>2. wire'.asked = wire.asked \cup {Current}
    BY <1>4 DEF Send, BudgetInv, Counting
  <2> QED  BY <1>4, <2>1, <2>2 DEF Send, TypeInv, input
<1>5. CASE CallFails
  <2>1. PICK failure \in Failures, amount \in {0, IF live THEN Reserved ELSE 0} :
          AfterError(ErrorOf(failure)) /\ Billed(amount, failure)
    BY <1>5 DEF CallFails
  <2>2. ErrorOf(failure) \in Errors
    BY DEF ErrorOf, Errors, Failures
  <2>3. wire'.asked = wire.asked /\ phase = "sent"
    BY <1>5, <2>1 DEF CallFails, Billed, BudgetInv, Counting
  <2> QED  BY <2>1, <2>2, <2>3, ErrorIsTyped
<1>6. CASE CallAnswers
  BY <1>6, AnswerIsTyped
<1>7. CASE File
  <2>1. todo # <<>> /\ Tail(todo) \in Seq(Case)
    BY <1>7, CurrentIsCase DEF File, TypeInv
  <2>2. wire'.asked = wire.asked
    BY <1>7 DEF File, BudgetInv, Counting
  <2>3. filed' \subseteq Suggestion
    BY <1>7 DEF File, TypeInv, Others
  <2> QED  BY <1>7, <2>1, <2>2, <2>3 DEF File, Over, TypeInv, input
<1>8. CASE FileFails
  <2>1. filed' \subseteq Suggestion
    BY <1>8 DEF FileFails, TypeInv, Others
  <2> QED  BY <1>8, <2>1 DEF FileFails, Over, TypeInv, input
<1>9. CASE Finish \/ Killed
  BY <1>9 DEF Finish, Killed, Over, TypeInv, input
<1>10. CASE UNCHANGED vars
  BY <1>10 DEF vars, TypeInv
<1> QED
  BY <1>1, <1>2, <1>3, <1>4, <1>5, <1>6, <1>7, <1>8, <1>9, <1>10 DEF Next, Work

\* A run has the fields of a run: what is asked about are cases in an order, a suggestion
\* has a number of attempts that a run may make and a code that failures have, and the
\* counts are counts (service.py, semantic_review_benchmark.py).
THEOREM RunsAreTyped == Configured /\ Populated /\ Spec => []TypeOK
<1>1. Configured /\ Populated /\ Init => TypeInv
  <2> SUFFICES ASSUME Configured, Populated, Init PROVE TypeInv
    OBVIOUS
  <2>1. MaxRetries \in Nat /\ Case \subseteq Nat /\ Case # {} /\ IsFiniteSet(Case)
    BY DEF Populated, LimitAssumption
  <2>2. Min(Case) \in Case
    BY <2>1, SortedIsSeq
  <2>3. AnySuggestion \in Suggestion
    <3>1. 0 \in 0..(MaxRetries + 1) /\ "PROVIDER_FAILURE" \in Kinds
      BY <2>1 DEF Kinds
    <3> QED  BY <2>2, <3>1 DEF AnySuggestion, Suggestion
  <2>4. <<>> \in Seq(Case) /\ 1 \in 1..(MaxRetries + 1)
    BY <2>1
  <2> QED  BY <2>3, <2>4 DEF Init, TypeInv, FreshWire, Populated
<1>2. Init => ReportInv
  BY ReportStarts
<1>3. BudgetInv /\ ReportInv /\ TypeInv => TypeOK
  BY DEF BudgetInv, Counting, ReportInv, TypeInv, TypeOK
<1> QED
  BY <1>1, <1>2, <1>3, InitBudget, NextBudget, NextReport, NextTyped, PTL DEF Spec

=============================================================================
