-------------------------- MODULE SemanticReview ---------------------------
(***************************************************************************)
(* Runs of the semantic-review command line, one after the other: suggest  *)
(* for one case, or a benchmark over a sample.  A run shares one budget    *)
(* over its cases; every attempt asks the budget, calls the provider and   *)
(* is charged; the suggestion, or the failure that stands for it, is       *)
(* written to the audit directory, which outlives the run.                 *)
(*                                                                         *)
(* A reply is whatever the provider may send or fail with, and what it     *)
(* really bills may be more than the code learns.  An operator commented   *)
(* "Broken variant" is a plausible bug of the one that follows it; no      *)
(* specification uses it.                                                  *)
(***************************************************************************)
EXTENDS SemanticRouting, Sorting

CONSTANTS
  Case,             \* the review cases, numbered in the order of their ids
  Facts,            \* the facts a case may have
  MaxRetries,       \* config.max_retries
  MaxLiveCalls,     \* config.max_live_calls
  MaxLiveUsd,       \* config.max_live_usd
  MaxCases,         \* --max-cases
  MaxPrompt,        \* the most tokens the provider may count in a request
  MaxRuns           \* bound on the runs

LimitAssumption ==
  /\ Case \subseteq Nat /\ MaxRetries \in Nat /\ MaxLiveCalls \in Nat \ {0}
  /\ MaxLiveUsd \in Nat \ {0} /\ MaxCases \in Nat /\ MaxPrompt \in Nat /\ MaxRuns \in Nat

VARIABLES
  phase,       \* where the run is
  command,     \* "suggest" or "benchmark"
  live,        \* provider.live
  enabled,     \* semantic review is enabled and there is an API key
  facts,       \* the report or data set that the run loaded
  todo,        \* the cases still to be asked about
  attempt,     \* the attempt of the current case
  lastError,   \* the error of the attempt before, or "none"
  suggestion,  \* the suggestion about to be written
  calls,       \* LiveBudget.calls
  spent,       \* LiveBudget.spent_usd
  filed,       \* the files of the audit directory
  report,      \* SemanticReviewBenchmarkResult
  exit,        \* the exit code
  runs,        \* the runs so far
  wire         \* history of the run: requests sent, what they cost, the cases they were about

vars == <<phase, command, live, enabled, facts, todo, attempt, lastError, suggestion, calls, spent, filed,
          report, exit, runs, wire>>
budget == <<calls, spent>>
input == <<command, live, enabled, facts, runs>>

Kinds == Advice \cup {"PROVIDER_FAILURE"}
Suggestion == [case : Case, kind : Kinds, attempts : 0..(MaxRetries + 1),
               code : SemanticFailureCode \cup {"none"}, cost : Int, about : Case]
FreshReport == [kinds |-> [k \in Kinds |-> 0], successful |-> 0, cost |-> 0]
FreshWire == [sent |-> 0, billed |-> 0, asked |-> {}, answered |-> {}, event |-> "none"]

TypeOK ==
  /\ phase \in {"idle", "judge", "attempt", "sent", "audit", "over"}
  /\ command \in {"suggest", "benchmark"}
  /\ live \in BOOLEAN /\ enabled \in BOOLEAN /\ runs \in Nat
  /\ facts \in [Case -> CaseFacts]
  /\ todo \in Seq(Case)
  /\ attempt \in 1..(MaxRetries + 1)
  /\ suggestion \in Suggestion
  /\ calls \in Nat /\ spent \in Nat
  /\ filed \subseteq Suggestion
  /\ report.kinds \in [Kinds -> Nat] /\ report.cost \in Nat /\ report.successful \in Nat
  /\ exit \in {"none", "0", "3", "4", "5", "killed"}
  /\ wire.sent \in Nat /\ wire.billed \in Nat /\ wire.asked \subseteq Case

Current == Head(todo)
AnySuggestion == [case |-> Min(Case), kind |-> "PROVIDER_FAILURE", attempts |-> 0, code |-> "none",
                  cost |-> 0, about |-> Min(Case)]

Init ==
  /\ phase = "idle" /\ command = "suggest" /\ live = FALSE /\ enabled = FALSE /\ runs = 0
  /\ facts \in [Case -> Facts]
  /\ todo = <<>> /\ attempt = 1 /\ lastError = "none" /\ suggestion = AnySuggestion
  /\ calls = 0 /\ spent = 0 /\ filed = {} /\ report = FreshReport /\ exit = "none"
  /\ wire = FreshWire

---------------------------------------------------------------------------
(* The budget of a run.                                                    *)

\* assert_can_call
CanCall == calls < MaxLiveCalls /\ spent + Reserved <= MaxLiveUsd

\* Broken variant: an attempt of unknown cost is free.
ChargeKnown(cost) ==
  IF live THEN calls' = calls + 1 /\ spent' = spent + OrZero(cost) ELSE UNCHANGED budget

\* consume_attempt; only a live provider has a budget.
Charge(cost) ==
  IF live
  THEN calls' = calls + 1 /\ spent' = spent + (IF cost = Unknown THEN Reserved ELSE cost)
  ELSE UNCHANGED budget

---------------------------------------------------------------------------
(* A run starts.                                                           *)

\* Those of the given cases that may be asked about, in the order of their ids.
Eligible(f, cases) == SortedBy({c \in cases : EvaluateRouting(f[c], TRUE) = "eligible"}, <)

\* The cases a benchmark asks about, given the cases whose records are of one
\* person and of two.
SampleOf(f, onLine, same, different) ==
  IF onLine
  THEN StratifiedSample(Eligible(f, same), Eligible(f, different), MaxCases)
  ELSE FirstOf(Eligible(f, Case), MaxCases)

\* A live run is refused at once unless the configuration permits it.
Start ==
  /\ phase \in {"idle", "over"} /\ runs < MaxRuns
  /\ runs' = runs + 1 /\ live' \in BOOLEAN /\ enabled' \in BOOLEAN /\ facts' \in [Case -> Facts]
  /\ IF live' /\ ~enabled' THEN phase' = "over" /\ exit' = "5" ELSE phase' = "judge" /\ exit' = "none"
  /\ \/ command' = "suggest" /\ \E c \in Case : todo' = <<c>>
     \/ /\ command' = "benchmark"
        /\ \E same \in SUBSET Case : \E different \in SUBSET (Case \ same) :
             todo' = SampleOf(facts', live', same, different)
  /\ calls' = 0 /\ spent' = 0 /\ report' = FreshReport /\ wire' = FreshWire
  /\ attempt' = 1 /\ lastError' = "none"
  /\ UNCHANGED <<suggestion, filed>>

---------------------------------------------------------------------------
(* One case: routing, then attempts.                                       *)

Over(code) == phase' = "over" /\ exit' = code

Finish ==
  /\ phase = "judge" /\ todo = <<>>
  /\ Over("0")
  /\ UNCHANGED <<input, todo, attempt, lastError, suggestion, budget, filed, report, wire>>

Route ==
  /\ phase = "judge" /\ todo # <<>>
  /\ IF EvaluateRouting(facts[Current], live => enabled) = "eligible"
     THEN phase' = "attempt" /\ attempt' = 1 /\ lastError' = "none"
          /\ wire' = [wire EXCEPT !.event = "none"] /\ UNCHANGED <<todo, exit>>
     ELSE IF command = "suggest"
          THEN Over("4") /\ UNCHANGED <<todo, attempt, lastError, wire>>
          ELSE phase' = "judge" /\ todo' = Tail(todo) /\ UNCHANGED <<attempt, lastError, exit, wire>>
  /\ UNCHANGED <<input, suggestion, budget, filed, report>>

\* _failure_suggestion
FailureOf(error, attempts) ==
  [case |-> Current, kind |-> "PROVIDER_FAILURE", attempts |-> attempts, code |-> FailureCode(error),
   cost |-> IF live THEN Unknown ELSE 0, about |-> Current]

\* The budget refuses: before the first attempt the run ends, between two
\* the failure of the one before stands.
Refused ==
  /\ phase = "attempt" /\ live /\ ~CanCall
  /\ IF lastError # "none"
     THEN phase' = "audit" /\ suggestion' = FailureOf(lastError, attempt - 1) /\ UNCHANGED exit
     ELSE Over("5") /\ UNCHANGED suggestion
  /\ UNCHANGED <<input, todo, attempt, lastError, budget, filed, report, wire>>

Send ==
  /\ phase = "attempt" /\ (live => CanCall)
  /\ phase' = "sent"
  /\ wire' = [wire EXCEPT !.sent = @ + (IF live THEN 1 ELSE 0), !.asked = @ \cup {Current}]
  /\ UNCHANGED <<input, todo, attempt, lastError, suggestion, budget, filed, report, exit>>

Billed(amount, event) == wire' = [wire EXCEPT !.billed = @ + amount, !.event = event]

\* Broken variant: a retry is not counted as an attempt.
AfterErrorUncounted(error) ==
  /\ Charge(Unknown) /\ lastError' = error
  /\ IF error \in RETRYABLE /\ attempt <= MaxRetries
     THEN phase' = "attempt" /\ UNCHANGED <<suggestion, attempt>>
     ELSE phase' = "audit" /\ suggestion' = FailureOf(error, attempt) /\ UNCHANGED attempt
  /\ UNCHANGED <<input, todo, filed, report, exit>>

\* suggest_for_case after an exception of the provider.
AfterError(error) ==
  /\ Charge(Unknown)
  /\ lastError' = error
  /\ IF error \in RETRYABLE /\ attempt <= MaxRetries
     THEN phase' = "attempt" /\ attempt' = attempt + 1 /\ UNCHANGED suggestion
     ELSE phase' = "audit" /\ suggestion' = FailureOf(error, attempt) /\ UNCHANGED attempt
  /\ UNCHANGED <<input, todo, filed, report, exit>>

\* A call that failed may have been billed all the same.
CallFails ==
  /\ phase = "sent"
  /\ \E failure \in Failures, amount \in {0, IF live THEN Reserved ELSE 0} :
       AfterError(ErrorOf(failure)) /\ Billed(amount, failure)

Answers == [object : BOOLEAN, about : Case, swapped : BOOLEAN, suggestion : Advice \cup {"MATCH"}]
Used == [input : 1..MaxPrompt, output : {MaxOutputTokens}, cached : {0, MaxPrompt},
         reasoning : {Unknown, MaxOutputTokens}]
NotReported == [input |-> Unknown, output |-> Unknown, cached |-> Unknown, reasoning |-> Unknown]

Real(u) == (u.input - CachedTokens(u)) * InputRate + CachedTokens(u) * CachedRate + u.output * OutputRate

\* The model answers; the usage it reports is what it bills, or it reports none.
CallAnswers ==
  /\ phase = "sent"
  /\ \E answer \in Answers, used \in Used :
       /\ Billed(IF live THEN Real(used) ELSE 0, "answer")
       /\ LET verdict == ParsePayload(answer, Current)
          IN \/ verdict # "accepted" /\ AfterError(verdict)
             \/ \E usage \in {used, NotReported} :
                  /\ verdict = "accepted"
                  /\ Charge(EstimateCost(usage))
                  /\ phase' = "audit" /\ lastError' = "none"
                  /\ suggestion' = [case |-> Current, kind |-> answer.suggestion, attempts |-> attempt,
                                    code |-> "none", about |-> answer.about,
                                    cost |-> IF live THEN EstimateCost(usage) ELSE 0]
                  /\ UNCHANGED <<input, todo, attempt, filed, report, exit>>

---------------------------------------------------------------------------
(* The suggestion is written and counted.                                  *)

\* stable_suggestion_id: cost and latency are not part of it.
SuggestionId(s) == <<s.case, s.kind, s.attempts>>
Others(s) == {f \in filed : SuggestionId(f) # SuggestionId(s)}

Counted(s) ==
  [kinds |-> [report.kinds EXCEPT ![s.kind] = @ + 1],
   successful |-> report.successful + (IF s.kind # "PROVIDER_FAILURE" THEN 1 ELSE 0),
   cost |-> report.cost + OrZero(s.cost)]

File ==
  /\ phase = "audit"
  /\ filed' = Others(suggestion) \cup {suggestion}
  /\ report' = Counted(suggestion)
  /\ wire' = [wire EXCEPT !.answered = @ \cup {Current}]
  /\ todo' = Tail(todo)
  /\ IF command = "suggest" THEN Over("0") ELSE phase' = "judge" /\ UNCHANGED exit
  /\ UNCHANGED <<input, attempt, lastError, suggestion, budget>>

\* The file cannot be written; one of the same id may be left torn.
FileFails ==
  /\ phase = "audit"
  /\ filed' \in {filed, Others(suggestion)}
  /\ Over("3")
  /\ UNCHANGED <<input, todo, attempt, lastError, suggestion, budget, report, wire>>

Killed ==
  /\ phase \in {"judge", "attempt", "sent", "audit"}
  /\ Over("killed")
  /\ UNCHANGED <<input, todo, attempt, lastError, suggestion, budget, filed, report, wire>>

Work == Finish \/ Route \/ Refused \/ Send \/ CallFails \/ CallAnswers \/ File \/ FileFails
Next == Start \/ Work \/ Killed

Spec == Init /\ [][Next]_vars

---------------------------------------------------------------------------
(* What holds.                                                             *)

Waiting == IF phase = "sent" \/ exit = "killed" THEN 1 ELSE 0
Stopped == phase = "over" /\ exit \in {"killed", "3"}

\* No attempt is free: every request that left is counted, whatever came back, and
\* the budget never believes it has spent less than the provider has billed
\* (consume_attempt).
NothingIsFree ==
  live => /\ calls + Waiting >= wire.sent
          /\ phase = "attempt" => calls = wire.sent
          /\ wire.billed <= spent

\* The caps of a run hold for what went over the wire, retries included, and for
\* what the provider bills, provided it counts no more tokens in a prompt than
\* max_input_tokens (assert_can_call, conservative_call_cost_usd).
CapsHold == live => wire.sent <= MaxLiveCalls /\ wire.billed <= MaxLiveUsd

\* A run that goes on to another case, or ends by itself, has a suggestion for every
\* case it paid for: a budget that runs out between two attempts does not lose the
\* failure of the first (suggest_for_case).
PaidCasesAreAnswered ==
  phase \in {"judge", "over"} /\ ~Stopped => wire.asked \subseteq wire.answered

\* What is filed as advice was said about exactly that case, and is never a decision
\* that only a person may take (parse_provider_payload).
AdviceIsForItsCase ==
  \A s \in filed : s.about = s.case /\ s.kind \notin HumanDecisions

\* The counters of the benchmark add up, and the cost it reports is never more than
\* what the budget was charged (run_semantic_review_benchmark).
ReportAddsUp ==
  /\ report.successful = report.kinds["SUGGEST_MATCH"] + report.kinds["SUGGEST_NO_MATCH"]
                           + report.kinds["INSUFFICIENT_EVIDENCE"]
  /\ live => report.cost <= spent

\* Only an eligible case is ever sent, and no request of it is refused for its size
\* after it was routed (evaluate_routing against build_semantic_review_request).
SentWasSendable == phase = "sent" => BuildRequest(facts[Current]) = "built"

\* Only what may be transient is retried: after an answer, a refusal (401, 403 or
\* another 4xx but 429) or an exception that is not the SDK's no second request goes out
\* for the case; an exception of the SDK that names no error status counts as an
\* outage and is retried (RETRYABLE, _map_openai_error).
OnlyTransientIsRetried ==
  [][phase = "attempt" /\ phase' = "sent" =>
       wire.event \in {"none", "timeout", "connection", "rate_limit", "status_5xx", "sdk"}]_vars

=============================================================================
