----------------------------- MODULE MCCommands -----------------------------
(***************************************************************************)
(* The storage of one process and the commands of an operator, explored    *)
(* one subject at a time: nested units of work (ReviewDatabase), runs of   *)
(* the semantic-review command (SemanticReview), once over two cases and   *)
(* once as two runs in a row, the formulas of its budget and sample        *)
(* (SemanticFormulas), two commands of the human-review command line at    *)
(* once (OperatorCommands) and the verification of a queue                 *)
(* (QueueIntegrity).  part says which; the state of the others does not    *)
(* move.                                                                   *)
(***************************************************************************)
EXTENDS ReviewDatabase, TLC

CONSTANTS InputRate, CachedRate, OutputRate, MaxInputTokens, MaxOutputTokens, MaxRetries,
          MaxLiveCalls, MaxLiveUsd, MaxCases, MaxPrompt, MaxCount, MaxTokens,
          Operator, NoFile, NoContext, NoRow, NoResolution, NoReport,
          Jobs, Stores, Queues

VARIABLES
  part,
  phase, command, live, enabled, facts, todo, attempt, lastError, suggestion, calls, spent,
  filed, tally, exit, runs, wire,
  sampled, usage,
  schema, rows, active, queue, staged, final, job, crowded, littered,
  inspected, verdict

semanticVars == <<phase, command, live, enabled, facts, todo, attempt, lastError, suggestion, calls,
                  spent, filed, tally, exit, runs, wire>>
formulaVars == <<sampled, usage>>
commandVars == <<schema, rows, active, queue, staged, final, job, crowded, littered>>
verifyVars == <<inspected, verdict>>

\* A case that may be sent, and one for every reason that it may not.
Plain == [known |-> TRUE, decision |-> "REVIEW", status |-> "PENDING", evidence |-> TRUE,
          authorized |-> TRUE, records |-> TRUE, leaks |-> FALSE, tokens |-> "fit"]
AllFacts == {Plain, [Plain EXCEPT !.known = FALSE], [Plain EXCEPT !.decision = "AUTO_MATCH"],
             [Plain EXCEPT !.status = "DEFERRED"], [Plain EXCEPT !.status = "MATCH"],
             [Plain EXCEPT !.evidence = FALSE], [Plain EXCEPT !.authorized = FALSE],
             [Plain EXCEPT !.records = FALSE], [Plain EXCEPT !.leaks = TRUE],
             [Plain EXCEPT !.tokens = "large"]}

Two == INSTANCE SemanticReview WITH Case <- {1, 2}, Facts <- AllFacts, MaxRuns <- 1, report <- tally
One == INSTANCE SemanticReview WITH Case <- {1}, Facts <- {Plain}, MaxRuns <- 2, report <- tally
Formulas == INSTANCE SemanticFormulas
Commands == INSTANCE OperatorCommands
Integrity == INSTANCE QueueIntegrity WITH stored <- inspected, report <- verdict

ASSUME ReviewAssumption == Two!LimitAssumption /\ One!LimitAssumption /\ Two!RateAssumption

\* The provider counts no more tokens in a prompt than the code did, see Two!CapsHold, and
\* the formulas are asked about no tokens too.
ASSUME TokenAssumption == MaxPrompt <= MaxInputTokens /\ MaxTokens \in Nat /\ MaxCount \in Nat

\* What a run of generate may offer: the same queue grown by a case, other records,
\* and no records at all.
Flow(context, cases, covered) ==
  [context |-> context, cases |-> cases, covered |-> covered, records |-> covered]
Grown == {Flow("k", {1}, TRUE), Flow("k", {1, 2}, TRUE)}
Usual == Flow("k", {1}, TRUE)
Bare == Flow("k", {}, FALSE)

Kinds == {"create-organization", "create-user", "create-review-queue", "add-membership",
          "list-organizations", "verify-queue", "generate", "list", "inspect", "resolve"}
Job(kind, w) == [kind |-> kind, workflow |-> w, usable |-> TRUE, readable |-> TRUE, case |-> 1]

MCJobs ==
  {Job("register", w) : w \in Grown \cup {Flow("l", {3}, TRUE), Bare}}
  \cup {Job(k, Usual) : k \in Kinds}
  \cup {[Job(k, Usual) EXCEPT !.usable = FALSE] : k \in {"register", "create-user"}}
  \cup {[Job("generate", Usual) EXCEPT !.readable = FALSE], Job("generate", Bare),
        [Job("inspect", Usual) EXCEPT !.case = 3]}

Store(tables, provisioned, q, file) ==
  [schema |-> tables, rows |-> provisioned, active |-> TRUE, queue |-> q, final |-> file]
Provisioned == {"organization", "queue", "user"}
NewQueue == [context |-> NoContext, cases |-> {}, decided |-> {}]
UsedQueue == [context |-> "k", cases |-> {1}, decided |-> {}]

MCStores ==
  {Store("none", {}, NewQueue, NoFile), Store("old", Provisioned, NewQueue, NoFile),
   Store("current", Provisioned, NewQueue, NoFile),
   Store("current", Provisioned, UsedQueue, [workflow |-> Usual, whole |-> TRUE, by |-> "register"])}

ASSUME CommandAssumption == Commands!JobAssumption /\ Commands!StoreAssumption

\* Two cases, each stored or not, in any state, and up to two events about them ...
Outcomes == {"MATCH", "NO_MATCH"}

CaseRow(status, declared, resolution) == [status |-> status, declared |-> declared, resolution |-> resolution]
Decision(d, n) == [decision |-> d, ordinal |-> n]

CaseRows == {CaseRow(s, s, r) : s \in Outcomes, r \in {Decision(d, n) : d \in Outcomes, n \in 1..2}
                                                        \cup {NoResolution}}
            \cup {CaseRow("PENDING", "PENDING", NoResolution), NoRow}

EventRow(c, kind, n) == [case |-> c, type |-> kind, ordinal |-> n, faithful |-> TRUE]

SomeEvents == {EventRow(c, k, n) : c \in {1, 2}, k \in Outcomes, n \in 1..2}
              \cup {EventRow(c, "SUGGESTED", n) : c \in {1, 2}, n \in 0..1}
              \cup {EventRow(c, "MATCH", 0) : c \in {1, 2}}

StoredQueue(cs, es) ==
  [supported |-> TRUE, exists |-> TRUE, owned |-> TRUE, sound |-> TRUE, helpers |-> TRUE, index |-> "global",
   context |-> "whole", advice |-> {}, cases |-> cs, events |-> es]

\* ... and a sound queue with whatever else may be wrong around it.
Clean == StoredQueue(<<CaseRow("MATCH", "MATCH", Decision("MATCH", 2)),
                       CaseRow("NO_MATCH", "NO_MATCH", Decision("NO_MATCH", 1))>>,
                     <<EventRow(2, "NO_MATCH", 1), EventRow(1, "MATCH", 2)>>)

MCQueues ==
  {StoredQueue(cs, es) : cs \in [{1, 2} -> CaseRows], es \in UNION {[1..n -> SomeEvents] : n \in 0..2}}
  \cup {[Clean EXCEPT !.supported = a, !.exists = b, !.owned = c, !.sound = d, !.helpers = e] :
           a, b, c, d, e \in BOOLEAN}
  \cup {[Clean EXCEPT !.index = i, !.context = c, !.advice = a, !.events[1].faithful = f,
                   !.cases[1].declared = d] :
           i \in {"global", "weak", "missing"}, c \in {"none", "empty", "whole"},
           a \in SUBSET {1, 3}, f \in BOOLEAN, d \in Outcomes \cup {"unreadable"}}
  \cup {[StoredQueue(<<NoRow, NoRow>>, <<>>) EXCEPT !.context = c] : c \in {"none", "empty", "whole"}}

ASSUME VerifyAssumption == Integrity!QueueAssumption

\* The parts that do not run start in one state.
MCInit ==
  /\ part \in {"database", "sample", "rerun", "formulas", "commands", "verify"}
  /\ Init
  /\ IF part = "sample" THEN Two!Init ELSE One!Init
  /\ Formulas!Init
  /\ part # "formulas" => /\ sampled = [matches |-> 0, others |-> 0, max |-> 0]
                          /\ usage = [input |-> 0, cached |-> 0, output |-> 0, reasoning |-> 0]
  /\ Commands!Init
  /\ part # "commands" => schema = "none"
  /\ IF part = "verify" THEN Integrity!Init ELSE inspected = Clean /\ verdict = NoReport

\* Only the operator may stop: after the last run that is explored.
Rest == phase = "over" /\ UNCHANGED semanticVars
Done == (\A r \in Operator : ~Commands!Working(r)) /\ UNCHANGED commandVars
Verified == verdict # NoReport /\ UNCHANGED verifyVars

storageVars == <<vars, semanticVars, formulaVars>>
lineVars == <<commandVars, verifyVars>>

MCNext ==
  /\ UNCHANGED part
  /\ \/ part = "database" /\ Next /\ UNCHANGED <<semanticVars, formulaVars, lineVars>>
     \/ part = "sample" /\ (Two!Next \/ Rest) /\ UNCHANGED <<vars, formulaVars, lineVars>>
     \/ part = "rerun" /\ (One!Next \/ Rest) /\ UNCHANGED <<vars, formulaVars, lineVars>>
     \/ part = "formulas" /\ Formulas!Next /\ UNCHANGED <<vars, semanticVars, lineVars>>
     \/ part = "commands" /\ (Commands!Next \/ Done) /\ UNCHANGED <<storageVars, verifyVars>>
     \/ part = "verify" /\ (Integrity!Next \/ Verified) /\ UNCHANGED <<storageVars, commandVars>>

\* A run of the command is a sequential program, and its HTTP client times out.
MCSpec ==
  /\ MCInit /\ [][MCNext]_<<part, storageVars, lineVars>>
  /\ WF_semanticVars(part = "rerun" /\ One!Work)

----------------------------------------------------------------------------
\* The budget of a live run holds: every request is charged, at no less than it is
\* billed and no more than its reservation, the caps hold for what left the process,
\* and what was paid for has its suggestion (budget.py, cost.py, suggest_for_case).
BudgetHolds ==
  /\ Two!NothingIsFree /\ Two!CapsHold
  /\ part = "sample" => Two!PaidCasesAreAnswered
  /\ Formulas!CostIsBounded /\ Formulas!ReasoningIsNotBilledTwice
\* The fields of a run have their types; what is filed is advice about its own case,
\* only an eligible case is sent, the benchmark's counters add up, and its sample takes
\* the classes in turn (schema.py, policy.py, semantic_review_benchmark.py).
SuggestionsAreSound ==
  /\ IF part = "sample" THEN Two!TypeOK ELSE One!TypeOK
  /\ Two!AdviceIsForItsCase /\ Two!ReportAddsUp
  /\ part = "sample" => Two!SentWasSendable
  /\ Formulas!SampleIsBalanced
\* Only an attempt that timed out, broke off, was told to wait or failed in the server
\* or, without an error status, in the SDK is repeated (service.RETRYABLE).
OnlyTransientIsRetried == Two!OnlyTransientIsRetried
\* The command line tells the truth: a report that a registering run published describes
\* a registered workflow, the exit codes and the counts say what was stored, nothing
\* staged is left behind, and a queue is reported clean exactly when only decisions have
\* written it (manage_human_review.py, bootstrap.py, reporting.py, integrity.py).
CommandsAreHonest ==
  /\ part = "commands" => /\ Commands!TypeOK /\ Commands!PublishedIsRegistered /\ Commands!ExitCodesAreTrue
                          /\ Commands!NothingStagedIsLeft /\ Commands!CountsAreTrue
  /\ part = "verify" => Integrity!TypeOK /\ Integrity!VerdictIsRight
\* A run ends, whatever the provider does (service.suggest_for_case).
RunsEnd == part = "rerun" /\ phase = "judge" ~> phase = "over"
=============================================================================
