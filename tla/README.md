# A TLA+ model of the AI Data Quality Platform

The platform takes supplier records from files to canonical entities: ingestion, schema mapping,
validation, normalization, entity resolution, **human review** of the pairs the resolver could
not decide, and survivorship. A review queue is a SQLite file shared by API workers, operator
commands and, through the API, the browsers of reviewers. This project models the whole of it,
most finely where several people and processes change shared state and a mistake is permanent.

- [Inventory](#inventory): every part of the system, its state, operations and hazards.
- [Modules](#modules): which module models what, and how it corresponds to the code.
- [Runs](#runs), [Properties](#properties), [Findings](#findings), [Proofs](#proofs),
  [Limits](#limits), [Not modelled](#not-modelled), [Plan](#plan).

To check a run: `tlc -config QueueResolve.cfg MCReviewQueue.tla`. To check a proof:
`tlapm ReviewQueueProofs.tla`. `PROJECT.json` lists the runs, the lines behind each definition,
the hazards, the theorems, and for each property a mutant of the code that breaks it: an operator
commented "Broken variant", which stands before the definition it replaces.

## Inventory

How the parts meet: the file pipeline (`ingestion` → `schema_mapping` → `validation` →
`normalization` → `entity_resolution`) is a chain of pure functions inside one process.
`entity_resolution` labels pairs AUTO_MATCH, REVIEW or NO_MATCH; `human_review` makes one case
of each REVIEW pair; `scripts/manage_human_review.py` registers the cases and the graph they
were derived from (records, AUTO_MATCH edges, severe-conflict pairs, config path) in a SQLite
file. From then on processes share only that file: the API worker(s) and operator commands.
`survivorship` merges records by AUTO_MATCH edges and recorded decisions. The frontend reads
cases and posts decisions with the version it has seen. The semantic review asks a language
model for advice on a case, under a budget, and never decides.

| Part (source) | State | Operations | What is hard | Correct when |
|---|---|---|---|---|
| Human-review domain (`human_review/`) | none of its own: a workflow value with its outcomes | `resolve_case`, authorization of a MATCH, `build_review_aware_clusters`, `review_excluded_record_ids` | two different loops compute the component that is judged and the cluster that is merged; the result depends on the order of edges and on the history of decisions | no entity joins a NO_MATCH pair; unresolved records stay out; no record lost or doubled; an accepted MATCH takes effect |
| Review queue service (`review_application/service.py`, `history.py`) | config cache | `resolve_case`: load, authorize, compare-and-swap, append, verify, in one transaction | decisions on *different* cases bear on each other, so a per-case version is not enough | each MATCH was judged against exactly the decisions before it; acknowledged means durable; one event per decision |
| Review persistence (`review_persistence/sqlite/`) | tables: context, cases, events, suggestions | `register_workflow`, `apply_resolution`, `record_semantic_suggestion`, bundle load, lists and counts | replays, regenerated workflows, conflicting contexts, crashes, suspended organizations | history is append-only and always reconstructs; registration is all or nothing and never resets a case |
| Transaction manager (`database.py`) | connection, `_depth`, `_writable`, `_failed` | `transaction`, `read_transaction` (nested), `_commit`, `_abort`, `initialize` | nested failure swallowed by a caller; COMMIT or ROLLBACK that fails; BEGIN that times out; two processes creating one file | a unit is durable whole or not at all; the shared connection is never left in a transaction |
| Identity and sessions (`identity/`) | users, verifiers, sessions with idle and absolute expiry | login, resolve, touch, revoke, set password, provision | touch races revoke; the clock is read before the lock is awaited; equality at the bound; a login that upgrades a verifier races a new password | whoever is served had a live session; a refused login leaves no trace; no account is half made |
| Tenant access (`review_api/tenancy.py`, `tenant_repository.py`) | organizations, memberships, queue ownership | `authorize`, provisioning | three reads, no transaction around them and the write they permit | nobody learns of or writes into a queue of an organization he does not belong to |
| Review API (`review_api/`) | process-wide repositories | list, get, events, suggestions, resolve, auth routes | total and page are two reads; error mapping | a refused decision changes nothing; the page agrees with its total |
| Workflow bootstrap, operator CLI (`review_application/bootstrap.py`, `scripts/`, `human_review/reporting.py`) | staged and published report files | generate, register, resolve, list, verify, provisioning commands | crash between staging, registering and publishing; counts read outside the lock | what is reported, published and returned as exit status is what was stored |
| Semantic review (`semantic_review/`, `scripts/suggest_human_review.py`) | budget counters, audit directory | suggest and benchmark, with retries and caps | retries against caps on calls and on money; a call that timed out may have been billed | no call beyond a cap; a failed attempt is charged; only transient failures are repeated |
| Integrity verification (`integrity.py`) | none | read-only checks of a queue | must accept every store the writers produce and no other | clean exactly when the next load succeeds on a store that only decisions wrote |
| Entity resolution (`entity_resolution/`) | none | blocking, evidence, scoring, decision, guarded clustering | whether an AUTO_MATCH may join two clusters depends on the edges before it | each pair decided once; no AUTO_MATCH missed or dropped without a reason; the order of rows is immaterial |
| Survivorship (`survivorship/`) | none | group, merge, choose values | groups follow the reviewed clusters; values disagree | no record lost or doubled; a value is traced to a member and the sound one is taken |
| Review workspace (`frontend/src`) | request status, selection, refresh counter, one POST in flight, offset | open, refresh, page, resolve, reconcile | late answers of superseded requests; a selection that moves during a POST; an offset that falls off the end | what is shown belongs to the selected case; what was recorded is not offered again |
| Ingestion, mapping (`ingestion/`, `schema_mapping/`) | none | parse CSV and XLSX, detect delimiter and quotes, map columns | row accounting, ambiguous headers, collisions | every row is parsed or rejected once; no cell changes its column; nothing is guessed |
| Validation, normalization, record quality | none | per-record rules, eligibility, summaries | which errors forbid normalizing a field; each rule changes the length and the letters the next one sees | no record lost; a new error, a damaged name and work for a second run only where the property says so |
| Evaluation, dataset generation | none | offline measurement | budget of the semantic benchmark | see semantic review; the rest is not modelled |

## Modules

### The review graph and the abstract queue

**ReviewGraph**: union-find components (`constraints.py`), the projected component a MATCH is
authorized on (`authorization.py`), `build_review_aware_clusters`, the exclusion of unresolved
records (`integration.py`) and the grouping of survivorship, as operators over partitions of the
records: a union-find forest is the set of its classes, and a loop over edges is a fold in the
order the code walks them, because the order matters. Scores, evidence and wording are left out;
a record is a number (the code compares ids only for order).

**ReviewLedger**, the abstract specification of a queue: `context`, `registered`, `ledger`, and
two actions. `Register` stores a workflow whole, `Decide` judges a decision against all decisions
before it and records it for good, in one step. This is what the queue promises its users. The
properties of the domain (what survivorship makes of a queue as it stands) are stated here.

### The queue and its processes

**ReviewQueue** is the detailed system. `disk` is the committed store, `lock` the single write
lock of BEGIN IMMEDIATE, and each process has a step (`pc`), its request, the uncommitted `image`
of the store, the `bundle` it authorized against, its `draft` row and event, and the answer it
will give.

| Code | Action |
|---|---|
| route receives a request | `SubmitDecision`, `SubmitRegistration`, `SubmitSuggestion` |
| `BEGIN IMMEDIATE`, `busy_timeout` | `Begin`, `Busy` |
| `load_workflow_bundle`, `reconstruct_history` | `LoadBundle` |
| `_locate`, `_assert_not_stale`, `ReviewWorkflow.resolve_case` with the MATCH authorization | `Authorize` (by `Verdict`) |
| `apply_resolution`: conditional UPDATE, event INSERT, read-back | `CompareAndSwap`, `AppendEvent`, `VerifyEvent` |
| `register_workflow`: context, then cases | `StoreContext`, `RegisterCases` |
| `record_semantic_suggestion` | `RecordSuggestion`, `AppendSuggestionEvent` |
| COMMIT, any exception, process death | `Commit`, `Fail`, `Crash` |

Between any two of these steps every other process may act, time out, or die. The version a
client sends is read when it submits, and may be stale when the request is served. Timestamps,
notes and digests are left out. Two actions stand for code outside `src/`: nothing in the
repository changes an organization's status or calls `record_semantic_suggestion` yet, although
both are written for it.

**ReviewDatabase**: one process's `ReviewDatabase`. `blocks` is the nesting of `with` statements
in the running program, `depth`, `writable` and `failed` what the object remembers. A block may
raise at any point, an outer block may swallow what escaped from a nested one, BEGIN, COMMIT and
ROLLBACK may fail, SQLite may unwind the transaction by itself. `ReviewQueue` uses one outermost
unit of work per request and relies on what this module shows.

**OperatorCommands**: the commands of `manage_human_review.py`, run by two operators against one
file: opening it (schema creation, refused versions), provisioning rows, `generate` with its
staged report, registration and publication, `verify-queue`, reading a report. A step is one
SELECT, one transaction or one file operation; a process may die before each of them. Writing a
report is one step: two runs that share a directory and interleave inside one file are recorded
as `crowded`, and the properties about files except such a directory.

**QueueIntegrity**: every finding of `integrity.py` as a predicate over stored rows, which may be
anything a hand or another build left, next to what the next load (`reconstruct_history`, the row
mappers) does with the same rows.

### The server

**Sessions**: creation, resolution, renewal and revocation, each SELECT and each transaction a
step. A request reads the clock before it waits for the write lock, so two renewals may be written
in the opposite order of their instants. Expiry is judged at the second: idle expiry is capped by
the absolute one. **Credentials**: login with the upgrade of an old verifier
(`needs_rehash`), password change, provisioning; a verifier is the password it accepts and whether
the current parameters made it. **ReviewApi**: one request to a queue route: origin, principal,
`authorize` as its three reads, the reads or the decision of the route, and the one error envelope
(`Handled` walks the exception classes as Starlette does). Organizations, memberships, queues,
cases and the config file change between any two steps, a process restarts and loses its cache.
A decision is one step here; what happens inside it is ReviewQueue.

### The semantic review

**SemanticRouting**: the pure decisions: may a case be sent, how is a failure classified, is an
answer accepted, what may a call cost, which cases are sampled (the loop that takes from two lists
in turn is told by what it puts in each place). A failure is one of the outcomes
`_map_openai_error` tells apart, among them `sdk`, an exception of the `openai` module or with
"API" in its name that carries no status, which is retried, and `foreign`, any other exception,
which is not. **SemanticReview**: runs of the
command line, one after the other: every attempt asks the budget, calls, is charged; the audit
directory outlives a run. What the provider really bills may be more than the code learns (a call
that timed out). **SemanticFormulas**: cost and sample over all small inputs, compared with what
they are for.

### The browser

**KeyedReads** is the discipline that `useCaseResource` and `useReviewCases` share, as operators
on what one hook remembers: a render with a new key aborts the GET before and sends another; an
answer is recorded only while its GET is the latest and not aborted; the status is derived from
the keys of what was recorded. **CaseResource** lets a reviewer select and refresh, the server
change, and answers arrive in any order, with a gap between a render and its effect.
**ReviewWorkspace** composes two such reads (detail and history of the selected case) with the
resolution panel and its one non-idempotent POST: it may be lost on its way, or be served long
after the browser has given it up, while another reviewer decides the same cases. **QueuePaging**
composes one with the filter and offset of `App` and the recovery from a page beyond the end.

### The file pipeline

Each of these is a function of its input; the state is one input and its result, and the runs
enumerate the inputs.

| Module | Stage | What the data are |
|---|---|---|
| Ingestion | `parse_file`: delimiter, header, quotes, limits, verdict on every row, for CSV and XLSX | a cell is empty, white or a text; a line knows its delimiters and whether a quote opens or strays |
| SchemaMapping | profile of the first `PatternSampleLimit` values, evidence, score, decision, collisions, `apply_mapping_plan` | a header is its likeness to each field, a cell its kind |
| RecordRules, RecordQuality | validation rules, eligibility, normalizers in their order; the pipeline of a file | a value is what it names, its written form, its length trimmed, collapsed and composed, the characters each of these takes away, and the places where a legal suffix is found |
| EntityResolution | blocking, evidence, conflicts, score with the shipped weights, decision, guarded clustering | a value is a number whose tens tell which values are alike |
| Survivorship | groups, singletons, ranking of every field's candidates, conflicts, provenance | a value of RecordRules with its signs of corruption and its length |

**Sorting** is `sorted(...)` of Python by its result, for keys without a tie: the n-th element is
the one with n - 1 before it. A sort whose keys may tie is stable in the code, so its order is the
key and then the position. The pipeline and the semantic review use it instead of the library's
`SortSeq` and `SelectSeq`, which the provers know only by name; where a table of decisions had
overlapping guards it is an IF chain, in the order of the code's early returns.

`survivorship.yaml` ranks every field by quality first; the legacy rule "longest" is kept under
`LongestFields = {"address"}` so that its code is covered.

### The compositions

A run explores several modules that do not share state side by side: a module instantiates
them, and its variable `part` says which one a behaviour is about while the state of the others
stands still. **Pipeline** holds the six stages from the file to the entity (**MCPipeline** gives
their inputs), **MCCommands** the storage and the commands, **MCServer** the server,
**MCFrontend** the browser. This costs nothing in interleavings, since `part` never changes, and
gives one reading of what a whole layer promises. **MCReviewLedger** and **MCReviewQueue** give
the review modules their graphs and workflows.

## Runs

| Run | Question | Size |
|---|---|---|
| LedgerGraphs (MCPipeline) | Does a record reach its canonical entity, with its values, merged only with what it may be merged with, in whatever order the input comes? | every graph of at most 3 AUTO_MATCH edges and 1 severe pair on 4 records with 3 decisions, and one queue of 5 records; files of up to 4 lines; sheets of 2 columns and columns of 7 or 9 rows under a sample of 7; every written form of every field with lengths around its limits, spare characters and up to 2 suffixes; batches of up to 4 rows over 11 people; resolutions of 3 records |
| LedgerConflict, LedgerLostMatch, LedgerContradiction, LedgerEdgeOrder | Does the code keep four statements of its documentation? No: see Findings | one small graph each |
| DatabaseUnits (MCCommands) | Is a unit of work atomic and the connection usable whatever fails, do the commands tell the truth, does the budget hold, does every run end? | 3 levels of nesting, 3 writes; 2 operators, 4 stores, 19 jobs; 2 cases and 3 calls, or 2 runs over 1 case; token counts up to 3 |
| QueueResolve (MCReviewQueue) | Do racing reviewers leave one history, in which every MATCH was judged against what precedes it? | 2 reviewers, 1 operator, 3 cases on a triangle of records |
| QueueShared (MCReviewQueue) | The same while workflows are registered again, differ, conflict, suggestions are replayed and the organization is suspended | 1 reviewer, 1 operator, 5 workflows, 3 suggestions |
| QueueLiveness (MCReviewQueue) | Does every request end? | 2 reviewers, 1 operator, 1 case |
| CaseReads (MCFrontend) | Can a panel go back in time, offer a decision twice, strand the reviewer, or wait for nothing? | 2 cases, 2 refreshes, 4 GETs, 2 versions; 3 cases on pages of 1 with 3 GETs; 1 POST and 2 rounds of reads |
| CaseStickyFailure | Does the status say what a comment says? No: see Findings | as CaseReads |
| ServerRequests (MCServer) | Is anybody served by a dead session, does a refused login leave a trace, does an outsider learn or decide anything? | 2 processes on 1 session and 4 instants; 2 accounts with one address and 2 passwords; 2 organizations, 1 queue, 1 user; 2 cases and 2 editions of the config |

**Bounds.** Four records are the smallest graph in which a NO_MATCH, an AUTO_MATCH chain and a
severe pair are all different pairs with one left to decide; three decisions are enough for one
to change the component of the next and a third to be judged on it. The five-record graphs of
LedgerConflict and LedgerLostMatch are the smallest counterexamples that were found, and the second
is among the graphs of LedgerGraphs too: without it the run would not tell whether a NO_MATCH and
the guard disturb a later MATCH. A triangle of records is the
smallest queue where a decision on one case changes the verdict on two others; a chain under an
AUTO_MATCH edge does it with two cases. Two writers suffice for every race on one lock: a third
sees the store only through what one of them committed. Three nested blocks make an outermost, a
middle one that both joins and is joined, and an innermost. Four GETs let a reviewer leave a
case, come back and refresh, with one answer of each still on its way. One POST is enough for a
lost answer and a second reviewer; two rounds of reads make the reconciliation after it race the
reads before it. An idle bound of 2 and an absolute one of 3 on a clock of 4 let a session be
renewed once before, at and after each bound. Two processes make every race on one session row.
Three live calls over two cases with one retry let the cap stop a retry, a second case, or
nothing. Pages of one over three cases let the offset fall off by one and by two pages. Seven values
are the fewest between the two pattern thresholds of schema mapping, so the sample
(`PatternSampleLimit`, 1000 in `ingestion.yaml`) is 7 here, and a longer column has values that
nobody looked at. A name of 1 or 2 letters, an address of 2 to 5, and texts of 199 or 200 and of
499 or 500 characters lie on both sides of each limit, before and after tidying. Four rows of a batch make two
clusters that a third pair would join.

Named bounds: `Offered` (decisions reviewers take in a run), `Suspendable`, `MaxDecisions`,
`MaxNesting`, `MaxRefresh`, `MaxReads`, `PageReads`, `ScreenReads`, `MaxPosts`, `MaxVersion`,
`MaxCases`, `MaxTime`, `MaxDay`, `MaxConfig`, `MaxPrompt`, `MaxCount`, `MaxTokens`, `MaxRuns`; the
constraint `RegisterFirst` keeps QueueResolve to histories where registration is over when
decisions begin, and QueueShared has no such constraint. A program that swallowed a failure writes
no more in that unit (`Write` in ReviewDatabase): no caller in the code swallows one. Symmetry is
used for reviewers, server processes and accounts, which the specifications only compare, and in
no run that checks liveness.

**Deadlock** is checked for DatabaseUnits, QueueLiveness and ServerRequests. A queue whose cases
are settled may really stop, and so may a reviewer or a stage of the pipeline, so the other runs
do not check it.

**Fairness.** QueueLiveness: weak fairness of `Proceed(w)` for each process. A handler runs
straight through without waiting for anything but the write lock, and for that no longer than
`busy_timeout`, so a process that can take its next step takes it, unless it fails or dies.
`Fail`, `Crash` and the arrival of requests are not fair. CaseReads: React runs the effects of
a render, and the promise of `fetch` settles, with an answer or with the error of a connection
that broke; the model does not cover a server that never answers on a connection kept open,
for which the client sets no timeout. What a reviewer does is not fair. DatabaseUnits: a run of
the semantic command is a sequential program whose HTTP client times out.

## Properties

- `ImplementsLedger` (QueueResolve, QueueShared): ReviewQueue, seen through
  `context <- disk.context`, `registered`, `ledger` (decisions in sequence order), is a
  behaviour of ReviewLedger: all the steps of a transaction are one judged decision.
- `HistoryReconstructs`: whatever was committed, the next load succeeds. A store that broke it
  would block its queue for ever, since every decision loads the history first.
- `EveryDecisionHasItsEvent`, `AcknowledgedIsDurable`, `HistoryIsFinal`,
  `SuggestionsRecordedOnce`, `SuspendedQueueGainsNothing`, `RequestsEnd`: see their comments.
- `FilesAreReadWhole` (ingestion, mapping), `RecordsAreOnlyRepaired` (validation, normalization),
  `AutoMatchesAreGrouped` (entity resolution), `MergesAreAllowed` and `AcceptedMatchTakesEffect`
  (review), `EntitiesKeepTheirRecords` (review, survivorship): the pipeline, one or two for a stage.
  Each is a conjunction of the properties that its module states with their comments.
  `NothingIsGuessed` speaks of the sample of a column. What `RecordsAreOnlyRepaired` excepts is what
  the code does (see Findings): `FallsShort`, a name with a suffix found inside it, a company of
  several suffixes, an e-mail that composes in lower case only; TLC finds each exception needed.
- `OnlyTransientIsRetried` (DatabaseUnits): what is transient is what `_map_openai_error` makes
  retryable, an exception of the SDK without a status included.
- `AllOrNothing`, `NextUnitCanBegin`, `SnapshotStaysSnapshot`, `DurableOnlyAtTheEnd`: the
  transaction manager. `CommandsAreHonest`: publication, exit codes, counts, verification.
  `BudgetHolds`, `SuggestionsAreSound`, `OnlyTransientIsRetried`, `RunsEnd`: the semantic review.
- `ServedWasLive`, `SessionsOnlyAge`, `LoginsAreHonest`, `AnswersAreForMembers`,
  `DecidedByReviewers`, `AnswersAreConsistent`: the server. A check followed by its use in another
  statement cannot promise "is a member now", so the properties say "was, at some moment of that
  request", which is what a client that races a revocation may rely on.
- `NeverOlder`, `ReadySinceRefresh`, `SpinnerHasItsRequest`, `DecisionsAreOfferedOnce`,
  `SentAsShown`, `PagesRecover`, `ScreensSettle`: the browser.

## Findings

1. **LedgerConflict.** The authorization projects AUTO_MATCH edges without the severe-conflict
   guard of the clustering. A NO_MATCH changes which edge the projection drops, a MATCH is then
   authorized on a smaller component than the one survivorship merges, and a severe conflict is
   merged. Without any NO_MATCH the two loops agree (`NoConflictWithoutNoMatch`).
2. **LedgerLostMatch.** The same difference loses a MATCH that was authorized and recorded: the
   projection keeps an AUTO_MATCH edge that the guard keeps out of the clusters, and drops another
   because of a NO_MATCH, which the clusters keep; the MATCH is judged on a component that holds no
   NO_MATCH, the clustering meets it in one that does, and skips it without a word. This came out of
   a proof: four records are too few for it, TLC had found nothing, and the proof of
   `AcceptedMatchTakesEffect` did not go through until the property said `GuardAgrees`.
3. **LedgerContradiction.** Only a MATCH is compared with the recorded decisions. A NO_MATCH
   between two records already joined by MATCHes is recorded, and every later MATCH of the queue
   is refused.
4. **LedgerEdgeOrder.** The same MATCH on the same graph is authorized or refused depending on
   the order in which the AUTO_MATCH edges are stored, which a comment calls immaterial.
5. **CaseStickyFailure.** A failed read leaves its key behind; when the reviewer leaves the case
   and returns, the key is in use again, and the case stays `failed` although it was read.

Met while modelling, and told by a guard, an exception or a comment of a property, without a run
of their own:

- Server. A password set while a login is upgrading the old verifier is overwritten by the old
  one (`authentication.py:190`): the account then accepts the password that was replaced. A
  renewal reads the clock and then waits for the write lock, and its condition compares with the
  instant it read: a session whose idle bound passes during that wait is extended after all
  (`session_service.py:176`, against "an expired session is never revived",
  session_repository.py:15). A locked database raises the driver's own exception, which has no
  handler and is answered 500, where the table of errors has 503 for storage that cannot be
  reached (`errors.py:177`). The count and the page of a filtered list may disagree when a case is
  decided between them (`review_cases.py:132`). Two workers may authorize with two editions of the
  config file, since each caches its own for life (`service.py:290`).
- Semantic review. The cap on money counts what is reported: a prompt that the provider counts
  larger than `max_input_tokens` is billed above it (`budget.py:30`, hence the proviso of
  `CapsHold`). An unknown exception of the SDK is retried, whether or not it is transient as the
  comment of its class says (`openai_provider.py:161-165`, `errors.py:30`).
- Browser. A return to the key of what is still held sends a request that no status mentions. The
  outcome of a decision whose reviewer moved on while the POST was out is told on no
  screen, not even when it failed (`useResolveReviewCase.ts:123`, by intention); the case's own
  reads are what a return shows.
- Normalization. Collapsing and composing shorten a text, and the least lengths are judged before
  and after: the address `A   1` has five characters and is valid, `A 1` has three, and the record
  leaves the pipeline with an `address.min_length` error it did not come with
  (`rules/address.py:25`). The suffix rule looks for its keys as strings, not as words: `TEKNO
  ASLAN` becomes `TEKNO A.Ş.LAN` and `ATLAS` becomes `ATLA.Ş.` (`rules/company.py:23-28`). It stops
  after the first key that is found, so a company with several suffixes changes again in a second
  run, and so does an e-mail whose domain holds a capital with an accent that composes in lower case
  only (`J̌` stays apart, `ǰ` does not), against README.md:518 and
  tests/normalization/test_idempotency.py.
- Mapping. A column is typed and its patterns are counted on its first 1000 non-empty values
  (`profiler.py:38-41`): 1000 e-mails followed by any other text are AUTO_MAPped to email.
- Pipeline. Two rows with one `source_record_id` silently become one
  (`entity_resolution/engine.py`, against "zero silent row loss", README.md:402). Blocking
  can miss an AUTO_MATCH on an e-mail address of one character. A column headed "phone" that holds
  e-mail addresses is AUTO_MAPped to phone. An open quote in the header swallows the whole file, a
  stray one may reject an innocent last row, and one ragged row among the first five lines turns a
  file of semicolons into one column (`csv_parser.py:97`, `:139`, `:210`). The byte order mark
  stays in the first header. The row accounting of a report is computed from what it is compared
  with (`models.py:66`). Short rows are rejected in CSV and padded in XLSX; the row limit counts
  rejected rows in CSV only.
- Command line. Two `generate --register-review-queue` runs that share a report directory share
  its staging file, so one may publish the report of the other (`manage_human_review.py:701`).
  "No case was written" may be false when the queue holds cases that the workflow does not offer
  or another run registers meanwhile (`bootstrap.py:115`). A report without entity records is
  written and then refused by its reader. A driver error ends in a traceback with exit status 1,
  which is also the status of a usage error. A queue that was created and never registered gets
  exit 7 from `verify-queue`, and a PENDING row that carries a resolution is not noticed.

## Proofs

All of them for every value of the constants: any number of processes, cases, workflows, records,
edges, suggestions, writes or sessions, and files, sheets, batches, ledgers and lists of any length. What they assume
of the constants is named in the modules (`QueueAssumption`, `WorkflowAssumption`,
`PipelineAssumption`, `PolicyAssumption`, `CommandAssumption`, ...) and says no more than that the
sets are what their names say: finitely many case ids, pairs of a workflow's own records, clusters
that are disjoint, a page size above zero; of the inputs of the stages that a file is a sequence of
lines of numbered cells, where a line of several cells names what divides them (`FileAssumption`),
that the columns of a sheet are equally long and likeness is a percentage (`SheetAssumption`), that
a sample has at least one value (`SampleAssumption`), that a value is the record of some text
(`FilesAssumption`, `WellWritten`), and
that ids and values of a batch are numbers, no two ids needing to differ (`BatchAssumption`).
TLC evaluates each of them in a run.

- **ReviewQueueProofs**, in three parts.
  - *Types*: `TypeCorrect`. One lemma per action. Each action is one of a few moves (rolls back,
    goes on to another step), so most lemmas reduce to `RollbackKeepsType` and `GoOnKeepsType`.
  - *History*: six theorems. `HistoryReconstructs` is not inductive: nothing in it says what an
    uncommitted image holds. `HistoryInv` adds, for each process, (a) it is inside a transaction
    exactly while it holds the lock, so the disk is what it read at BEGIN; (b) for each step, how far
    its image has moved from the disk; (c) at the last step the image is a sound store that extends
    the disk by one whole request. It also strengthens the history itself: no settled case lacks its
    event and sequence numbers are one to one (`Complete`), a version is 1 plus the number of
    decisions (`VersionsFit`), and a suggestion and the event that tells of it are one to one
    (`Advised`). The lemmas `DecisionExtends`, `RegistrationExtends` and `SuggestionExtends` carry
    the argument: one more settled case with the next sequence keeps the numbering contiguous.
  - *Refinement*: `QueueImplementsLedger`. A MATCH is judged at `Authorize` and becomes visible at
    `Commit`, several steps later; `CarriesOn` keeps the judgement, a statement about the disk,
    through the steps between. It survives because only the holder of the lock moves the disk. At
    `Commit` the image is the disk with one decision, with one whole registration, or with the same
    cases, and the lemmas about the ledger show that the first appends exactly one entry.
- **StageProofs**: the stages before the review. Each is a function of its input, so its invariant
  says only that the state is an input and what the stage makes of it; the work is to say what that
  is without the folds, sorts and choices that compute it.
  - *Folds and sorts.* A fold of the library is the value of a recursive function over the subsets of
    its set; `FoldExists` shows, by induction on their size, that the function exists, and
    a fold over a sequence is one over its prefixes. The place of a member in a sorted list is one
    more than the members before it (`SortsInto`).
  - *Entity resolution.* An AUTO_MATCH has evidence of a strong identity, which is a field the two
    records agree in, and the value there is a blocking key of both (`StrongSharesKey`), so that
    blocking brings them together (`NoMatchIsMissed`). The clustering is a walk along
    the AUTO_MATCH edges in their order, and two batches with the same entities have the same walk
    (`OrderIsImmaterial`).
  - *Mapping.* The score of a column is a sum over its evidence; columns that ask for one field
    collide, and none of them is mapped (`FieldsAreFilledOnce`), so that no value of another column
    is overwritten. The best candidate is the same wherever its column stands
    (`ColumnOrderIsNothing`).
  - *Reading.* The accounting of rows is an induction along the lines (`IsJudged`): every row between
    the header and the end has one verdict under its number. A file without quotes falls into
    rows as it falls into lines, the delimiter that is detected divides its lines into their cells, and a
    worksheet of the same cells is judged alike, but for the white space it strips
    (`FormatsMeanTheSame`).
- **PipelineProofs**: the review ledger, the quality stage, survivorship and the composition.
  - *Ledger*: `LedgerIsSound`, the invariant from which every property of the ledger follows. With
    `QueueImplementsLedger` it is a statement about the stored queue. The clusters and the projection
    are folds, which become *walks* that unite the classes of one edge after the other.
    `WalkKeepsGood`, `WalkIsLeast`, `WalkJoins` and `WalksAgree` are then ordinary inductions along a
    walk: a merge that is blocked never happens, the result is the least partition that joins the
    edges, and two walks that block the same merges end alike. `MatchKeepsConflictOut` is the step of
    `NoConflictWithoutNoMatch`, `MatchJoins` that of `AcceptedMatchTakesEffect`.
  - *Quality*: `RecordsStayRepaired` rests on what the rules of a field may change (`Moves`): the form
    only towards one that breaks fewer rules or to a ruined name, the spare characters to none, the
    length by composing and by a suffix. From it follow that a value breaks no more rules of severity
    error than before unless it falls short (`NoNewFaults`) and that, but for the two exceptions, the
    value that comes out is one the rules leave alone (`ValuesSettle`).
  - *Survivorship*: `EntitiesStayWhole` rests on the ranking: two ranks that differ are ordered by
    their first difference, so that among finitely many members one leads (`OneLeads`) and `CHOOSE`
    takes it; and on the correspondence of entities with merged clusters and records alone, from which
    the counts of the summary follow.
  - *Composition*: `PipelineIsSound` puts the invariants of the stages side by side. The stages are
    separate branches of `part`, each with inputs of its own: `FilesStayReadWhole`,
    `AutoMatchesStayGrouped`, `MergesStayAllowed` and `MatchesTakeEffect` say of each what its module
    proves, and nothing of one stage's output as the next one's input.
- **CommandsProofs**: the transaction manager (`AllOrNothing` and three more, for any writes and
  depth: while blocks are open nothing of the unit is durable and the engine holds exactly the unit,
  or it has unwound it, and then the failure is being raised or is latched, so the unit cannot reach
  COMMIT); the operator commands, where the invariant says for each step of a run what it has written
  so far, that what was registered stays so, and that while no two runs stage at once the staging
  file is the whole report of the run that holds it; the verification of a queue; the budget; and
  the sample of a live benchmark: how many of its first k cases are matches is a number that k and
  the sizes of the two classes give (`MatchesIn`), what is counted is that number by induction on k
  (`TakenIs`), and the two numbers differ by at most one until a class is used up (`TurnsAreFair`).
- **SemanticReviewProofs**: caps, charges, retries, suggestions and the benchmark's report of a live
  run under `Configured` (prices and limits have their types, and no prompt is counted larger than
  `max_input_tokens`). A request leaves only while its reservation fits, so even the dearest answer
  keeps the cap; what comes back is charged at no less than its bill and no more than its
  reservation. `RunsAreTyped` needs besides that there are finitely many cases, one at least
  (`Populated`): then the cases a run asks about are a sequence of cases, because each rank below
  their number is taken by one of them (`RanksAreTaken`). CommandsProofs
  instantiates it for both runs that are explored.
- **ServerProofs**: sessions, logins and the composition of the server. Session rows only age: once
  there they keep their owner and absolute bound, activity and idle bound never move back, a revoked
  row never changes. So what a request judged later was usable when it was read, and an update that
  finds the row moved finds it revoked or with activity at least as recent. A login has seen its
  password stored by the time of the verdict and remembers it (`HasSeen`), and until its one
  transaction it has written nothing.
- **ReviewApiProofs**: tenant isolation, decisions by reviewers, one edition of the config per
  process, foreign keys, and that pages reach their total. The scope is read in three statements and
  may change before it is used; what stays true is that each fact held when it was read, so
  `ScopeInv` says what a request has seen by the step it is at. That a refusal says nothing rests on
  the table of error handlers (`HandledErrors`), that a page read after a count reaches it on lists
  that only grow. ServerProofs instantiates it for both parts.
- **FrontendProofs**: the panel, the queue and the deciding screen. At most one GET is current, was
  sent under the issued key, and its answer lies between what was recorded last and what the server
  holds (`IInv`); a page is held under the filter and offset it was answered for, so an empty page
  beyond the end is not the one asked for once the effect has run (`PagingInv`); a POST carries
  version 1, the answer that it was recorded comes when the case has version 2, and the refresh that
  follows opens a count under which nothing was read before, so what is read under it is the decided
  case (`ScreenInv`).

In a composition the parts share no variable, so each runs as its own module specifies
(`PartsRunAsSpecified`) and what is proved of the parts holds of the whole.

Induction over the data of a recursive operator is beyond the provers as an induction schema. Where
it is needed here it is first-order: a set of numbers or of subsets that is closed under one step is
everything (`NatInduct`, `SubsetInduction`), which is how the folds over edges, evidence and
lines, the places of a sorted list, the penalties of a text and the sample of a benchmark are reached.

Every safety invariant and action property of a passing run is a theorem; so is the refinement.
Model-checked only is liveness (`RequestsEnd`, `ReadingEnds`, `EmptyPageIsLeft`, `ReconcilingEnds`,
`RunsEnd`), which is out of the prover's reach. The findings are runs: a counterexample needs no
proof.

## Limits

- SQLite is trusted: one writer, snapshot isolation, atomic COMMIT, rollback after a crash.
- One queue per instance of ReviewQueue: every statement of the repository is scoped by its
  queue, so queues do not interact.
- In the modules of the pipeline texts are classes: which texts fall into one class (the regular
  expressions, similarity measures and Unicode normal forms) is taken from the code by hand. A lone
  tab between two words counts as the space it becomes; a text that composing changes without
  shortening it is told by its form only; case folding is modelled where a rule turns on it, in
  the domain of an e-mail and in the names of places.
- The wire formats (JSON of payloads, reports and answers), wording, logging and layout are left
  out, except for what a reader of them refuses.

## Not modelled

- `dataset/`, `evaluation/` but for the semantic-review benchmark: offline generation of test data
  and measurement, without state of the running system.
- `human_review/cases.py` and `safety.py`: one case per REVIEW pair and counters over a finished
  outcome, pure functions whose interplay with the queue is in ReviewGraph.
- The prompt of the semantic review, password hashing, the frontend's layout, forms and session
  storage, HTTP and its headers.

## Plan

Done, in the order of importance: ReviewGraph, ReviewLedger, ReviewQueue with its proofs and its
refinement, ReviewDatabase, KeyedReads, CaseResource, Sessions, Credentials, ReviewApi,
ReviewWorkspace, QueuePaging, OperatorCommands, QueueIntegrity, SemanticReview, and the six
modules of the pipeline. Next:

1. File writes of OperatorCommands in two steps, so that two runs may interleave inside one file.
2. Case generation and safety counters in Pipeline; the splits of `dataset/`.
3. The promises of the stages in one chain, the output of one as the input of the next: today each
   stage is explored and proved for inputs of its own.
