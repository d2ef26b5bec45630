---------------------------- MODULE ReviewQueue ----------------------------
(***************************************************************************)
(* One review queue in its SQLite file, with the processes that write it:  *)
(* API workers resolving cases for reviewers, and operators registering    *)
(* workflows and recording semantic suggestions.                           *)
(*                                                                         *)
(* Every write runs in one BEGIN IMMEDIATE transaction: the writer takes   *)
(* the file's single write lock, works on an image of the store that only  *)
(* it can see, and COMMIT makes the image the store.  An exception rolls   *)
(* back, a crash leaves the file as it was.  ReviewQueueService.resolve_   *)
(* case runs load, authorize, compare-and-swap, append and verify inside   *)
(* that transaction; here each of them is an action, so other processes    *)
(* (and crashes) come between any two of them.                             *)
(*                                                                         *)
(* An operator commented "Broken variant" is a plausible bug of the one    *)
(* that follows it; no specification uses it.                              *)
(***************************************************************************)
EXTENDS ReviewGraph, TLC

CONSTANTS
  Reviewers,    \* processes that resolve cases, each for one reviewer_id
  Operators,    \* processes that register workflows and record suggestions
  CaseIds,      \* deterministic review case ids
  Workflows,    \* [context, cases: case id -> pair] a registration may carry
  Suggestions,  \* [id, case, pair, payload] a provider may have produced
  Offered,      \* bound: the decisions reviewers take, all of Decisions in the code
  Suspendable,  \* bound: whether the organization is ever suspended
  NoWriter      \* the write lock is free

VARIABLES
  disk,     \* the committed store
  lock,     \* the holder of the write lock
  pc,       \* where each process stands
  op,       \* the request each process carries
  image,    \* the uncommitted store of the process's transaction
  bundle,   \* the WorkflowBundle the process authorized against
  draft,    \* the row and the event the domain produced
  outcome   \* what the process will answer

vars == <<disk, lock, pc, op, image, bundle, draft, outcome>>

Writers == Reviewers \cup Operators

Decisions == {"MATCH", "NO_MATCH", "DEFER"}

\* Broken variant: the decision token is stored as the status.
StatusVerbatim(d) == d

\* _status_for_decision and DECISION_TO_EVENT_TYPE.
StatusFor(d) == IF d = "DEFER" THEN "DEFERRED" ELSE d

Resolved == {"MATCH", "NO_MATCH", "DEFERRED"}

Nobody == "nobody"

NoContext == [records |-> {}, auto |-> <<>>, severe |-> {}, config |-> "none"]

NoCase == [pair |-> <<0, 0>>, status |-> "ABSENT", version |-> 0,
           sequence |-> 0, reviewer |-> Nobody]

EmptyStore == [active |-> TRUE, context |-> NoContext,
               cases |-> [c \in CaseIds |-> NoCase], events |-> <<>>, suggestions |-> {}]

NoOp == [kind |-> "none"]

NoDraft == [case |-> "none"]

\* What the callers guarantee: ids are finitely many, a registration's cases are
\* over its own records (_assert_records_cover_cases), a process has one role.
ASSUME QueueAssumption ==
  /\ IsFiniteSet(CaseIds)
  /\ Reviewers \cap Operators = {} /\ NoWriter \notin Writers
  /\ Offered \subseteq Decisions
  /\ \A wf \in Workflows :
       /\ wf.context.records \subseteq Nat
       /\ DOMAIN wf.cases \subseteq CaseIds
       /\ \A c \in DOMAIN wf.cases : wf.cases[c] \in PairsOver(wf.context.records)
  /\ \A g \in Suggestions : g.case \in CaseIds /\ g.id # "none"

-----------------------------------------------------------------------------
(* What a store says *)

Present(s)  == {c \in CaseIds : s.cases[c].status # "ABSENT"}
Settled(s)  == {c \in CaseIds : s.cases[c].status \in Resolved}
Pairs(s, st) == {s.cases[c].pair : c \in {k \in CaseIds : s.cases[k].status = st}}

\* Broken variant: off by one, the first resolution gets 0.
NextSequenceFromZero(s) == Cardinality(Settled(s))

NextSequence(s) == Cardinality(Settled(s)) + 1

ResolutionEvents(s) == {i \in DOMAIN s.events : s.events[i].type \in Resolved}

\* _assert_event_agrees_with_case.
Agrees(e, row) == /\ e.type = row.status
                  /\ e.sequence = row.sequence
                  /\ e.reviewer = row.reviewer

\* reconstruct_history: every resolution event belongs to one settled case and
\* tells its story, and the settled cases carry the sequences 1, 2, 3, ...
Reconstructs(s) ==
  /\ \A i \in ResolutionEvents(s) :
       /\ s.events[i].case \in Settled(s)
       /\ Agrees(s.events[i], s.cases[s.events[i].case])
       /\ \A j \in ResolutionEvents(s) : s.events[i].case = s.events[j].case => i = j
  /\ \A n \in 1..Cardinality(Settled(s)) : \E c \in Settled(s) : s.cases[c].sequence = n

-----------------------------------------------------------------------------
Init == /\ disk = EmptyStore
        /\ lock = NoWriter
        /\ pc = [w \in Writers |-> "idle"]
        /\ op = [w \in Writers |-> NoOp]
        /\ image = [w \in Writers |-> EmptyStore]
        /\ bundle = [w \in Writers |-> EmptyStore]
        /\ draft = [w \in Writers |-> NoDraft]
        /\ outcome = [w \in Writers |-> "none"]

\* The scratch of a finished transaction is gone with it.
Forget(w) == /\ image' = [image EXCEPT ![w] = EmptyStore]
             /\ bundle' = [bundle EXCEPT ![w] = EmptyStore]
             /\ draft' = [draft EXCEPT ![w] = NoDraft]

Answer(w, o) == /\ pc' = [pc EXCEPT ![w] = "reply"]
                /\ outcome' = [outcome EXCEPT ![w] = o]

\* A request that came to nothing.
Decline(w, why) == /\ Answer(w, why)
                   /\ op' = [op EXCEPT ![w] = NoOp]

\* An exception leaves the unit of work: ROLLBACK and release.
Rollback(w, why) == /\ lock' = NoWriter
                    /\ Forget(w)
                    /\ Decline(w, why)
                    /\ UNCHANGED disk

Goto(w, step) == pc' = [pc EXCEPT ![w] = step]

-----------------------------------------------------------------------------
(* Requests *)

Submit(w, o) == /\ pc[w] = "idle"
                /\ op' = [op EXCEPT ![w] = o]
                /\ Goto(w, "waiting")
                /\ UNCHANGED <<disk, lock, image, bundle, draft, outcome>>

\* The version a client sends with a decision: the one it read just now, or the
\* first one for a case id that is not in the queue (yet).
ExpectedVersion(c) == IF c \in Present(disk) THEN disk.cases[c].version ELSE 1

\* By the time the request is served the case, and every case around it, may
\* have moved.
SubmitDecision(w, c, d) ==
  Submit(w, [kind |-> "resolve", case |-> c, decision |-> d, expected |-> ExpectedVersion(c)])

SubmitRegistration(w, wf) == Submit(w, [kind |-> "register", workflow |-> wf])

SubmitSuggestion(w, g) == Submit(w, [kind |-> "suggest", suggestion |-> g])

FirstStep(o) == CASE o.kind = "resolve"  -> "load"
                  [] o.kind = "register" -> "context"
                  [] o.kind = "suggest"  -> "suggest"

\* Broken variant: BEGIN DEFERRED, the write lock is not waited for.
BeginDeferred(w) == /\ pc[w] = "waiting"
                    /\ lock' = w
                    /\ image' = [image EXCEPT ![w] = disk]
                    /\ Goto(w, FirstStep(op[w]))
                    /\ UNCHANGED <<disk, op, bundle, draft, outcome>>

\* BEGIN IMMEDIATE.
Begin(w) == /\ pc[w] = "waiting"
            /\ lock = NoWriter
            /\ lock' = w
            /\ image' = [image EXCEPT ![w] = disk]
            /\ Goto(w, FirstStep(op[w]))
            /\ UNCHANGED <<disk, op, bundle, draft, outcome>>

\* Broken variant: no timeout, a waiter waits until it gets the lock.
BusyNever(w) == FALSE /\ Answer(w, "busy") /\ UNCHANGED <<disk, lock, op, image, bundle, draft>>

\* busy_timeout ran out while another process held the lock.
Busy(w) == /\ pc[w] = "waiting"
           /\ lock # NoWriter
           /\ Decline(w, "busy")
           /\ UNCHANGED <<disk, lock, image, bundle, draft>>

-----------------------------------------------------------------------------
(* ReviewQueueService.resolve_case *)

LoadBundle(w) ==
  /\ pc[w] = "load"
  /\ IF image[w].context # NoContext /\ Reconstructs(image[w])
       THEN /\ bundle' = [bundle EXCEPT ![w] = image[w]]
            /\ Goto(w, "authorize")
            /\ UNCHANGED <<disk, lock, op, image, draft, outcome>>
       ELSE Rollback(w, "unavailable")

\* Broken variant: a MATCH is not authorized against the other decisions.
VerdictUnauthorized(b, o) ==
  LET row == b.cases[o.case]
  IN CASE row.status = "ABSENT"                              -> "not_found"
       [] row.status # "ABSENT" /\ row.version # o.expected  -> "stale"
       [] row.version = o.expected /\ row.status \in Resolved -> "not_pending"
       [] OTHER -> "approved"

\* _locate, _assert_not_stale and ReviewWorkflow.resolve_case on a bundle.
Verdict(b, o) ==
  LET row == b.cases[o.case]
      ok  == o.decision = "MATCH" =>
               MatchAuthorized(b.context, Pairs(b, "MATCH"), Pairs(b, "NO_MATCH"), row.pair)
  IN CASE row.status = "ABSENT"                              -> "not_found"
       [] row.status # "ABSENT" /\ row.version # o.expected  -> "stale"
       [] row.version = o.expected /\ row.status \in Resolved -> "not_pending"
       [] row.version = o.expected /\ row.status = "PENDING" /\ ~ok -> "refused"
       [] OTHER -> "approved"

Authorize(w) ==
  LET o == op[w]
      b == bundle[w]
  IN /\ pc[w] = "authorize"
     /\ IF Verdict(b, o) = "approved"
          THEN /\ draft' = [draft EXCEPT ![w] =
                    [case |-> o.case, status |-> StatusFor(o.decision),
                     sequence |-> NextSequence(b), reviewer |-> w]]
               /\ Goto(w, "swap")
               /\ UNCHANGED <<disk, lock, op, image, bundle, outcome>>
          ELSE Rollback(w, Verdict(b, o))

\* The row as the UPDATE leaves it.
ResolvedRow(row, d) ==
  [row EXCEPT !.status = d.status, !.version = @ + 1,
              !.sequence = d.sequence, !.reviewer = d.reviewer]

\* Broken variant: the row is updated outside the transaction of its event.
CompareAndSwapAutocommit(w) ==
  LET d   == draft[w]
      row == image[w].cases[d.case]
  IN /\ pc[w] = "swap"
     /\ row.version = op[w].expected /\ row.status = "PENDING"
     /\ image' = [image EXCEPT ![w].cases[d.case] = ResolvedRow(row, d)]
     /\ disk' = [disk EXCEPT !.cases[d.case] = ResolvedRow(row, d)]
     /\ Goto(w, "append")
     /\ UNCHANGED <<lock, op, bundle, draft, outcome>>

\* apply_resolution: _require_resolvable_case and the conditional UPDATE.
CompareAndSwap(w) ==
  LET d   == draft[w]
      row == image[w].cases[d.case]
  IN /\ pc[w] = "swap"
     /\ IF row.version = op[w].expected /\ row.status = "PENDING"
          THEN /\ image' = [image EXCEPT ![w].cases[d.case] = ResolvedRow(row, d)]
               /\ Goto(w, "append")
               /\ UNCHANGED <<disk, lock, op, bundle, draft, outcome>>
          ELSE Rollback(w, IF row.version = op[w].expected THEN "error" ELSE "stale")

\* _append_event, under the queue-wide unique index on resolution_sequence.
AppendEvent(w) ==
  LET d == draft[w]
      e == [case |-> d.case, type |-> d.status, sequence |-> d.sequence,
            reviewer |-> d.reviewer, suggestion |-> "none"]
  IN /\ pc[w] = "append"
     /\ IF \E i \in ResolutionEvents(image[w]) : image[w].events[i].sequence = d.sequence
          THEN Rollback(w, "error")
          ELSE /\ image' = [image EXCEPT ![w].events = Append(@, e)]
               /\ Goto(w, "verify")
               /\ UNCHANGED <<disk, lock, op, bundle, draft, outcome>>

\* _require_persisted_resolution_event: exactly one such event is read back.
VerifyEvent(w) ==
  LET d == draft[w]
      s == image[w]
      written == {i \in ResolutionEvents(s) : /\ s.events[i].case = d.case
                                              /\ s.events[i].type = d.status
                                              /\ s.events[i].sequence = d.sequence}
  IN /\ pc[w] = "verify"
     /\ IF \E i \in written : written = {i}
          THEN /\ Goto(w, "commit")
               /\ UNCHANGED <<disk, lock, op, image, bundle, draft, outcome>>
          ELSE Rollback(w, "error")

-----------------------------------------------------------------------------
(* SqliteReviewCaseRepository.register_workflow *)

\* Broken variant: the organization's status is not asked.
StoreContextUnchecked(w) ==
  LET s  == image[w]
      wf == op[w].workflow
  IN /\ pc[w] = "context"
     /\ IF s.context # NoContext /\ ~Compatible(s.context, wf.context)
          THEN Rollback(w, "conflict")
          ELSE /\ image' = [image EXCEPT ![w].context =
                              IF s.context = NoContext THEN wf.context ELSE s.context]
               /\ Goto(w, "cases")
               /\ UNCHANGED <<disk, lock, op, bundle, draft, outcome>>

StoreContext(w) ==
  LET s  == image[w]
      wf == op[w].workflow
  IN /\ pc[w] = "context"
     /\ CASE ~s.active -> Rollback(w, "suspended")
          [] s.active /\ s.context # NoContext /\ ~Compatible(s.context, wf.context)
               -> Rollback(w, "conflict")
          [] OTHER ->
               /\ image' = [image EXCEPT ![w].context =
                              IF s.context = NoContext THEN wf.context ELSE s.context]
               /\ Goto(w, "cases")
               /\ UNCHANGED <<disk, lock, op, bundle, draft, outcome>>

\* Broken variant: only the case id is compared, a pair may come twice.
ClashById(s, cs) ==
  \E c \in DOMAIN cs \cap Present(s) : cs[c] # s.cases[c].pair

\* _assert_identity_matches and UNIQUE(queue, pair), met by one of the inserts:
\* a case id keeps its pair, and a pair its case id.
Clash(s, cs) ==
  \/ \E c \in DOMAIN cs, k \in Present(s) : ~((c = k) <=> (cs[c] = s.cases[k].pair))
  \/ \E c, k \in DOMAIN cs : c # k /\ cs[c] = cs[k]

PendingCase(p) == [pair |-> p, status |-> "PENDING", version |-> 1,
                   sequence |-> 0, reviewer |-> Nobody]

\* The loop over _register_case_in: a stored case stands, a new one is PENDING.
RegisterCases(w) ==
  LET s  == image[w]
      cs == op[w].workflow.cases
  IN /\ pc[w] = "cases"
     /\ IF Clash(s, cs)
          THEN Rollback(w, "duplicate")
          ELSE /\ image' = [image EXCEPT ![w].cases =
                    [c \in CaseIds |-> IF c \in DOMAIN cs \ Present(s)
                                         THEN PendingCase(cs[c]) ELSE s.cases[c]]]
               /\ Goto(w, "commit")
               /\ UNCHANGED <<disk, lock, op, bundle, draft, outcome>>

-----------------------------------------------------------------------------
(* SqliteReviewCaseRepository.record_semantic_suggestion *)

\* Broken variant: a replay is taken for a new observation.
RecordSuggestionAgain(w) ==
  LET s == image[w]
      g == op[w].suggestion
  IN /\ pc[w] = "suggest"
     /\ IF s.cases[g.case].status = "ABSENT" \/ s.cases[g.case].pair # g.pair
          THEN Rollback(w, "not_found")
          ELSE /\ image' = [image EXCEPT ![w].suggestions = @ \cup {g}]
               /\ Goto(w, "suggest_event")
               /\ UNCHANGED <<disk, lock, op, bundle, draft, outcome>>

\* The first stored observation under an id stands; the same one again is a
\* replay, another one under the same id a conflict.  Case status is not asked.
RecordSuggestion(w) ==
  LET s == image[w]
      g == op[w].suggestion
      known == {h \in s.suggestions : h.id = g.id}
  IN /\ pc[w] = "suggest"
     /\ CASE s.cases[g.case].status = "ABSENT" \/ s.cases[g.case].pair # g.pair
               -> Rollback(w, "not_found")
          [] s.cases[g.case].pair = g.pair /\ known \notin {{}, {g}} -> Rollback(w, "conflict")
          [] s.cases[g.case].pair = g.pair /\ known = {g} ->
               /\ Goto(w, "commit")
               /\ UNCHANGED <<disk, lock, op, image, bundle, draft, outcome>>
          [] OTHER ->
               /\ image' = [image EXCEPT ![w].suggestions = @ \cup {g}]
               /\ Goto(w, "suggest_event")
               /\ UNCHANGED <<disk, lock, op, bundle, draft, outcome>>

AppendSuggestionEvent(w) ==
  LET g == op[w].suggestion
      e == [case |-> g.case, type |-> "SEMANTIC_SUGGESTION_RECORDED", sequence |-> 0,
            reviewer |-> Nobody, suggestion |-> g.id]
  IN /\ pc[w] = "suggest_event"
     /\ image' = [image EXCEPT ![w].events = Append(@, e)]
     /\ Goto(w, "commit")
     /\ UNCHANGED <<disk, lock, op, bundle, draft, outcome>>

-----------------------------------------------------------------------------
(* The end of a transaction, and what may happen to a process *)

Commit(w) == /\ pc[w] = "commit"
             /\ disk' = image[w]
             /\ lock' = NoWriter
             /\ Forget(w)
             /\ Answer(w, "recorded")
             /\ UNCHANGED op

\* A statement, the config load, the domain or COMMIT itself raises.
Fail(w) == lock = w /\ Rollback(w, "error")

Rest(w) == /\ pc' = [pc EXCEPT ![w] = "idle"]
           /\ op' = [op EXCEPT ![w] = NoOp]
           /\ outcome' = [outcome EXCEPT ![w] = "none"]

Reply(w) == /\ pc[w] = "reply"
            /\ Rest(w)
            /\ UNCHANGED <<disk, lock, image, bundle, draft>>

\* The process dies: SQLite's journal restores the store, the lock is free.
Crash(w) == /\ pc[w] # "idle"
            /\ lock' = IF lock = w THEN NoWriter ELSE lock
            /\ Forget(w)
            /\ Rest(w)
            /\ UNCHANGED disk

\* An operator suspends or reactivates the organization that owns the queue.
SetOrganizationStatus ==
  /\ Suspendable
  /\ lock = NoWriter
  /\ disk' = [disk EXCEPT !.active = ~@]
  /\ UNCHANGED <<lock, pc, op, image, bundle, draft, outcome>>

\* The steps a process takes by itself once it has a request.
Proceed(w) ==
  \/ Begin(w) \/ Busy(w)
  \/ LoadBundle(w) \/ Authorize(w) \/ CompareAndSwap(w) \/ AppendEvent(w) \/ VerifyEvent(w)
  \/ StoreContext(w) \/ RegisterCases(w)
  \/ RecordSuggestion(w) \/ AppendSuggestionEvent(w)
  \/ Commit(w) \/ Reply(w)

Next ==
  \/ \E w \in Reviewers, c \in CaseIds, d \in Offered : SubmitDecision(w, c, d)
  \/ \E w \in Operators, wf \in Workflows : SubmitRegistration(w, wf)
  \/ \E w \in Operators, g \in Suggestions : SubmitSuggestion(w, g)
  \/ \E w \in Writers : Proceed(w) \/ Fail(w) \/ Crash(w)
  \/ SetOrganizationStatus

Spec == Init /\ [][Next]_vars

\* A handler runs its steps without waiting for anything but the write lock,
\* and it waits for the lock no longer than busy_timeout.
Fairness == \A w \in Writers : WF_vars(Proceed(w))

FairSpec == Spec /\ Fairness

-----------------------------------------------------------------------------
(* Properties *)

Rows == [pair : Nat \X Nat, status : {"ABSENT", "PENDING"} \cup Resolved,
         version : Nat, sequence : Nat, reviewer : Reviewers \cup {Nobody}]

Events == [case : CaseIds, type : Resolved \cup {"SEMANTIC_SUGGESTION_RECORDED"},
           sequence : Nat, reviewer : Reviewers \cup {Nobody},
           suggestion : {g.id : g \in Suggestions} \cup {"none"}]

Stores == [active : BOOLEAN, context : {wf.context : wf \in Workflows} \cup {NoContext},
           cases : [CaseIds -> Rows], events : Seq(Events), suggestions : SUBSET Suggestions]

Drafts == [case : CaseIds, status : Resolved, sequence : Nat, reviewer : Reviewers]

Requests ==
  [kind : {"resolve"}, case : CaseIds, decision : Decisions, expected : Nat]
    \cup [kind : {"register"}, workflow : Workflows]
    \cup [kind : {"suggest"}, suggestion : Suggestions]

Steps == {"idle", "waiting", "load", "authorize", "swap", "append", "verify",
          "context", "cases", "suggest", "suggest_event", "commit", "reply"}

Outcomes == {"none", "recorded", "busy", "unavailable", "not_found", "stale", "not_pending",
             "refused", "approved", "suspended", "conflict", "duplicate", "error"}

\* Every store a process can see is one the schema's CHECK constraints allow,
\* and a process is at a step of the handler with a request that was made.
TypeOK ==
  /\ disk \in Stores
  /\ lock \in Writers \cup {NoWriter}
  /\ pc \in [Writers -> Steps]
  /\ op \in [Writers -> Requests \cup {NoOp}]
  /\ image \in [Writers -> Stores]
  /\ bundle \in [Writers -> Stores]
  /\ draft \in [Writers -> Drafts \cup {NoDraft}]
  /\ outcome \in [Writers -> Outcomes]

\* Whatever was committed, in whatever order processes raced and died, the next
\* load succeeds: the case rows and the event table tell one history, without
\* which no case of the queue could be decided again.
HistoryReconstructs == Reconstructs(disk)

\* Each settled case has moved exactly once, and the event of that one decision
\* is in the history: no version bump without its event.
EveryDecisionHasItsEvent ==
  \A c \in CaseIds :
    /\ c \in Settled(disk) => \E i \in ResolutionEvents(disk) : disk.events[i].case = c
    /\ disk.cases[c].version = Cardinality({i \in ResolutionEvents(disk) : disk.events[i].case = c})
                                 + (IF c \in Present(disk) THEN 1 ELSE 0)

\* An acknowledged decision is the decision of that case, whatever other
\* processes committed between the COMMIT and the answer.
AcknowledgedIsDurable ==
  \A w \in Reviewers :
    pc[w] = "reply" /\ outcome[w] = "recorded" =>
      LET row == disk.cases[op[w].case]
      IN /\ row.status = StatusFor(op[w].decision)
         /\ row.reviewer = w
         /\ row.version = op[w].expected + 1

\* A suggestion delivered twice is one observation and one event.
SuggestionsRecordedOnce ==
  \A g \in Suggestions :
    /\ \A h \in disk.suggestions : g \in disk.suggestions /\ g.id = h.id => g = h
    /\ Cardinality({i \in DOMAIN disk.events : disk.events[i].suggestion = g.id})
         = Cardinality({h \in disk.suggestions : h.id = g.id})

\* Nothing recorded is ever rewritten: events are only appended, a settled row
\* and the context the decisions were authorized against never change.
HistoryIsFinal ==
  [][/\ IsPrefix(disk.events, disk'.events)
     /\ \A c \in Settled(disk) : disk'.cases[c] = disk.cases[c]
     /\ disk.context # NoContext => disk'.context = disk.context]_disk

\* No case appears in the queue of an organization that is suspended at the
\* moment it appears, although the check precedes the commit by several steps.
SuspendedQueueGainsNothing ==
  [][Present(disk') # Present(disk) => disk.active]_disk

\* Every request is answered or its process dies: nobody waits for ever on the
\* write lock and no transaction stays open.
RequestsEnd == \A w \in Writers : pc[w] = "waiting" ~> pc[w] = "idle"

-----------------------------------------------------------------------------
(* The queue implements the ledger: all the steps of a transaction show up as  *)
(* one judged decision, or one whole registration, at its COMMIT.              *)

DecisionOf(row) == IF row.status = "DEFERRED" THEN "DEFER" ELSE row.status

LedgerOf(s) ==
  [n \in 1..Cardinality(Settled(s)) |->
     LET c == CHOOSE k \in Settled(s) : s.cases[k].sequence = n
     IN [case |-> c, decision |-> DecisionOf(s.cases[c]), reviewer |-> s.cases[c].reviewer]]

RegisteredOf(s) == [c \in Present(s) |-> s.cases[c].pair]

Ledger == INSTANCE ReviewLedger WITH
            context <- disk.context, registered <- RegisteredOf(disk), ledger <- LedgerOf(disk),
            Guard <- TRUE, SkipConflicted <- FALSE, MaxDecisions <- Cardinality(CaseIds)

\* Each committed MATCH was authorized against exactly the decisions recorded
\* before it, and a workflow is registered whole or not at all.
ImplementsLedger == Ledger!Spec
=============================================================================
