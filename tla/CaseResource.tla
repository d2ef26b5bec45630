---------------------------- MODULE CaseResource ----------------------------
(***************************************************************************)
(* One panel of the review workspace reading its case: a reviewer moves    *)
(* the selection and refreshes, answers come late, out of order or not at  *)
(* all, and the case changes on the server meanwhile.                      *)
(*                                                                         *)
(* React renders at once when a reviewer acts or a promise settles, but an *)
(* effect may run later: a promise may settle between the two.  A reviewer *)
(* acts only on a screen whose effects have run.                           *)
(***************************************************************************)
EXTENDS KeyedReads, TLC

CONSTANTS
  Targets,     \* the case ids
  MaxRefresh,  \* bound on refreshes
  MaxReads,    \* bound on GETs sent
  MaxVersion   \* bound on the changes of a case on the server

ASSUME TargetsAssumption == None \notin Targets

VARIABLES
  target,  \* reviewCaseId
  r,       \* the hook
  store,   \* the server's version of each case
  newest,  \* history: the version of each case recorded last
  since,   \* history: what the server held at the last refresh
  last     \* history: how the read of each case recorded last ended

vars == <<target, r, store, newest, since, last>>

Init == /\ target = None
        /\ r = Mounted
        /\ store = [t \in Targets |-> 1]
        /\ newest = [t \in Targets |-> 0]
        /\ since = store
        /\ last = [t \in Targets |-> "none"]

\* The queue panel selects cases; nothing in the application clears the selection.
Select(t) == /\ Flushed(r, target)
             /\ r.latest < MaxReads
             /\ t # target
             /\ target' = t
             /\ UNCHANGED <<r, store, newest, since, last>>

Refresh == /\ Flushed(r, target)
           /\ target # None
           /\ r.count < MaxRefresh /\ r.latest < MaxReads
           /\ r' = Refreshed(r)
           /\ since' = store
           /\ UNCHANGED <<target, store, newest, last>>

RunEffect == /\ ~Flushed(r, target)
             /\ r' = Issued(r, target)
             /\ UNCHANGED <<target, store, newest, since, last>>

\* The server reads the case, or the request fails anywhere on its way.
Answer(q, ok) == /\ q.answer = "none"
                 /\ r' = Answered(r, q, ok, store[q.key[1]])
                 /\ UNCHANGED <<target, store, newest, since, last>>

Deliver(q) ==
  /\ q.answer # "none"
  /\ r' = Delivered(r, q)
  /\ newest' = IF r'.held # r.held THEN [newest EXCEPT ![q.key[1]] = q.version] ELSE newest
  /\ last' = IF IsCurrent(r, q) THEN [last EXCEPT ![q.key[1]] = q.answer] ELSE last
  /\ UNCHANGED <<target, store, since>>

\* Another reviewer, or an operator, changes the case.
Change(t) == /\ store[t] < MaxVersion
             /\ store' = [store EXCEPT ![t] = @ + 1]
             /\ UNCHANGED <<target, r, newest, since, last>>

Next ==
  \/ \E t \in Targets : Select(t)
  \/ Refresh
  \/ RunEffect
  \/ \E q \in r.flying, ok \in BOOLEAN : Answer(q, ok)
  \/ \E q \in r.flying : Deliver(q)
  \/ \E t \in Targets : Change(t)

Spec == Init /\ [][Next]_vars

\* React runs its effects, and fetch settles: with an answer, or with the error
\* of a connection that broke.
Reading == \E q \in r.flying : Deliver(q) \/ \E ok \in BOOLEAN : Answer(q, ok)
Fairness == WF_vars(RunEffect) /\ WF_vars(Reading)

FairSpec == Spec /\ Fairness

-----------------------------------------------------------------------------
(* Properties *)

Keys == (Targets \X Nat) \cup {NoKey}

Reads == [id : Nat, key : Targets \X Nat, aborted : BOOLEAN,
          answer : {"none", "loaded", "failed"}, version : Nat]

\* Requests are told apart by their ids, none is newer than latestRequestId, and
\* at most the newest one is not aborted.
TypeOK ==
  /\ target \in Targets \cup {None}
  /\ r \in [count : Nat, latest : Nat, issued : Keys, refused : Keys,
            held : [key : Targets \X Nat, version : Nat] \cup {NothingHeld},
            flying : SUBSET Reads]
  /\ \A p, q \in r.flying : p.id = q.id => p = q
  /\ \A q \in r.flying : q.id <= r.latest /\ (~q.aborted => q.id = r.latest)
  /\ store \in [Targets -> Nat] /\ since \in [Targets -> Nat] /\ newest \in [Targets -> Nat]
  /\ last \in [Targets -> {"none", "loaded", "failed"}]

\* A case never goes back in time: in whatever order the answers come, what is
\* recorded for it is never older than what was recorded for it before, also
\* when other cases were read in between.
NeverOlder == [][\A t \in Targets : newest'[t] >= newest[t]]_newest

\* "ready" after a refresh means read after that refresh, whatever failed and
\* wherever the selection went in between.
ReadySinceRefresh == Status(r, target) = "ready" => r.held.version >= since[target]

\* No spinner without a request: when the hook says that it is reading, a GET for
\* exactly this case and refresh is on its way.  The converse fails ("a request is in
\* flight exactly while ...", useReviewCases.ts:12): a reviewer who comes back to the key
\* of what is still held re-reads it, and no status mentions that request.
SpinnerHasItsRequest ==
  Flushed(r, target) /\ Pending(r, target) => InFlight(r, target)

\* Reading ends, by a value or by a failure.
ReadingEnds == Pending(r, target) ~> ~Pending(r, target)

-----------------------------------------------------------------------------
(* Statements of the documentation that the code does not keep *)

\* "failed - the last read for this case failed."
FailedMeansTheLastReadFailed == Status(r, target) = "failed" => last[target] = "failed"
=============================================================================
