---------------------------- MODULE QueuePaging ----------------------------
(***************************************************************************)
(* The paged queue of the workspace: the filter and the offset that App    *)
(* owns, the hook useReviewCases that reads the page, and the recovery     *)
(* from a page that has fallen off the end.  Cases are registered and      *)
(* decided elsewhere between any two requests.                             *)
(*                                                                         *)
(* A target of the hook is a filter and an offset.  As in ReviewWorkspace  *)
(* an aborted GET is dropped at once, so there is one reply on its way.    *)
(*                                                                         *)
(* An operator commented "Broken variant" is a plausible bug of the one    *)
(* that follows it; no specification uses it.                              *)
(***************************************************************************)
EXTENDS KeyedReads, Integers, TLC

CONSTANTS
  Limit,     \* DEFAULT_PAGE_LIMIT
  MaxCases,  \* bound on the cases registered
  MaxReads   \* bound on the GETs sent by the reviewer's actions

VARIABLES
  filter,   \* statusFilter: "PENDING", or "ALL" for none
  offset,   \* the offset asked for
  r,        \* the hook
  reply,    \* what the server has answered to the GET on its way
  data,     \* the page loaded last: its offset, total and count
  pending,  \* the pending cases on the server
  decided,  \* the others
  due,      \* the effect on [data] has not run for the data held
  fired     \* history: recoveries since the reviewer last did something

vars == <<filter, offset, r, reply, data, pending, decided, due, fired>>

Filters == {"PENDING", "ALL"}

PagingAssumption ==
  /\ Limit \in Nat \ {0} /\ MaxCases \in Nat /\ MaxReads \in Nat
  /\ None \notin Filters \X Nat

Target == <<filter, offset>>
Smaller(a, b) == IF a < b THEN a ELSE b
Bigger(a, b) == IF a < b THEN b ELSE a
Matching(f) == IF f = "PENDING" THEN pending ELSE pending + decided
CountOf(n, o) == Bigger(0, Smaller(Limit, n - o))

NoPage == [offset |-> 0, total |-> 0, count |-> 0]

Init ==
  /\ filter = "PENDING" /\ offset = 0
  /\ r = Mounted
  /\ pending \in 0..MaxCases /\ decided = 0
  /\ reply = NoPage /\ data = NoPage
  /\ due = FALSE
  /\ fired = 0

\* The page on the screen: the last one loaded, whatever is asked for now.
Loaded == r.held.key # NoKey
IsFirstPage == data.offset = 0
IsLastPage == data.count = 0 \/ data.offset + data.count >= data.total
PastTheEnd == Loaded /\ data.total > 0 /\ data.count = 0 /\ data.offset > 0

Settled == Flushed(r, Target) /\ ~due
CanRead == r.latest < MaxReads
Stepped == /\ Settled /\ CanRead
           /\ fired' = 0
           /\ UNCHANGED <<reply, data, pending, decided, due>>

\* handleStatusFilterChange: another filter starts at its first page.
ChangeFilter(f) ==
  /\ Stepped
  /\ f # filter
  /\ filter' = f /\ offset' = 0
  /\ UNCHANGED r

\* The page buttons step from the page on the screen, not from the one asked for.
PreviousPage ==
  /\ Stepped
  /\ Loaded /\ data.total > 0 /\ ~IsFirstPage
  /\ offset' = Bigger(0, data.offset - Limit)
  /\ UNCHANGED <<filter, r>>

NextPage ==
  /\ Stepped
  /\ Loaded /\ data.total > 0 /\ ~IsLastPage
  /\ offset' = data.offset + Limit
  /\ UNCHANGED <<filter, r>>

\* The button, or the workspace after a decision.
Refresh ==
  /\ Stepped
  /\ r' = Refreshed(r)
  /\ UNCHANGED <<filter, offset>>

RunEffect ==
  /\ ~Flushed(r, Target)
  /\ r' = [Issued(r, Target) EXCEPT !.flying = {q \in @ : ~q.aborted}]
  /\ UNCHANGED <<filter, offset, reply, data, pending, decided, due, fired>>

\* Broken variant: the offset that is asked for is judged, not the one answered.
RecoverByState ==
  /\ due /\ due' = FALSE
  /\ offset' = IF PastTheEnd /\ offset # data.offset THEN 0 ELSE offset
  /\ fired' = IF offset' # offset THEN fired + 1 ELSE fired
  /\ UNCHANGED <<filter, r, reply, data, pending, decided>>

\* The effect on [data]: back to the first page.
Recover ==
  /\ due /\ due' = FALSE
  /\ offset' = IF PastTheEnd THEN 0 ELSE offset
  /\ fired' = IF offset' # offset THEN fired + 1 ELSE fired
  /\ UNCHANGED <<filter, r, reply, data, pending, decided>>

\* The server counts, then reads the page: a case may be decided or registered
\* between the two.
Answer(q, ok) ==
  /\ q.answer = "none"
  /\ \E shift \in {-1, 0, 1} :
       LET n == Matching(q.key[1][1])
           o == q.key[1][2]
       IN reply' = [offset |-> o, total |-> Bigger(0, n + shift), count |-> CountOf(n, o)]
  /\ r' = Answered(r, q, ok, 1)
  /\ UNCHANGED <<filter, offset, data, pending, decided, due, fired>>

Deliver(q) ==
  /\ q.answer # "none"
  /\ r' = Delivered(r, q)
  /\ due' = (due \/ (IsCurrent(r, q) /\ q.answer = "loaded"))
  /\ data' = IF IsCurrent(r, q) /\ q.answer = "loaded" THEN reply ELSE data
  /\ reply' = NoPage
  /\ UNCHANGED <<filter, offset, pending, decided, fired>>

Register ==
  /\ pending + decided < MaxCases
  /\ pending' = pending + 1
  /\ UNCHANGED <<filter, offset, r, reply, data, decided, due, fired>>

Decide ==
  /\ pending > 0
  /\ pending' = pending - 1 /\ decided' = decided + 1
  /\ UNCHANGED <<filter, offset, r, reply, data, due, fired>>

Reading == \E q \in r.flying : Deliver(q) \/ \E ok \in BOOLEAN : Answer(q, ok)

Next ==
  \/ \E f \in Filters : ChangeFilter(f)
  \/ PreviousPage \/ NextPage \/ Refresh
  \/ RunEffect \/ Recover \/ Reading
  \/ Register \/ Decide

Spec == Init /\ [][Next]_vars

\* React runs its effects and every fetch settles.
Fairness == WF_vars(RunEffect) /\ WF_vars(Recover) /\ WF_vars(Reading)

FairSpec == Spec /\ Fairness

----------------------------------------------------------------------------
\* Offsets stay on page boundaries and are never negative, which the API refuses.
TypeOK ==
  /\ filter \in Filters
  /\ offset >= 0 /\ offset % Limit = 0
  /\ pending >= 0 /\ decided >= 0 /\ pending + decided <= MaxCases
  /\ due \in BOOLEAN
  /\ due => Loaded
  /\ Cardinality(r.flying) <= 1

\* Once everything has come in, the reviewer is not left on an empty page beyond
\* the end of a queue that still has cases (the effect on [data]).
NotLeftPastTheEnd ==
  Settled /\ ~Pending(r, Target) /\ ~Failed(r, Target) => ~PastTheEnd

\* "This cannot loop": whatever happens to the queue meanwhile, one action of the
\* reviewer is followed by at most one recovery that moves the page.
RecoversOnce == fired <= 1

\* A page beyond the end is left, or the read that leaves it fails.
EmptyPageIsLeft == PastTheEnd ~> ~PastTheEnd \/ Failed(r, Target)
=============================================================================
