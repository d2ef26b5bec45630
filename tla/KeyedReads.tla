----------------------------- MODULE KeyedReads -----------------------------
(***************************************************************************)
(* The request discipline that useCaseResource and useReviewCases share:   *)
(* what one React hook remembers of the GETs it has sent.                  *)
(*                                                                         *)
(* A hook is asked for a target (a case id; a filter and page) and keeps   *)
(*   count    refreshCount, bumped by refresh(),                           *)
(*   issued   the request key whose effect has run last,                   *)
(*   latest   latestRequestId,                                             *)
(*   flying   the GETs without an answer delivered: [id, key, aborted,     *)
(*            answer, version],                                            *)
(*   held     the key and the value (a version of the target) it loaded,   *)
(*   refused  the key of the last failure it recorded.                     *)
(*                                                                         *)
(* An operator commented "Broken variant" is a plausible bug of the one    *)
(* that follows it; no specification uses it.                              *)
(***************************************************************************)
EXTENDS Naturals, FiniteSets

CONSTANT None   \* no target is selected

NoKey == <<None, 0>>

NothingHeld == [key |-> NoKey, version |-> 0]

\* A hook as it mounts, with nothing selected.
Mounted == [count |-> 0, issued |-> NoKey, latest |-> 0, flying |-> {},
            held |-> NothingHeld, refused |-> NoKey]

Key(r, t) == IF t = None THEN NoKey ELSE <<t, r.count>>

\* Broken variant: a refresh after a failure starts counting again.
RefreshedFromZero(r) == [r EXCEPT !.count = IF r.refused = r.issued THEN 0 ELSE @ + 1]

\* refresh().
Refreshed(r) == [r EXCEPT !.count = @ + 1]

Flushed(r, t) == r.issued = Key(r, t)

Get(id, key) == [id |-> id, key |-> key, aborted |-> FALSE, answer |-> "none", version |-> 0]

\* Broken variant: the effect has no cleanup.
IssuedKeepingOld(r, t) ==
  [r EXCEPT !.issued = Key(r, t),
            !.latest = @ + 1,
            !.flying = @ \cup {Get(r.latest + 1, Key(r, t))}]

\* Broken variant: the effect does not depend on the refresh counter.
IssuedForTarget(r, t) ==
  IF r.issued[1] = t
    THEN [r EXCEPT !.issued = Key(r, t)]
    ELSE [r EXCEPT !.issued = Key(r, t),
                   !.latest = @ + 1,
                   !.flying = {[q EXCEPT !.aborted = TRUE] : q \in @}
                                \cup {Get(r.latest + 1, Key(r, t))}]

\* The effect of a render with a new key: its cleanup aborts the GET before, and
\* a new one is sent.
Issued(r, t) ==
  [r EXCEPT !.issued = Key(r, t),
            !.latest = @ + 1,
            !.flying = {[q EXCEPT !.aborted = TRUE] : q \in @}
                         \cup {Get(r.latest + 1, Key(r, t))}]

\* The server, or the network, has answered GET q.
Answered(r, q, ok, version) ==
  [r EXCEPT !.flying = (@ \ {q}) \cup
     {[q EXCEPT !.answer = IF ok THEN "loaded" ELSE "failed",
                !.version = IF ok THEN version ELSE 0]}]

IsCurrent(r, q) == ~q.aborted /\ q.id = r.latest

\* Broken variant: every answer is recorded, a late one too.
DeliveredUnchecked(r, q) ==
  [r EXCEPT !.flying = @ \ {q},
            !.held = IF q.answer = "loaded" THEN [key |-> q.key, version |-> q.version] ELSE @,
            !.refused = IF q.answer = "failed" THEN q.key ELSE @]

\* Broken variant: the promise has no catch.
DeliveredUncaught(r, q) ==
  [r EXCEPT !.flying = @ \ {q},
            !.held = IF IsCurrent(r, q) /\ q.answer = "loaded"
                       THEN [key |-> q.key, version |-> q.version] ELSE @]

\* The promise of q settles: recorded under its key while q is current, and
\* dropped without a trace otherwise.
Delivered(r, q) ==
  [r EXCEPT !.flying = @ \ {q},
            !.held = IF IsCurrent(r, q) /\ q.answer = "loaded"
                       THEN [key |-> q.key, version |-> q.version] ELSE @,
            !.refused = IF IsCurrent(r, q) /\ q.answer = "failed" THEN q.key ELSE @]

-----------------------------------------------------------------------------
(* What the hook returns *)

Failed(r, t) == t # None /\ r.refused = Key(r, t)

\* A value is readable while its own target is the requested one.
Holds(r, t) == t # None /\ r.held.key[1] = t

\* A request is taken to be in flight while neither a value nor a failure is
\* recorded against the current key.
Pending(r, t) == t # None /\ r.held.key # Key(r, t) /\ r.refused # Key(r, t)

Status(r, t) ==
  CASE t = None                                            -> "idle"
    [] Failed(r, t)                                        -> "failed"
    [] t # None /\ ~Failed(r, t) /\ r.held.key = Key(r, t) -> "ready"
    [] Pending(r, t) /\ Holds(r, t)                        -> "updating"
    [] OTHER                                               -> "loading"

\* Is a GET for the target really on its way?
InFlight(r, t) == \E q \in r.flying : IsCurrent(r, q) /\ q.key = Key(r, t)
=============================================================================
