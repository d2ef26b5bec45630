-------------------------- MODULE ReviewWorkspace --------------------------
(***************************************************************************)
(* The screen on which a reviewer decides: the two reads that a decision   *)
(* changes (the detail and the history of the selected case), the panel    *)
(* that offers, confirms and sends the decision, and the reads that follow *)
(* it.  Another reviewer decides the same cases; a POST may be lost on its *)
(* way, or be served long after the browser has given it up.               *)
(*                                                                         *)
(* A case is at version 1 while it is pending and at version 2 when it is  *)
(* decided.  An aborted GET is dropped at once: CaseResource shows that it *)
(* would change nothing.  Suggestions are read like the history and take   *)
(* no part in a decision; the queue is module QueuePaging.                 *)
(*                                                                         *)
(* An operator commented "Broken variant" is a plausible bug of the one    *)
(* that follows it; no specification uses it.                              *)
(***************************************************************************)
EXTENDS KeyedReads, TLC

CONSTANTS
  Case,      \* the case ids
  MaxReads,  \* bound on the GETs of one resource
  MaxPosts   \* bound on the decisions sent

CaseAssumption == None \notin Case

VARIABLES
  target,   \* the selected case
  detail,   \* the hook that reads the case
  history,  \* the hook that reads its events
  panel,    \* the ResolutionPanel mounted for the selected case
  posts,    \* the POSTs that the browser or the server is not done with
  store,    \* the version of each case on the server
  sent,     \* history: how many POSTs were sent
  known     \* history: the cases whose decision an answer reported as recorded

vars == <<target, detail, history, panel, posts, store, sent, known>>

Hooks == <<detail, history>>

\* A panel is a new one, choosing and with nothing in flight, whenever the
\* selection moves: its key is the case.
NewPanel(serial) == [serial |-> serial, kind |-> "choosing", version |-> 0,
                     outcome |-> "none", submitting |-> FALSE]

Init ==
  /\ target = None
  /\ detail = Mounted /\ history = Mounted
  /\ panel = NewPanel(0)
  /\ posts = {}
  /\ store = [c \in Case |-> 1]
  /\ sent = 0
  /\ known = {}

----------------------------------------------------------------------------
\* What the workspace hands to the panel.
ShowCase == ~Failed(detail, target) /\ Holds(detail, target)

\* Broken variant: only a screen without a value is being read.
IsReadingCaseAtFirst == \E r \in {detail, history} : Status(r, target) = "loading"

IsReadingCase == \E r \in {detail, history} : Status(r, target) \in {"loading", "updating"}
CaseReadFailed == \E r \in {detail, history} : Status(r, target) = "failed"

\* Broken variant: the intent outlives the version it was made on.
ActiveIntentOnTarget == panel.kind = "confirming" /\ ShowCase

\* The confirmation counts while the case is shown at the version it was opened on.
ActiveIntent == panel.kind = "confirming" /\ ShowCase /\ detail.held.version = panel.version

ShowControls == ShowCase /\ detail.held.version = 1
Busy == IsReadingCase \/ panel.submitting
DecisionsOffered == ShowControls /\ ~Busy /\ ~ActiveIntent

\* A failure is reconciled unless the server said that it changed nothing and
\* that nothing changed (resolutionFailureMessage).
Reconciles(outcome) == outcome # "refused"
AwaitingReads == panel.kind = "settled" /\ Reconciles(panel.outcome)
IsReconciling == AwaitingReads /\ IsReadingCase
ReconcileFailed == AwaitingReads /\ ~IsReadingCase /\ CaseReadFailed

AllFlushed == \A r \in {detail, history} : Flushed(r, target)

Sent(r, t) == IF Flushed(r, t) THEN r
              ELSE [Issued(r, t) EXCEPT !.flying = {q \in @ : ~q.aborted}]

----------------------------------------------------------------------------
Select(c) ==
  /\ AllFlushed
  /\ c # target
  /\ detail.latest < MaxReads /\ history.latest < MaxReads
  /\ target' = c
  /\ panel' = NewPanel(panel.serial + 1)
  /\ UNCHANGED <<detail, history, posts, store, sent, known>>

\* "Refresh case"; the button needs a case, and a detail that is not on its way.
RefreshCase ==
  /\ AllFlushed /\ ShowCase
  /\ Status(detail, target) # "updating"
  /\ detail.latest < MaxReads /\ history.latest < MaxReads
  /\ detail' = Refreshed(detail) /\ history' = Refreshed(history)
  /\ UNCHANGED <<target, panel, posts, store, sent, known>>

\* "Retry" on the banner of a failed detail.
RetryDetail ==
  /\ AllFlushed /\ Failed(detail, target)
  /\ detail.latest < MaxReads
  /\ detail' = Refreshed(detail)
  /\ UNCHANGED <<target, history, panel, posts, store, sent, known>>

RunEffects ==
  /\ ~AllFlushed
  /\ detail' = Sent(detail, target) /\ history' = Sent(history, target)
  /\ UNCHANGED <<target, panel, posts, store, sent, known>>

AnswerDetail(q, ok) ==
  /\ q.answer = "none"
  /\ detail' = Answered(detail, q, ok, store[q.key[1]])
  /\ UNCHANGED <<target, history, panel, posts, store, sent, known>>
AnswerHistory(q, ok) ==
  /\ q.answer = "none"
  /\ history' = Answered(history, q, ok, store[q.key[1]])
  /\ UNCHANGED <<target, detail, panel, posts, store, sent, known>>

DeliverDetail(q) ==
  /\ q.answer # "none"
  /\ detail' = Delivered(detail, q)
  /\ UNCHANGED <<target, history, panel, posts, store, sent, known>>
DeliverHistory(q) ==
  /\ q.answer # "none"
  /\ history' = Delivered(history, q)
  /\ UNCHANGED <<target, detail, panel, posts, store, sent, known>>

----------------------------------------------------------------------------
\* handleChoose: the version is read off the detail on the screen.
Choose ==
  /\ AllFlushed /\ DecisionsOffered
  /\ panel' = [panel EXCEPT !.kind = "confirming", !.version = detail.held.version, !.outcome = "none"]
  /\ UNCHANGED <<target, detail, history, posts, store, sent, known>>

Cancel ==
  /\ AllFlushed /\ ActiveIntent /\ ~panel.submitting
  /\ panel' = [panel EXCEPT !.kind = "choosing"]
  /\ UNCHANGED <<target, detail, history, posts, store, sent, known>>

\* handleConfirm and submit: a second click of the same tick finds inFlight set.
Confirm ==
  /\ AllFlushed /\ ActiveIntent /\ ~panel.submitting
  /\ sent < MaxPosts
  /\ panel' = [panel EXCEPT !.submitting = TRUE]
  /\ posts' = posts \cup {[id |-> sent + 1, serial |-> panel.serial, case |-> target,
                           version |-> panel.version, served |-> "no", heard |-> FALSE]}
  /\ sent' = sent + 1
  /\ UNCHANGED <<target, detail, history, store, known>>

\* The server judges the POST, now or long after it was given up.
Serve(p) ==
  /\ p.served = "no"
  /\ \E verdict \in IF store[p.case] = p.version THEN {"recorded", "refused"} ELSE {"conflict"} :
       /\ store' = IF verdict = "recorded" THEN [store EXCEPT ![p.case] = @ + 1] ELSE store
       /\ posts' = (posts \ {p}) \cup IF p.heard THEN {} ELSE {[p EXCEPT !.served = verdict]}
  /\ UNCHANGED <<target, detail, history, panel, sent, known>>

\* reconcileAfterWrite; it reaches the workspace also from a panel that is gone.
Reconciled == detail' = Refreshed(detail) /\ history' = Refreshed(history)

\* finally: whatever came of it, the panel submits no longer.
PanelSettled(outcome) ==
  [panel EXCEPT !.kind = "settled", !.outcome = outcome, !.submitting = FALSE]

\* settle and handleOutcome.  The selected case that the hook compares with is
\* the one its own panel was mounted for, so the comparison always succeeds: a
\* panel that is gone loses its state, and its parent is told all the same.
Settle(p, outcome) ==
  /\ ~p.heard
  /\ posts' = (posts \ {p}) \cup IF p.served = "no" THEN {[p EXCEPT !.heard = TRUE]} ELSE {}
  /\ panel' = IF panel.serial = p.serial
                THEN PanelSettled(outcome)
                ELSE panel
  /\ IF Reconciles(outcome) THEN Reconciled ELSE UNCHANGED Hooks
  /\ known' = IF outcome = "recorded" THEN known \cup {p.case} ELSE known
  /\ UNCHANGED <<target, store, sent>>

\* An answer arrives, or the connection breaks and none will.
Outcomes(p) == {"lost"} \cup ({p.served} \ {"no"})

\* Another reviewer decides the case.
DecideElsewhere(c) ==
  /\ store[c] = 1
  /\ store' = [store EXCEPT ![c] = 2]
  /\ UNCHANGED <<target, detail, history, panel, posts, sent, known>>

ReadingDetail == \E q \in detail.flying : DeliverDetail(q) \/ \E ok \in BOOLEAN : AnswerDetail(q, ok)
ReadingHistory == \E q \in history.flying : DeliverHistory(q) \/ \E ok \in BOOLEAN : AnswerHistory(q, ok)
Settling == \E p \in posts : \E o \in Outcomes(p) : Settle(p, o)

Next ==
  \/ \E c \in Case : Select(c) \/ DecideElsewhere(c)
  \/ RefreshCase \/ RetryDetail \/ RunEffects \/ ReadingDetail \/ ReadingHistory
  \/ Choose \/ Cancel \/ Confirm
  \/ (\E p \in posts : Serve(p)) \/ Settling

Spec == Init /\ [][Next]_vars

\* React runs its effects and every fetch settles, with an answer or an error.
Fairness == /\ WF_vars(RunEffects)
            /\ WF_vars(ReadingDetail)
            /\ WF_vars(ReadingHistory)
            /\ WF_vars(Settling)

FairSpec == Spec /\ Fairness

----------------------------------------------------------------------------
\* The panel on the screen is submitting exactly while a POST of its own is
\* without an answer, and it has at most one.
TypeOK ==
  /\ target \in Case \cup {None}
  /\ panel.kind \in {"choosing", "confirming", "settled"}
  /\ panel.submitting => panel.kind = "confirming"
  /\ store \in [Case -> 1..2]
  /\ LET mine == {p \in posts : p.serial = panel.serial /\ ~p.heard}
     IN Cardinality(mine) = IF panel.submitting THEN 1 ELSE 0
  /\ \A p, q \in posts : p.id = q.id => p = q

\* A decision that an answer has reported as recorded is never offered again,
\* wherever the reviewer went, whatever failed and however late the reads are
\* (reconcileAfterWrite, isReadingCase).
RecordedIsNotOfferedAgain == DecisionsOffered => target \notin known

\* What is sent is what was on the screen: the selected case, at the version
\* that is shown at that moment (activeIntent).
SentAsShown ==
  [][sent' > sent => \A p \in posts' \ posts :
       p.case = target /\ ShowCase /\ p.version = detail.held.version]_vars

\* "Decision recorded" with no word about reads that are missing means that
\* case and history on the screen are those after the decision.
ConvergedMeansFresh ==
  AllFlushed /\ panel.kind = "settled" /\ panel.outcome = "recorded"
    /\ ~IsReconciling /\ ~ReconcileFailed
    => detail.held.version = 2 /\ history.held.version = 2

\* "Refreshing authoritative case state" comes to an end.
ReconcilingEnds == IsReconciling ~> ~IsReconciling

=============================================================================
