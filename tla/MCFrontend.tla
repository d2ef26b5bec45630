----------------------------- MODULE MCFrontend -----------------------------
(***************************************************************************)
(* The three places where the browser keeps state of its own, explored one *)
(* at a time: a panel that reads a case (CaseResource), the paged queue    *)
(* (QueuePaging) and the screen that decides (ReviewWorkspace).  part says *)
(* which one a behaviour is about; the other two stay as they were mounted.*)
(***************************************************************************)
EXTENDS CaseResource

CONSTANTS
  Limit, MaxCases, PageReads,    \* of QueuePaging
  Case, ScreenReads, MaxPosts    \* of ReviewWorkspace

VARIABLES
  part,
  filter, offset, page, reply, data, pending, decided, due, fired,
  selected, detail, history, panel, posts, version, sent, known

pagingVars == <<filter, offset, page, reply, data, pending, decided, due, fired>>
screenVars == <<selected, detail, history, panel, posts, version, sent, known>>

Paging == INSTANCE QueuePaging WITH MaxReads <- PageReads, r <- page
Screen == INSTANCE ReviewWorkspace WITH MaxReads <- ScreenReads, target <- selected,
                                        store <- version

ASSUME PartsAssumption == Paging!PagingAssumption /\ Screen!CaseAssumption

MCInit ==
  /\ part \in {"case", "paging", "screen"}
  /\ Init /\ Paging!Init /\ Screen!Init
  /\ part # "paging" => pending = 0

MCNext ==
  /\ UNCHANGED part
  /\ \/ part = "case" /\ Next /\ UNCHANGED <<pagingVars, screenVars>>
     \/ part = "paging" /\ Paging!Next /\ UNCHANGED <<vars, screenVars>>
     \/ part = "screen" /\ Screen!Next /\ UNCHANGED <<vars, pagingVars>>

\* The fairness of the three modules, each for the part that runs.
MCFairness ==
  /\ WF_vars(part = "case" /\ RunEffect)
  /\ WF_vars(part = "case" /\ Reading)
  /\ WF_pagingVars(part = "paging" /\ Paging!RunEffect)
  /\ WF_pagingVars(part = "paging" /\ Paging!Recover)
  /\ WF_pagingVars(part = "paging" /\ Paging!Reading)
  /\ WF_screenVars(part = "screen" /\ Screen!RunEffects)
  /\ WF_screenVars(part = "screen" /\ Screen!ReadingDetail)
  /\ WF_screenVars(part = "screen" /\ Screen!ReadingHistory)
  /\ WF_screenVars(part = "screen" /\ Screen!Settling)

MCSpec ==
  /\ MCInit /\ [][MCNext]_<<part, vars, pagingVars, screenVars>>
  /\ MCFairness

----------------------------------------------------------------------------
\* Each of the three keeps its types: the reads of a case, the offsets of the queue,
\* and a deciding panel with at most one POST of its own in flight.
TypesOK == TypeOK /\ Paging!TypeOK /\ Screen!TypeOK
\* The reviewer is not left on an empty page beyond the end of the queue, and an action
\* of theirs causes at most one recovery that moves the page (App).
PagesRecover == Paging!NotLeftPastTheEnd /\ Paging!RecoversOnce
\* A decision that an answer reported as recorded is never offered again, and "Decision
\* recorded" without a word about missing reads means fresh reads (ReviewWorkspace).
DecisionsAreOfferedOnce == Screen!RecordedIsNotOfferedAgain /\ Screen!ConvergedMeansFresh
\* What is sent is what was on the screen, at the version shown.
SentAsShown == Screen!SentAsShown
\* A read of a case ends, a page beyond the end is left or the read that leaves it
\* fails, and "Refreshing authoritative case state" comes to an end.
ScreensSettle == ReadingEnds /\ Paging!EmptyPageIsLeft /\ Screen!ReconcilingEnds
=============================================================================
