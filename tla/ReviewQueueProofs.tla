------------------------- MODULE ReviewQueueProofs -------------------------
(***************************************************************************)
(* The types of ReviewQueue and why the history of a review queue can be   *)
(* trusted, for every number of reviewers, operators, cases, workflows and *)
(* suggestions.                                                            *)
(*                                                                         *)
(* TypeOK alone is not inductive: a draft can only be written to a row     *)
(* because the process at that step carries a decision request, so         *)
(* RequestFits ties the request to the step.                               *)
(*                                                                         *)
(* The invariant of the second part says where a transaction stands: until *)
(* COMMIT the disk is what BEGIN IMMEDIATE read, because only the holder   *)
(* of the lock may change it, and the private image is the disk plus the   *)
(* part of the handler that has run.  At COMMIT the image therefore        *)
(* extends the disk by one whole decision, registration or suggestion.     *)
(*                                                                         *)
(* The third part shows that the queue implements its ledger: whatever the *)
(* steps of transactions, timeouts, failures and crashes, the committed    *)
(* store only moves by one judged decision, by one whole registration, or  *)
(* not at all.  A MATCH is judged at one step and becomes visible at       *)
(* another.  CarriesOn keeps the judgement, about the disk, from the one   *)
(* to the other; that it still holds at COMMIT is because nobody else      *)
(* moves the disk meanwhile.                                               *)
(***************************************************************************)
EXTENDS ReviewQueue, FiniteSetTheorems, SequenceTheorems, TLAPS

LEMMA SettledIsFinite ==
  ASSUME NEW s
  PROVE  IsFiniteSet(Settled(s)) /\ Cardinality(Settled(s)) \in Nat
<1>1. IsFiniteSet(CaseIds)
  BY QueueAssumption
<1>2. Settled(s) \subseteq CaseIds
  BY DEF Settled
<1> QED
  BY <1>1, <1>2, FS_Subset, FS_CardinalityType

-----------------------------------------------------------------------------
(* Types *)

ResolveSteps == {"load", "authorize", "swap", "append", "verify"}

\* A process carries the request its step belongs to.
RequestFits(w) ==
  /\ pc[w] = "waiting" => op[w] \in Requests
  /\ pc[w] \in ResolveSteps => op[w].kind = "resolve"
  /\ pc[w] \in {"context", "cases"} => op[w].kind = "register"
  /\ pc[w] \in {"suggest", "suggest_event"} => op[w].kind = "suggest"
  /\ op[w].kind = "resolve" => w \in Reviewers
  /\ pc[w] \in {"swap", "append", "verify"} => draft[w] \in Drafts

TypeInv == TypeOK /\ \A w \in Writers : RequestFits(w)

LEMMA RequestKinds ==
  ASSUME NEW o \in Requests \cup {NoOp}
  PROVE  /\ o.kind = "resolve" => /\ o.case \in CaseIds
                                  /\ o.decision \in Decisions
                                  /\ o.expected \in Nat
                                  /\ o \in Requests
         /\ o.kind = "register" => o.workflow \in Workflows
         /\ o.kind = "suggest" => o.suggestion \in Suggestions
         /\ o \in Requests => o.kind \in {"resolve", "register", "suggest"}
BY DEF Requests, NoOp

LEMMA EmptyStoreType == EmptyStore \in Stores
<1>1. NoCase \in Rows
  BY DEF NoCase, Rows, Nobody
<1>2. <<>> \in Seq(Events)
  OBVIOUS
<1> QED
  BY <1>1, <1>2 DEF EmptyStore, Stores

LEMMA RollbackKeepsType ==
  ASSUME TypeInv, NEW w \in Writers, NEW why \in Outcomes, Rollback(w, why)
  PROVE  TypeInv'
<1>1. EmptyStore \in Stores
  BY EmptyStoreType
<1>2. TypeOK'
  BY <1>1 DEF TypeInv, TypeOK, Rollback, Forget, Decline, Answer, Steps
<1>3. ASSUME NEW v \in Writers PROVE RequestFits(v)'
  <2>1. CASE v = w
    BY <2>1 DEF TypeInv, TypeOK, RequestFits, Rollback, Forget, Decline, Answer,
                ResolveSteps, NoOp
  <2>2. CASE v # w
    BY <2>2 DEF TypeInv, TypeOK, RequestFits, Rollback, Forget, Decline, Answer,
                ResolveSteps, NoOp, Requests, Drafts
  <2> QED
    BY <2>1, <2>2
<1> QED
  BY <1>2, <1>3 DEF TypeInv
\* A step of a transaction that goes on: the image may change, to a store.
LEMMA GoOnKeepsType ==
  ASSUME TypeInv, NEW w \in Writers, NEW step \in Steps, NEW s \in Stores,
         image' = [image EXCEPT ![w] = s], Goto(w, step),
         UNCHANGED <<disk, lock, op, bundle, draft, outcome>>,
         step \in {"verify", "append"} => pc[w] \in {"swap", "append", "verify"},
         step = "cases" => op[w].kind = "register",
         step = "suggest_event" => op[w].kind = "suggest",
         step \in {"append", "verify", "cases", "suggest_event", "commit"}
  PROVE  TypeInv'
<1>1. TypeOK'
  BY DEF TypeInv, TypeOK, Goto, Steps
<1>2. ASSUME NEW v \in Writers PROVE RequestFits(v)'
  BY DEF TypeInv, TypeOK, RequestFits, Goto, ResolveSteps
<1> QED
  BY <1>1, <1>2 DEF TypeInv

LEMMA UnchangedKeepsType == TypeInv /\ UNCHANGED vars => TypeInv'
BY DEF TypeInv, TypeOK, RequestFits, vars

LEMMA SubmitKeepsType ==
  ASSUME TypeInv, NEW w \in Writers, NEW o \in Requests, Submit(w, o),
         o.kind = "resolve" => w \in Reviewers
  PROVE  TypeInv'
<1>1. TypeOK'
  BY DEF TypeInv, TypeOK, Submit, Goto, Steps
<1>2. ASSUME NEW v \in Writers PROVE RequestFits(v)'
  BY DEF TypeInv, TypeOK, RequestFits, Submit, Goto, ResolveSteps
<1> QED
  BY <1>1, <1>2 DEF TypeInv

LEMMA BeginKeepsType ==
  ASSUME TypeInv, NEW w \in Writers, Begin(w)
  PROVE  TypeInv'
<1>1. op[w] \in Requests
  BY DEF TypeInv, RequestFits, Begin
<1>2. op[w].kind \in {"resolve", "register", "suggest"}
  BY <1>1, RequestKinds
<1>3. /\ op[w].kind = "resolve" => FirstStep(op[w]) = "load"
      /\ op[w].kind = "register" => FirstStep(op[w]) = "context"
      /\ op[w].kind = "suggest" => FirstStep(op[w]) = "suggest"
  BY DEF FirstStep
<1>4. TypeOK'
  BY <1>2, <1>3 DEF TypeInv, TypeOK, Begin, Goto, Steps
<1>5. ASSUME NEW v \in Writers PROVE RequestFits(v)'
  BY <1>2, <1>3 DEF TypeInv, TypeOK, RequestFits, Begin, Goto, ResolveSteps
<1> QED
  BY <1>4, <1>5 DEF TypeInv

LEMMA BusyKeepsType ==
  ASSUME TypeInv, NEW w \in Writers, Busy(w)
  PROVE  TypeInv'
<1>1. TypeOK'
  BY DEF TypeInv, TypeOK, Busy, Decline, Answer, Steps, Outcomes
<1>2. ASSUME NEW v \in Writers PROVE RequestFits(v)'
  BY DEF TypeInv, TypeOK, RequestFits, Busy, Decline, Answer, ResolveSteps, NoOp
<1> QED
  BY <1>1, <1>2 DEF TypeInv

LEMMA LoadBundleKeepsType ==
  ASSUME TypeInv, NEW w \in Writers, LoadBundle(w)
  PROVE  TypeInv'
<1>1. CASE image[w].context # NoContext /\ Reconstructs(image[w])
  <2>1. TypeOK'
    BY <1>1 DEF TypeInv, TypeOK, LoadBundle, Goto, Steps
  <2>2. ASSUME NEW v \in Writers PROVE RequestFits(v)'
    BY <1>1 DEF TypeInv, TypeOK, RequestFits, LoadBundle, Goto, ResolveSteps
  <2> QED
    BY <2>1, <2>2 DEF TypeInv
<1>2. CASE ~(image[w].context # NoContext /\ Reconstructs(image[w]))
  BY <1>2, RollbackKeepsType DEF LoadBundle, Outcomes
<1> QED
  BY <1>1, <1>2

LEMMA VerdictType ==
  ASSUME NEW b, NEW o
  PROVE  Verdict(b, o) \in Outcomes
BY DEF Verdict, Outcomes

LEMMA AuthorizeKeepsType ==
  ASSUME TypeInv, NEW w \in Writers, Authorize(w)
  PROVE  TypeInv'
<1> DEFINE o == op[w]
           b == bundle[w]
           d == [case |-> o.case, status |-> StatusFor(o.decision),
                 sequence |-> NextSequence(b), reviewer |-> w]
<1>1. CASE Verdict(b, o) = "approved"
  <2>1. o.kind = "resolve" /\ w \in Reviewers
    BY DEF TypeInv, RequestFits, Authorize, ResolveSteps
  <2>2. o.case \in CaseIds /\ o.decision \in Decisions
    BY <2>1, RequestKinds DEF TypeInv, TypeOK
  <2>3. NextSequence(b) \in Nat
    BY SettledIsFinite DEF NextSequence
  <2>4. StatusFor(o.decision) \in Resolved
    BY <2>2 DEF StatusFor, Decisions, Resolved
  <2>5. d \in Drafts
    BY <2>1, <2>2, <2>3, <2>4 DEF Drafts
  <2>6. /\ draft' = [draft EXCEPT ![w] = d]
        /\ pc' = [pc EXCEPT ![w] = "swap"]
        /\ pc[w] = "authorize"
        /\ UNCHANGED <<disk, lock, op, image, bundle, outcome>>
    BY <1>1 DEF Authorize, Goto
  <2> HIDE DEF d, o, b
  <2>7. TypeOK'
    BY <2>5, <2>6 DEF TypeInv, TypeOK, Steps
  <2>8. ASSUME NEW v \in Writers PROVE RequestFits(v)'
    BY <2>5, <2>6 DEF TypeInv, TypeOK, RequestFits, ResolveSteps
  <2> QED
    BY <2>7, <2>8 DEF TypeInv
<1>2. CASE Verdict(b, o) # "approved"
  BY <1>2, RollbackKeepsType, VerdictType DEF Authorize
<1> QED
  BY <1>1, <1>2
\* What the request of a step offers.
LEMMA ResolvingStep ==
  ASSUME TypeInv, NEW w \in Writers, pc[w] \in {"swap", "append", "verify"}
  PROVE  /\ op[w].kind = "resolve" /\ w \in Reviewers
         /\ op[w].case \in CaseIds /\ op[w].decision \in Decisions /\ op[w].expected \in Nat
         /\ draft[w].case \in CaseIds /\ draft[w].status \in Resolved
         /\ draft[w].sequence \in Nat /\ draft[w].reviewer \in Reviewers
<1>1. op[w].kind = "resolve" /\ w \in Reviewers
  BY DEF TypeInv, RequestFits, ResolveSteps
<1>2. op[w] \in Requests \cup {NoOp}
  BY DEF TypeInv, TypeOK
<1>3. draft[w] \in Drafts
  BY DEF TypeInv, RequestFits
<1> QED
  BY <1>1, <1>2, <1>3, RequestKinds DEF Drafts

LEMMA RegisteringStep ==
  ASSUME TypeInv, NEW w \in Writers, pc[w] \in {"context", "cases"}
  PROVE  op[w].kind = "register" /\ op[w].workflow \in Workflows
BY RequestKinds DEF TypeInv, TypeOK, RequestFits

LEMMA SuggestingStep ==
  ASSUME TypeInv, NEW w \in Writers, pc[w] \in {"suggest", "suggest_event"}
  PROVE  /\ op[w].kind = "suggest" /\ op[w].suggestion \in Suggestions
         /\ op[w].suggestion.case \in CaseIds
<1>1. op[w].kind = "suggest" /\ op[w].suggestion \in Suggestions
  BY RequestKinds DEF TypeInv, TypeOK, RequestFits
<1> QED
  BY <1>1, QueueAssumption

LEMMA ResolvedRowType ==
  ASSUME NEW row \in Rows, NEW d, d.status \in Resolved, d.sequence \in Nat,
         d.reviewer \in Reviewers
  PROVE  ResolvedRow(row, d) \in Rows
<1> DEFINE st == d.status
           q == d.sequence
           r == d.reviewer
<1>1. row.version + 1 \in Nat
  BY DEF Rows
<1>2. st \in {"ABSENT", "PENDING"} \cup Resolved /\ q \in Nat /\ r \in Reviewers \cup {Nobody}
  OBVIOUS
<1>3. ResolvedRow(row, d) = [row EXCEPT !.status = st, !.version = row.version + 1,
                                        !.sequence = q, !.reviewer = r]
  BY DEF ResolvedRow
<1> HIDE DEF st, q, r
<1> QED
  BY <1>1, <1>2, <1>3 DEF Rows

LEMMA CompareAndSwapKeepsType ==
  ASSUME TypeInv, NEW w \in Writers, CompareAndSwap(w)
  PROVE  TypeInv'
<1> DEFINE d == draft[w]
           row == image[w].cases[d.case]
           new == ResolvedRow(row, d)
           s == [image[w] EXCEPT !.cases = [@ EXCEPT ![d.case] = new]]
<1>1. pc[w] = "swap" /\ "append" \in Steps
  BY DEF CompareAndSwap, Steps
<1>2. image[w] \in Stores /\ image \in [Writers -> Stores]
  BY DEF TypeInv, TypeOK
<1>3. row \in Rows
  BY <1>1, <1>2, ResolvingStep DEF Stores
<1>4. new \in Rows
  BY <1>1, <1>3, ResolvingStep, ResolvedRowType
<1>5. s \in Stores
  BY <1>1, <1>2, <1>4, ResolvingStep DEF Stores
<1>6. CASE row.version = op[w].expected /\ row.status = "PENDING"
  <2>1. image' = [image EXCEPT ![w] = s] /\ Goto(w, "append")
        /\ UNCHANGED <<disk, lock, op, bundle, draft, outcome>>
    BY <1>2, <1>6 DEF CompareAndSwap
  <2> QED
    BY <2>1, <1>1, <1>5, GoOnKeepsType
<1>7. CASE ~(row.version = op[w].expected /\ row.status = "PENDING")
  BY <1>7, RollbackKeepsType DEF CompareAndSwap, Outcomes
<1> QED
  BY <1>6, <1>7

LEMMA AppendedType ==
  ASSUME NEW s \in Stores, NEW e \in Events
  PROVE  [s EXCEPT !.events = Append(@, e)] \in Stores
<1>1. Append(s.events, e) \in Seq(Events)
  BY DEF Stores
<1> QED
  BY <1>1 DEF Stores

LEMMA AppendEventKeepsType ==
  ASSUME TypeInv, NEW w \in Writers, AppendEvent(w)
  PROVE  TypeInv'
<1> DEFINE d == draft[w]
           e == [case |-> d.case, type |-> d.status, sequence |-> d.sequence,
                 reviewer |-> d.reviewer, suggestion |-> "none"]
           s == [image[w] EXCEPT !.events = Append(@, e)]
           taken == \E i \in ResolutionEvents(image[w]) : image[w].events[i].sequence = d.sequence
<1>1. pc[w] = "append" /\ "verify" \in Steps
  BY DEF AppendEvent, Steps
<1>2. image[w] \in Stores /\ image \in [Writers -> Stores]
  BY DEF TypeInv, TypeOK
<1>3. e \in Events
  BY <1>1, ResolvingStep DEF Events
<1>4. s \in Stores
  BY <1>2, <1>3, AppendedType
<1>5. CASE ~taken
  <2>1. image' = [image EXCEPT ![w] = s] /\ Goto(w, "verify")
        /\ UNCHANGED <<disk, lock, op, bundle, draft, outcome>>
    BY <1>2, <1>5 DEF AppendEvent
  <2> QED
    BY <2>1, <1>1, <1>4, GoOnKeepsType
<1>6. CASE taken
  BY <1>6, RollbackKeepsType DEF AppendEvent, Outcomes
<1> QED
  BY <1>5, <1>6

LEMMA StillKeepsType ==
  ASSUME TypeInv, NEW w \in Writers, Goto(w, "commit"),
         UNCHANGED <<disk, lock, op, image, bundle, draft, outcome>>
  PROVE  TypeInv'
<1>1. image' = [image EXCEPT ![w] = image[w]] /\ image[w] \in Stores /\ "commit" \in Steps
  BY DEF TypeInv, TypeOK, Steps
<1> QED
  BY <1>1, GoOnKeepsType

LEMMA VerifyEventKeepsType ==
  ASSUME TypeInv, NEW w \in Writers, VerifyEvent(w)
  PROVE  TypeInv'
<1>1. \/ Goto(w, "commit") /\ UNCHANGED <<disk, lock, op, image, bundle, draft, outcome>>
      \/ Rollback(w, "error")
  BY DEF VerifyEvent
<1> QED
  BY <1>1, StillKeepsType, RollbackKeepsType DEF Outcomes
LEMMA StoreContextKeepsType ==
  ASSUME TypeInv, NEW w \in Writers, StoreContext(w)
  PROVE  TypeInv'
<1> DEFINE wf == op[w].workflow
           clash == image[w].context # NoContext /\ ~Compatible(image[w].context, wf.context)
           ctx == IF image[w].context = NoContext THEN wf.context ELSE image[w].context
           s == [image[w] EXCEPT !.context = ctx]
<1>1. pc[w] = "context" /\ "cases" \in Steps
  BY DEF StoreContext, Steps
<1>2. image[w] \in Stores /\ image \in [Writers -> Stores]
  BY DEF TypeInv, TypeOK
<1>3. op[w].kind = "register" /\ wf \in Workflows
  BY <1>1, RegisteringStep
<1>4. ctx \in {v.context : v \in Workflows} \cup {NoContext}
  BY <1>2, <1>3 DEF Stores
<1>5. s \in Stores
  BY <1>2, <1>4 DEF Stores
<1>6. CASE image[w].active /\ ~clash
  <2>1. image' = [image EXCEPT ![w].context = ctx] /\ Goto(w, "cases")
        /\ UNCHANGED <<disk, lock, op, bundle, draft, outcome>>
    BY <1>6 DEF StoreContext
  <2>2. image' = [image EXCEPT ![w] = s]
    BY <2>1, <1>2
  <2> QED
    BY <2>1, <2>2, <1>1, <1>3, <1>5, GoOnKeepsType
<1>7. CASE ~image[w].active
  BY <1>7, RollbackKeepsType DEF StoreContext, Outcomes
<1>8. CASE image[w].active /\ clash
  BY <1>8, RollbackKeepsType DEF StoreContext, Outcomes
<1> QED
  BY <1>6, <1>7, <1>8

\* The cases a registration leaves.
LEMMA RegisteredType ==
  ASSUME NEW s \in Stores, NEW wf \in Workflows
  PROVE  [c \in CaseIds |-> IF c \in DOMAIN wf.cases \ Present(s)
                              THEN PendingCase(wf.cases[c]) ELSE s.cases[c]] \in [CaseIds -> Rows]
<1>1. ASSUME NEW c \in DOMAIN wf.cases PROVE PendingCase(wf.cases[c]) \in Rows
  <2>1. wf.cases[c] \in Nat \X Nat
    BY QueueAssumption DEF PairsOver
  <2> DEFINE q == wf.cases[c]
  <2> HIDE DEF q
  <2>2. q \in Nat \X Nat => PendingCase(q) \in Rows
    BY DEF PendingCase, Rows
  <2> QED
    BY <2>1, <2>2 DEF q
<1>2. ASSUME NEW c \in CaseIds PROVE s.cases[c] \in Rows
  BY DEF Stores
<1> QED
  BY <1>1, <1>2

LEMMA RegisterCasesKeepsType ==
  ASSUME TypeInv, NEW w \in Writers, RegisterCases(w)
  PROVE  TypeInv'
<1> DEFINE wf == op[w].workflow
           after == [c \in CaseIds |-> IF c \in DOMAIN wf.cases \ Present(image[w])
                                         THEN PendingCase(wf.cases[c]) ELSE image[w].cases[c]]
           s == [image[w] EXCEPT !.cases = after]
<1>1. pc[w] = "cases" /\ "commit" \in Steps
  BY DEF RegisterCases, Steps
<1>2. image[w] \in Stores /\ image \in [Writers -> Stores]
  BY DEF TypeInv, TypeOK
<1>3. wf \in Workflows
  BY <1>1, RegisteringStep
<1>4. after \in [CaseIds -> Rows]
  BY <1>2, <1>3, RegisteredType
<1>5. s \in Stores
  BY <1>2, <1>4 DEF Stores
<1>6. CASE ~Clash(image[w], wf.cases)
  <2>1. image' = [image EXCEPT ![w].cases = after] /\ Goto(w, "commit")
        /\ UNCHANGED <<disk, lock, op, bundle, draft, outcome>>
    BY <1>6 DEF RegisterCases
  <2>2. image' = [image EXCEPT ![w] = s]
    BY <2>1, <1>2
  <2> QED
    BY <2>1, <2>2, <1>1, <1>5, GoOnKeepsType
<1>7. CASE Clash(image[w], wf.cases)
  BY <1>7, RollbackKeepsType DEF RegisterCases, Outcomes
<1> QED
  BY <1>6, <1>7

LEMMA RecordSuggestionKeepsType ==
  ASSUME TypeInv, NEW w \in Writers, RecordSuggestion(w)
  PROVE  TypeInv'
<1> DEFINE g == op[w].suggestion
           row == image[w].cases[g.case]
           known == {h \in image[w].suggestions : h.id = g.id}
           s == [image[w] EXCEPT !.suggestions = @ \cup {g}]
<1>1. pc[w] = "suggest" /\ "suggest_event" \in Steps
  BY DEF RecordSuggestion, Steps
<1>2. image[w] \in Stores /\ image \in [Writers -> Stores]
  BY DEF TypeInv, TypeOK
<1>3. op[w].kind = "suggest" /\ g \in Suggestions
  BY <1>1, SuggestingStep
<1>4. s \in Stores
  BY <1>2, <1>3 DEF Stores
<1>5. \/ Rollback(w, "not_found")
      \/ Rollback(w, "conflict")
      \/ /\ Goto(w, "commit")
         /\ UNCHANGED <<disk, lock, op, image, bundle, draft, outcome>>
      \/ /\ image' = [image EXCEPT ![w].suggestions = @ \cup {g}]
         /\ Goto(w, "suggest_event")
         /\ UNCHANGED <<disk, lock, op, bundle, draft, outcome>>
  BY DEF RecordSuggestion
<1>6. ASSUME image' = [image EXCEPT ![w].suggestions = @ \cup {g}]
      PROVE  image' = [image EXCEPT ![w] = s]
  BY <1>2, <1>6
<1> HIDE DEF g, s
<1> QED
  BY <1>1, <1>3, <1>4, <1>5, <1>6, RollbackKeepsType, StillKeepsType, GoOnKeepsType DEF Outcomes

LEMMA AppendSuggestionEventKeepsType ==
  ASSUME TypeInv, NEW w \in Writers, AppendSuggestionEvent(w)
  PROVE  TypeInv'
<1> DEFINE g == op[w].suggestion
           e == [case |-> g.case, type |-> "SEMANTIC_SUGGESTION_RECORDED", sequence |-> 0,
                 reviewer |-> Nobody, suggestion |-> g.id]
           s == [image[w] EXCEPT !.events = Append(@, e)]
<1>1. pc[w] = "suggest_event" /\ "commit" \in Steps
  BY DEF AppendSuggestionEvent, Steps
<1>2. image[w] \in Stores /\ image \in [Writers -> Stores]
  BY DEF TypeInv, TypeOK
<1>3. e \in Events
  BY <1>1, SuggestingStep DEF Events
<1>4. s \in Stores
  BY <1>2, <1>3, AppendedType
<1>5. image' = [image EXCEPT ![w] = s] /\ Goto(w, "commit")
      /\ UNCHANGED <<disk, lock, op, bundle, draft, outcome>>
  BY <1>2 DEF AppendSuggestionEvent
<1> QED
  BY <1>1, <1>4, <1>5, GoOnKeepsType

LEMMA CommitKeepsType ==
  ASSUME TypeInv, NEW w \in Writers, Commit(w)
  PROVE  TypeInv'
<1>1. TypeOK'
  BY EmptyStoreType DEF TypeInv, TypeOK, Commit, Forget, Answer, Steps, Outcomes
<1>2. ASSUME NEW v \in Writers PROVE RequestFits(v)'
  BY DEF TypeInv, TypeOK, RequestFits, Commit, Forget, Answer, ResolveSteps
<1> QED
  BY <1>1, <1>2 DEF TypeInv

LEMMA ReplyKeepsType ==
  ASSUME TypeInv, NEW w \in Writers, Reply(w)
  PROVE  TypeInv'
<1>1. TypeOK'
  BY DEF TypeInv, TypeOK, Reply, Rest, Steps, Outcomes
<1>2. ASSUME NEW v \in Writers PROVE RequestFits(v)'
  BY DEF TypeInv, TypeOK, RequestFits, Reply, Rest, ResolveSteps, NoOp
<1> QED
  BY <1>1, <1>2 DEF TypeInv

LEMMA CrashKeepsType ==
  ASSUME TypeInv, NEW w \in Writers, Crash(w)
  PROVE  TypeInv'
<1>1. TypeOK'
  BY EmptyStoreType DEF TypeInv, TypeOK, Crash, Forget, Rest, Steps, Outcomes
<1>2. ASSUME NEW v \in Writers PROVE RequestFits(v)'
  BY DEF TypeInv, TypeOK, RequestFits, Crash, Forget, Rest, ResolveSteps, NoOp
<1> QED
  BY <1>1, <1>2 DEF TypeInv

LEMMA SetOrganizationStatusKeepsType ==
  ASSUME TypeInv, SetOrganizationStatus
  PROVE  TypeInv'
<1>1. [disk EXCEPT !.active = ~@] \in Stores
  BY DEF TypeInv, TypeOK, Stores
<1> QED
  BY <1>1 DEF TypeInv, TypeOK, RequestFits, SetOrganizationStatus
LEMMA InitType == Init => TypeInv
<1>1. EmptyStore \in Stores
  BY EmptyStoreType
<1>2. Init => TypeOK
  BY <1>1 DEF Init, TypeOK, Steps, Outcomes
<1>3. Init => \A w \in Writers : RequestFits(w)
  BY DEF Init, RequestFits, ResolveSteps, NoOp
<1> QED
  BY <1>2, <1>3 DEF TypeInv

LEMMA SubmissionsKeepType ==
  ASSUME TypeInv
  PROVE  /\ \A w \in Reviewers, c \in CaseIds, d \in Offered : SubmitDecision(w, c, d) => TypeInv'
         /\ \A w \in Operators, wf \in Workflows : SubmitRegistration(w, wf) => TypeInv'
         /\ \A w \in Operators, g \in Suggestions : SubmitSuggestion(w, g) => TypeInv'
<1>1. ASSUME NEW w \in Reviewers, NEW c \in CaseIds, NEW d \in Offered, SubmitDecision(w, c, d)
      PROVE  TypeInv'
  <2> DEFINE o == [kind |-> "resolve", case |-> c, decision |-> d,
                   expected |-> ExpectedVersion(c)]
  <2>1. ExpectedVersion(c) \in Nat
    BY DEF TypeInv, TypeOK, Stores, Rows, ExpectedVersion
  <2>2. o \in Requests
    BY <2>1, QueueAssumption DEF Requests
  <2>3. Submit(w, o) /\ w \in Writers
    BY <1>1 DEF SubmitDecision, Writers
  <2> QED
    BY <2>2, <2>3, SubmitKeepsType
<1>2. ASSUME NEW w \in Operators, NEW wf \in Workflows, SubmitRegistration(w, wf)
      PROVE  TypeInv'
  <2> DEFINE o == [kind |-> "register", workflow |-> wf]
  <2>1. o \in Requests /\ o.kind # "resolve"
    BY DEF Requests
  <2>2. Submit(w, o) /\ w \in Writers
    BY <1>2 DEF SubmitRegistration, Writers
  <2> HIDE DEF o
  <2> QED
    BY <2>1, <2>2, SubmitKeepsType
<1>3. ASSUME NEW w \in Operators, NEW g \in Suggestions, SubmitSuggestion(w, g)
      PROVE  TypeInv'
  <2> DEFINE o == [kind |-> "suggest", suggestion |-> g]
  <2>1. o \in Requests /\ o.kind # "resolve"
    BY DEF Requests
  <2>2. Submit(w, o) /\ w \in Writers
    BY <1>3 DEF SubmitSuggestion, Writers
  <2> HIDE DEF o
  <2> QED
    BY <2>1, <2>2, SubmitKeepsType
<1> QED
  BY <1>1, <1>2, <1>3

LEMMA NextKeepsType == TypeInv /\ [Next]_vars => TypeInv'
<1> SUFFICES ASSUME TypeInv, [Next]_vars PROVE TypeInv'
  OBVIOUS
<1>1. CASE \E w \in Reviewers, c \in CaseIds, d \in Offered : SubmitDecision(w, c, d)
  BY <1>1, SubmissionsKeepType
<1>2. CASE \E w \in Operators, wf \in Workflows : SubmitRegistration(w, wf)
  BY <1>2, SubmissionsKeepType
<1>3. CASE \E w \in Operators, g \in Suggestions : SubmitSuggestion(w, g)
  BY <1>3, SubmissionsKeepType
<1>4. ASSUME NEW w \in Writers, Proceed(w) PROVE TypeInv'
  BY <1>4, BeginKeepsType, BusyKeepsType, LoadBundleKeepsType, AuthorizeKeepsType,
     CompareAndSwapKeepsType, AppendEventKeepsType, VerifyEventKeepsType,
     StoreContextKeepsType, RegisterCasesKeepsType, RecordSuggestionKeepsType,
     AppendSuggestionEventKeepsType, CommitKeepsType, ReplyKeepsType DEF Proceed
<1>5. ASSUME NEW w \in Writers, Fail(w) PROVE TypeInv'
  BY <1>5, RollbackKeepsType DEF Fail, Outcomes
<1>6. ASSUME NEW w \in Writers, Crash(w) PROVE TypeInv'
  BY <1>6, CrashKeepsType
<1>7. CASE SetOrganizationStatus
  BY <1>7, SetOrganizationStatusKeepsType
<1>8. CASE UNCHANGED vars
  BY <1>8, UnchangedKeepsType
<1> QED
  BY <1>1, <1>2, <1>3, <1>4, <1>5, <1>6, <1>7, <1>8 DEF Next

\* Type correctness: every variable keeps its type, and a process in the middle
\* of a handler carries the request that handler was called with.
THEOREM TypeCorrect == Spec => []TypeOK
<1>1. TypeInv => TypeOK
  BY DEF TypeInv
<1> QED
  BY <1>1, InitType, NextKeepsType, PTL DEF Spec

-----------------------------------------------------------------------------
(* The history *)

InTransaction == {"load", "authorize", "swap", "append", "verify",
                  "context", "cases", "suggest", "suggest_event", "commit"}

\* More than Reconstructs asks for: no settled case lacks its event, and the
\* settled cases are numbered one to one.
Complete(s) ==
  /\ \A c \in Settled(s) : \E i \in ResolutionEvents(s) : s.events[i].case = c
  /\ \A c \in Settled(s) : s.cases[c].sequence \in 1..Cardinality(Settled(s))
  /\ \A c, k \in Settled(s) : s.cases[c].sequence = s.cases[k].sequence => c = k

\* A case is registered at version 1 and decided once.
VersionsFit(s) ==
  \A c \in CaseIds :
    s.cases[c].version = IF c \in Settled(s) THEN 2 ELSE IF c \in Present(s) THEN 1 ELSE 0

\* A suggestion is stored once, and one event tells of it.
Advised(s) ==
  /\ \A g, h \in s.suggestions : g.id = h.id => g = h
  /\ \A g \in s.suggestions : \E i \in DOMAIN s.events : s.events[i].suggestion = g.id
  /\ \A i \in DOMAIN s.events : s.events[i].suggestion # "none" =>
       /\ \E g \in s.suggestions : s.events[i].suggestion = g.id
       /\ \A j \in DOMAIN s.events : s.events[i].suggestion = s.events[j].suggestion => i = j

Sound(s) == Reconstructs(s) /\ Complete(s) /\ VersionsFit(s) /\ Advised(s)

\* Store t is a legitimate later state of store s.
Extends(s, t) ==
  /\ t.active = s.active
  /\ IsPrefix(s.events, t.events)
  /\ \A c \in Settled(s) : t.cases[c] = s.cases[c]
  /\ s.context # NoContext => t.context = s.context
  /\ Present(t) # Present(s) => s.active

\* The decision process w was asked for is in store s.
Recorded(s, w) ==
  LET row == s.cases[op[w].case]
  IN /\ row.status = StatusFor(op[w].decision)
     /\ row.reviewer = w
     /\ row.version = op[w].expected + 1

\* The draft settles a case that is still open at the version the caller read.
DraftFits(w) ==
  LET d == draft[w]
  IN /\ d = [case |-> op[w].case, status |-> StatusFor(op[w].decision),
             sequence |-> NextSequence(disk), reviewer |-> w]
     /\ disk.cases[d.case].status = "PENDING"
     /\ disk.cases[d.case].version = op[w].expected

SwappedCases(w) ==
  [disk.cases EXCEPT ![draft[w].case] = ResolvedRow(disk.cases[draft[w].case], draft[w])]

DecisionEvent(w) ==
  [case |-> draft[w].case, type |-> draft[w].status, sequence |-> draft[w].sequence,
   reviewer |-> draft[w].reviewer, suggestion |-> "none"]

\* Only a queue without a context gets one, and only of an active organization.
ContextStored(w) ==
  /\ image[w] = [disk EXCEPT !.context = image[w].context]
  /\ disk.active
  /\ disk.context # NoContext => image[w].context = disk.context

\* How far the transaction of w has taken its image from the disk.
ImageFits(w) ==
  /\ pc[w] \in {"load", "authorize", "swap", "context", "suggest"} => image[w] = disk
  /\ pc[w] = "authorize" => bundle[w] = disk
  /\ pc[w] \in {"swap", "append", "verify"} => DraftFits(w)
  /\ pc[w] = "append" => image[w] = [disk EXCEPT !.cases = SwappedCases(w)]
  /\ pc[w] = "verify" => image[w] = [disk EXCEPT !.cases = SwappedCases(w),
                                                 !.events = Append(@, DecisionEvent(w))]
  /\ pc[w] = "cases" => ContextStored(w)
  /\ pc[w] = "suggest_event" =>
       /\ image[w] = [disk EXCEPT !.suggestions = @ \cup {op[w].suggestion}]
       /\ \A h \in disk.suggestions : h.id # op[w].suggestion.id
  /\ pc[w] = "commit" => Sound(image[w]) /\ Extends(disk, image[w])
  /\ pc[w] = "commit" /\ op[w].kind = "resolve" => Recorded(image[w], w)

RoleFits(w) ==
  /\ pc[w] \in InTransaction <=> lock = w
  /\ pc[w] \in InTransaction => op[w].kind # "none"
  /\ w \in Reviewers => op[w].kind \in {"resolve", "none"}

\* What was answered "recorded" is still there.
AnswerFits(w) ==
  pc[w] = "reply" /\ outcome[w] = "recorded" =>
    /\ op[w].kind # "none"
    /\ op[w].kind = "resolve" => /\ op[w].case \in Settled(disk)
                                 /\ Recorded(disk, w)

HistoryInv ==
  /\ TypeInv
  /\ Sound(disk)
  /\ \A w \in Writers : RoleFits(w) /\ ImageFits(w) /\ AnswerFits(w)

-----------------------------------------------------------------------------
(* Stores *)

LEMMA EmptyStoreSound == Sound(EmptyStore)
<1>1. Settled(EmptyStore) = {} /\ Present(EmptyStore) = {}
  BY DEF Settled, Present, EmptyStore, NoCase, Resolved
<1>2. ResolutionEvents(EmptyStore) = {}
  BY DEF ResolutionEvents, EmptyStore
<1>3. Cardinality({}) = 0
  BY FS_EmptySet
<1>4. VersionsFit(EmptyStore)
  BY <1>1 DEF VersionsFit, EmptyStore, NoCase
<1>5. Advised(EmptyStore)
  BY DEF Advised, EmptyStore
<1> QED
  BY <1>1, <1>2, <1>3, <1>4, <1>5 DEF Sound, Reconstructs, Complete

\* A store with the same decisions and the same events about them is as sound.
LEMMA SameHistorySound ==
  ASSUME NEW s, NEW t, Sound(s), VersionsFit(t), Advised(t),
         Settled(t) = Settled(s), \A c \in Settled(s) : t.cases[c] = s.cases[c],
         ResolutionEvents(t) = ResolutionEvents(s),
         \A i \in ResolutionEvents(s) : t.events[i] = s.events[i]
  PROVE  Sound(t)
<1>1. Reconstructs(t)
  BY DEF Sound, Reconstructs
<1>2. Complete(t)
  BY DEF Sound, Complete
<1> QED
  BY <1>1, <1>2 DEF Sound

LEMMA AppendedEvent ==
  ASSUME NEW s \in Stores, NEW e \in Events
  PROVE  LET t == Append(s.events, e)
             n == Len(s.events) + 1
         IN /\ n \notin DOMAIN s.events
            /\ DOMAIN t = DOMAIN s.events \cup {n}
            /\ \A i \in DOMAIN s.events : t[i] = s.events[i]
            /\ t[n] = e
            /\ IsPrefix(s.events, t)
<1>1. s.events \in Seq(Events)
  BY DEF Stores
<1> DEFINE q == s.events
<1>2. q \in Seq(Events)
  BY <1>1
<1> HIDE DEF q
<1>3. Len(q) \in Nat /\ DOMAIN q = 1..Len(q)
  BY <1>2
<1>4. /\ Len(Append(q, e)) = Len(q) + 1
      /\ \A i \in 1..Len(q) : Append(q, e)[i] = q[i]
      /\ Append(q, e)[Len(q) + 1] = e
      /\ DOMAIN Append(q, e) = 1..(Len(q) + 1)
      /\ Append(q, e) \in Seq(Events)
  BY <1>2, <1>3
<1>5. SubSeq(Append(q, e), 1, Len(q)) = SubSeq(q, 1, Len(q))
  BY <1>2, <1>3, <1>4
<1>6. IsPrefix(q, Append(q, e))
  BY <1>3, <1>4, <1>5 DEF IsPrefix
<1>7. Len(q) + 1 \notin DOMAIN q /\ DOMAIN Append(q, e) = DOMAIN q \cup {Len(q) + 1}
  BY <1>3, <1>4
<1> QED
  BY <1>3, <1>4, <1>6, <1>7 DEF q

\* An event more, that tells of nothing.
LEMMA AdvisedWithEvent ==
  ASSUME NEW s, NEW t, Advised(s), NEW n, NEW e, e.suggestion = "none",
         t.suggestions = s.suggestions,
         DOMAIN t.events = DOMAIN s.events \cup {n}, t.events[n] = e,
         \A i \in DOMAIN s.events : t.events[i] = s.events[i]
  PROVE  Advised(t)
BY DEF Advised

\* A new suggestion and the event that tells of it.
LEMMA AdvisedWithSuggestion ==
  ASSUME NEW s, NEW t, Advised(s), NEW n, NEW e, NEW g, e.suggestion = g.id,
         t.suggestions = s.suggestions \cup {g}, \A h \in s.suggestions : h.id # g.id,
         n \notin DOMAIN s.events, DOMAIN t.events = DOMAIN s.events \cup {n}, t.events[n] = e,
         \A i \in DOMAIN s.events : t.events[i] = s.events[i]
  PROVE  Advised(t)
<1>1. \A h, k \in t.suggestions : h.id = k.id => h = k
  BY DEF Advised
<1>2. \A h \in t.suggestions : \E i \in DOMAIN t.events : t.events[i].suggestion = h.id
  BY DEF Advised
<1>3. ASSUME NEW i \in DOMAIN t.events, t.events[i].suggestion # "none"
      PROVE  \E h \in t.suggestions : t.events[i].suggestion = h.id
  BY <1>3 DEF Advised
<1>4. ASSUME NEW i \in DOMAIN t.events, NEW j \in DOMAIN t.events,
             t.events[i].suggestion # "none", t.events[i].suggestion = t.events[j].suggestion
      PROVE  i = j
  <2>1. \A k \in DOMAIN s.events : t.events[k].suggestion # "none" => t.events[k].suggestion # g.id
    BY DEF Advised
  <2>2. CASE i # n /\ j # n
    BY <1>4, <2>2 DEF Advised
  <2> QED
    BY <1>4, <2>1, <2>2
<1> QED
  BY <1>1, <1>2, <1>3, <1>4 DEF Advised

LEMMA PrefixOfItself ==
  ASSUME NEW s \in Stores
  PROVE  IsPrefix(s.events, s.events)
<1>1. Len(s.events) \in Nat
  BY DEF Stores
<1> QED
  BY <1>1 DEF IsPrefix

LEMMA ExtendsItself ==
  ASSUME NEW s \in Stores
  PROVE  Extends(s, s)
BY PrefixOfItself DEF Extends
\* A decision on an open case, numbered next and told by one event, extends the
\* history.
LEMMA DecisionExtends ==
  ASSUME NEW s \in Stores, Sound(s), NEW d \in Drafts, NEW e \in Events, NEW t,
         s.cases[d.case].status = "PENDING", d.sequence = NextSequence(s),
         e.case = d.case, e.type = d.status, e.sequence = d.sequence, e.reviewer = d.reviewer,
         e.suggestion = "none",
         t = [s EXCEPT !.cases = [s.cases EXCEPT ![d.case] = ResolvedRow(s.cases[d.case], d)],
                       !.events = Append(@, e)]
  PROVE  Sound(t) /\ Extends(s, t)
<1> DEFINE c == d.case
           n == Len(s.events) + 1
           N == Cardinality(Settled(s))
<1>1. /\ c \in CaseIds /\ d.status \in Resolved /\ d.sequence \in Nat
      /\ s.cases \in [CaseIds -> Rows]
  BY DEF Drafts, Stores
<1>2. c \notin Settled(s) /\ c \in Present(s)
  BY <1>1 DEF Settled, Present, Resolved
<1>3. /\ t.events = Append(s.events, e) /\ t.active = s.active /\ t.context = s.context
      /\ t.suggestions = s.suggestions
  BY DEF Stores
<1>4. \A k \in CaseIds \ {c} : t.cases[k] = s.cases[k]
  BY <1>1 DEF Stores
<1>5. t.cases[c] = ResolvedRow(s.cases[c], d)
  BY <1>1 DEF Stores
<1>6. /\ t.cases[c].status = d.status /\ t.cases[c].sequence = d.sequence
      /\ t.cases[c].reviewer = d.reviewer /\ t.cases[c].version = 2
  <2>1. s.cases[c] \in Rows /\ s.cases[c].version = 1
    BY <1>1, <1>2 DEF Sound, VersionsFit
  <2> DEFINE row == s.cases[c]
  <2> HIDE DEF row
  <2>2. row \in Rows /\ row.version = 1 =>
          LET r == ResolvedRow(row, d)
          IN /\ r.status = d.status /\ r.sequence = d.sequence
             /\ r.reviewer = d.reviewer /\ r.version = 2
    BY DEF ResolvedRow, Rows
  <2> QED
    BY <2>1, <2>2, <1>5 DEF row
<1> HIDE DEF c, n, N
<1>7. Settled(t) = Settled(s) \cup {c} /\ Present(t) = Present(s)
  <2>1. d.status # "ABSENT"
    BY <1>1 DEF Resolved
  <2> QED
    BY <1>1, <1>2, <1>4, <1>6, <2>1 DEF Settled, Present
<1>8. N \in Nat /\ Cardinality(Settled(t)) = N + 1 /\ d.sequence = N + 1
  <2>1. IsFiniteSet(Settled(s)) /\ N \in Nat
    BY SettledIsFinite DEF N
  <2> QED
    BY <1>2, <1>7, <2>1, FS_AddElement DEF N, NextSequence
<1>9. /\ n \notin DOMAIN s.events /\ DOMAIN t.events = DOMAIN s.events \cup {n}
      /\ \A i \in DOMAIN s.events : t.events[i] = s.events[i]
      /\ t.events[n] = e /\ IsPrefix(s.events, t.events)
  BY <1>3, AppendedEvent DEF n
<1>10. ResolutionEvents(t) = ResolutionEvents(s) \cup {n}
  BY <1>1, <1>9 DEF ResolutionEvents
<1>11. ResolutionEvents(s) \subseteq DOMAIN s.events
  BY DEF ResolutionEvents
<1>12. \A i \in ResolutionEvents(s) : s.events[i].case \in Settled(s)
  BY DEF Sound, Reconstructs
<1>13. Settled(s) \subseteq CaseIds
  BY DEF Settled
<1>14. Reconstructs(t)
  <2>1. ASSUME NEW i \in ResolutionEvents(s)
        PROVE  /\ t.events[i].case \in Settled(t)
               /\ Agrees(t.events[i], t.cases[t.events[i].case])
    <3>1. t.events[i] = s.events[i] /\ t.cases[s.events[i].case] = s.cases[s.events[i].case]
      BY <1>2, <1>4, <1>9, <1>11, <1>12, <1>13
    <3> QED
      BY <1>7, <3>1 DEF Sound, Reconstructs
  <2>2. t.events[n].case \in Settled(t) /\ Agrees(t.events[n], t.cases[t.events[n].case])
    BY <1>6, <1>7, <1>9 DEF Agrees, c
  <2>3. ASSUME NEW i \in ResolutionEvents(t), NEW j \in ResolutionEvents(t),
               t.events[i].case = t.events[j].case
        PROVE  i = j
    <3>1. CASE i # n /\ j # n
      BY <1>9, <1>10, <1>11, <2>3, <3>1 DEF Sound, Reconstructs
    <3>2. ASSUME NEW k \in ResolutionEvents(s) PROVE t.events[k].case # c
      BY <1>2, <1>9, <1>11, <1>12
    <3>3. t.events[n].case = c
      BY <1>9 DEF c
    <3> QED
      BY <1>10, <2>3, <3>1, <3>2, <3>3
  <2>4. ASSUME NEW m \in 1..(N + 1)
        PROVE  \E k \in Settled(t) : t.cases[k].sequence = m
    <3>1. CASE m = N + 1
      BY <1>6, <1>7, <1>8, <3>1
    <3>2. CASE m # N + 1
      <4>1. m \in 1..N
        BY <1>8, <3>2
      <4>2. PICK k \in Settled(s) : s.cases[k].sequence = m
        BY <4>1 DEF Sound, Reconstructs, N
      <4> QED
        BY <1>2, <1>4, <1>7, <1>13, <4>2
    <3> QED
      BY <3>1, <3>2
  <2> QED
    BY <1>8, <1>10, <2>1, <2>2, <2>3, <2>4 DEF Reconstructs
<1>15. Complete(t)
  <2>1. ASSUME NEW k \in Settled(t) PROVE \E i \in ResolutionEvents(t) : t.events[i].case = k
    <3>1. CASE k = c
      BY <1>9, <1>10, <3>1 DEF c
    <3>2. CASE k # c
      <4>1. PICK i \in ResolutionEvents(s) : s.events[i].case = k
        BY <1>7, <3>2 DEF Sound, Complete
      <4> QED
        BY <1>9, <1>10, <1>11, <4>1
    <3> QED
      BY <3>1, <3>2
  <2>2. ASSUME NEW k \in Settled(s)
        PROVE  k # c /\ t.cases[k] = s.cases[k] /\ s.cases[k].sequence \in 1..N
    BY <1>2, <1>4, <1>13 DEF Sound, Complete, N
  <2>3. \A k \in Settled(t) : t.cases[k].sequence \in 1..(N + 1)
    BY <1>6, <1>7, <1>8, <2>2
  <2>4. ASSUME NEW k \in Settled(t), NEW l \in Settled(t),
               t.cases[k].sequence = t.cases[l].sequence
        PROVE  k = l
    <3>1. CASE k # c /\ l # c
      BY <1>7, <2>2, <2>4, <3>1 DEF Sound, Complete
    <3>2. CASE k = c \/ l = c
      BY <1>6, <1>7, <1>8, <2>2, <2>4, <3>2
    <3> QED
      BY <3>1, <3>2
  <2> QED
    BY <1>8, <2>1, <2>3, <2>4 DEF Complete
<1>16. VersionsFit(t)
  BY <1>1, <1>4, <1>6, <1>7 DEF Sound, VersionsFit
<1>17. Extends(s, t)
  BY <1>2, <1>3, <1>4, <1>7, <1>9, <1>13 DEF Extends
<1>18. Advised(t)
  <2>1. Advised(s) /\ t.suggestions = s.suggestions /\ e.suggestion = "none"
    BY <1>3 DEF Sound
  <2> QED
    <3>1. Advised(s) /\ e.suggestion = "none" /\ t.suggestions = s.suggestions
      BY <2>1
    <3>2. DOMAIN t.events = DOMAIN s.events \cup {n} /\ t.events[n] = e
      BY <1>9
    <3>3. \A i \in DOMAIN s.events : t.events[i] = s.events[i]
      BY <1>9
    <3> QED
      BY ONLY <3>1, <3>2, <3>3, AdvisedWithEvent
<1> QED
  BY <1>14, <1>15, <1>16, <1>17, <1>18 DEF Sound

\* New cases are open: a registration extends the history without touching it.
LEMMA RegistrationExtends ==
  ASSUME NEW s \in Stores, Sound(s), NEW wf \in Workflows, NEW ctx, NEW t,
         s.active, s.context # NoContext => ctx = s.context,
         t = [s EXCEPT !.context = ctx,
                       !.cases = [c \in CaseIds |-> IF c \in DOMAIN wf.cases \ Present(s)
                                                      THEN PendingCase(wf.cases[c])
                                                      ELSE s.cases[c]]]
  PROVE  Sound(t) /\ Extends(s, t)
<1>1. /\ t.events = s.events /\ t.active = s.active /\ t.suggestions = s.suggestions
      /\ s.context # NoContext => t.context = s.context
  BY DEF Stores
<1>2. ASSUME NEW c \in CaseIds
      PROVE  t.cases[c] = IF c \in DOMAIN wf.cases \ Present(s)
                            THEN PendingCase(wf.cases[c]) ELSE s.cases[c]
  BY DEF Stores
<1>3. \A q : PendingCase(q).status = "PENDING" /\ PendingCase(q).version = 1
  BY DEF PendingCase
<1>4. \A c \in Settled(s) : c \in CaseIds /\ c \in Present(s)
  BY DEF Settled, Present, Resolved
<1>5. \A c \in Settled(s) : t.cases[c] = s.cases[c]
  BY <1>2, <1>4
<1>6. Settled(t) = Settled(s)
  BY <1>2, <1>3, <1>4, <1>5 DEF Settled, Resolved
<1>7. ResolutionEvents(t) = ResolutionEvents(s)
  BY <1>1 DEF ResolutionEvents
<1>8. VersionsFit(t)
  <2> SUFFICES ASSUME NEW c \in CaseIds
               PROVE  t.cases[c].version = IF c \in Settled(t) THEN 2
                                           ELSE IF c \in Present(t) THEN 1 ELSE 0
    BY DEF VersionsFit
  <2>1. CASE c \in DOMAIN wf.cases \ Present(s)
    <3>1. c \notin Settled(t) /\ c \in Present(t)
      BY <1>2, <1>3, <1>4, <1>6, <2>1 DEF Present
    <3> QED
      BY <1>2, <1>3, <2>1, <3>1
  <2>2. CASE c \notin DOMAIN wf.cases \ Present(s)
    <3>1. c \in Present(t) <=> c \in Present(s)
      BY <1>2, <2>2 DEF Present
    <3> QED
      BY <1>2, <1>6, <2>2, <3>1 DEF Sound, VersionsFit
  <2> QED
    BY <2>1, <2>2
<1>9. Sound(t)
  <2>1. Advised(t)
    BY <1>1 DEF Sound, Advised
  <2> QED
    BY <1>1, <1>5, <1>6, <1>7, <1>8, <2>1, SameHistorySound
<1>10. Extends(s, t)
  BY <1>1, <1>5, PrefixOfItself DEF Extends
<1> QED
  BY <1>9, <1>10

\* An event that resolves nothing leaves the decisions as they are.
LEMMA SuggestionExtends ==
  ASSUME NEW s \in Stores, Sound(s), NEW e \in Events, e.type \notin Resolved, NEW g,
         e.suggestion = g.id, \A h \in s.suggestions : h.id # g.id, NEW t,
         t.events = Append(s.events, e), t.suggestions = s.suggestions \cup {g},
         t.active = s.active, t.context = s.context, t.cases = s.cases
  PROVE  Sound(t) /\ Extends(s, t)
<1> DEFINE n == Len(s.events) + 1
<1>1. /\ t.events = Append(s.events, e) /\ t.active = s.active
      /\ t.context = s.context /\ t.cases = s.cases
      /\ t.suggestions = s.suggestions \cup {g}
  OBVIOUS
<1>2. /\ n \notin DOMAIN s.events /\ DOMAIN t.events = DOMAIN s.events \cup {n}
      /\ \A i \in DOMAIN s.events : t.events[i] = s.events[i]
      /\ t.events[n] = e /\ IsPrefix(s.events, t.events)
  BY <1>1, AppendedEvent
<1> HIDE DEF n
<1>3. Settled(t) = Settled(s) /\ Present(t) = Present(s)
  BY <1>1 DEF Settled, Present
<1>4. ResolutionEvents(t) = ResolutionEvents(s)
  BY <1>2 DEF ResolutionEvents
<1>5. VersionsFit(t)
  BY <1>1, <1>3 DEF Sound, VersionsFit
<1>6. \A i \in ResolutionEvents(s) : t.events[i] = s.events[i]
  BY <1>2 DEF ResolutionEvents
<1>7. Sound(t)
  <2>1. Advised(s) /\ n \notin DOMAIN s.events
    BY <1>2 DEF Sound
  <2>2. t.suggestions = s.suggestions \cup {g} /\ \A h \in s.suggestions : h.id # g.id
    BY <1>1
  <2>3. DOMAIN t.events = DOMAIN s.events \cup {n} /\ t.events[n] = e
    BY <1>2
  <2>4. Advised(t)
    BY <1>2, <2>1, <2>2, <2>3, AdvisedWithSuggestion, Zenon
  <2> QED
    BY <1>1, <1>3, <1>4, <1>5, <1>6, <2>4, SameHistorySound
<1> QED
  BY <1>1, <1>2, <1>3, <1>7 DEF Extends

-----------------------------------------------------------------------------
(* Steps *)

\* Only w moves, and nobody else takes or gives the lock.
OnlyMoves(w) ==
  /\ disk' = disk
  /\ \A v \in Writers \ {w} : /\ pc'[v] = pc[v] /\ op'[v] = op[v] /\ image'[v] = image[v]
                              /\ bundle'[v] = bundle[v] /\ draft'[v] = draft[v]
                              /\ outcome'[v] = outcome[v]
  /\ \/ lock' = lock
     \/ lock = w /\ lock' = NoWriter
     \/ lock = NoWriter /\ lock' = w

LEMMA OnlyMovesKeepsHistory ==
  ASSUME HistoryInv, TypeInv', NEW w \in Writers, OnlyMoves(w),
         RoleFits(w)', ImageFits(w)', AnswerFits(w)'
  PROVE  HistoryInv'
<1>1. Sound(disk)'
  BY DEF HistoryInv, OnlyMoves
<1>2. ASSUME NEW v \in Writers PROVE RoleFits(v)' /\ ImageFits(v)' /\ AnswerFits(v)'
  <2>1. CASE v = w
    BY <2>1
  <2>2. CASE v # w
    <3>1. RoleFits(v) /\ ImageFits(v) /\ AnswerFits(v)
      BY DEF HistoryInv
    <3>2. /\ disk' = disk /\ pc'[v] = pc[v] /\ op'[v] = op[v] /\ image'[v] = image[v]
          /\ bundle'[v] = bundle[v] /\ draft'[v] = draft[v] /\ outcome'[v] = outcome[v]
      BY <2>2 DEF OnlyMoves
    <3>3. RoleFits(v)'
      BY <2>2, <3>1, <3>2, QueueAssumption DEF RoleFits, OnlyMoves
    <3>4. ImageFits(v)'
      BY <3>1, <3>2 DEF ImageFits, DraftFits, ContextStored, SwappedCases, DecisionEvent, Recorded
    <3>5. AnswerFits(v)'
      BY <3>1, <3>2 DEF AnswerFits, Recorded
    <3> QED
      BY <3>3, <3>4, <3>5
  <2> QED
    BY <2>1, <2>2
<1> QED
  BY <1>1, <1>2 DEF HistoryInv

LEMMA RollbackKeepsHistory ==
  ASSUME HistoryInv, TypeInv', NEW w \in Writers, NEW why, why # "recorded",
         lock = w, Rollback(w, why)
  PROVE  HistoryInv'
<1>1. OnlyMoves(w)
  BY DEF HistoryInv, TypeInv, TypeOK, OnlyMoves, Rollback, Forget, Decline, Answer
<1>2. /\ pc'[w] = "reply" /\ op'[w] = NoOp /\ outcome'[w] = why /\ lock' = NoWriter
  BY DEF HistoryInv, TypeInv, TypeOK, Rollback, Decline, Answer
<1>3. RoleFits(w)'
  BY <1>2, QueueAssumption DEF RoleFits, InTransaction, NoOp
<1>4. ImageFits(w)'
  BY <1>2 DEF ImageFits
<1>5. AnswerFits(w)'
  BY <1>2 DEF AnswerFits
<1> QED
  BY <1>1, <1>3, <1>4, <1>5, OnlyMovesKeepsHistory
LEMMA SubmitKeepsHistory ==
  ASSUME HistoryInv, TypeInv', NEW w \in Writers, NEW o \in Requests, Submit(w, o),
         w \in Reviewers => o.kind = "resolve"
  PROVE  HistoryInv'
<1>1. OnlyMoves(w)
  BY DEF HistoryInv, TypeInv, TypeOK, OnlyMoves, Submit, Goto
<1>2. pc'[w] = "waiting" /\ op'[w] = o /\ lock' = lock /\ pc[w] = "idle"
  BY DEF HistoryInv, TypeInv, TypeOK, Submit, Goto
<1>3. RoleFits(w)'
  BY <1>2 DEF HistoryInv, RoleFits, InTransaction
<1>4. ImageFits(w)' /\ AnswerFits(w)'
  BY <1>2 DEF ImageFits, AnswerFits
<1> QED
  BY <1>1, <1>3, <1>4, OnlyMovesKeepsHistory

LEMMA BeginKeepsHistory ==
  ASSUME HistoryInv, TypeInv', NEW w \in Writers, Begin(w)
  PROVE  HistoryInv'
<1>1. OnlyMoves(w)
  BY DEF HistoryInv, TypeInv, TypeOK, OnlyMoves, Begin, Goto
<1>2. op[w].kind \in {"resolve", "register", "suggest"}
  BY RequestKinds DEF HistoryInv, TypeInv, TypeOK, RequestFits, Begin
<1>3. pc'[w] \in {"load", "context", "suggest"}
  BY <1>2 DEF HistoryInv, TypeInv, TypeOK, Begin, Goto, FirstStep
<1>4. op' = op /\ image'[w] = disk' /\ lock' = w
  BY DEF HistoryInv, TypeInv, TypeOK, Begin
<1>5. RoleFits(w)'
  BY <1>2, <1>3, <1>4 DEF HistoryInv, RoleFits, InTransaction
<1>6. ImageFits(w)' /\ AnswerFits(w)'
  BY <1>3, <1>4 DEF ImageFits, AnswerFits
<1> QED
  BY <1>1, <1>5, <1>6, OnlyMovesKeepsHistory

LEMMA BusyKeepsHistory ==
  ASSUME HistoryInv, TypeInv', NEW w \in Writers, Busy(w)
  PROVE  HistoryInv'
<1>1. OnlyMoves(w)
  BY DEF HistoryInv, TypeInv, TypeOK, OnlyMoves, Busy, Decline, Answer
<1>2. /\ pc[w] = "waiting" /\ pc'[w] = "reply" /\ op'[w] = NoOp /\ outcome'[w] = "busy"
      /\ lock' = lock
  BY DEF HistoryInv, TypeInv, TypeOK, Busy, Decline, Answer
<1>3. RoleFits(w)'
  BY <1>2 DEF HistoryInv, RoleFits, InTransaction, NoOp
<1>4. ImageFits(w)' /\ AnswerFits(w)'
  BY <1>2 DEF ImageFits, AnswerFits
<1> QED
  BY <1>1, <1>3, <1>4, OnlyMovesKeepsHistory

\* A transaction that goes on keeps the lock and its request.
LEMMA GoOnKeepsHistory ==
  ASSUME HistoryInv, TypeInv', NEW w \in Writers, NEW step \in InTransaction,
         pc[w] \in InTransaction, Goto(w, step), UNCHANGED <<disk, lock, op, outcome>>,
         \A v \in Writers \ {w} : /\ image'[v] = image[v] /\ bundle'[v] = bundle[v]
                                 /\ draft'[v] = draft[v],
         ImageFits(w)'
  PROVE  HistoryInv'
<1>1. OnlyMoves(w)
  BY DEF HistoryInv, TypeInv, TypeOK, OnlyMoves, Goto
<1>2. pc'[w] = step
  BY DEF HistoryInv, TypeInv, TypeOK, Goto
<1>3. RoleFits(w)'
  BY <1>2 DEF HistoryInv, RoleFits
<1>4. AnswerFits(w)'
  BY <1>2 DEF AnswerFits, InTransaction
<1> QED
  BY <1>1, <1>3, <1>4, OnlyMovesKeepsHistory

\* What the invariant says of the process that holds the lock.
LEMMA InTransactionFacts ==
  ASSUME HistoryInv, NEW w \in Writers, pc[w] \in InTransaction
  PROVE  /\ lock = w
         /\ TypeInv /\ Sound(disk) /\ disk \in Stores /\ image[w] \in Stores
         /\ ImageFits(w)
         /\ image \in [Writers -> Stores]
         /\ bundle \in [Writers -> Stores]
         /\ draft \in [Writers -> Drafts \cup {NoDraft}]
         /\ pc \in [Writers -> Steps]
BY DEF HistoryInv, RoleFits, TypeInv, TypeOK

LEMMA LoadBundleKeepsHistory ==
  ASSUME HistoryInv, TypeInv', NEW w \in Writers, LoadBundle(w)
  PROVE  HistoryInv'
<1>1. pc[w] \in InTransaction /\ pc[w] = "load" /\ "authorize" \in InTransaction
  BY DEF LoadBundle, InTransaction
<1>2. CASE image[w].context # NoContext /\ Reconstructs(image[w])
  <2>1. /\ bundle' = [bundle EXCEPT ![w] = image[w]] /\ Goto(w, "authorize")
        /\ UNCHANGED <<disk, lock, op, image, draft, outcome>>
    BY <1>2 DEF LoadBundle
  <2>2. ImageFits(w)'
    BY <1>1, <2>1, InTransactionFacts DEF ImageFits, Goto
  <2>3. \A v \in Writers \ {w} : bundle'[v] = bundle[v]
    BY <1>1, <2>1, InTransactionFacts
  <2> QED
    BY <1>1, <2>1, <2>2, <2>3, GoOnKeepsHistory
<1>3. CASE ~(image[w].context # NoContext /\ Reconstructs(image[w]))
  BY <1>1, <1>3, InTransactionFacts, RollbackKeepsHistory DEF LoadBundle
<1> QED
  BY <1>2, <1>3

LEMMA ApprovedVerdict ==
  ASSUME NEW b \in Stores, NEW o, o.case \in CaseIds, Verdict(b, o) = "approved"
  PROVE  b.cases[o.case].status = "PENDING" /\ b.cases[o.case].version = o.expected
<1>1. b.cases[o.case].status \in {"ABSENT", "PENDING"} \cup Resolved
  BY DEF Stores, Rows
<1> DEFINE row == b.cases[o.case]
           ok == o.decision = "MATCH" =>
                   MatchAuthorized(b.context, Pairs(b, "MATCH"), Pairs(b, "NO_MATCH"), row.pair)
<1>2. Verdict(b, o) = CASE row.status = "ABSENT" -> "not_found"
                        [] row.status # "ABSENT" /\ row.version # o.expected -> "stale"
                        [] row.version = o.expected /\ row.status \in Resolved -> "not_pending"
                        [] row.version = o.expected /\ row.status = "PENDING" /\ ~ok -> "refused"
                        [] OTHER -> "approved"
  BY DEF Verdict
<1> HIDE DEF ok
<1>3. row.status # "ABSENT"
  BY <1>2
<1>4. row.version = o.expected
  BY <1>2, <1>3
<1>5. row.status \notin Resolved
  BY <1>2, <1>4 DEF Resolved
<1> QED
  BY <1>1, <1>3, <1>4, <1>5
LEMMA AuthorizeKeepsHistory ==
  ASSUME HistoryInv, TypeInv', NEW w \in Writers, Authorize(w)
  PROVE  HistoryInv'
<1> DEFINE o == op[w]
           b == bundle[w]
           d == [case |-> o.case, status |-> StatusFor(o.decision),
                 sequence |-> NextSequence(b), reviewer |-> w]
<1>1. pc[w] \in InTransaction /\ pc[w] = "authorize" /\ "swap" \in InTransaction
  BY DEF Authorize, InTransaction
<1>2. b = disk /\ image[w] = disk /\ disk \in Stores
  BY <1>1, InTransactionFacts DEF ImageFits
<1>3. o.case \in CaseIds
  <2>1. o.kind = "resolve" /\ o \in Requests \cup {NoOp}
    BY <1>1 DEF HistoryInv, TypeInv, TypeOK, RequestFits, ResolveSteps
  <2> QED
    BY <2>1, RequestKinds
<1>4. CASE Verdict(b, o) = "approved"
  <2>1. draft' = [draft EXCEPT ![w] = d] /\ Goto(w, "swap")
        /\ UNCHANGED <<disk, lock, op, image, bundle, outcome>>
    BY <1>4 DEF Authorize
  <2>2. disk.cases[o.case].status = "PENDING" /\ disk.cases[o.case].version = o.expected
    BY <1>2, <1>3, <1>4, ApprovedVerdict
  <2>3. /\ draft'[w] = d /\ \A v \in Writers \ {w} : draft'[v] = draft[v]
        /\ pc'[w] = "swap"
    BY <1>1, <2>1, InTransactionFacts DEF Goto
  <2>4. DraftFits(w)'
    BY <1>2, <2>1, <2>2, <2>3 DEF DraftFits
  <2>5. ImageFits(w)'
    BY <1>2, <2>1, <2>3, <2>4 DEF ImageFits
  <2> QED
    BY <1>1, <2>1, <2>3, <2>5, GoOnKeepsHistory
<1>5. CASE Verdict(b, o) # "approved"
  <2>1. Verdict(b, o) # "recorded"
    BY DEF Verdict
  <2> QED
    BY <1>1, <1>5, <2>1, InTransactionFacts, RollbackKeepsHistory DEF Authorize
<1> QED
  BY <1>4, <1>5

LEMMA CompareAndSwapKeepsHistory ==
  ASSUME HistoryInv, TypeInv', NEW w \in Writers, CompareAndSwap(w)
  PROVE  HistoryInv'
<1> DEFINE d == draft[w]
           row == image[w].cases[d.case]
<1>1. pc[w] \in InTransaction /\ pc[w] = "swap" /\ "append" \in InTransaction
  BY DEF CompareAndSwap, InTransaction
<1>2. image[w] = disk /\ disk \in Stores /\ DraftFits(w)
  BY <1>1, InTransactionFacts DEF ImageFits
<1>3. row.version = op[w].expected /\ row.status = "PENDING"
  BY <1>2 DEF DraftFits
<1>4. image' = [image EXCEPT ![w].cases[d.case] = ResolvedRow(row, d)] /\ Goto(w, "append")
      /\ UNCHANGED <<disk, lock, op, bundle, draft, outcome>>
  BY <1>3 DEF CompareAndSwap
<1>5. /\ image'[w] = [disk EXCEPT !.cases = SwappedCases(w)]
      /\ \A v \in Writers \ {w} : image'[v] = image[v]
  <2>1. image'[w] = [disk EXCEPT !.cases[d.case] = ResolvedRow(row, d)]
    BY <1>1, <1>2, <1>4, InTransactionFacts
  <2>2. row = disk.cases[d.case]
    BY <1>2
  <2>3. image'[w] = [disk EXCEPT !.cases = SwappedCases(w)]
    BY <1>2, <2>1, <2>2 DEF SwappedCases
  <2> QED
    BY <1>1, <1>4, <2>3, InTransactionFacts
<1>6. pc'[w] = "append"
  BY <1>1, <1>4, InTransactionFacts DEF Goto
<1>7. DraftFits(w)' /\ SwappedCases(w)' = SwappedCases(w)
  BY <1>2, <1>4 DEF DraftFits, SwappedCases
<1>8. ImageFits(w)'
  BY <1>4, <1>5, <1>6, <1>7 DEF ImageFits
<1> QED
  BY <1>1, <1>4, <1>5, <1>8, GoOnKeepsHistory

LEMMA AppendEventKeepsHistory ==
  ASSUME HistoryInv, TypeInv', NEW w \in Writers, AppendEvent(w)
  PROVE  HistoryInv'
<1> DEFINE taken == \E i \in ResolutionEvents(image[w]) :
                      image[w].events[i].sequence = draft[w].sequence
<1>1. pc[w] \in InTransaction /\ pc[w] = "append" /\ "verify" \in InTransaction
  BY DEF AppendEvent, InTransaction
<1>2. /\ DraftFits(w) /\ disk \in Stores
      /\ image[w] = [disk EXCEPT !.cases = SwappedCases(w)]
  BY <1>1, InTransactionFacts DEF ImageFits
<1>3. CASE ~taken
  <2>1. image' = [image EXCEPT ![w].events = Append(@, DecisionEvent(w))] /\ Goto(w, "verify")
        /\ UNCHANGED <<disk, lock, op, bundle, draft, outcome>>
    BY <1>3 DEF AppendEvent, DecisionEvent
  <2>2. /\ image'[w] = [disk EXCEPT !.cases = SwappedCases(w),
                                    !.events = Append(@, DecisionEvent(w))]
        /\ \A v \in Writers \ {w} : image'[v] = image[v]
    <3>1. image'[w] = [image[w] EXCEPT !.events = Append(@, DecisionEvent(w))]
      BY <1>1, <2>1, InTransactionFacts
    <3> DEFINE cs == SwappedCases(w)
               e == DecisionEvent(w)
    <3> HIDE DEF cs, e
    <3>2. [[disk EXCEPT !.cases = cs] EXCEPT !.events = Append(@, e)]
            = [disk EXCEPT !.cases = cs, !.events = Append(@, e)]
      BY <1>2 DEF Stores
    <3>3. \A v \in Writers \ {w} : image'[v] = image[v]
      BY <1>1, <2>1, InTransactionFacts
    <3> QED
      BY <1>2, <3>1, <3>2, <3>3 DEF cs, e
  <2>3. pc'[w] = "verify"
    BY <1>1, <2>1, InTransactionFacts DEF Goto
  <2>4. DraftFits(w)' /\ SwappedCases(w)' = SwappedCases(w) /\ DecisionEvent(w)' = DecisionEvent(w)
    BY <1>2, <2>1 DEF DraftFits, SwappedCases, DecisionEvent
  <2>5. ImageFits(w)'
    BY <2>1, <2>2, <2>3, <2>4 DEF ImageFits
  <2> QED
    BY <1>1, <2>1, <2>2, <2>5, GoOnKeepsHistory
<1>4. CASE taken
  BY <1>1, <1>4, InTransactionFacts, RollbackKeepsHistory DEF AppendEvent
<1> QED
  BY <1>3, <1>4

\* A verified image is the disk with one decision more.
LEMMA VerifiedImage ==
  ASSUME HistoryInv, NEW w \in Writers, pc[w] = "verify"
  PROVE  Sound(image[w]) /\ Extends(disk, image[w]) /\ Recorded(image[w], w)
<1> DEFINE d == draft[w]
           e == DecisionEvent(w)
           t == image[w]
<1>1. pc[w] \in InTransaction
  BY DEF InTransaction
<1>2. /\ DraftFits(w) /\ disk \in Stores /\ Sound(disk)
      /\ t = [disk EXCEPT !.cases = SwappedCases(w), !.events = Append(@, DecisionEvent(w))]
  BY <1>1, InTransactionFacts DEF ImageFits
<1>3. d \in Drafts /\ d.case = op[w].case /\ op[w].expected \in Nat /\ d.reviewer = w
      /\ d.status = StatusFor(op[w].decision) /\ d.sequence = NextSequence(disk)
  BY <1>2, ResolvingStep DEF HistoryInv, TypeInv, RequestFits, DraftFits
<1>4. /\ e \in Events
      /\ e.case = d.case /\ e.type = d.status
      /\ e.sequence = d.sequence /\ e.reviewer = d.reviewer /\ e.suggestion = "none"
  BY <1>3 DEF DecisionEvent, Events, Drafts
<1>5. disk.cases[d.case].status = "PENDING" /\ disk.cases[d.case].version = op[w].expected
  BY <1>2 DEF DraftFits
<1>6. t = [disk EXCEPT !.cases = [disk.cases EXCEPT ![d.case] = ResolvedRow(disk.cases[d.case], d)],
                       !.events = Append(@, e)]
  BY <1>2 DEF SwappedCases
<1>7. Sound(t) /\ Extends(disk, t)
  <2> HIDE DEF d, e, t
  <2> QED
    BY <1>2, <1>3, <1>4, <1>5, <1>6, DecisionExtends
<1>8. Recorded(t, w)
  <2>1. t.cases[d.case] = ResolvedRow(disk.cases[d.case], d)
    <3>1. disk.cases \in [CaseIds -> Rows] /\ d.case \in CaseIds
      BY <1>2, <1>3 DEF Stores, Drafts
    <3>2. t.cases = [disk.cases EXCEPT ![d.case] = ResolvedRow(disk.cases[d.case], d)]
      <4> HIDE DEF d, e
      <4> QED
        BY <1>2, <1>6 DEF Stores
    <3> HIDE DEF d, e, t
    <3> QED
      BY <3>1, <3>2
  <2>2. disk.cases[d.case] \in Rows
    BY <1>2, <1>3 DEF Stores, Drafts
  <2> DEFINE row == disk.cases[d.case]
  <2> HIDE DEF row
  <2>3. row \in Rows => LET r == ResolvedRow(row, d)
                        IN /\ r.status = d.status /\ r.reviewer = d.reviewer
                           /\ r.version = row.version + 1
    BY DEF ResolvedRow, Rows
  <2> QED
    BY <1>3, <1>5, <2>1, <2>2, <2>3 DEF Recorded, row
<1> QED
  BY <1>7, <1>8

LEMMA VerifyEventKeepsHistory ==
  ASSUME HistoryInv, TypeInv', NEW w \in Writers, VerifyEvent(w)
  PROVE  HistoryInv'
<1>1. pc[w] \in InTransaction /\ pc[w] = "verify" /\ "commit" \in InTransaction
  BY DEF VerifyEvent, InTransaction
<1>2. CASE Goto(w, "commit") /\ UNCHANGED <<disk, lock, op, image, bundle, draft, outcome>>
  <2>1. pc'[w] = "commit"
    BY <1>1, <1>2, InTransactionFacts DEF Goto
  <2>2. Sound(image[w]) /\ Extends(disk, image[w]) /\ Recorded(image[w], w)
    BY <1>1, VerifiedImage
  <2>3. ImageFits(w)'
    BY <1>2, <2>1, <2>2 DEF ImageFits, Recorded
  <2> QED
    BY <1>1, <1>2, <2>3, GoOnKeepsHistory
<1>3. CASE Rollback(w, "error")
  BY <1>1, <1>3, InTransactionFacts, RollbackKeepsHistory
<1> QED
  BY <1>2, <1>3 DEF VerifyEvent
LEMMA StoreContextKeepsHistory ==
  ASSUME HistoryInv, TypeInv', NEW w \in Writers, StoreContext(w)
  PROVE  HistoryInv'
<1> DEFINE wf == op[w].workflow
           clash == image[w].context # NoContext /\ ~Compatible(image[w].context, wf.context)
           ctx == IF image[w].context = NoContext THEN wf.context ELSE image[w].context
<1>1. pc[w] \in InTransaction /\ pc[w] = "context" /\ "cases" \in InTransaction
  BY DEF StoreContext, InTransaction
<1>2. image[w] = disk /\ disk \in Stores
  BY <1>1, InTransactionFacts DEF ImageFits
<1>3. CASE image[w].active /\ ~clash
  <2>1. image' = [image EXCEPT ![w].context = ctx] /\ Goto(w, "cases")
        /\ UNCHANGED <<disk, lock, op, bundle, draft, outcome>>
    BY <1>3 DEF StoreContext
  <2>2. /\ image'[w] = [disk EXCEPT !.context = ctx]
        /\ \A v \in Writers \ {w} : image'[v] = image[v]
    BY <1>1, <1>2, <2>1, InTransactionFacts
  <2>3. pc'[w] = "cases"
    BY <1>1, <2>1, InTransactionFacts DEF Goto
  <2>4. image'[w] = [disk EXCEPT !.context = image'[w].context] /\ image'[w].context = ctx
    BY <1>2, <2>2 DEF Stores
  <2>5. ContextStored(w)'
    BY <1>2, <1>3, <2>1, <2>4 DEF ContextStored
  <2>6. ImageFits(w)'
    BY <2>3, <2>5 DEF ImageFits
  <2> QED
    BY <1>1, <2>1, <2>2, <2>6, GoOnKeepsHistory
<1>4. CASE ~image[w].active
  BY <1>1, <1>4, InTransactionFacts, RollbackKeepsHistory DEF StoreContext
<1>5. CASE image[w].active /\ clash
  BY <1>1, <1>5, InTransactionFacts, RollbackKeepsHistory DEF StoreContext
<1> QED
  BY <1>3, <1>4, <1>5

LEMMA RegisterCasesKeepsHistory ==
  ASSUME HistoryInv, TypeInv', NEW w \in Writers, RegisterCases(w)
  PROVE  HistoryInv'
<1> DEFINE wf == op[w].workflow
           after == [c \in CaseIds |-> IF c \in DOMAIN wf.cases \ Present(image[w])
                                         THEN PendingCase(wf.cases[c]) ELSE image[w].cases[c]]
           ctx == image[w].context
<1>1. pc[w] \in InTransaction /\ pc[w] = "cases" /\ "commit" \in InTransaction
  BY DEF RegisterCases, InTransaction
<1>2. /\ disk \in Stores /\ Sound(disk) /\ disk.active
      /\ image[w] = [disk EXCEPT !.context = ctx]
      /\ disk.context # NoContext => ctx = disk.context
  <2>1. ImageFits(w) /\ disk \in Stores /\ Sound(disk)
    BY <1>1, InTransactionFacts
  <2>2. ContextStored(w)
    BY <1>1, <2>1 DEF ImageFits
  <2> QED
    BY <2>1, <2>2 DEF ContextStored
<1>3. wf \in Workflows /\ op[w].kind = "register"
  BY <1>1, RegisteringStep DEF HistoryInv
<1>4. CASE ~Clash(image[w], wf.cases)
  <2>1. image' = [image EXCEPT ![w].cases = after] /\ Goto(w, "commit")
        /\ UNCHANGED <<disk, lock, op, bundle, draft, outcome>>
    BY <1>4 DEF RegisterCases
  <2>2. /\ image'[w] = [image[w] EXCEPT !.cases = after]
        /\ \A v \in Writers \ {w} : image'[v] = image[v]
    BY <1>1, <2>1, InTransactionFacts
  <2>3. pc'[w] = "commit"
    BY <1>1, <2>1, InTransactionFacts DEF Goto
  <2>4. image[w].cases = disk.cases /\ Present(image[w]) = Present(disk)
    BY <1>2 DEF Stores, Present
  <2>5. after = [c \in CaseIds |-> IF c \in DOMAIN wf.cases \ Present(disk)
                                     THEN PendingCase(wf.cases[c]) ELSE disk.cases[c]]
    BY <2>4
  <2>6. image'[w] = [disk EXCEPT !.context = ctx, !.cases = after]
    <3> HIDE DEF after, ctx
    <3> QED
      BY <1>2, <2>2 DEF Stores
  <2> DEFINE t == image'[w]
             cases == [c \in CaseIds |-> IF c \in DOMAIN wf.cases \ Present(disk)
                                           THEN PendingCase(wf.cases[c]) ELSE disk.cases[c]]
  <2> HIDE DEF wf, after, ctx
  <2>7. Sound(t) /\ Extends(disk, t)
    <3>1. t = [disk EXCEPT !.context = ctx, !.cases = cases]
      BY <2>5, <2>6
    <3> HIDE DEF t
    <3> QED
      BY <1>2, <1>3, <3>1, RegistrationExtends
  <2>8. ImageFits(w)'
    BY <1>3, <2>1, <2>3, <2>7 DEF ImageFits
  <2> QED
    BY <1>1, <2>1, <2>2, <2>8, GoOnKeepsHistory
<1>5. CASE Clash(image[w], wf.cases)
  BY <1>1, <1>5, InTransactionFacts, RollbackKeepsHistory DEF RegisterCases
<1> QED
  BY <1>4, <1>5

LEMMA RecordSuggestionKeepsHistory ==
  ASSUME HistoryInv, TypeInv', NEW w \in Writers, RecordSuggestion(w)
  PROVE  HistoryInv'
<1> DEFINE g == op[w].suggestion
<1>1. /\ pc[w] \in InTransaction /\ pc[w] = "suggest"
      /\ "suggest_event" \in InTransaction /\ "commit" \in InTransaction
  BY DEF RecordSuggestion, InTransaction
<1>2. image[w] = disk /\ disk \in Stores /\ Sound(disk)
  BY <1>1, InTransactionFacts DEF ImageFits
<1>3. op[w].kind = "suggest"
  BY <1>1, SuggestingStep DEF HistoryInv
<1>4. CASE Rollback(w, "not_found") \/ Rollback(w, "conflict")
  BY <1>1, <1>4, InTransactionFacts, RollbackKeepsHistory
<1>5. CASE Goto(w, "commit") /\ UNCHANGED <<disk, lock, op, image, bundle, draft, outcome>>
  <2>1. pc'[w] = "commit"
    BY <1>1, <1>5, InTransactionFacts DEF Goto
  <2>2. Extends(disk, image[w])
    BY <1>2, ExtendsItself
  <2>3. ImageFits(w)'
    BY <1>2, <1>3, <1>5, <2>1, <2>2 DEF ImageFits
  <2> QED
    BY <1>1, <1>5, <2>3, GoOnKeepsHistory
<1>6. CASE /\ {h \in image[w].suggestions : h.id = g.id} = {}
           /\ image' = [image EXCEPT ![w].suggestions = @ \cup {g}] /\ Goto(w, "suggest_event")
           /\ UNCHANGED <<disk, lock, op, bundle, draft, outcome>>
  <2>1. /\ image'[w] = [disk EXCEPT !.suggestions = @ \cup {g}]
        /\ \A v \in Writers \ {w} : image'[v] = image[v]
    BY <1>1, <1>2, <1>6, InTransactionFacts
  <2>2. pc'[w] = "suggest_event"
    BY <1>1, <1>6, InTransactionFacts DEF Goto
  <2>3. \A h \in disk.suggestions : h.id # g.id
    BY <1>2, <1>6
  <2>4. ImageFits(w)'
    BY <1>6, <2>1, <2>2, <2>3 DEF ImageFits
  <2> QED
    BY <1>1, <1>6, <2>1, <2>4, GoOnKeepsHistory
<1> QED
  BY <1>4, <1>5, <1>6 DEF RecordSuggestion

LEMMA AppendSuggestionEventKeepsHistory ==
  ASSUME HistoryInv, TypeInv', NEW w \in Writers, AppendSuggestionEvent(w)
  PROVE  HistoryInv'
<1> DEFINE g == op[w].suggestion
           e == [case |-> g.case, type |-> "SEMANTIC_SUGGESTION_RECORDED", sequence |-> 0,
                 reviewer |-> Nobody, suggestion |-> g.id]
           sg == disk.suggestions \cup {g}
<1>1. pc[w] \in InTransaction /\ pc[w] = "suggest_event" /\ "commit" \in InTransaction
  BY DEF AppendSuggestionEvent, InTransaction
<1>2. /\ disk \in Stores /\ Sound(disk) /\ image[w] = [disk EXCEPT !.suggestions = sg]
      /\ \A h \in disk.suggestions : h.id # g.id
  BY <1>1, InTransactionFacts DEF ImageFits
<1>3. op[w].kind = "suggest"
  BY <1>1, SuggestingStep DEF HistoryInv
<1>4. e \in Events /\ e.type \notin Resolved /\ e.suggestion = g.id
  BY <1>1, SuggestingStep DEF HistoryInv, Events, Resolved
<1>5. image' = [image EXCEPT ![w].events = Append(@, e)] /\ Goto(w, "commit")
      /\ UNCHANGED <<disk, lock, op, bundle, draft, outcome>>
  BY DEF AppendSuggestionEvent
<1>6. /\ image'[w] = [image[w] EXCEPT !.events = Append(@, e)]
      /\ \A v \in Writers \ {w} : image'[v] = image[v]
  BY <1>1, <1>5, InTransactionFacts
<1> HIDE DEF e, sg
<1>7. image'[w] = [disk EXCEPT !.suggestions = sg, !.events = Append(@, e)]
  BY <1>2, <1>6 DEF Stores
<1>8. pc'[w] = "commit"
  BY <1>1, <1>5, InTransactionFacts DEF Goto
<1>9. Sound(image'[w]) /\ Extends(disk, image'[w])
  <2>1. /\ image'[w].events = Append(disk.events, e)
        /\ image'[w].suggestions = disk.suggestions \cup {g}
        /\ image'[w].active = disk.active /\ image'[w].context = disk.context
        /\ image'[w].cases = disk.cases
    BY <1>2, <1>7 DEF Stores, sg
  <2> QED
    BY <1>2, <1>4, <2>1, SuggestionExtends
<1>10. ImageFits(w)'
  BY <1>3, <1>5, <1>8, <1>9 DEF ImageFits
<1> QED
  BY <1>1, <1>5, <1>6, <1>10, GoOnKeepsHistory
LEMMA ReplyKeepsHistory ==
  ASSUME HistoryInv, TypeInv', NEW w \in Writers, Reply(w)
  PROVE  HistoryInv'
<1>1. OnlyMoves(w)
  BY DEF HistoryInv, TypeInv, TypeOK, OnlyMoves, Reply, Rest
<1>2. pc[w] = "reply" /\ pc'[w] = "idle" /\ op'[w] = NoOp /\ lock' = lock
  BY DEF HistoryInv, TypeInv, TypeOK, Reply, Rest
<1>3. RoleFits(w)'
  BY <1>2 DEF HistoryInv, RoleFits, InTransaction, NoOp
<1>4. ImageFits(w)' /\ AnswerFits(w)'
  BY <1>2 DEF ImageFits, AnswerFits
<1> QED
  BY <1>1, <1>3, <1>4, OnlyMovesKeepsHistory

LEMMA CrashKeepsHistory ==
  ASSUME HistoryInv, TypeInv', NEW w \in Writers, Crash(w)
  PROVE  HistoryInv'
<1>1. OnlyMoves(w)
  BY DEF HistoryInv, TypeInv, TypeOK, OnlyMoves, Crash, Forget, Rest
<1>2. /\ pc'[w] = "idle" /\ op'[w] = NoOp
      /\ lock' = IF lock = w THEN NoWriter ELSE lock
  BY DEF HistoryInv, TypeInv, TypeOK, Crash, Rest
<1>3. RoleFits(w)'
  BY <1>2, QueueAssumption DEF RoleFits, InTransaction, NoOp
<1>4. ImageFits(w)' /\ AnswerFits(w)'
  BY <1>2 DEF ImageFits, AnswerFits
<1> QED
  BY <1>1, <1>3, <1>4, OnlyMovesKeepsHistory

\* The one step that changes the history: everybody else is out of a transaction.
LEMMA CommitKeepsHistory ==
  ASSUME HistoryInv, TypeInv', NEW w \in Writers, Commit(w)
  PROVE  HistoryInv'
<1>1. pc[w] \in InTransaction /\ pc[w] = "commit"
  BY DEF Commit, InTransaction
<1>2. /\ disk' = image[w] /\ lock' = NoWriter /\ op' = op /\ lock = w
      /\ Sound(image[w]) /\ Extends(disk, image[w])
      /\ op[w].kind = "resolve" => Recorded(image[w], w)
  BY <1>1, InTransactionFacts DEF Commit, ImageFits
<1>3. Sound(disk)'
  BY <1>2
<1>4. /\ pc'[w] = "reply"
      /\ \A v \in Writers \ {w} : pc'[v] = pc[v] /\ outcome'[v] = outcome[v]
  BY DEF HistoryInv, TypeInv, TypeOK, Commit, Answer
<1>5. ASSUME NEW v \in Writers PROVE pc'[v] \notin InTransaction
  <2>1. CASE v = w
    BY <1>4, <2>1 DEF InTransaction
  <2>2. CASE v # w
    BY <1>2, <1>4, <2>2 DEF HistoryInv, RoleFits
  <2> QED
    BY <2>1, <2>2
<1>6. ASSUME NEW v \in Writers PROVE RoleFits(v)'
  BY <1>2, <1>5, QueueAssumption DEF HistoryInv, RoleFits
<1>7. ASSUME NEW v \in Writers PROVE ImageFits(v)'
  BY <1>5 DEF ImageFits, InTransaction
<1>8. ASSUME NEW v \in Writers PROVE AnswerFits(v)'
  <2>1. CASE v = w
    <3>1. op[w].kind # "none"
      BY <1>1 DEF HistoryInv, RoleFits
    <3>2. ASSUME op[w].kind = "resolve" PROVE op[w].case \in Settled(image[w])
      <4>1. op[w].case \in CaseIds /\ op[w].decision \in Decisions
        BY <3>2, RequestKinds DEF HistoryInv, TypeInv, TypeOK
      <4>2. StatusFor(op[w].decision) \in Resolved
        BY <4>1 DEF StatusFor, Decisions, Resolved
      <4> QED
        BY <1>2, <3>2, <4>1, <4>2 DEF Recorded, Settled
    <3> QED
      BY <1>2, <2>1, <3>1, <3>2 DEF AnswerFits, Recorded
  <2>2. CASE v # w
    <3>1. AnswerFits(v) /\ pc'[v] = pc[v] /\ outcome'[v] = outcome[v] /\ op'[v] = op[v]
      BY <1>2, <1>4, <2>2 DEF HistoryInv
    <3>2. ASSUME NEW c \in Settled(disk)
          PROVE  c \in Settled(image[w]) /\ image[w].cases[c] = disk.cases[c]
      BY <1>2 DEF Extends, Settled
    <3> QED
      BY <1>2, <3>1, <3>2 DEF AnswerFits, Recorded
  <2> QED
    BY <2>1, <2>2
<1> QED
  BY <1>3, <1>6, <1>7, <1>8 DEF HistoryInv

LEMMA SetOrganizationStatusKeepsHistory ==
  ASSUME HistoryInv, TypeInv', SetOrganizationStatus
  PROVE  HistoryInv'
<1>1. /\ disk \in Stores /\ disk' = [disk EXCEPT !.active = ~@] /\ lock = NoWriter
      /\ UNCHANGED <<lock, pc, op, image, bundle, draft, outcome>>
  BY DEF HistoryInv, TypeInv, TypeOK, SetOrganizationStatus
<1>2. /\ disk'.cases = disk.cases /\ disk'.events = disk.events
      /\ disk'.suggestions = disk.suggestions
  BY <1>1 DEF Stores
<1>3. Settled(disk') = Settled(disk) /\ ResolutionEvents(disk') = ResolutionEvents(disk)
  BY <1>2 DEF Settled, ResolutionEvents
<1>4. VersionsFit(disk')
  <2>1. Present(disk') = Present(disk)
    BY <1>2 DEF Present
  <2> QED
    BY <1>2, <1>3, <2>1 DEF HistoryInv, Sound, VersionsFit
<1>5. Sound(disk')
  <2>1. Advised(disk')
    BY <1>2 DEF HistoryInv, Sound, Advised
  <2> QED
    BY <1>2, <1>3, <1>4, <2>1, SameHistorySound DEF HistoryInv
<1>6. ASSUME NEW w \in Writers PROVE RoleFits(w)' /\ ImageFits(w)' /\ AnswerFits(w)'
  <2>1. RoleFits(w)' /\ pc'[w] \notin InTransaction
    BY <1>1, QueueAssumption DEF HistoryInv, RoleFits
  <2>2. ImageFits(w)'
    BY <2>1 DEF ImageFits, InTransaction
  <2>3. AnswerFits(w)'
    BY <1>1, <1>2, <1>3 DEF HistoryInv, AnswerFits, Recorded
  <2> QED
    BY <2>1, <2>2, <2>3
<1> QED
  BY <1>5, <1>6 DEF HistoryInv

LEMMA InitHistory == Init => HistoryInv
<1> SUFFICES ASSUME Init PROVE HistoryInv
  OBVIOUS
<1>1. TypeInv
  BY InitType
<1>2. Sound(disk)
  BY EmptyStoreSound DEF Init
<1>3. ASSUME NEW w \in Writers PROVE RoleFits(w) /\ ImageFits(w) /\ AnswerFits(w)
  BY QueueAssumption DEF Init, RoleFits, ImageFits, AnswerFits, InTransaction, NoOp
<1> QED
  BY <1>1, <1>2, <1>3 DEF HistoryInv

LEMMA SubmissionsKeepHistory ==
  ASSUME HistoryInv, TypeInv'
  PROVE  /\ \A w \in Reviewers, c \in CaseIds, d \in Offered :
               SubmitDecision(w, c, d) => HistoryInv'
         /\ \A w \in Operators, wf \in Workflows : SubmitRegistration(w, wf) => HistoryInv'
         /\ \A w \in Operators, g \in Suggestions : SubmitSuggestion(w, g) => HistoryInv'
<1>1. ASSUME NEW w \in Reviewers, NEW c \in CaseIds, NEW d \in Offered, SubmitDecision(w, c, d)
      PROVE  HistoryInv'
  <2> DEFINE o == [kind |-> "resolve", case |-> c, decision |-> d,
                   expected |-> ExpectedVersion(c)]
  <2>1. ExpectedVersion(c) \in Nat
    BY DEF HistoryInv, TypeInv, TypeOK, Stores, Rows, ExpectedVersion
  <2>2. o \in Requests /\ o.kind = "resolve"
    BY <2>1, QueueAssumption DEF Requests
  <2>3. Submit(w, o) /\ w \in Writers
    BY <1>1 DEF SubmitDecision, Writers
  <2> HIDE DEF o
  <2> QED
    BY <2>2, <2>3, SubmitKeepsHistory
<1>2. ASSUME NEW w \in Operators, NEW wf \in Workflows, SubmitRegistration(w, wf)
      PROVE  HistoryInv'
  <2> DEFINE o == [kind |-> "register", workflow |-> wf]
  <2>1. o \in Requests
    BY DEF Requests
  <2>2. Submit(w, o) /\ w \in Writers /\ w \notin Reviewers
    BY <1>2, QueueAssumption DEF SubmitRegistration, Writers
  <2> HIDE DEF o
  <2> QED
    BY <2>1, <2>2, SubmitKeepsHistory
<1>3. ASSUME NEW w \in Operators, NEW g \in Suggestions, SubmitSuggestion(w, g)
      PROVE  HistoryInv'
  <2> DEFINE o == [kind |-> "suggest", suggestion |-> g]
  <2>1. o \in Requests
    BY DEF Requests
  <2>2. Submit(w, o) /\ w \in Writers /\ w \notin Reviewers
    BY <1>3, QueueAssumption DEF SubmitSuggestion, Writers
  <2> HIDE DEF o
  <2> QED
    BY <2>1, <2>2, SubmitKeepsHistory
<1> QED
  BY <1>1, <1>2, <1>3

LEMMA UnchangedKeepsHistory == HistoryInv /\ UNCHANGED vars => HistoryInv'
<1> SUFFICES ASSUME HistoryInv, UNCHANGED vars PROVE HistoryInv'
  OBVIOUS
<1>1. TypeInv' /\ Sound(disk)'
  BY UnchangedKeepsType DEF HistoryInv, vars
<1>2. ASSUME NEW w \in Writers PROVE RoleFits(w)' /\ ImageFits(w)' /\ AnswerFits(w)'
  <2>1. RoleFits(w) /\ ImageFits(w) /\ AnswerFits(w)
    BY DEF HistoryInv
  <2>2. RoleFits(w)' /\ AnswerFits(w)'
    BY <2>1 DEF vars, RoleFits, AnswerFits, Recorded
  <2>3. ImageFits(w)'
    BY <2>1 DEF vars, ImageFits, DraftFits, ContextStored, SwappedCases, DecisionEvent, Recorded
  <2> QED
    BY <2>2, <2>3
<1> QED
  BY <1>1, <1>2 DEF HistoryInv

LEMMA NextKeepsHistory == HistoryInv /\ [Next]_vars => HistoryInv'
<1> SUFFICES ASSUME HistoryInv, [Next]_vars PROVE HistoryInv'
  OBVIOUS
<1>1. TypeInv'
  BY NextKeepsType DEF HistoryInv
<1>2. CASE \/ \E w \in Reviewers, c \in CaseIds, d \in Offered : SubmitDecision(w, c, d)
           \/ \E w \in Operators, wf \in Workflows : SubmitRegistration(w, wf)
           \/ \E w \in Operators, g \in Suggestions : SubmitSuggestion(w, g)
  BY <1>1, <1>2, SubmissionsKeepHistory
<1>3. ASSUME NEW w \in Writers, Proceed(w) PROVE HistoryInv'
  BY <1>1, <1>3, BeginKeepsHistory, BusyKeepsHistory, LoadBundleKeepsHistory,
     AuthorizeKeepsHistory, CompareAndSwapKeepsHistory, AppendEventKeepsHistory,
     VerifyEventKeepsHistory, StoreContextKeepsHistory, RegisterCasesKeepsHistory,
     RecordSuggestionKeepsHistory, AppendSuggestionEventKeepsHistory,
     CommitKeepsHistory, ReplyKeepsHistory DEF Proceed
<1>4. ASSUME NEW w \in Writers, Fail(w) PROVE HistoryInv'
  BY <1>1, <1>4, RollbackKeepsHistory DEF Fail
<1>5. ASSUME NEW w \in Writers, Crash(w) PROVE HistoryInv'
  BY <1>1, <1>5, CrashKeepsHistory
<1>6. CASE SetOrganizationStatus
  BY <1>1, <1>6, SetOrganizationStatusKeepsHistory
<1>7. CASE UNCHANGED vars
  BY <1>7, UnchangedKeepsHistory
<1> QED
  BY <1>2, <1>3, <1>4, <1>5, <1>6, <1>7 DEF Next
LEMMA HistoryInvariant == Spec => []HistoryInv
BY InitHistory, NextKeepsHistory, PTL DEF Spec

-----------------------------------------------------------------------------
(* What follows for every queue *)

\* However reviewers, operators and crashes interleave, the case rows and the
\* event table of the committed store tell one history.
THEOREM HistoryAlwaysReconstructs == Spec => []HistoryReconstructs
<1>1. HistoryInv => HistoryReconstructs
  BY DEF HistoryInv, Sound, HistoryReconstructs
<1> QED
  BY <1>1, HistoryInvariant, PTL

\* No decision without its event and no version bump without a decision: the
\* row and the event of apply_resolution are committed together or not at all.
THEOREM DecisionsHaveTheirEvents == Spec => []EveryDecisionHasItsEvent
<1>1. ASSUME Sound(disk) PROVE EveryDecisionHasItsEvent
  <2> SUFFICES ASSUME NEW c \in CaseIds
               PROVE  /\ c \in Settled(disk) =>
                           \E i \in ResolutionEvents(disk) : disk.events[i].case = c
                      /\ disk.cases[c].version =
                           Cardinality({i \in ResolutionEvents(disk) : disk.events[i].case = c})
                             + (IF c \in Present(disk) THEN 1 ELSE 0)
    BY DEF EveryDecisionHasItsEvent
  <2> DEFINE about == {i \in ResolutionEvents(disk) : disk.events[i].case = c}
  <2>1. CASE c \in Settled(disk)
    <3>1. PICK i \in ResolutionEvents(disk) : disk.events[i].case = c
      BY <1>1, <2>1 DEF Sound, Complete
    <3>2. about = {i}
      BY <1>1, <3>1 DEF Sound, Reconstructs
    <3>3. Cardinality(about) = 1
      BY <3>2, FS_Singleton
    <3>4. c \in Present(disk) /\ disk.cases[c].version = 2
      BY <1>1, <2>1 DEF Sound, VersionsFit, Settled, Present, Resolved
    <3> QED
      BY <3>1, <3>3, <3>4
  <2>2. CASE c \notin Settled(disk)
    <3>1. about = {}
      BY <1>1, <2>2 DEF Sound, Reconstructs
    <3>2. Cardinality(about) = 0
      BY <3>1, FS_EmptySet
    <3>3. disk.cases[c].version = IF c \in Present(disk) THEN 1 ELSE 0
      BY <1>1, <2>2 DEF Sound, VersionsFit
    <3> QED
      BY <2>2, <3>2, <3>3
  <2> QED
    BY <2>1, <2>2
<1>2. HistoryInv => EveryDecisionHasItsEvent
  BY <1>1 DEF HistoryInv
<1> QED
  BY <1>2, HistoryInvariant, PTL

\* However often and by however many processes a suggestion is delivered, it is
\* stored once and one event tells of it (record_semantic_suggestion).
THEOREM SuggestionsAreObservedOnce == Spec => []SuggestionsRecordedOnce
<1>1. ASSUME Sound(disk), disk \in Stores PROVE SuggestionsRecordedOnce
  <2> SUFFICES ASSUME NEW g \in Suggestions
               PROVE  Cardinality({i \in DOMAIN disk.events : disk.events[i].suggestion = g.id})
                        = Cardinality({h \in disk.suggestions : h.id = g.id})
    BY <1>1 DEF SuggestionsRecordedOnce, Sound, Advised
  <2> DEFINE told == {i \in DOMAIN disk.events : disk.events[i].suggestion = g.id}
             kept == {h \in disk.suggestions : h.id = g.id}
  <2>1. g.id # "none"
    BY QueueAssumption
  <2>2. Advised(disk)
    BY <1>1 DEF Sound
  <2>3. CASE kept = {}
    <3>1. told = {}
      BY <2>1, <2>2, <2>3 DEF Advised
    <3> QED
      BY <2>3, <3>1
  <2>4. CASE kept # {}
    <3>1. PICK h : kept = {h}
      BY <2>2, <2>4 DEF Advised
    <3>2. PICK i \in DOMAIN disk.events : disk.events[i].suggestion = g.id
      BY <2>2, <3>1 DEF Advised
    <3>3. told = {i}
      BY <2>1, <2>2, <3>2 DEF Advised
    <3> QED
      BY <3>1, <3>3, FS_Singleton
  <2> QED
    BY <2>3, <2>4
<1>2. HistoryInv => SuggestionsRecordedOnce
  BY <1>1 DEF HistoryInv, TypeInv, TypeOK
<1> QED
  BY <1>2, HistoryInvariant, PTL

\* What resolve_case answered is what the store says, for as long as the answer
\* is on its way.
THEOREM AcknowledgedDecisionsAreDurable == Spec => []AcknowledgedIsDurable
<1>1. ASSUME HistoryInv, NEW w \in Reviewers, pc[w] = "reply", outcome[w] = "recorded"
      PROVE  Recorded(disk, w)
  <2>1. w \in Writers
    BY DEF Writers
  <2>2. op[w].kind = "resolve"
    BY <1>1, <2>1 DEF HistoryInv, RoleFits, AnswerFits
  <2> QED
    BY <1>1, <2>1, <2>2 DEF HistoryInv, AnswerFits
<1>2. HistoryInv => AcknowledgedIsDurable
  BY <1>1 DEF AcknowledgedIsDurable, Recorded
<1> QED
  BY <1>2, HistoryInvariant, PTL

\* The disk changes by one whole transaction or by the organization's status.
LEMMA DiskSteps ==
  ASSUME HistoryInv, [Next]_vars
  PROVE  \/ disk' = disk
         \/ Extends(disk, disk')
         \/ disk' = [disk EXCEPT !.active = ~@]
<1>1. ASSUME NEW w \in Writers, Commit(w) PROVE Extends(disk, disk')
  <2>1. pc[w] \in InTransaction /\ pc[w] = "commit"
    BY <1>1 DEF Commit, InTransaction
  <2> QED
    BY <1>1, <2>1, InTransactionFacts DEF Commit, ImageFits
<1>2. ASSUME NEW w \in Writers, Proceed(w) PROVE disk' = disk \/ Extends(disk, disk')
  <2>1. CASE Commit(w)
    BY <1>1, <2>1
  <2>2. CASE Begin(w) \/ Busy(w) \/ LoadBundle(w) \/ Authorize(w) \/ CompareAndSwap(w)
             \/ AppendEvent(w) \/ VerifyEvent(w)
    BY <2>2 DEF Begin, Busy, LoadBundle, Authorize, CompareAndSwap, AppendEvent, VerifyEvent,
                Rollback
  <2>3. CASE StoreContext(w) \/ RegisterCases(w) \/ RecordSuggestion(w)
             \/ AppendSuggestionEvent(w) \/ Reply(w)
    BY <2>3 DEF StoreContext, RegisterCases, RecordSuggestion, AppendSuggestionEvent, Reply,
                Rollback
  <2> QED
    BY <1>2, <2>1, <2>2, <2>3 DEF Proceed
<1>3. ASSUME NEW w \in Writers, Fail(w) \/ Crash(w) PROVE disk' = disk
  BY <1>3 DEF Fail, Crash, Rollback
<1>4. CASE \/ \E w \in Reviewers, c \in CaseIds, d \in Offered : SubmitDecision(w, c, d)
           \/ \E w \in Operators, wf \in Workflows : SubmitRegistration(w, wf)
           \/ \E w \in Operators, g \in Suggestions : SubmitSuggestion(w, g)
  BY <1>4 DEF SubmitDecision, SubmitRegistration, SubmitSuggestion, Submit
<1>5. CASE SetOrganizationStatus
  BY <1>5 DEF SetOrganizationStatus
<1>6. CASE UNCHANGED vars
  BY <1>6 DEF vars
<1> QED
  BY <1>2, <1>3, <1>4, <1>5, <1>6 DEF Next

\* The review history is append-only: no step of any process removes an event,
\* rewrites a settled case or replaces the authorization context.
THEOREM HistoryIsNeverRewritten == Spec => HistoryIsFinal
<1> DEFINE A == /\ IsPrefix(disk.events, disk'.events)
                /\ \A c \in Settled(disk) : disk'.cases[c] = disk.cases[c]
                /\ disk.context # NoContext => disk'.context = disk.context
<1>1. ASSUME HistoryInv, [Next]_vars PROVE [A]_disk
  <2>1. disk \in Stores
    BY <1>1 DEF HistoryInv, TypeInv, TypeOK
  <2>2. CASE Extends(disk, disk')
    BY <2>2 DEF Extends
  <2>3. CASE disk' = [disk EXCEPT !.active = ~@]
    <3>1. /\ disk'.events = disk.events /\ disk'.cases = disk.cases
          /\ disk'.context = disk.context
      BY <2>1, <2>3 DEF Stores
    <3> QED
      BY <2>1, <3>1, PrefixOfItself
  <2> QED
    BY <1>1, <2>2, <2>3, DiskSteps
<1> QED
  BY <1>1, HistoryInvariant, PTL DEF Spec, HistoryIsFinal

\* A registration that met an active organization commits before anybody can
\* suspend it: the check and the insert are under one lock.
THEOREM SuspensionHolds == Spec => SuspendedQueueGainsNothing
<1> DEFINE A == Present(disk') # Present(disk) => disk.active
<1>1. ASSUME HistoryInv, [Next]_vars PROVE [A]_disk
  <2>1. disk \in Stores
    BY <1>1 DEF HistoryInv, TypeInv, TypeOK
  <2>2. CASE Extends(disk, disk')
    BY <2>2 DEF Extends
  <2>3. CASE disk' = [disk EXCEPT !.active = ~@]
    BY <2>1, <2>3 DEF Stores, Present
  <2> QED
    BY <1>1, <2>2, <2>3, DiskSteps
<1> QED
  BY <1>1, HistoryInvariant, PTL DEF Spec, SuspendedQueueGainsNothing

-----------------------------------------------------------------------------
(* The queue implements its ledger *)

\* The decision w was asked for is one the domain allows on the disk as it is.
Judged(w) ==
  op[w].decision = "MATCH" =>
    MatchAuthorized(disk.context, Pairs(disk, "MATCH"), Pairs(disk, "NO_MATCH"),
                    disk.cases[op[w].case].pair)

ContextMerged(w) ==
  LET wf == op[w].workflow
  IN /\ disk.context = NoContext \/ Compatible(disk.context, wf.context)
     /\ image[w].context = IF disk.context = NoContext THEN wf.context ELSE disk.context

\* What a transaction that reached its end would commit.
Decides(w) ==
  /\ op[w] \in Requests /\ op[w].kind = "resolve" /\ w \in Reviewers
  /\ DraftFits(w) /\ Judged(w)
  /\ image[w].context = disk.context
  /\ image[w].cases = SwappedCases(w)

Registers(w) ==
  LET cs == op[w].workflow.cases
  IN /\ op[w].workflow \in Workflows
     /\ ContextMerged(w)
     /\ ~Clash(disk, cs)
     /\ image[w].cases = [c \in CaseIds |-> IF c \in DOMAIN cs \ Present(disk)
                                              THEN PendingCase(cs[c]) ELSE disk.cases[c]]

KeepsCases(w) == image[w].context = disk.context /\ image[w].cases = disk.cases

CarriesOn(w) ==
  /\ pc[w] \in {"swap", "append", "verify"} => Judged(w)
  /\ pc[w] = "cases" => ContextMerged(w)
  /\ pc[w] = "commit" => Decides(w) \/ Registers(w) \/ KeepsCases(w)

RefinementInv == HistoryInv /\ \A w \in Writers : CarriesOn(w)

-----------------------------------------------------------------------------
(* The invariant *)

Carrying == {"swap", "append", "verify", "cases", "commit"}

LEMMA NothingToCarry == ASSUME NEW w, pc[w] \notin Carrying PROVE CarriesOn(w)
BY DEF CarriesOn, Carrying

LEMMA StillCarries ==
  ASSUME NEW v, CarriesOn(v), disk' = disk, pc'[v] = pc[v], op'[v] = op[v],
         image'[v] = image[v], draft'[v] = draft[v]
  PROVE  CarriesOn(v)'
BY DEF CarriesOn, Judged, ContextMerged, Decides, Registers, KeepsCases, DraftFits, SwappedCases

LEMMA OthersCarryOn ==
  ASSUME RefinementInv, HistoryInv', NEW w \in Writers, OnlyMoves(w), CarriesOn(w)'
  PROVE  RefinementInv'
<1>1. ASSUME NEW v \in Writers PROVE CarriesOn(v)'
  <2>1. CASE v = w
    BY <2>1
  <2>2. CASE v # w
    BY <2>2, StillCarries DEF RefinementInv, OnlyMoves
  <2> QED
    BY <2>1, <2>2
<1> QED
  BY <1>1 DEF RefinementInv

\* The steps after which w carries nothing.
LEMMA RollbackCarries ==
  ASSUME RefinementInv, HistoryInv', NEW w \in Writers, NEW why, lock = w, Rollback(w, why)
  PROVE  RefinementInv'
<1>1. OnlyMoves(w) /\ pc'[w] = "reply"
  BY DEF RefinementInv, HistoryInv, TypeInv, TypeOK, OnlyMoves, Rollback, Forget, Decline, Answer
<1>2. CarriesOn(w)'
  BY <1>1 DEF CarriesOn
<1> QED
  BY <1>1, <1>2, OthersCarryOn

LEMMA SubmitCarries ==
  ASSUME RefinementInv, HistoryInv', NEW w \in Writers, NEW o, Submit(w, o)
  PROVE  RefinementInv'
<1>1. OnlyMoves(w) /\ pc'[w] = "waiting"
  BY DEF RefinementInv, HistoryInv, TypeInv, TypeOK, OnlyMoves, Submit, Goto
<1>2. CarriesOn(w)'
  BY <1>1 DEF CarriesOn
<1> QED
  BY <1>1, <1>2, OthersCarryOn

LEMMA OutsideCarries ==
  ASSUME RefinementInv, HistoryInv', NEW w \in Writers,
         Begin(w) \/ Busy(w) \/ Reply(w) \/ Crash(w)
  PROVE  RefinementInv'
<1>1. OnlyMoves(w)
  BY DEF RefinementInv, HistoryInv, TypeInv, TypeOK, OnlyMoves, Begin, Busy, Reply, Crash,
         Goto, Decline, Answer, Rest, Forget
<1>2. pc'[w] \notin Carrying
  <2>1. CASE Begin(w)
    <3>1. op[w].kind \in {"resolve", "register", "suggest"}
      BY <2>1, RequestKinds DEF RefinementInv, HistoryInv, TypeInv, TypeOK, RequestFits, Begin
    <3> QED
      BY <2>1, <3>1 DEF RefinementInv, HistoryInv, TypeInv, TypeOK, Begin, Goto, FirstStep, Carrying
  <2>2. CASE Busy(w) \/ Reply(w) \/ Crash(w)
    BY <2>2 DEF RefinementInv, HistoryInv, TypeInv, TypeOK, Busy, Reply, Crash, Decline, Answer,
                Rest, Carrying
  <2> QED
    BY <2>1, <2>2
<1>3. CarriesOn(w)'
  BY <1>2 DEF CarriesOn, Carrying
<1> QED
  BY <1>1, <1>3, OthersCarryOn

\* A step inside a transaction.
LEMMA GoOnCarries ==
  ASSUME RefinementInv, HistoryInv', NEW w \in Writers, NEW step, Goto(w, step),
         UNCHANGED <<disk, lock, op, outcome>>,
         \A v \in Writers \ {w} : /\ image'[v] = image[v] /\ bundle'[v] = bundle[v]
                                 /\ draft'[v] = draft[v],
         CarriesOn(w)'
  PROVE  RefinementInv'
<1>1. OnlyMoves(w)
  BY DEF RefinementInv, HistoryInv, TypeInv, TypeOK, OnlyMoves, Goto
<1> QED
  BY <1>1, OthersCarryOn

LEMMA LoadBundleCarries ==
  ASSUME RefinementInv, HistoryInv', NEW w \in Writers, LoadBundle(w)
  PROVE  RefinementInv'
<1>1. HistoryInv /\ pc[w] \in InTransaction
  BY DEF LoadBundle, InTransaction, RefinementInv
<1>2. CASE image[w].context # NoContext /\ Reconstructs(image[w])
  <2>1. /\ bundle' = [bundle EXCEPT ![w] = image[w]] /\ Goto(w, "authorize")
        /\ UNCHANGED <<disk, lock, op, image, draft, outcome>>
    BY <1>2 DEF LoadBundle
  <2>2. \A v \in Writers \ {w} : bundle'[v] = bundle[v]
    BY <1>1, <2>1, InTransactionFacts
  <2>3. pc'[w] = "authorize"
    BY <1>1, <2>1, InTransactionFacts DEF Goto
  <2>4. CarriesOn(w)'
    BY <2>3 DEF CarriesOn
  <2> QED
    BY <2>1, <2>2, <2>4, GoOnCarries
<1>3. CASE ~(image[w].context # NoContext /\ Reconstructs(image[w]))
  BY <1>1, <1>3, InTransactionFacts, RollbackCarries DEF LoadBundle
<1> QED
  BY <1>2, <1>3

\* An approved MATCH has passed the authorization boundary.
LEMMA ApprovedMatch ==
  ASSUME NEW b \in Stores, NEW o, o.case \in CaseIds, Verdict(b, o) = "approved",
         o.decision = "MATCH"
  PROVE  MatchAuthorized(b.context, Pairs(b, "MATCH"), Pairs(b, "NO_MATCH"), b.cases[o.case].pair)
<1> DEFINE row == b.cases[o.case]
           authorized == MatchAuthorized(b.context, Pairs(b, "MATCH"), Pairs(b, "NO_MATCH"), row.pair)
           ok == o.decision = "MATCH" => authorized
<1>1. Verdict(b, o) = CASE row.status = "ABSENT" -> "not_found"
                        [] row.status # "ABSENT" /\ row.version # o.expected -> "stale"
                        [] row.version = o.expected /\ row.status \in Resolved -> "not_pending"
                        [] row.version = o.expected /\ row.status = "PENDING" /\ ~ok -> "refused"
                        [] OTHER -> "approved"
  BY DEF Verdict
<1>2. row.status = "PENDING" /\ row.version = o.expected
  BY ApprovedVerdict
<1> HIDE DEF authorized
<1>3. ok
  BY <1>1, <1>2 DEF Resolved
<1> QED
  BY <1>3 DEF authorized

LEMMA AuthorizeCarries ==
  ASSUME RefinementInv, HistoryInv', NEW w \in Writers, Authorize(w)
  PROVE  RefinementInv'
<1> DEFINE o == op[w]
           b == bundle[w]
           d == [case |-> o.case, status |-> StatusFor(o.decision),
                 sequence |-> NextSequence(b), reviewer |-> w]
<1>1. HistoryInv /\ pc[w] \in InTransaction /\ pc[w] = "authorize"
  BY DEF Authorize, InTransaction, RefinementInv
<1>2. b = disk /\ disk \in Stores
  BY <1>1, InTransactionFacts DEF ImageFits
<1>3. o.case \in CaseIds
  <2>1. o.kind = "resolve" /\ o \in Requests \cup {NoOp}
    BY <1>1 DEF HistoryInv, TypeInv, TypeOK, RequestFits, ResolveSteps
  <2> QED
    BY <2>1, RequestKinds
<1>4. CASE Verdict(b, o) = "approved"
  <2>1. draft' = [draft EXCEPT ![w] = d] /\ Goto(w, "swap")
        /\ UNCHANGED <<disk, lock, op, image, bundle, outcome>>
    BY <1>4 DEF Authorize
  <2>2. Judged(w)
    BY <1>2, <1>3, <1>4, ApprovedMatch DEF Judged
  <2>3. pc'[w] = "swap" /\ \A v \in Writers \ {w} : draft'[v] = draft[v]
    BY <1>1, <2>1, InTransactionFacts DEF Goto
  <2>4. CarriesOn(w)'
    BY <2>1, <2>2, <2>3 DEF CarriesOn, Judged
  <2> QED
    BY <2>1, <2>3, <2>4, GoOnCarries
<1>5. CASE Verdict(b, o) # "approved"
  BY <1>1, <1>5, InTransactionFacts, RollbackCarries DEF Authorize
<1> QED
  BY <1>4, <1>5

\* The three steps that write a decision leave the judgement as it is.
LEMMA CompareAndSwapCarries ==
  ASSUME RefinementInv, HistoryInv', NEW w \in Writers, CompareAndSwap(w)
  PROVE  RefinementInv'
<1>1. HistoryInv /\ pc[w] \in InTransaction /\ pc[w] = "swap" /\ Judged(w)
  BY DEF CompareAndSwap, InTransaction, RefinementInv, CarriesOn
<1>2. CASE /\ \E row : image' = [image EXCEPT ![w].cases[draft[w].case] = row]
           /\ Goto(w, "append") /\ UNCHANGED <<disk, lock, op, bundle, draft, outcome>>
  <2>1. pc'[w] = "append" /\ \A v \in Writers \ {w} : image'[v] = image[v]
    BY <1>1, <1>2, InTransactionFacts DEF Goto
  <2>2. CarriesOn(w)'
    BY <1>1, <1>2, <2>1 DEF CarriesOn, Judged
  <2> QED
    BY <1>2, <2>1, <2>2, GoOnCarries
<1>3. CASE \E why : Rollback(w, why)
  BY <1>1, <1>3, InTransactionFacts, RollbackCarries
<1> QED
  BY <1>2, <1>3 DEF CompareAndSwap

LEMMA AppendEventCarries ==
  ASSUME RefinementInv, HistoryInv', NEW w \in Writers, AppendEvent(w)
  PROVE  RefinementInv'
<1>1. HistoryInv /\ pc[w] \in InTransaction /\ pc[w] = "append" /\ Judged(w)
  BY DEF AppendEvent, InTransaction, RefinementInv, CarriesOn
<1>2. CASE /\ \E e : image' = [image EXCEPT ![w].events = Append(@, e)]
           /\ Goto(w, "verify") /\ UNCHANGED <<disk, lock, op, bundle, draft, outcome>>
  <2>1. pc'[w] = "verify" /\ \A v \in Writers \ {w} : image'[v] = image[v]
    BY <1>1, <1>2, InTransactionFacts DEF Goto
  <2>2. CarriesOn(w)'
    BY <1>1, <1>2, <2>1 DEF CarriesOn, Judged
  <2> QED
    BY <1>2, <2>1, <2>2, GoOnCarries
<1>3. CASE Rollback(w, "error")
  BY <1>1, <1>3, InTransactionFacts, RollbackCarries
<1> QED
  BY <1>2, <1>3 DEF AppendEvent

LEMMA VerifyEventCarries ==
  ASSUME RefinementInv, HistoryInv', NEW w \in Writers, VerifyEvent(w)
  PROVE  RefinementInv'
<1>1. HistoryInv /\ pc[w] \in InTransaction /\ pc[w] = "verify" /\ Judged(w)
  BY DEF VerifyEvent, InTransaction, RefinementInv, CarriesOn
<1>2. CASE Goto(w, "commit") /\ UNCHANGED <<disk, lock, op, image, bundle, draft, outcome>>
  <2>1. pc'[w] = "commit"
    BY <1>1, <1>2, InTransactionFacts DEF Goto
  <2>2. /\ DraftFits(w) /\ disk \in Stores
        /\ image[w] = [disk EXCEPT !.cases = SwappedCases(w), !.events = Append(@, DecisionEvent(w))]
    BY <1>1, InTransactionFacts DEF ImageFits
  <2>3. image[w].context = disk.context /\ image[w].cases = SwappedCases(w)
    BY <2>2 DEF Stores
  <2>4. op[w] \in Requests /\ op[w].kind = "resolve" /\ w \in Reviewers
    BY <1>1, ResolvingStep, RequestKinds DEF HistoryInv, TypeInv, TypeOK, NoOp
  <2>5. Decides(w)
    BY <1>1, <2>2, <2>3, <2>4 DEF Decides
  <2>6. Decides(w)'
    BY <1>2, <2>5 DEF Decides, DraftFits, Judged, SwappedCases
  <2>7. CarriesOn(w)'
    BY <2>1, <2>6 DEF CarriesOn
  <2> QED
    BY <1>2, <2>7, GoOnCarries
<1>3. CASE Rollback(w, "error")
  BY <1>1, <1>3, InTransactionFacts, RollbackCarries
<1> QED
  BY <1>2, <1>3 DEF VerifyEvent

LEMMA StoreContextCarries ==
  ASSUME RefinementInv, HistoryInv', NEW w \in Writers, StoreContext(w)
  PROVE  RefinementInv'
<1> DEFINE wf == op[w].workflow
           clash == image[w].context # NoContext /\ ~Compatible(image[w].context, wf.context)
           ctx == IF image[w].context = NoContext THEN wf.context ELSE image[w].context
<1>1. HistoryInv /\ pc[w] \in InTransaction /\ pc[w] = "context"
  BY DEF StoreContext, InTransaction, RefinementInv
<1>2. image[w] = disk /\ disk \in Stores
  BY <1>1, InTransactionFacts DEF ImageFits
<1>3. CASE image[w].active /\ ~clash
  <2>1. image' = [image EXCEPT ![w].context = ctx] /\ Goto(w, "cases")
        /\ UNCHANGED <<disk, lock, op, bundle, draft, outcome>>
    BY <1>3 DEF StoreContext
  <2>2. /\ image'[w] = [disk EXCEPT !.context = ctx] /\ pc'[w] = "cases"
        /\ \A v \in Writers \ {w} : image'[v] = image[v]
    BY <1>1, <1>2, <2>1, InTransactionFacts DEF Goto
  <2>3. image'[w].context = ctx
    BY <1>2, <2>2 DEF Stores
  <2>4. ContextMerged(w)'
    BY <1>2, <1>3, <2>1, <2>3 DEF ContextMerged
  <2>5. CarriesOn(w)'
    BY <2>2, <2>4 DEF CarriesOn
  <2> QED
    BY <2>1, <2>2, <2>5, GoOnCarries
<1>4. CASE ~image[w].active
  BY <1>1, <1>4, InTransactionFacts, RollbackCarries DEF StoreContext
<1>5. CASE image[w].active /\ clash
  BY <1>1, <1>5, InTransactionFacts, RollbackCarries DEF StoreContext
<1> QED
  BY <1>3, <1>4, <1>5

LEMMA RegisterCasesCarries ==
  ASSUME RefinementInv, HistoryInv', NEW w \in Writers, RegisterCases(w)
  PROVE  RefinementInv'
<1> DEFINE cs == op[w].workflow.cases
           After(s) == [c \in CaseIds |-> IF c \in DOMAIN cs \ Present(s)
                                            THEN PendingCase(cs[c]) ELSE s.cases[c]]
           ctx == image[w].context
<1>1. HistoryInv /\ pc[w] \in InTransaction /\ pc[w] = "cases" /\ ContextMerged(w)
  BY DEF RegisterCases, InTransaction, RefinementInv, CarriesOn
<1>2. disk \in Stores /\ image[w] \in Stores /\ image[w] = [disk EXCEPT !.context = ctx]
  BY <1>1, InTransactionFacts DEF ImageFits, ContextStored
<1>3. op[w].workflow \in Workflows
  BY <1>1, RegisteringStep DEF HistoryInv
<1>4. image[w].cases = disk.cases /\ Present(image[w]) = Present(disk)
  BY <1>2 DEF Stores, Present
<1>5. CASE ~Clash(image[w], cs)
  <2> DEFINE after == After(image[w])
  <2>1. image' = [image EXCEPT ![w].cases = after] /\ Goto(w, "commit")
        /\ UNCHANGED <<disk, lock, op, bundle, draft, outcome>>
    BY <1>5 DEF RegisterCases
  <2>2. ~Clash(disk, cs)
    BY <1>4, <1>5 DEF Clash
  <2>3. after = After(disk)
    BY <1>4
  <2>4. /\ image'[w] = [image[w] EXCEPT !.cases = after] /\ pc'[w] = "commit"
        /\ \A v \in Writers \ {w} : image'[v] = image[v]
    BY <1>1, <2>1, InTransactionFacts DEF Goto
  <2>5. image'[w].cases = after /\ image'[w].context = image[w].context
    <3> HIDE DEF after
    <3> QED
      BY <1>2, <2>4 DEF Stores
  <2>6. ContextMerged(w)'
    BY <1>1, <2>1, <2>5 DEF ContextMerged
  <2>7. op' = op /\ disk' = disk
    BY <2>1
  <2>8. Registers(w)'
    BY <1>3, <2>2, <2>3, <2>5, <2>6, <2>7 DEF Registers
  <2>9. CarriesOn(w)'
    BY <2>4, <2>8 DEF CarriesOn
  <2> QED
    BY <2>1, <2>4, <2>9, GoOnCarries
<1>6. CASE Clash(image[w], cs)
  BY <1>1, <1>6, InTransactionFacts, RollbackCarries DEF RegisterCases
<1> QED
  BY <1>5, <1>6

LEMMA RecordSuggestionCarries ==
  ASSUME RefinementInv, HistoryInv', NEW w \in Writers, RecordSuggestion(w)
  PROVE  RefinementInv'
<1>1. HistoryInv /\ pc[w] \in InTransaction /\ pc[w] = "suggest"
  BY DEF RecordSuggestion, InTransaction, RefinementInv
<1>2. image[w] = disk
  BY <1>1, InTransactionFacts DEF ImageFits
<1>3. CASE Rollback(w, "not_found") \/ Rollback(w, "conflict")
  BY <1>1, <1>3, InTransactionFacts, RollbackCarries
<1>4. CASE Goto(w, "commit") /\ UNCHANGED <<disk, lock, op, image, bundle, draft, outcome>>
  <2>1. KeepsCases(w)' /\ pc'[w] = "commit"
    BY <1>1, <1>2, <1>4, InTransactionFacts DEF Goto, KeepsCases
  <2>2. CarriesOn(w)'
    BY <2>1 DEF CarriesOn
  <2> QED
    BY <1>4, <2>2, GoOnCarries
<1>5. CASE /\ \E sg : image' = [image EXCEPT ![w].suggestions = sg]
           /\ Goto(w, "suggest_event")
           /\ UNCHANGED <<disk, lock, op, bundle, draft, outcome>>
  <2>1. pc'[w] = "suggest_event" /\ \A v \in Writers \ {w} : image'[v] = image[v]
    BY <1>1, <1>5, InTransactionFacts DEF Goto
  <2>2. CarriesOn(w)'
    BY <2>1 DEF CarriesOn
  <2> QED
    BY <1>5, <2>1, <2>2, GoOnCarries
<1> QED
  BY <1>3, <1>4, <1>5 DEF RecordSuggestion

LEMMA AppendSuggestionEventCarries ==
  ASSUME RefinementInv, HistoryInv', NEW w \in Writers, AppendSuggestionEvent(w)
  PROVE  RefinementInv'
<1> DEFINE g == op[w].suggestion
           e == [case |-> g.case, type |-> "SEMANTIC_SUGGESTION_RECORDED", sequence |-> 0,
                 reviewer |-> Nobody, suggestion |-> g.id]
           sg == disk.suggestions \cup {g}
<1>1. HistoryInv /\ pc[w] \in InTransaction /\ pc[w] = "suggest_event"
  BY DEF AppendSuggestionEvent, InTransaction, RefinementInv
<1>2. disk \in Stores /\ image[w] = [disk EXCEPT !.suggestions = sg]
  BY <1>1, InTransactionFacts DEF ImageFits
<1>3. image' = [image EXCEPT ![w].events = Append(@, e)] /\ Goto(w, "commit")
      /\ UNCHANGED <<disk, lock, op, bundle, draft, outcome>>
  BY DEF AppendSuggestionEvent
<1>4. /\ image'[w] = [image[w] EXCEPT !.events = Append(@, e)] /\ pc'[w] = "commit"
      /\ \A v \in Writers \ {w} : image'[v] = image[v]
  BY <1>1, <1>3, InTransactionFacts DEF Goto
<1> HIDE DEF e, sg
<1>5. image'[w].cases = disk.cases /\ image'[w].context = disk.context
  BY <1>2, <1>4 DEF Stores
<1>6. KeepsCases(w)'
  BY <1>3, <1>5 DEF KeepsCases
<1>7. CarriesOn(w)'
  BY <1>4, <1>6 DEF CarriesOn
<1> QED
  BY <1>3, <1>4, <1>7, GoOnCarries

\* The disk moves only when nobody is in a transaction any more.
LEMMA DiskMovesCarry ==
  ASSUME RefinementInv, HistoryInv', lock' = NoWriter
  PROVE  RefinementInv'
<1>1. ASSUME NEW v \in Writers PROVE CarriesOn(v)'
  <2>1. pc'[v] \notin InTransaction
    BY <1>1, QueueAssumption DEF HistoryInv, RoleFits
  <2> QED
    BY <2>1 DEF CarriesOn, InTransaction
<1> QED
  BY <1>1 DEF RefinementInv

LEMMA UnchangedCarries == RefinementInv /\ UNCHANGED vars => RefinementInv'
<1> SUFFICES ASSUME RefinementInv, UNCHANGED vars PROVE RefinementInv'
  OBVIOUS
<1>1. HistoryInv'
  BY UnchangedKeepsHistory DEF RefinementInv
<1>2. ASSUME NEW v \in Writers PROVE CarriesOn(v)'
  BY StillCarries DEF RefinementInv, vars
<1> QED
  BY <1>1, <1>2 DEF RefinementInv

LEMMA InitRefinement == Init => RefinementInv
<1>1. Init => \A w \in Writers : CarriesOn(w)
  BY DEF Init, CarriesOn
<1> QED
  BY <1>1, InitHistory DEF RefinementInv

LEMMA NextRefinement == RefinementInv /\ [Next]_vars => RefinementInv'
<1> SUFFICES ASSUME RefinementInv, [Next]_vars PROVE RefinementInv'
  OBVIOUS
<1>1. HistoryInv'
  BY NextKeepsHistory DEF RefinementInv
<1>2. CASE \/ \E w \in Reviewers, c \in CaseIds, d \in Offered : SubmitDecision(w, c, d)
           \/ \E w \in Operators, wf \in Workflows : SubmitRegistration(w, wf)
           \/ \E w \in Operators, g \in Suggestions : SubmitSuggestion(w, g)
  <2>1. PICK w \in Writers : \E o : Submit(w, o)
    BY <1>2 DEF SubmitDecision, SubmitRegistration, SubmitSuggestion, Writers
  <2> QED
    BY <1>1, <2>1, SubmitCarries
<1>3. ASSUME NEW w \in Writers, Proceed(w) PROVE RefinementInv'
  <2>1. CASE Commit(w)
    BY <1>1, <2>1, DiskMovesCarry DEF Commit
  <2> QED
    BY <1>1, <1>3, <2>1, OutsideCarries, LoadBundleCarries, AuthorizeCarries,
       CompareAndSwapCarries, AppendEventCarries, VerifyEventCarries, StoreContextCarries,
       RegisterCasesCarries, RecordSuggestionCarries, AppendSuggestionEventCarries DEF Proceed
<1>4. ASSUME NEW w \in Writers, Fail(w) PROVE RefinementInv'
  BY <1>1, <1>4, RollbackCarries DEF Fail
<1>5. ASSUME NEW w \in Writers, Crash(w) PROVE RefinementInv'
  BY <1>1, <1>5, OutsideCarries
<1>6. CASE SetOrganizationStatus
  BY <1>1, <1>6, DiskMovesCarry DEF SetOrganizationStatus
<1>7. CASE UNCHANGED vars
  BY <1>7, UnchangedCarries
<1> QED
  BY <1>2, <1>3, <1>4, <1>5, <1>6, <1>7 DEF Next

-----------------------------------------------------------------------------
(* The two modules read one graph *)

LEMMA SameJudgement ==
  ASSUME NEW ctx, NEW matches, NEW noMatches, NEW pair
  PROVE  MatchAuthorized(ctx, matches, noMatches, pair)
           <=> Ledger!MatchAuthorized(ctx, matches, noMatches, pair)
BY DEF MatchAuthorized, Ledger!MatchAuthorized, MatchAllowed, Ledger!MatchAllowed,
       ProjectedComponent, Ledger!ProjectedComponent, ProjectedAuto, Ledger!ProjectedAuto,
       UniteInOrder, Ledger!UniteInOrder, UniteAlong, Ledger!UniteAlong, Unite, Ledger!Unite,
       Touching, Ledger!Touching, Proposed, Ledger!Proposed, HoldsOneOf, Ledger!HoldsOneOf,
       Singletons, Ledger!Singletons, ComponentOf, Ledger!ComponentOf, Refused, Ledger!Refused,
       LastPair, Ledger!LastPair, Precedes, Ledger!Precedes,
       MapThenFoldSet, Ledger!MapThenFoldSet, FoldLeft, Ledger!FoldLeft, Max, Ledger!Max

LEMMA SameCompatible ==
  ASSUME NEW stored, NEW incoming
  PROVE  Compatible(stored, incoming) <=> Ledger!Compatible(stored, incoming)
BY DEF Compatible, Ledger!Compatible, ToSet, Ledger!ToSet

-----------------------------------------------------------------------------
(* The ledger that a store stands for *)

LEMMA SameCasesSameLedger ==
  ASSUME NEW s, NEW t, t.cases = s.cases
  PROVE  RegisteredOf(t) = RegisteredOf(s) /\ LedgerOf(t) = LedgerOf(s)
<1>1. Present(t) = Present(s) /\ Settled(t) = Settled(s)
  BY DEF Present, Settled
<1>2. RegisteredOf(t) = RegisteredOf(s)
  BY <1>1 DEF RegisteredOf
<1>3. LedgerOf(t) = LedgerOf(s)
  BY <1>1 DEF LedgerOf
<1> QED
  BY <1>2, <1>3

EntryOf(s, c) ==
  [case |-> c, decision |-> DecisionOf(s.cases[c]), reviewer |-> s.cases[c].reviewer]

\* The settled cases and the entries of the ledger correspond one to one.
LEMMA LedgerEntries ==
  ASSUME NEW s, Sound(s)
  PROVE  LET n == Cardinality(Settled(s))
             q == LedgerOf(s)
         IN /\ n \in Nat /\ DOMAIN q = 1..n
            /\ \A i \in 1..n : \E c \in Settled(s) : s.cases[c].sequence = i /\ q[i] = EntryOf(s, c)
            /\ \A c \in Settled(s) : /\ s.cases[c].sequence \in 1..n
                                     /\ q[s.cases[c].sequence] = EntryOf(s, c)
<1> DEFINE n == Cardinality(Settled(s))
           q == LedgerOf(s)
           At(i) == CHOOSE k \in Settled(s) : s.cases[k].sequence = i
<1>1. n \in Nat
  BY SettledIsFinite
<1>2. q = [i \in 1..n |-> EntryOf(s, At(i))]
  BY DEF LedgerOf, EntryOf
<1>3. ASSUME NEW i \in 1..n PROVE At(i) \in Settled(s) /\ s.cases[At(i)].sequence = i
  BY DEF Sound, Reconstructs
<1>4. ASSUME NEW c \in Settled(s)
      PROVE  s.cases[c].sequence \in 1..n /\ At(s.cases[c].sequence) = c
  <2>1. s.cases[c].sequence \in 1..n
    BY DEF Sound, Complete
  <2>2. /\ At(s.cases[c].sequence) \in Settled(s)
        /\ s.cases[At(s.cases[c].sequence)].sequence = s.cases[c].sequence
    BY <1>3, <2>1
  <2> HIDE DEF At
  <2> QED
    BY <2>1, <2>2 DEF Sound, Complete
<1> HIDE DEF At, q, n
<1>5. DOMAIN q = 1..n /\ \A i \in 1..n : q[i] = EntryOf(s, At(i))
  BY <1>2
<1> QED
  BY <1>1, <1>3, <1>4, <1>5 DEF q, n

LEMMA LedgerIsASequence ==
  ASSUME NEW s, Sound(s)
  PROVE  /\ LedgerOf(s) \in Seq({EntryOf(s, c) : c \in Settled(s)})
         /\ Len(LedgerOf(s)) = Cardinality(Settled(s))
<1> DEFINE n == Cardinality(Settled(s))
           q == LedgerOf(s)
           E == {EntryOf(s, c) : c \in Settled(s)}
<1>1. n \in Nat /\ DOMAIN q = 1..n /\ \A i \in 1..n : q[i] \in E
  BY LedgerEntries
<1>2. q = [i \in 1..n |-> q[i]]
  <2>1. q = [i \in DOMAIN q |-> q[i]]
    BY DEF LedgerOf
  <2> HIDE DEF q
  <2> QED
    BY <1>1, <2>1
<1> HIDE DEF n, q, E
<1>3. q \in [1..n -> E]
  BY <1>1, <1>2
<1>4. q \in Seq(E) /\ Len(q) = n
  BY <1>1, <1>3
<1> QED
  BY <1>4 DEF n, q, E

\* The ledger decides the settled cases, with the pairs and the outcomes of the rows.
LEMMA LedgerDecisions ==
  ASSUME RefinementInv
  PROVE  /\ Ledger!Decided = Settled(disk)
         /\ Ledger!Matches = Pairs(disk, "MATCH")
         /\ Ledger!NoMatches = Pairs(disk, "NO_MATCH")
<1> DEFINE n == Cardinality(Settled(disk))
           q == LedgerOf(disk)
           reg == RegisteredOf(disk)
<1>1. Sound(disk) /\ disk \in Stores
  BY DEF RefinementInv, HistoryInv, TypeInv, TypeOK
<1>2. /\ n \in Nat /\ DOMAIN q = 1..n /\ Len(q) = n
      /\ \A i \in 1..n : \E c \in Settled(disk) : disk.cases[c].sequence = i /\ q[i] = EntryOf(disk, c)
      /\ \A c \in Settled(disk) : /\ disk.cases[c].sequence \in 1..n
                                  /\ q[disk.cases[c].sequence] = EntryOf(disk, c)
  BY <1>1, LedgerEntries, LedgerIsASequence
<1>3. \A c \in Settled(disk) : reg[c] = disk.cases[c].pair
  BY DEF RegisteredOf, Settled, Present, Resolved
<1> HIDE DEF n, q, reg
<1>4. \A c : EntryOf(disk, c).case = c /\ EntryOf(disk, c).decision = DecisionOf(disk.cases[c])
  BY DEF EntryOf
<1>5. {q[i].case : i \in DOMAIN q} = Settled(disk)
  BY <1>2, <1>4
<1>6. ASSUME NEW d \in {"MATCH", "NO_MATCH"}
      PROVE  {reg[q[i].case] : i \in {j \in 1..Len(q) : q[j].decision = d}} = Pairs(disk, d)
  <2>1. \A c \in CaseIds : c \in Settled(disk) /\ DecisionOf(disk.cases[c]) = d
                             <=> disk.cases[c].status = d
    BY DEF Settled, Resolved, DecisionOf
  <2>2. Settled(disk) \subseteq CaseIds
    BY DEF Settled
  <2>3. ASSUME NEW i \in 1..n, q[i].decision = d PROVE reg[q[i].case] \in Pairs(disk, d)
    <3>1. PICK c \in Settled(disk) : q[i] = EntryOf(disk, c)
      BY <1>2
    <3>2. q[i].case = c /\ DecisionOf(disk.cases[c]) = d
      BY <1>4, <2>3, <3>1
    <3> QED
      BY <1>3, <2>1, <2>2, <3>2 DEF Pairs
  <2>4. ASSUME NEW c \in CaseIds, disk.cases[c].status = d
        PROVE  \E i \in 1..n : q[i].decision = d /\ reg[q[i].case] = disk.cases[c].pair
    <3>1. c \in Settled(disk) /\ DecisionOf(disk.cases[c]) = d
      BY <2>1, <2>4
    <3> DEFINE i == disk.cases[c].sequence
    <3>2. i \in 1..n /\ q[i].decision = d /\ reg[q[i].case] = disk.cases[c].pair
      BY <1>2, <1>3, <1>4, <3>1
    <3> QED
      BY <3>2
  <2>5. Pairs(disk, d) = {disk.cases[c].pair : c \in {k \in CaseIds : disk.cases[k].status = d}}
    BY DEF Pairs
  <2> QED
    BY <1>2, <2>3, <2>4, <2>5
<1>7. Ledger!Decided = Settled(disk)
  BY <1>5 DEF Ledger!Decided, q
<1>8. /\ Ledger!Matches = Pairs(disk, "MATCH")
      /\ Ledger!NoMatches = Pairs(disk, "NO_MATCH")
  BY <1>6 DEF Ledger!Matches, Ledger!NoMatches, Ledger!PairsDecided, q, reg
<1> QED
  BY <1>7, <1>8

\* One row settled is one entry appended.
LEMMA SettlingAppends ==
  ASSUME NEW s \in Stores, NEW t, Sound(s), Sound(t), NEW c \in CaseIds, NEW row,
         s.cases[c].status = "PENDING", row.status \in Resolved, row.pair = s.cases[c].pair,
         row.sequence = NextSequence(s), t.cases = [s.cases EXCEPT ![c] = row]
  PROVE  /\ RegisteredOf(t) = RegisteredOf(s)
         /\ LedgerOf(t) = Append(LedgerOf(s), EntryOf(t, c))
         /\ Cardinality(Settled(s)) < Cardinality(CaseIds)
         /\ c \in Present(s) \ Settled(s)
<1> DEFINE n == Cardinality(Settled(s))
<1>1. s.cases \in [CaseIds -> Rows]
  BY DEF Stores
<1>2. t.cases[c] = row /\ \A k \in CaseIds \ {c} : t.cases[k] = s.cases[k]
  BY <1>1
<1>3. c \in Present(s) \ Settled(s)
  BY DEF Present, Settled, Resolved
<1>4. Settled(t) = Settled(s) \cup {c} /\ Present(t) = Present(s)
  BY <1>2, <1>3 DEF Settled, Present, Resolved
<1>5. n \in Nat /\ Cardinality(Settled(t)) = n + 1 /\ row.sequence = n + 1
  BY <1>3, <1>4, SettledIsFinite, FS_AddElement DEF NextSequence
<1>6. n < Cardinality(CaseIds)
  <2>1. Settled(t) \subseteq CaseIds /\ IsFiniteSet(CaseIds)
    BY QueueAssumption DEF Settled
  <2>2. Cardinality(Settled(t)) <= Cardinality(CaseIds) /\ Cardinality(CaseIds) \in Nat
    BY <2>1, FS_Subset, FS_CardinalityType
  <2> QED
    BY <1>5, <2>2
<1>7. RegisteredOf(t) = RegisteredOf(s)
  <2>1. \A k \in Present(s) : t.cases[k].pair = s.cases[k].pair
    BY <1>2 DEF Present
  <2> QED
    BY <1>4, <2>1 DEF RegisteredOf
<1>8. LedgerOf(t) = Append(LedgerOf(s), EntryOf(t, c))
  <2> DEFINE p == LedgerOf(s)
             q == LedgerOf(t)
             E == {EntryOf(s, k) : k \in Settled(s)} \cup {EntryOf(t, k) : k \in Settled(t)}
  <2>1. /\ DOMAIN p = 1..n /\ Len(p) = n
        /\ \A i \in 1..n : \E k \in Settled(s) : s.cases[k].sequence = i /\ p[i] = EntryOf(s, k)
    BY LedgerEntries, LedgerIsASequence
  <2>2. /\ DOMAIN q = 1..(n + 1) /\ Len(q) = n + 1
        /\ \A k \in Settled(t) : q[t.cases[k].sequence] = EntryOf(t, k)
    BY <1>5, LedgerEntries, LedgerIsASequence
  <2>3. p \in Seq(E) /\ q \in Seq(E)
    <3>1. p \in Seq({EntryOf(s, k) : k \in Settled(s)}) /\ q \in Seq({EntryOf(t, k) : k \in Settled(t)})
      BY LedgerIsASequence
    <3> HIDE DEF p, q
    <3> QED
      BY <3>1
  <2>4. ASSUME NEW i \in 1..n PROVE q[i] = p[i]
    <3>1. PICK k \in Settled(s) : s.cases[k].sequence = i /\ p[i] = EntryOf(s, k)
      BY <2>1
    <3>2. k \in Settled(t) /\ t.cases[k] = s.cases[k]
      BY <1>2, <1>3, <1>4 DEF Settled
    <3>3. EntryOf(t, k) = EntryOf(s, k)
      BY <3>2 DEF EntryOf
    <3> HIDE DEF p, q
    <3> QED
      BY <2>2, <3>1, <3>2, <3>3
  <2>5. q[n + 1] = EntryOf(t, c)
    <3> HIDE DEF p, q
    <3> QED
      BY <1>2, <1>4, <1>5, <2>2
  <2>6. EntryOf(t, c) \in E
    BY <1>4
  <2> HIDE DEF p, q, E, n
  <2> DEFINE a == Append(p, EntryOf(t, c))
  <2>7. a \in Seq(E) /\ Len(a) = n + 1 /\ a[n + 1] = EntryOf(t, c) /\ \A i \in 1..n : a[i] = p[i]
    BY <1>5, <2>1, <2>3, <2>6, AppendProperties
  <2> HIDE DEF a
  <2>8. \A i \in 1..(n + 1) : q[i] = a[i]
    BY <1>5, <2>4, <2>5, <2>7
  <2>9. q = a
    BY <2>2, <2>3, <2>7, <2>8, SeqEqual
  <2> QED
    BY <2>9 DEF p, q, a
<1> QED
  BY <1>3, <1>6, <1>7, <1>8

LEMMA CommitDecides ==
  ASSUME RefinementInv, RefinementInv', NEW w \in Writers, Commit(w), Decides(w)
  PROVE  Ledger!Next
<1> DEFINE c == op[w].case
           d == op[w].decision
           row == ResolvedRow(disk.cases[c], draft[w])
<1>1. disk' = image[w] /\ disk \in Stores /\ Sound(disk) /\ Sound(disk')
  BY DEF Commit, RefinementInv, HistoryInv, TypeInv, TypeOK
<1>2. w \in Reviewers /\ c \in CaseIds /\ d \in Decisions
  BY RequestKinds DEF Decides
<1>3. /\ draft[w] = [case |-> c, status |-> StatusFor(d), sequence |-> NextSequence(disk), reviewer |-> w]
      /\ disk.cases[c].status = "PENDING"
  BY DEF Decides, DraftFits
<1>4. disk'.cases = [disk.cases EXCEPT ![c] = row] /\ disk'.context = disk.context
  BY <1>1, <1>3 DEF Decides, SwappedCases
<1>5. /\ row.status = StatusFor(d) /\ row.pair = disk.cases[c].pair
      /\ row.sequence = NextSequence(disk) /\ row.reviewer = w
  <2> DEFINE old == disk.cases[c]
             new == draft[w]
  <2>1. old \in Rows
    BY <1>1, <1>2 DEF Stores
  <2>2. new.status = StatusFor(d) /\ new.sequence = NextSequence(disk) /\ new.reviewer = w
    BY <1>3
  <2> HIDE DEF old, new
  <2>3. row = ResolvedRow(old, new)
    BY DEF old, new
  <2>4. /\ ResolvedRow(old, new).status = new.status /\ ResolvedRow(old, new).pair = old.pair
        /\ ResolvedRow(old, new).sequence = new.sequence
        /\ ResolvedRow(old, new).reviewer = new.reviewer
    BY <2>1 DEF ResolvedRow, Rows
  <2> QED
    BY <2>2, <2>3, <2>4 DEF old
<1>6. StatusFor(d) \in Resolved
  BY <1>2 DEF StatusFor, Decisions, Resolved
<1> HIDE DEF row
<1>7. /\ RegisteredOf(disk') = RegisteredOf(disk)
      /\ LedgerOf(disk') = Append(LedgerOf(disk), EntryOf(disk', c))
      /\ Cardinality(Settled(disk)) < Cardinality(CaseIds)
      /\ c \in Present(disk) \ Settled(disk)
  BY <1>1, <1>2, <1>3, <1>4, <1>5, <1>6, SettlingAppends
<1>8. EntryOf(disk', c) = [case |-> c, decision |-> d, reviewer |-> w]
  <2>1. disk'.cases[c] = row
    BY <1>1, <1>2, <1>4 DEF Stores
  <2>2. DecisionOf(row) = d
    BY <1>2, <1>5 DEF DecisionOf, StatusFor, Decisions
  <2> QED
    BY <1>5, <2>1, <2>2 DEF EntryOf
<1>9. RegisteredOf(disk)[c] = disk.cases[c].pair /\ DOMAIN RegisteredOf(disk) = Present(disk)
  BY <1>7 DEF RegisteredOf
<1>10. d = "MATCH" => Ledger!MatchAuthorized(disk.context, Ledger!Matches, Ledger!NoMatches,
                                             RegisteredOf(disk)[c])
  BY <1>9, LedgerDecisions, SameJudgement DEF Decides, Judged
<1>11. Ledger!Decide(w, c, d)
  BY <1>4, <1>7, <1>8, <1>9, <1>10, LedgerDecisions DEF Ledger!Decide
<1>12. Len(LedgerOf(disk)) < Cardinality(CaseIds) /\ d \in Ledger!Decisions
  BY <1>1, <1>2, <1>7, LedgerIsASequence DEF Decisions, Ledger!Decisions
<1> QED
  BY <1>2, <1>11, <1>12 DEF Ledger!Next

\* New rows leave the decisions alone.
LEMMA RegisteringKeepsLedger ==
  ASSUME NEW s, NEW t, Sound(s), Sound(t), Settled(t) = Settled(s),
         \A c \in Settled(s) : t.cases[c] = s.cases[c]
  PROVE  LedgerOf(t) = LedgerOf(s)
<1> DEFINE n == Cardinality(Settled(s))
           p == LedgerOf(s)
           q == LedgerOf(t)
           E == {EntryOf(s, k) : k \in Settled(s)}
<1>1. \A k \in Settled(s) : EntryOf(t, k) = EntryOf(s, k)
  BY DEF EntryOf
<1>2. p \in Seq(E) /\ Len(p) = n
  BY LedgerIsASequence
<1>3. q \in Seq(E) /\ Len(q) = n
  <2>1. {EntryOf(t, k) : k \in Settled(t)} = E
    BY <1>1
  <2> QED
    BY <2>1, LedgerIsASequence
<1>4. ASSUME NEW i \in 1..n PROVE p[i] = q[i]
  <2>1. PICK k \in Settled(s) : s.cases[k].sequence = i /\ p[i] = EntryOf(s, k)
    BY LedgerEntries
  <2>2. q[t.cases[k].sequence] = EntryOf(t, k)
    BY LedgerEntries
  <2> HIDE DEF p, q
  <2> QED
    BY <1>1, <2>1, <2>2
<1> HIDE DEF n, p, q, E
<1>5. p = q
  BY <1>2, <1>3, <1>4, SeqEqual
<1> QED
  BY <1>5 DEF p, q

LEMMA CommitRegisters ==
  ASSUME RefinementInv, RefinementInv', NEW w \in Writers, Commit(w), Registers(w)
  PROVE  Ledger!Next
<1> DEFINE wf == op[w].workflow
           cs == wf.cases
           after == [c \in CaseIds |-> IF c \in DOMAIN cs \ Present(disk)
                                         THEN PendingCase(cs[c]) ELSE disk.cases[c]]
<1>1. /\ disk' = image[w] /\ disk \in Stores /\ Sound(disk) /\ Sound(disk')
      /\ wf \in Workflows /\ DOMAIN cs \subseteq CaseIds
  BY QueueAssumption DEF Commit, Registers, RefinementInv, HistoryInv, TypeInv, TypeOK
<1>2. disk'.cases = after /\ ~Clash(disk, cs)
  BY <1>1 DEF Registers
<1>3. /\ disk.context = NoContext \/ Compatible(disk.context, wf.context)
      /\ disk'.context = IF disk.context = NoContext THEN wf.context ELSE disk.context
  BY <1>1 DEF Registers, ContextMerged
<1>4. \A p : PendingCase(p).status = "PENDING" /\ PendingCase(p).pair = p
  BY DEF PendingCase
<1> HIDE DEF wf, cs
<1>5. Settled(disk') = Settled(disk) /\ Present(disk') = Present(disk) \cup DOMAIN cs
  BY <1>1, <1>2, <1>4 DEF Settled, Present, Resolved
<1>6. \A c \in Settled(disk) : disk'.cases[c] = disk.cases[c]
  BY <1>2 DEF Settled, Present, Resolved
<1>7. LedgerOf(disk') = LedgerOf(disk)
  BY <1>1, <1>5, <1>6, RegisteringKeepsLedger
<1>8. /\ DOMAIN RegisteredOf(disk) = Present(disk)
      /\ \A c \in Present(disk) : RegisteredOf(disk)[c] = disk.cases[c].pair
  BY DEF RegisteredOf
<1>9. RegisteredOf(disk') = Ledger!WithCases(cs)
  <2>1. ASSUME NEW c \in Present(disk')
        PROVE  disk'.cases[c].pair = IF c \in Present(disk) THEN disk.cases[c].pair ELSE cs[c]
    <3>1. c \in CaseIds
      BY <2>1 DEF Present
    <3> QED
      BY <1>2, <1>4, <1>5, <2>1, <3>1
  <2>2. RegisteredOf(disk') = [c \in Present(disk) \cup DOMAIN cs |-> disk'.cases[c].pair]
    BY <1>5 DEF RegisteredOf
  <2>3. Ledger!WithCases(cs) = [c \in Present(disk) \cup DOMAIN cs |->
                                  IF c \in Present(disk) THEN RegisteredOf(disk)[c] ELSE cs[c]]
    BY <1>8 DEF Ledger!WithCases
  <2> HIDE DEF after
  <2> QED
    BY <1>5, <1>8, <2>1, <2>2, <2>3
<1>10. Ledger!Consistent(wf)
  BY <1>2, <1>8 DEF Clash, Ledger!Consistent, cs
<1>11. NoContext = Ledger!NoContext
  BY DEF NoContext, Ledger!NoContext
<1>12. Ledger!Register(wf)
  BY <1>3, <1>7, <1>9, <1>10, <1>11, SameCompatible DEF Ledger!Register, cs
<1> QED
  BY <1>1, <1>12 DEF Ledger!Next

-----------------------------------------------------------------------------
(* The theorem *)

LEMMA InitialQueueIsInitialLedger == Init => Ledger!Init
<1> SUFFICES ASSUME Init PROVE Ledger!Init
  OBVIOUS
<1>1. disk = EmptyStore /\ Settled(disk) = {} /\ Present(disk) = {}
  BY DEF Init, Settled, Present, EmptyStore, NoCase, Resolved
<1>2. disk.context = Ledger!NoContext
  BY <1>1 DEF EmptyStore, NoContext, Ledger!NoContext
<1>3. RegisteredOf(disk) = <<>>
  BY <1>1 DEF RegisteredOf
<1>4. LedgerOf(disk) = <<>>
  <2>1. Cardinality(Settled(disk)) = 0 /\ 1..0 = {}
    BY <1>1, FS_EmptySet
  <2> QED
    BY <2>1 DEF LedgerOf
<1> QED
  BY <1>2, <1>3, <1>4 DEF Ledger!Init

\* A step that leaves context and cases alone is no step of the ledger.
LEMMA SameStoreSameLedger ==
  ASSUME disk'.context = disk.context, disk'.cases = disk.cases
  PROVE  UNCHANGED Ledger!vars
<1>1. RegisteredOf(disk') = RegisteredOf(disk) /\ LedgerOf(disk') = LedgerOf(disk)
  BY SameCasesSameLedger
<1> QED
  BY <1>1 DEF Ledger!vars

LEMMA QueueStepIsLedgerStep ==
  ASSUME RefinementInv, RefinementInv', [Next]_vars
  PROVE  [Ledger!Next]_(Ledger!vars)
<1>1. disk \in Stores
  BY DEF RefinementInv, HistoryInv, TypeInv, TypeOK
<1>2. ASSUME NEW w \in Writers, Commit(w) PROVE [Ledger!Next]_(Ledger!vars)
  <2>1. Decides(w) \/ Registers(w) \/ KeepsCases(w)
    BY <1>2 DEF Commit, RefinementInv, CarriesOn
  <2>2. CASE KeepsCases(w)
    BY <1>2, <2>2, SameStoreSameLedger DEF Commit, KeepsCases
  <2> QED
    BY <1>2, <2>1, <2>2, CommitDecides, CommitRegisters
<1>3. CASE disk' = disk
  BY <1>3, SameStoreSameLedger
<1>4. CASE SetOrganizationStatus
  <2>1. disk'.context = disk.context /\ disk'.cases = disk.cases
    BY <1>1, <1>4 DEF SetOrganizationStatus, Stores
  <2> QED
    BY <2>1, SameStoreSameLedger
<1>5. \/ disk' = disk
      \/ \E w \in Writers : Commit(w)
      \/ SetOrganizationStatus
  <2>1. ASSUME NEW w \in Writers, Proceed(w) PROVE disk' = disk \/ Commit(w)
    <3>1. CASE Begin(w) \/ Busy(w) \/ LoadBundle(w) \/ Authorize(w) \/ CompareAndSwap(w)
               \/ AppendEvent(w) \/ VerifyEvent(w)
      BY <3>1 DEF Begin, Busy, LoadBundle, Authorize, CompareAndSwap, AppendEvent, VerifyEvent,
                  Rollback
    <3>2. CASE StoreContext(w) \/ RegisterCases(w) \/ RecordSuggestion(w)
               \/ AppendSuggestionEvent(w) \/ Reply(w)
      BY <3>2 DEF StoreContext, RegisterCases, RecordSuggestion, AppendSuggestionEvent, Reply,
                  Rollback
    <3> QED
      BY <2>1, <3>1, <3>2 DEF Proceed
  <2>2. ASSUME NEW w \in Writers, Fail(w) \/ Crash(w) PROVE disk' = disk
    BY <2>2 DEF Fail, Crash, Rollback
  <2>3. CASE \/ \E w \in Reviewers, c \in CaseIds, d \in Offered : SubmitDecision(w, c, d)
             \/ \E w \in Operators, wf \in Workflows : SubmitRegistration(w, wf)
             \/ \E w \in Operators, g \in Suggestions : SubmitSuggestion(w, g)
    BY <2>3 DEF SubmitDecision, SubmitRegistration, SubmitSuggestion, Submit
  <2>4. CASE UNCHANGED vars
    BY <2>4 DEF vars
  <2> QED
    BY <2>1, <2>2, <2>3, <2>4 DEF Next
<1> QED
  BY <1>2, <1>3, <1>4, <1>5

\* Every behaviour of the queue, with its races, timeouts, failures and crashes, is a
\* behaviour of the ledger: each committed MATCH was authorized against exactly the
\* decisions recorded before it, and a workflow is registered whole or not at all
\* (resolve_case and register_workflow in one unit of work each).
THEOREM QueueImplementsLedger == Spec => ImplementsLedger
<1>1. RefinementInv /\ RefinementInv' /\ [Next]_vars => [Ledger!Next]_(Ledger!vars)
  BY QueueStepIsLedgerStep
<1> QED
  BY InitRefinement, NextRefinement, InitialQueueIsInitialLedger, <1>1, PTL
     DEF Spec, ImplementsLedger, Ledger!Spec
=============================================================================
