-------------------------- MODULE ReviewApiProofs --------------------------
(***************************************************************************)
(* Tenant isolation of the review API, for any number of processes, users, *)
(* organizations, queues and cases.                                        *)
(*                                                                         *)
(* The scope is read in three steps, and may have changed by the time the  *)
(* request acts on it.  What stays true is that each fact held when it was *)
(* read, so a request that is past a check has seen its fact: ScopeSeen    *)
(* says so for each step, and every answer or decision that depends on the *)
(* scope is given at a step past all of them.                              *)
(*                                                                         *)
(* The other half is what is stored: the foreign keys of the tenant graph, *)
(* the editions of the config that a process has loaded, and the lists,    *)
(* which only grow, so that a page read after a count reaches that count.  *)
(***************************************************************************)
EXTENDS ReviewApi, FiniteSetTheorems, TLAPS

Scope == {"active", "owned", "member"}
Reading == {"membership", "page", "history"} \cup Operations
Serving == {"admit", "organization", "queue"} \cup Reading

\* A request that is being served.
IsRequest(r) ==
  /\ {"at", "op", "org", "queue", "user", "total"} \subseteq DOMAIN r
  /\ r.at \in Serving /\ r.op \in Operations
  /\ r.org \in Org /\ r.queue \in Queue /\ r.user \in User \cup {None}

\* What a request has seen of its scope by the step it is at.
ScopeSeen(p) ==
  /\ Facts(p) \subseteq saw[p]
  /\ req[p].at # "admit" => req[p].user # None
  /\ req[p].at \notin {"admit", "organization"} => "active" \in saw[p]
  /\ req[p].at \in Reading => "owned" \in saw[p]
  /\ req[p].at \in Reading \ {"membership"} => "member" \in saw[p]
  /\ req[p].at = "resolve" => "reviewer" \in saw[p]

AnswerFits(p) == ~Uninformative(req[p]) => Scope \subseteq saw[p]

RequestInv(p) ==
  \/ req[p] = NoRequest
  \/ At(p, "answered") /\ AnswerFits(p)
  \/ IsRequest(req[p]) /\ ScopeSeen(p)

ScopeInv ==
  /\ role \in [Org \X User -> Roles \cup {None}]
  /\ req = [p \in Process |-> req[p]]
  /\ \A p \in Process : RequestInv(p)

----------------------------------------------------------------------------
\* The answers that say nothing of the scope (register_error_handlers).
LEMMA HandledErrors ==
  /\ Handled["UnauthenticatedError"] = Reply(401, "UNAUTHENTICATED")
  /\ Handled["TenantScopeNotVisibleError"] = Reply(404, "NOT_FOUND")
  /\ Handled["OperationalError"] = Reply(500, "INTERNAL_ERROR")
<1> DEFINE D == DOMAIN Parent \cup {"Exception"}
           Body(f) == [e \in D |-> IF e \in DOMAIN Handlers THEN Handlers[e] ELSE f[Parent[e]]]
           g == [e \in D |-> IF e \in DOMAIN Handlers THEN Handlers[e] ELSE Handlers["Exception"]]
<1>1. /\ DOMAIN Parent = {"ReviewConflictError", "PersistedCaseIntegrityError",
           "ReviewEventIntegrityError", "SemanticSuggestionIntegrityError",
           "ReviewAuthorizationConfigError", "ReviewWorkflowContextMissingError",
           "ReviewPersistenceError", "ReviewSchemaVersionError", "ReviewCaseNotFoundError",
           "InvalidReviewTransitionError", "HumanReviewContradictionError",
           "HumanReviewAuthorizationError", "HumanReviewAuthorizationContextError",
           "OperationalError", "UnauthenticatedError", "UntrustedOriginError",
           "TenantScopeNotVisibleError", "TenantCapabilityError", "ReviewApplicationError",
           "HumanReviewError"}
      /\ \A e \in {"OperationalError", "ReviewApplicationError", "HumanReviewError"} :
            Parent[e] = "Exception"
  BY DEF Parent
<1>2. DOMAIN Handlers = D \ {"OperationalError", "ReviewApplicationError", "HumanReviewError"}
  BY <1>1 DEF Handlers
<1>3. g = Body(g)
  BY <1>1, <1>2
<1>4. Handled = CHOOSE f : f = Body(f)
  BY DEF Handled
<1>5. Handled = Body(Handled)
  BY <1>3, <1>4
<1>6. /\ Handled["UnauthenticatedError"] = Handlers["UnauthenticatedError"]
      /\ Handled["TenantScopeNotVisibleError"] = Handlers["TenantScopeNotVisibleError"]
      /\ Handled["Exception"] = Handlers["Exception"]
      /\ Handled["OperationalError"] = Handled["Exception"]
  BY <1>1, <1>2, <1>5
<1> QED
  BY <1>6 DEF Handlers

----------------------------------------------------------------------------
(* Moves *)

LEMMA SeenNow ==
  ASSUME Observe, NEW p \in Process
  PROVE  saw'[p] = IF (~Idling(p))'
                     THEN (IF Idling(p) \/ At(p, "admit") THEN {} ELSE saw[p]) \cup Facts(p)'
                     ELSE IF (At(p, "answered"))' THEN saw[p] ELSE {}
BY DEF Observe

\* A request that stands still sees what there is to see.
LEMMA OthersKeepScope ==
  ASSUME Observe, NEW p \in Process, RequestInv(p), req'[p] = req[p]
  PROVE  RequestInv(p)'
<1>1. CASE req[p] = NoRequest
  BY <1>1 DEF RequestInv
<1>2. CASE At(p, "answered") /\ AnswerFits(p)
  <2>1. Idling(p)' /\ At(p, "answered")'
    BY <1>2 DEF At, Idling
  <2>2. saw'[p] = saw[p]
    BY <2>1, SeenNow
  <2> QED
    BY <1>2, <2>1, <2>2 DEF RequestInv, AnswerFits, Uninformative, At
<1>3. CASE IsRequest(req[p]) /\ ScopeSeen(p)
  <2>1. ~Idling(p) /\ ~Idling(p)'
    BY <1>3 DEF IsRequest, Serving, Reading, Operations, Idling
  <2>2. saw'[p] = (IF At(p, "admit") THEN {} ELSE saw[p]) \cup Facts(p)'
    BY <2>1, SeenNow
  <2>3. ScopeSeen(p)'
    BY <1>3, <2>2 DEF ScopeSeen, At, Reading, Operations
  <2> QED
    BY <1>3, <2>3 DEF RequestInv
<1> QED
  BY <1>1, <1>2, <1>3 DEF RequestInv

\* An answer that says nothing, or that is given past all checks.
LEMMA AnswerKeepsScope ==
  ASSUME Observe, NEW p \in Process, ~Idling(p), At(p, "answered")',
         Uninformative(req'[p]) \/ Scope \subseteq saw[p]
  PROVE  RequestInv(p)'
<1>1. Idling(p)'
  BY DEF At, Idling
<1>2. saw'[p] = saw[p]
  BY <1>1, SeenNow
<1> QED
  BY <1>2 DEF RequestInv, AnswerFits, Uninformative

\* A request that goes on within a scope that stands still.
LEMMA StepSees ==
  ASSUME Observe, NEW p \in Process, IsRequest(req[p]), ScopeSeen(p), IsRequest(req[p])',
         req'[p].org = req[p].org, req'[p].queue = req[p].queue, req'[p].user = req[p].user,
         UNCHANGED <<org, owner, role>>
  PROVE  /\ Facts(p)' = Facts(p) /\ Facts(p) \subseteq saw'[p] /\ Facts(p)' \subseteq saw'[p]
         /\ req[p].at # "admit" => saw[p] \subseteq saw'[p]
<1>1. ~Idling(p) /\ ~Idling(p)'
  BY DEF IsRequest, Serving, Reading, Operations, Idling
<1>2. saw'[p] = (IF At(p, "admit") THEN {} ELSE saw[p]) \cup Facts(p)'
  BY <1>1, SeenNow
<1>3. Facts(p)' = Facts(p)
  BY DEF Facts
<1> QED
  BY <1>2, <1>3 DEF At

\* Only p's request moves, or none does.
LEMMA OneMoves ==
  ASSUME ScopeInv, Observe, NEW p \in Process, NEW r, req' = [req EXCEPT ![p] = r],
         role' = role, RequestInv(p)'
  PROVE  ScopeInv'
<1>1. req' = [q \in Process |-> req'[q]]
  BY DEF ScopeInv
<1>2. ASSUME NEW q \in Process PROVE RequestInv(q)'
  <2>1. CASE q = p
    BY <2>1
  <2>2. CASE q # p
    BY <2>2, OthersKeepScope DEF ScopeInv
  <2> QED
    BY <2>1, <2>2
<1> QED
  BY <1>1, <1>2 DEF ScopeInv

LEMMA NoneMoves ==
  ASSUME ScopeInv, Observe, req' = req, role' \in [Org \X User -> Roles \cup {None}]
  PROVE  ScopeInv'
<1>1. ASSUME NEW q \in Process PROVE RequestInv(q)'
  BY OthersKeepScope DEF ScopeInv
<1> QED
  BY <1>1 DEF ScopeInv

----------------------------------------------------------------------------
(* What a step does to its request *)

Silent == {"UntrustedOriginError", "UnauthenticatedError", "TenantScopeNotVisibleError",
           "OperationalError"}

LEMMA RaiseKeepsScope ==
  ASSUME ScopeInv, Observe, NEW p \in Process, ~Idling(p), NEW e, Raise(p, e), role' = role,
         e \in Silent \/ Scope \subseteq saw[p]
  PROVE  ScopeInv'
<1>1. /\ req' = [req EXCEPT ![p] = req'[p]]
      /\ req'[p].at = "answered" /\ req'[p].error = e /\ req'[p].reply = Handled[e]
  BY DEF ScopeInv, Raise
<1>2. e \in Silent => Uninformative(req'[p])
  BY <1>1, HandledErrors DEF Silent, Uninformative
<1>3. RequestInv(p)'
  BY <1>1, <1>2, AnswerKeepsScope DEF At
<1> QED
  BY <1>1, <1>3, OneMoves

LEMMA OkKeepsScope ==
  ASSUME ScopeInv, Observe, NEW p \in Process, ~Idling(p), NEW total, NEW count,
         Ok(p, total, count), role' = role, Scope \subseteq saw[p]
  PROVE  ScopeInv'
<1>1. req' = [req EXCEPT ![p] = req'[p]] /\ req'[p].at = "answered"
  BY DEF ScopeInv, Ok
<1>2. RequestInv(p)'
  BY <1>1, AnswerKeepsScope DEF At
<1> QED
  BY <1>1, <1>2, OneMoves

\* What p has seen is enough for a step.
MayEnter(p, step) ==
  /\ req[p].user # None
  /\ step = "organization" \/ (req[p].at # "admit" /\ "active" \in saw[p])
  /\ step \in Reading => "owned" \in saw[p]
  /\ step \in Reading \ {"membership"} => "member" \in saw[p]
  /\ step = "resolve" => "reviewer" \in saw[p]

\* A step that goes on, past a check whose fact it has seen.
LEMMA GoOnKeepsScope ==
  ASSUME ScopeInv, Observe, NEW p \in Process, IsRequest(req[p]), ScopeSeen(p),
         UNCHANGED <<org, owner, role>>, NEW step \in Serving \ {"admit"}, NEW total,
         req' = [req EXCEPT ![p].at = step, ![p].total = total],
         MayEnter(p, step)
  PROVE  ScopeInv'
<1>1. /\ req' = [req EXCEPT ![p] = req'[p]]
      /\ req'[p] = [req[p] EXCEPT !.at = step, !.total = total]
  BY DEF ScopeInv
<1>2. /\ IsRequest(req'[p]) /\ req'[p].at = step
      /\ req'[p].org = req[p].org /\ req'[p].queue = req[p].queue /\ req'[p].user = req[p].user
  <2>1. /\ DOMAIN req'[p] = DOMAIN req[p] /\ req'[p].at = step /\ req'[p].op = req[p].op
        /\ req'[p].org = req[p].org /\ req'[p].queue = req[p].queue /\ req'[p].user = req[p].user
    BY <1>1 DEF IsRequest
  <2> QED
    BY <2>1 DEF IsRequest
<1>3. /\ Facts(p)' \subseteq saw'[p]
      /\ req[p].at # "admit" => saw[p] \subseteq saw'[p]
  BY <1>2, StepSees DEF IsRequest
<1>4. ScopeSeen(p)'
  BY <1>2, <1>3 DEF ScopeSeen, MayEnter, Reading, Operations
<1>5. RequestInv(p)'
  BY <1>2, <1>4 DEF RequestInv, IsRequest
<1> QED
  BY <1>1, <1>5, OneMoves

LEMMA GotoKeepsScope ==
  ASSUME ScopeInv, Observe, NEW p \in Process, IsRequest(req[p]), ScopeSeen(p),
         UNCHANGED <<org, owner, role>>, NEW step \in Serving \ {"admit"}, Goto(p, step),
         MayEnter(p, step)
  PROVE  ScopeInv'
<1>1. req' = [req EXCEPT ![p].at = step, ![p].total = req[p].total]
  BY DEF Goto, ScopeInv, IsRequest
<1> QED
  BY <1>1, GoOnKeepsScope

\* A process at a step of its own serves a request.
LEMMA AtStepServes ==
  ASSUME ScopeInv, NEW p \in Process, req[p].at \in Serving
  PROVE  IsRequest(req[p]) /\ ScopeSeen(p) /\ ~Idling(p)
BY DEF ScopeInv, RequestInv, NoRequest, At, Idling, Serving, Reading, Operations

LEMMA ReadingHasScope ==
  ASSUME ScopeInv, NEW p \in Process, req[p].at \in Reading \ {"membership"}
  PROVE  Scope \subseteq saw[p]
<1>1. ScopeSeen(p)
  BY AtStepServes DEF Serving
<1> QED
  BY <1>1 DEF ScopeSeen, Scope, Reading, Operations

----------------------------------------------------------------------------
(* Steps *)

LEMMA ArriveKeepsScope ==
  ASSUME ScopeInv, Observe, NEW p \in Process, NEW op \in Operations, NEW o \in Org,
         NEW q \in Queue, NEW u \in User \cup {None}, NEW t, Arrive(p, op, o, q, u, t)
  PROVE  ScopeInv'
<1>1. PICK c \in Case, pending \in BOOLEAN, offset \in 0..1, version \in 1..2, match \in BOOLEAN :
        req' = [req EXCEPT ![p] =
                  [at |-> "admit", op |-> op, org |-> o, queue |-> q, user |-> u, trusted |-> t,
                   case |-> c, pending |-> pending, offset |-> offset, version |-> version,
                   match |-> match, total |-> 0]]
  BY DEF Arrive
<1>2. /\ req'[p] = [at |-> "admit", op |-> op, org |-> o, queue |-> q, user |-> u, trusted |-> t,
                    case |-> c, pending |-> pending, offset |-> offset, version |-> version,
                    match |-> match, total |-> 0]
      /\ req' = [req EXCEPT ![p] = req'[p]]
  BY <1>1 DEF ScopeInv
<1>3. IsRequest(req'[p]) /\ req'[p].at = "admit"
  BY <1>2 DEF IsRequest, Serving
<1>4. Facts(p)' \subseteq saw'[p]
  <2>1. ~Idling(p)'
    BY <1>3 DEF Idling
  <2> QED
    BY <2>1, SeenNow
<1>5. RequestInv(p)'
  BY <1>3, <1>4 DEF RequestInv, ScopeSeen, IsRequest, Reading, Operations
<1> QED
  BY <1>2, <1>5, OneMoves DEF Arrive

LEMMA IdleKeepsScope ==
  ASSUME ScopeInv, Observe, NEW p \in Process, req' = [req EXCEPT ![p] = NoRequest], role' = role
  PROVE  ScopeInv'
<1>1. req'[p] = NoRequest
  BY DEF ScopeInv
<1>2. RequestInv(p)'
  BY <1>1 DEF RequestInv
<1> QED
  BY <1>2, OneMoves

LEMMA AdmitKeepsScope ==
  ASSUME ScopeInv, Observe, NEW p \in Process, Admit(p)
  PROVE  ScopeInv'
<1>1. req[p].at = "admit" /\ IsRequest(req[p]) /\ ScopeSeen(p) /\ ~Idling(p)
  BY AtStepServes DEF Admit, At, Serving
<1>2. ASSUME NEW e \in Silent, Raise(p, e) PROVE ScopeInv'
  BY <1>1, <1>2, RaiseKeepsScope DEF Admit
<1>3. ASSUME Goto(p, "organization"), req[p].user # None PROVE ScopeInv'
  <2>1. "organization" \in Serving \ {"admit"} /\ "organization" \notin Reading
    BY DEF Serving, Reading, Operations
  <2>2. MayEnter(p, "organization")
    BY <1>3, <2>1 DEF MayEnter
  <2>3. UNCHANGED <<org, owner, role>>
    BY DEF Admit
  <2> QED
    BY <1>1, <1>3, <2>1, <2>2, <2>3, GotoKeepsScope
<1> QED
  BY <1>2, <1>3 DEF Admit, Silent

LEMMA ReadOrganizationKeepsScope ==
  ASSUME ScopeInv, Observe, NEW p \in Process, ReadOrganization(p)
  PROVE  ScopeInv'
<1>1. req[p].at = "organization" /\ IsRequest(req[p]) /\ ScopeSeen(p) /\ ~Idling(p)
  BY AtStepServes DEF ReadOrganization, At, Serving
<1>2. CASE Raise(p, "TenantScopeNotVisibleError")
  BY <1>1, <1>2, RaiseKeepsScope DEF ReadOrganization, Silent
<1>3. CASE Goto(p, "queue") /\ org[req[p].org] = "ACTIVE"
  <2>1. "active" \in saw[p] /\ req[p].user # None
    BY <1>1, <1>3 DEF ScopeSeen, Facts
  <2> QED
    BY <1>1, <1>3, <2>1, GotoKeepsScope DEF MayEnter, ReadOrganization, Serving, Reading, Operations
<1> QED
  BY <1>2, <1>3 DEF ReadOrganization

LEMMA ReadQueueKeepsScope ==
  ASSUME ScopeInv, Observe, NEW p \in Process, ReadQueue(p)
  PROVE  ScopeInv'
<1>1. req[p].at = "queue" /\ IsRequest(req[p]) /\ ScopeSeen(p) /\ ~Idling(p)
  BY AtStepServes DEF ReadQueue, At, Serving
<1>2. CASE Raise(p, "TenantScopeNotVisibleError")
  BY <1>1, <1>2, RaiseKeepsScope DEF ReadQueue, Silent
<1>3. CASE Goto(p, "membership") /\ owner[req[p].queue] = req[p].org
  <2>1. "active" \in saw[p] /\ req[p].user # None /\ "owned" \in saw[p]
    BY <1>1, <1>3 DEF ScopeSeen, Facts
  <2> QED
    BY <1>1, <1>3, <2>1, GotoKeepsScope DEF MayEnter, ReadQueue, Serving, Reading, Operations
<1> QED
  BY <1>2, <1>3 DEF ReadQueue

LEMMA ReadMembershipKeepsScope ==
  ASSUME ScopeInv, Observe, NEW p \in Process, ReadMembership(p)
  PROVE  ScopeInv'
<1> DEFINE r == role[<<req[p].org, req[p].user>>]
<1>1. req[p].at = "membership" /\ IsRequest(req[p]) /\ ScopeSeen(p) /\ ~Idling(p)
  BY AtStepServes DEF ReadMembership, At, Serving, Reading
<1>2. /\ "active" \in saw[p] /\ "owned" \in saw[p] /\ req[p].user # None
      /\ r # None => "member" \in saw[p]
      /\ r = "REVIEWER" => "reviewer" \in saw[p]
  BY <1>1 DEF ScopeSeen, Facts, Reading
<1>3. CASE Raise(p, "TenantScopeNotVisibleError")
  BY <1>1, <1>3, RaiseKeepsScope DEF ReadMembership, Silent
<1>4. CASE r # None /\ Raise(p, "TenantCapabilityError")
  BY <1>1, <1>2, <1>4, RaiseKeepsScope DEF ReadMembership, Scope
<1>5. CASE r # None /\ Capability(req[p].op) \in RoleCapabilities[r] /\ Goto(p, req[p].op)
  <2>1. r \in Roles
    <3>1. <<req[p].org, req[p].user>> \in Org \X User
      BY <1>1, <1>2 DEF IsRequest
    <3> QED
      BY <1>5, <3>1 DEF ScopeInv
  <2>2. req[p].op = "resolve" => r = "REVIEWER"
    BY <1>5, <2>1 DEF Capability, RoleCapabilities, Roles
  <2>3. req[p].op \in Reading \ {"membership"} /\ req[p].op \in Serving \ {"admit"}
    BY <1>1 DEF IsRequest, Reading, Serving, Operations
  <2> QED
    BY <1>1, <1>2, <1>5, <2>2, <2>3, GotoKeepsScope DEF MayEnter, ReadMembership
<1> QED
  BY <1>3, <1>4, <1>5 DEF ReadMembership

LEMMA ReadsKeepScope ==
  ASSUME ScopeInv, Observe, NEW p \in Process,
         CountCases(p) \/ ListCases(p) \/ GetCase(p) \/ ListHistory(p)
  PROVE  ScopeInv'
<1>1. req[p].at \in {"list", "page", "detail", "events", "suggestions", "history"}
  BY DEF CountCases, ListCases, GetCase, ListHistory, At
<1>2. /\ req[p].at \in Reading \ {"membership"} /\ req[p].at \in Serving
      /\ UNCHANGED <<org, owner, role>>
  BY <1>1 DEF Reading, Serving, Operations, CountCases, ListCases, GetCase, ListHistory
<1>3. IsRequest(req[p]) /\ ScopeSeen(p) /\ ~Idling(p) /\ Scope \subseteq saw[p]
  BY <1>2, AtStepServes, ReadingHasScope
<1>4. req[p].user # None /\ req[p].at # "admit"
  BY <1>1, <1>3 DEF ScopeSeen
<1>5. CASE CountCases(p)
  <2>1. PICK total : req' = [req EXCEPT ![p].at = "page", ![p].total = total]
    BY <1>5 DEF CountCases
  <2>2. "page" \in Serving \ {"admit"} /\ "page" \in Reading
    BY DEF Serving, Reading, Operations
  <2> QED
    BY <1>2, <1>3, <1>4, <2>1, <2>2, GoOnKeepsScope DEF MayEnter, Scope
<1>6. CASE Goto(p, "history")
  BY <1>2, <1>3, <1>4, <1>6, GotoKeepsScope DEF MayEnter, Scope, Serving, Reading, Operations
<1>7. CASE Raise(p, "ReviewCaseNotFoundError")
  BY <1>2, <1>3, <1>7, RaiseKeepsScope
<1>8. CASE Ok(p, 0, 0) \/ ListCases(p)
  BY <1>2, <1>3, <1>8, OkKeepsScope DEF ListCases
<1> QED
  BY <1>5, <1>6, <1>7, <1>8 DEF GetCase, ListHistory

LEMMA StorageKeepsScope ==
  ASSUME ScopeInv, Observe, NEW p \in Process, StorageFails(p) \/ StorageCorrupt(p)
  PROVE  ScopeInv'
<1>1. CASE StorageFails(p)
  <2>1. ~Idling(p)
    BY <1>1, AtStepServes DEF StorageFails, Serving, Reading
  <2> QED
    BY <1>1, <2>1, RaiseKeepsScope DEF StorageFails, Silent
<1>2. CASE StorageCorrupt(p)
  <2>1. req[p].at \in Reading \ {"membership"} /\ req[p].at \in Serving
    BY <1>2 DEF StorageCorrupt, Reading, Serving, Operations
  <2>2. ~Idling(p) /\ Scope \subseteq saw[p]
    BY <2>1, AtStepServes, ReadingHasScope
  <2>3. PICK e : Raise(p, e) /\ role' = role
    BY <1>2 DEF StorageCorrupt
  <2> QED
    BY <2>2, <2>3, RaiseKeepsScope
<1> QED
  BY <1>1, <1>2

\* However a decision ends, it answers.
LEMMA ResolveAnswers ==
  ASSUME NEW p, Resolve(p)
  PROVE  /\ At(p, "resolve") /\ UNCHANGED <<org, owner, role>>
         /\ Ok(p, 0, 0) \/ \E e : Raise(p, e)
BY DEF Resolve

LEMMA ResolveKeepsScope ==
  ASSUME ScopeInv, Observe, NEW p \in Process, Resolve(p)
  PROVE  ScopeInv'
<1>1. req[p].at \in Reading \ {"membership"} /\ req[p].at \in Serving /\ role' = role
  BY ResolveAnswers DEF At, Reading, Serving, Operations
<1>2. ~Idling(p) /\ Scope \subseteq saw[p]
  BY <1>1, AtStepServes, ReadingHasScope
<1>3. CASE Ok(p, 0, 0)
  BY <1>1, <1>2, <1>3, OkKeepsScope
<1>4. ASSUME NEW e, Raise(p, e) PROVE ScopeInv'
  BY <1>1, <1>2, <1>4, RaiseKeepsScope
<1> QED
  BY <1>3, <1>4, ResolveAnswers

\* The steps of the rest of the world.
LEMMA WorldKeepsScope ==
  ASSUME ScopeInv, Observe,
         \/ \E o \in Org : CreateOrganization(o) \/ SetOrganizationStatus(o)
         \/ \E o \in Org, u \in User : \/ RemoveMembership(o, u)
                                       \/ \E r \in Roles : CreateMembership(o, u, r)
         \/ \E q \in Queue : \/ \E o \in Org : CreateReviewQueue(q, o)
                             \/ \E c \in Case : RegisterCase(q, c)
         \/ \E e \in 0..MaxConfig : EditConfig(e)
  PROVE  ScopeInv'
<1>1. req' = req
  BY DEF CreateOrganization, SetOrganizationStatus, RemoveMembership, CreateMembership,
         CreateReviewQueue, RegisterCase, EditConfig
<1>2. \/ role' = role
      \/ \E m \in Org \X User, r \in Roles \cup {None} : role' = [role EXCEPT ![m] = r]
  BY DEF CreateOrganization, SetOrganizationStatus, RemoveMembership, CreateMembership,
         CreateReviewQueue, RegisterCase, EditConfig
<1>3. role' \in [Org \X User -> Roles \cup {None}]
  BY <1>2 DEF ScopeInv
<1> QED
  BY <1>1, <1>3, NoneMoves

LEMMA ScopeStep ==
  ASSUME ScopeInv, [Next]_vars
  PROVE  ScopeInv'
<1>1. CASE UNCHANGED vars
  BY <1>1 DEF vars, ScopeInv, RequestInv, NoRequest, At, AnswerFits, Uninformative, ScopeSeen, Facts
<1> SUFFICES ASSUME Step, Observe PROVE ScopeInv'
  BY <1>1 DEF Next
<1>2. ASSUME NEW p \in Process, Serve(p) PROVE ScopeInv'
  <2>1. ASSUME Done(p) PROVE ScopeInv'
    BY <2>1, IdleKeepsScope DEF Done
  <2> QED
    BY <1>2, <2>1, AdmitKeepsScope, ReadOrganizationKeepsScope, ReadQueueKeepsScope,
       ReadMembershipKeepsScope, ReadsKeepScope, StorageKeepsScope, ResolveKeepsScope DEF Serve
<1>3. ASSUME NEW p \in Process, Restart(p) PROVE ScopeInv'
  BY <1>3, IdleKeepsScope DEF Restart
<1>4. ASSUME NEW p \in Process, NEW op \in Operations, NEW o \in Org, NEW q \in Queue,
             NEW u \in User \cup {None}, NEW t \in BOOLEAN, Arrive(p, op, o, q, u, t)
      PROVE  ScopeInv'
  BY <1>4, ArriveKeepsScope
<1> QED
  BY <1>2, <1>3, <1>4, WorldKeepsScope DEF Step

LEMMA ScopeInvariant == Spec => []ScopeInv
<1>1. Init => ScopeInv
  <2> SUFFICES ASSUME Init PROVE ScopeInv
    OBVIOUS
  <2>1. role \in [Org \X User -> Roles \cup {None}] /\ req = [p \in Process |-> NoRequest]
    BY DEF Init
  <2> QED
    BY <2>1 DEF ScopeInv, RequestInv
<1> QED
  BY <1>1, ScopeStep, PTL DEF Spec

\* Whoever was not, at any moment of the request, a member of an active organization
\* that owns the queue learns nothing from the answer (tenancy.authorize).
THEOREM OutsidersLearnNothing == Spec => []AnswersAreForMembers
<1>1. ScopeInv => AnswersAreForMembers
  <2> SUFFICES ASSUME ScopeInv, NEW p \in Process, At(p, "answered"), ~Uninformative(req[p])
               PROVE  Scope \subseteq saw[p]
    BY DEF AnswersAreForMembers, Scope
  <2>1. req[p] # NoRequest /\ ~IsRequest(req[p])
    BY DEF NoRequest, IsRequest, At, Serving, Reading, Operations
  <2> QED
    BY <2>1 DEF ScopeInv, RequestInv, AnswerFits
<1> QED
  BY <1>1, ScopeInvariant, PTL

----------------------------------------------------------------------------
(* Who decides *)

RowsTyped ==
  rows \in [Queue -> Seq([case : Case, by : User \cup {None}, version : Nat])]

LEMMA InsertedRow ==
  ASSUME NEW T, NEW s \in Seq(T), NEW i \in 1..Len(s) + 1, NEW x \in T
  PROVE  InsertAt(s, i, x) \in Seq(T) /\ Len(InsertAt(s, i, x)) = Len(s) + 1
<1> DEFINE before == SubSeq(s, 1, i - 1)
           after == SubSeq(s, i, Len(s))
<1>1. before \in Seq(T) /\ Len(before) = i - 1 /\ after \in Seq(T) /\ Len(after) = Len(s) - i + 1
  OBVIOUS
<1>2. InsertAt(s, i, x) = before \o <<x>> \o after
  BY DEF InsertAt
<1>3. Len(s) \in Nat /\ i \in Int
  OBVIOUS
<1> HIDE DEF before, after
<1>4. before \o <<x>> \in Seq(T) /\ Len(before \o <<x>>) = i
  BY <1>1, <1>3
<1> QED
  BY <1>1, <1>2, <1>3, <1>4

\* What a decision does to the stored rows and to the config cache.
LEMMA ResolveEffect ==
  ASSUME NEW p, Resolve(p)
  PROVE  LET q == req[p].queue  e == Loaded(p, q)
         IN /\ \/ rows' = rows
               \/ \E i \in Index(q, req[p].case) :
                    rows' = [rows EXCEPT ![q][i].by = req[p].user, ![q][i].version = @ + 1]
            /\ \/ UNCHANGED <<cache, used>>
               \/ /\ e # 0 /\ cache' = [cache EXCEPT ![p][q] = e]
                  /\ used' = used \/ used' = [used EXCEPT ![p][q] = @ \cup {e}]
BY DEF Resolve

LEMMA ElementTyped ==
  ASSUME NEW T, NEW s \in Seq(T), NEW i \in DOMAIN s
  PROVE  s[i] \in T
OBVIOUS

LEMMA RowChanged ==
  ASSUME NEW C, NEW U, NEW r \in [case : C, by : U, version : Nat], NEW u \in U
  PROVE  [r EXCEPT !.by = u, !.version = @ + 1] \in [case : C, by : U, version : Nat]
<1> DEFINE n == r.version + 1
<1>1. r.case \in C /\ r.version \in Nat /\ n \in Nat
  OBVIOUS
<1>2. [r EXCEPT !.by = u, !.version = @ + 1] = [r EXCEPT !.by = u, !.version = n]
  OBVIOUS
<1> HIDE DEF n
<1>3. [r EXCEPT !.by = u, !.version = n] \in [case : C, by : U, version : Nat]
  BY <1>1
<1> QED
  BY <1>2, <1>3

LEMMA DecidedRow ==
  ASSUME NEW C, NEW U, NEW s \in Seq([case : C, by : U, version : Nat]), NEW i \in DOMAIN s, NEW u \in U
  PROVE  [s EXCEPT ![i].by = u, ![i].version = @ + 1] \in Seq([case : C, by : U, version : Nat])
<1> DEFINE T == [case : C, by : U, version : Nat]
           x == [s[i] EXCEPT !.by = u, !.version = @ + 1]
<1>1. s[i] \in T
  BY ElementTyped
<1>2. x \in T
  BY <1>1, RowChanged
<1>3. [s EXCEPT ![i].by = u, ![i].version = @ + 1] = [s EXCEPT ![i] = x]
  BY <1>1
<1> HIDE DEF x
<1>4. [s EXCEPT ![i] = x] \in Seq(T)
  BY <1>2
<1> QED
  BY <1>3, <1>4

LEMMA RowsStep ==
  ASSUME ScopeInv, RowsTyped, [Next]_vars
  PROVE  RowsTyped'
<1> DEFINE Row == [case : Case, by : User \cup {None}, version : Nat]
<1>1. ASSUME rows' = rows PROVE RowsTyped'
  BY <1>1 DEF RowsTyped
<1>2. ASSUME NEW p \in Process, Resolve(p) PROVE RowsTyped'
  <2>1. req[p].queue \in Queue /\ req[p].user \in User \cup {None}
    BY <1>2, AtStepServes DEF Resolve, At, Serving, Reading, Operations, IsRequest
  <2>2. ASSUME NEW i \in Index(req[p].queue, req[p].case),
               rows' = [rows EXCEPT ![req[p].queue][i].by = req[p].user,
                                    ![req[p].queue][i].version = @ + 1]
        PROVE  RowsTyped'
    <3>1. rows[req[p].queue] \in Seq(Row) /\ i \in DOMAIN rows[req[p].queue]
      BY <2>1, <2>2 DEF RowsTyped, Index
    <3>2. [rows[req[p].queue] EXCEPT ![i].by = req[p].user, ![i].version = @ + 1] \in Seq(Row)
      BY <2>1, <3>1, DecidedRow
    <3>3. rows' = [rows EXCEPT ![req[p].queue] =
                     [rows[req[p].queue] EXCEPT ![i].by = req[p].user, ![i].version = @ + 1]]
      BY <2>1, <2>2, <3>1 DEF RowsTyped
    <3> QED
      BY <2>1, <3>2, <3>3 DEF RowsTyped
  <2> QED
    BY <1>1, <1>2, <2>2, ResolveEffect
<1>3. ASSUME NEW q \in Queue, NEW c \in Case, RegisterCase(q, c) PROVE RowsTyped'
  <2> DEFINE x == [case |-> c, by |-> None, version |-> 1]
  <2>1. PICK i \in 1..Len(rows[q]) + 1 : rows' = [rows EXCEPT ![q] = InsertAt(@, i, x)]
    BY <1>3 DEF RegisterCase
  <2>2. x \in Row /\ rows[q] \in Seq(Row)
    BY DEF RowsTyped
  <2>3. InsertAt(rows[q], i, x) \in Seq(Row)
    BY <2>2, InsertedRow
  <2> QED
    BY <2>1, <2>3 DEF RowsTyped
<1>4. CASE UNCHANGED vars
  BY <1>1, <1>4 DEF vars
<1> SUFFICES ASSUME Step PROVE RowsTyped'
  BY <1>4 DEF Next
<1>5. ASSUME NEW p \in Process, Serve(p) PROVE RowsTyped'
  BY <1>1, <1>2, <1>5 DEF Serve, Admit, Done, ReadOrganization, ReadQueue, ReadMembership,
     CountCases, ListCases, GetCase, ListHistory, StorageFails, StorageCorrupt
<1> QED
  BY <1>1, <1>3, <1>5 DEF Step, Arrive, Restart, CreateOrganization, SetOrganizationStatus,
     RemoveMembership, CreateMembership, CreateReviewQueue, EditConfig

LEMMA RowsInvariant == Spec => [](ScopeInv /\ RowsTyped)
<1>1. Init => RowsTyped
  BY DEF Init, RowsTyped
<1> QED
  BY <1>1, RowsStep, ScopeInvariant, PTL DEF Spec

LEMMA DecisionStep ==
  ASSUME ScopeInv, RowsTyped, Next, NEW q \in Queue, NEW i \in DOMAIN rows[q],
         Len(rows'[q]) = Len(rows[q]), rows'[q][i].by # rows[q][i].by
  PROVE  \E p \in Process : /\ At(p, "resolve")
                            /\ req[p].user = rows'[q][i].by /\ req[p].queue = q
                            /\ {"active", "owned", "reviewer"} \subseteq saw[p]
<1>1. rows' # rows
  OBVIOUS
<1>2. ASSUME NEW k \in Queue, NEW c \in Case, RegisterCase(k, c) PROVE FALSE
  <2> DEFINE x == [case |-> c, by |-> None, version |-> 1]
             T == [case : Case, by : User \cup {None}, version : Nat]
  <2>1. PICK j \in 1..Len(rows[k]) + 1 : rows' = [rows EXCEPT ![k] = InsertAt(@, j, x)]
    BY <1>2 DEF RegisterCase
  <2>2. x \in T /\ rows[k] \in Seq(T) /\ rows[q] \in Seq(T)
    BY DEF RowsTyped
  <2> HIDE DEF x, T
  <2>3. Len(InsertAt(rows[k], j, x)) = Len(rows[k]) + 1
    BY <2>2, InsertedRow
  <2>4. Len(rows[k]) \in Nat
    BY <2>2
  <2> QED
    BY <1>1, <2>1, <2>3, <2>4 DEF RowsTyped
<1>3. PICK p \in Process : Resolve(p)
  <2>1. Step
    BY DEF Next
  <2> QED
    BY <1>1, <1>2, <2>1 DEF Step, Serve, Admit, Done, ReadOrganization, ReadQueue, ReadMembership,
       CountCases, ListCases, GetCase, ListHistory, StorageFails, StorageCorrupt, Arrive, Restart,
       CreateOrganization, SetOrganizationStatus, RemoveMembership, CreateMembership,
       CreateReviewQueue, EditConfig
<1>4. req[p].at = "resolve" /\ IsRequest(req[p]) /\ ScopeSeen(p)
  BY <1>3, AtStepServes DEF Resolve, At, Serving, Reading, Operations
<1>5. req[p].queue \in Queue /\ {"active", "owned", "reviewer"} \subseteq saw[p]
  BY <1>4 DEF IsRequest, ScopeSeen, Reading, Operations
<1>6. PICK j \in Index(req[p].queue, req[p].case) :
        rows' = [rows EXCEPT ![req[p].queue][j].by = req[p].user, ![req[p].queue][j].version = @ + 1]
  BY <1>1, <1>3, ResolveEffect
<1>7. req[p].queue = q
  BY <1>5, <1>6 DEF RowsTyped
<1>8. rows'[q] = [rows[q] EXCEPT ![j].by = req[p].user, ![j].version = @ + 1]
  BY <1>6, <1>7 DEF RowsTyped
<1>9. i = j
  BY <1>8
<1>10. rows'[q][i].by = req[p].user
  <2> DEFINE T == [case : Case, by : User \cup {None}, version : Nat]
  <2>1. rows[q] \in Seq(T)
    BY DEF RowsTyped
  <2>2. rows[q][i] \in T
    BY <2>1, ElementTyped
  <2>3. rows'[q][i] = [rows[q][i] EXCEPT !.by = req[p].user, !.version = @ + 1]
    BY <1>8, <1>9
  <2> QED
    BY <2>2, <2>3
<1> QED
  BY <1>4, <1>5, <1>7, <1>10 DEF At

\* A decision is made by a user who was, at some moment of that request, a reviewer of
\* the active organization that owns the queue (tenancy.authorize, RoleCapabilities).
THEOREM ReviewersDecide == Spec => DecidedByReviewers
<1> DEFINE D == \A q \in Queue : \A i \in DOMAIN rows[q] :
                  Len(rows'[q]) = Len(rows[q]) /\ rows'[q][i].by # rows[q][i].by =>
                    \E p \in Process : /\ At(p, "resolve")
                                       /\ req[p].user = rows'[q][i].by /\ req[p].queue = q
                                       /\ {"active", "owned", "reviewer"} \subseteq saw[p]
<1>1. ScopeInv /\ RowsTyped /\ [Next]_vars => [D]_vars
  <2> SUFFICES ASSUME ScopeInv, RowsTyped, Next PROVE D
    OBVIOUS
  <2> QED
    BY DecisionStep
<1> QED
  BY <1>1, RowsInvariant, PTL DEF Spec, DecidedByReviewers

----------------------------------------------------------------------------
(* One edition of the config *)

ConfigInv ==
  /\ file \in Int /\ cache \in [Process -> [Queue -> Int]]
  /\ used \in [Process -> [Queue -> SUBSET Int]]
  /\ \A p \in Process, q \in Queue :
       used[p][q] \subseteq IF cache[p][q] = 0 THEN {} ELSE {cache[p][q]}

LEMMA ConfigStep ==
  ASSUME ScopeInv, ConfigInv, [Next]_vars
  PROVE  ConfigInv'
<1>1. ASSUME UNCHANGED <<file, cache, used>> PROVE ConfigInv'
  BY <1>1 DEF ConfigInv
<1>2. ASSUME NEW p \in Process, Resolve(p) PROVE ConfigInv'
  <2> DEFINE k == req[p].queue
             e == Loaded(p, k)
  <2>1. k \in Queue
    BY <1>2, AtStepServes DEF Resolve, At, Serving, Reading, Operations, IsRequest
  <2>2. e \in Int /\ (cache[p][k] # 0 => e = cache[p][k])
    BY <2>1 DEF Loaded, ConfigInv
  <2> HIDE DEF k, e
  <2>3. ASSUME file' = file, e # 0, cache' = [cache EXCEPT ![p][k] = e],
               used' = used \/ used' = [used EXCEPT ![p][k] = @ \cup {e}]
        PROVE  ConfigInv'
    <3>1. /\ file' \in Int /\ cache' \in [Process -> [Queue -> Int]]
          /\ used' \in [Process -> [Queue -> SUBSET Int]]
      <4>1. file' \in Int /\ cache' \in [Process -> [Queue -> Int]]
        BY <2>1, <2>2, <2>3 DEF ConfigInv
      <4> DEFINE more == used[p][k] \cup {e}
      <4>2. more \in SUBSET Int /\ (used' = used \/ used' = [used EXCEPT ![p][k] = more])
        BY <2>1, <2>2, <2>3 DEF ConfigInv
      <4> HIDE DEF more
      <4>3. used' \in [Process -> [Queue -> SUBSET Int]]
        <5> DEFINE S == SUBSET Int
        <5>1. used \in [Process -> [Queue -> S]] /\ more \in S
          BY <4>2 DEF ConfigInv
        <5> HIDE DEF S
        <5>2. used' \in [Process -> [Queue -> S]]
          BY <2>1, <4>2, <5>1
        <5> QED
          BY <5>2 DEF S
      <4> QED
        BY <4>1, <4>3
    <3>2. ASSUME NEW v \in Process, NEW q \in Queue
          PROVE  used'[v][q] \subseteq IF cache'[v][q] = 0 THEN {} ELSE {cache'[v][q]}
      <4>1. CASE v = p /\ q = k
        <5>1. cache'[v][q] = e /\ used'[v][q] \subseteq used[v][q] \cup {e}
          BY <2>1, <2>3, <4>1 DEF ConfigInv
        <5>2. used[v][q] \subseteq {e}
          BY <2>2, <4>1 DEF ConfigInv
        <5> QED
          BY <2>3, <5>1, <5>2
      <4>2. CASE ~(v = p /\ q = k)
        <5>1. cache'[v][q] = cache[v][q] /\ used'[v][q] = used[v][q]
          BY <2>1, <2>3, <4>2 DEF ConfigInv
        <5> QED
          BY <5>1 DEF ConfigInv
      <4> QED
        BY <4>1, <4>2
    <3> QED
      BY <3>1, <3>2 DEF ConfigInv
  <2> QED
    <3>1. file' = file
      BY <1>2 DEF Resolve
    <3> QED
      BY <1>1, <1>2, <2>3, <3>1, ResolveEffect DEF k, e
<1>3. ASSUME NEW p \in Process, Restart(p) PROVE ConfigInv'
  <2>1. /\ cache' = [cache EXCEPT ![p] = [q \in Queue |-> 0]]
        /\ used' = [used EXCEPT ![p] = [q \in Queue |-> {}]] /\ file' = file
    BY <1>3 DEF Restart
  <2> QED
    BY <2>1 DEF ConfigInv
<1>4. CASE UNCHANGED vars
  BY <1>1, <1>4 DEF vars
<1> SUFFICES ASSUME Step PROVE ConfigInv'
  BY <1>4 DEF Next
<1>5. ASSUME NEW p \in Process, Serve(p) PROVE ConfigInv'
  BY <1>1, <1>2, <1>5 DEF Serve, Admit, Done, ReadOrganization, ReadQueue, ReadMembership,
     CountCases, ListCases, GetCase, ListHistory, StorageFails, StorageCorrupt
<1>6. ASSUME NEW n \in 0..MaxConfig, EditConfig(n) PROVE ConfigInv'
  BY <1>6 DEF ConfigInv, EditConfig
<1> QED
  BY <1>1, <1>3, <1>5, <1>6 DEF Step, Arrive, CreateOrganization, SetOrganizationStatus,
     RemoveMembership, CreateMembership, CreateReviewQueue, RegisterCase

\* One process authorizes every MATCH of a queue with one edition of the config, however
\* often the file changes meanwhile (_entity_resolution_config).
THEOREM OneEditionPerProcess == Spec => []ConfigIsStable
<1>1. Init => ConfigInv
  BY DEF Init, ConfigInv
<1>2. ConfigInv => ConfigIsStable
  <2> SUFFICES ASSUME ConfigInv, NEW p \in Process, NEW q \in Queue
               PROVE  Cardinality(used[p][q]) <= 1
    BY DEF ConfigIsStable
  <2>1. used[p][q] = {} \/ used[p][q] = {cache[p][q]}
    BY DEF ConfigInv
  <2>2. Cardinality({}) = 0 /\ Cardinality({cache[p][q]}) = 1
    BY FS_EmptySet, FS_Singleton
  <2> QED
    BY <2>1, <2>2
<1>3. ScopeInv /\ ConfigInv /\ [Next]_vars => ConfigInv'
  BY ConfigStep
<1> QED
  BY <1>1, <1>2, <1>3, ScopeInvariant, PTL DEF Spec

----------------------------------------------------------------------------
(* The tenant graph *)

StoredRow == [case : Case, by : User \cup {None}, version : Nat]
DistinctCases(s) == \A i, j \in DOMAIN s : s[i].case = s[j].case => i = j

\* A queue, a membership and a case exist only under an organization that exists.
GraphInv ==
  /\ org \in [Org -> {None, "ACTIVE", "SUSPENDED"}]
  /\ owner \in [Queue -> Org \cup {None}]
  /\ role \in [Org \X User -> Roles \cup {None}]
  /\ \A q \in Queue : /\ owner[q] # None => org[owner[q]] # None
                      /\ rows[q] # <<>> => owner[q] # None
  /\ \A m \in Org \X User : role[m] # None => org[m[1]] # None

\* Every queue lists a case once.
ListsInv == rows \in [Queue -> Seq(StoredRow)] /\ \A q \in Queue : DistinctCases(rows[q])

EditionsInv == file \in 0..MaxConfig /\ cache \in [Process -> [Queue -> 0..MaxConfig]]

LEMMA InsertedElements ==
  ASSUME NEW T, NEW s \in Seq(T), NEW i \in 1..Len(s) + 1, NEW x \in T,
         NEW j \in 1..Len(s) + 1
  PROVE  InsertAt(s, i, x)[j] = IF j < i THEN s[j] ELSE IF j = i THEN x ELSE s[j - 1]
<1> DEFINE before == SubSeq(s, 1, i - 1)
           after == SubSeq(s, i, Len(s))
           both == before \o <<x>>
<1>1. /\ before \in Seq(T) /\ Len(before) = i - 1 /\ after \in Seq(T) /\ Len(after) = Len(s) - i + 1
      /\ \A k \in 1..i - 1 : before[k] = s[k]
      /\ \A k \in 1..Len(s) - i + 1 : after[k] = s[i + k - 1]
  OBVIOUS
<1>2. InsertAt(s, i, x) = both \o after
  BY DEF InsertAt
<1>3. Len(s) \in Nat /\ i \in Int /\ j \in Int
  OBVIOUS
<1> HIDE DEF before, after
<1>4. both \in Seq(T) /\ Len(both) = i /\ both[i] = x /\ \A k \in 1..i - 1 : both[k] = before[k]
  BY <1>1, <1>3
<1> HIDE DEF both
<1>5. (both \o after)[j] = IF j <= i THEN both[j] ELSE after[j - i]
  BY <1>1, <1>3, <1>4
<1>6. CASE j < i
  <2>1. j \in 1..i - 1
    BY <1>3, <1>6
  <2>2. both[j] = s[j]
    BY <1>1, <1>4, <2>1
  <2>3. InsertAt(s, i, x)[j] = both[j]
    BY <1>2, <1>3, <1>5, <1>6
  <2> QED
    BY <1>3, <1>6, <2>2, <2>3
<1>7. CASE j = i
  BY <1>2, <1>3, <1>4, <1>5, <1>7
<1>8. CASE j > i
  <2>1. j - i \in 1..Len(s) - i + 1 /\ i + (j - i) - 1 = j - 1
    BY <1>3, <1>8
  <2> QED
    BY <1>1, <1>2, <1>3, <1>5, <1>8, <2>1
<1> QED
  BY <1>3, <1>6, <1>7, <1>8

\* A case that was not listed is listed once.
LEMMA InsertedCase ==
  ASSUME NEW s \in Seq(StoredRow), DistinctCases(s), NEW x \in StoredRow,
         \A i \in DOMAIN s : s[i].case # x.case, NEW i \in 1..Len(s) + 1
  PROVE  DistinctCases(InsertAt(s, i, x))
<1> DEFINE n == InsertAt(s, i, x)
<1>1. Len(s) \in Nat /\ DOMAIN s = 1..Len(s) /\ DOMAIN n = 1..Len(s) + 1
  <2>1. n \in Seq(StoredRow) /\ Len(n) = Len(s) + 1
    BY InsertedRow
  <2> QED
    BY <2>1
<1>2. \A j \in 1..Len(s) + 1 : n[j] = IF j < i THEN s[j] ELSE IF j = i THEN x ELSE s[j - 1]
  BY InsertedElements
<1> HIDE DEF n
<1> DEFINE place(j) == IF j < i THEN j ELSE j - 1
<1>3. \A j \in 1..Len(s) + 1 : j # i => place(j) \in DOMAIN s /\ n[j] = s[place(j)]
  BY <1>1, <1>2
<1>4. n[i] = x /\ i \in 1..Len(s) + 1
  BY <1>1, <1>2
<1>5. ASSUME NEW j \in 1..Len(s) + 1, NEW k \in 1..Len(s) + 1, n[j].case = n[k].case
      PROVE  j = k
  <2>1. CASE j # i /\ k # i
    <3>1. place(j) = place(k)
      BY <1>3, <1>5, <2>1 DEF DistinctCases
    <3> QED
      BY <1>1, <2>1, <3>1
  <2>2. CASE j = i \/ k = i
    BY <1>3, <1>4, <1>5, <2>2
  <2> QED
    BY <2>1, <2>2
<1> QED
  BY <1>1, <1>5 DEF DistinctCases, n

LEMMA ListsStep ==
  ASSUME ScopeInv, ListsInv, [Next]_vars
  PROVE  ListsInv'
<1>1. ASSUME rows' = rows PROVE ListsInv'
  BY <1>1 DEF ListsInv
<1>2. ASSUME NEW p \in Process, Resolve(p) PROVE ListsInv'
  <2>1. req[p].queue \in Queue /\ req[p].user \in User \cup {None}
    BY <1>2, AtStepServes DEF Resolve, At, Serving, Reading, Operations, IsRequest
  <2>2. ASSUME NEW i \in Index(req[p].queue, req[p].case),
               rows' = [rows EXCEPT ![req[p].queue][i].by = req[p].user,
                                    ![req[p].queue][i].version = @ + 1]
        PROVE  ListsInv'
    <3> DEFINE s == rows[req[p].queue]
               n == [s EXCEPT ![i].by = req[p].user, ![i].version = @ + 1]
    <3>1. s \in Seq(StoredRow) /\ i \in DOMAIN s /\ DistinctCases(s)
      BY <2>1, <2>2 DEF ListsInv, Index
    <3>2. n \in Seq(StoredRow)
      BY <2>1, <3>1, DecidedRow DEF StoredRow
    <3>3. rows' = [rows EXCEPT ![req[p].queue] = n]
      BY <2>1, <2>2, <3>1 DEF ListsInv
    <3>4. DOMAIN n = DOMAIN s /\ \A j \in DOMAIN s : n[j].case = s[j].case
      <4>1. s[i] \in StoredRow
        BY <3>1, ElementTyped
      <4>2. n = [s EXCEPT ![i] = [s[i] EXCEPT !.by = req[p].user, !.version = @ + 1]]
        BY <3>1
      <4>3. [s[i] EXCEPT !.by = req[p].user, !.version = @ + 1].case = s[i].case
        BY <4>1 DEF StoredRow
      <4> QED
        BY <3>1, <4>2, <4>3
    <3> HIDE DEF n
    <3>5. DistinctCases(n)
      BY <3>1, <3>4 DEF DistinctCases
    <3> QED
      BY <2>1, <3>2, <3>3, <3>5 DEF ListsInv
  <2> QED
    BY <1>1, <1>2, <2>2, ResolveEffect
<1>3. ASSUME NEW q \in Queue, NEW c \in Case, RegisterCase(q, c) PROVE ListsInv'
  <2> DEFINE x == [case |-> c, by |-> None, version |-> 1]
             s == rows[q]
  <2>1. PICK i \in 1..Len(rows[q]) + 1 : rows' = [rows EXCEPT ![q] = InsertAt(s, i, x)]
    BY <1>3 DEF RegisterCase
  <2>2. x \in StoredRow /\ x.case = c /\ s \in Seq(StoredRow) /\ DistinctCases(s)
    BY DEF ListsInv, StoredRow
  <2>3. \A k \in DOMAIN s : s[k].case # x.case
    BY <1>3 DEF RegisterCase, Index
  <2> HIDE DEF x, s
  <2>4. InsertAt(s, i, x) \in Seq(StoredRow) /\ DistinctCases(InsertAt(s, i, x))
    BY <2>1, <2>2, <2>3, InsertedRow, InsertedCase DEF s
  <2> QED
    BY <2>1, <2>4 DEF ListsInv
<1>4. CASE UNCHANGED vars
  BY <1>1, <1>4 DEF vars
<1> SUFFICES ASSUME Step PROVE ListsInv'
  BY <1>4 DEF Next
<1>5. ASSUME NEW p \in Process, Serve(p) PROVE ListsInv'
  BY <1>1, <1>2, <1>5 DEF Serve, Admit, Done, ReadOrganization, ReadQueue, ReadMembership,
     CountCases, ListCases, GetCase, ListHistory, StorageFails, StorageCorrupt
<1> QED
  BY <1>1, <1>3, <1>5 DEF Step, Arrive, Restart, CreateOrganization, SetOrganizationStatus,
     RemoveMembership, CreateMembership, CreateReviewQueue, EditConfig

\* Empty lists stay empty unless a case is registered.
LEMMA GraphStep ==
  ASSUME NoneAssumption, ScopeInv, ListsInv, GraphInv, [Next]_vars
  PROVE  GraphInv'
<1>1. ASSUME UNCHANGED <<org, owner, role>>, \A q \in Queue : rows'[q] # <<>> => rows[q] # <<>>
      PROVE  GraphInv'
  BY <1>1 DEF GraphInv
<1>2. ASSUME UNCHANGED <<org, owner, role, rows>> PROVE GraphInv'
  BY <1>1, <1>2
<1>3. ASSUME NEW p \in Process, Resolve(p) PROVE GraphInv'
  <2>1. req[p].queue \in Queue
    BY <1>3, AtStepServes DEF Resolve, At, Serving, Reading, Operations, IsRequest
  <2>2. ASSUME NEW i \in Index(req[p].queue, req[p].case),
               rows' = [rows EXCEPT ![req[p].queue][i].by = req[p].user,
                                    ![req[p].queue][i].version = @ + 1],
               NEW q \in Queue, rows[q] = <<>>
        PROVE  rows'[q] = <<>>
    BY <2>1, <2>2 DEF Index, ListsInv
  <2> QED
    BY <1>1, <1>3, <2>2, ResolveEffect DEF Resolve
<1>4. ASSUME NEW o \in Org, CreateOrganization(o) PROVE GraphInv'
  BY <1>4 DEF CreateOrganization, GraphInv, NoneAssumption
<1>5. ASSUME NEW o \in Org, SetOrganizationStatus(o) PROVE GraphInv'
  BY <1>5 DEF SetOrganizationStatus, GraphInv, NoneAssumption
<1>6. ASSUME NEW o \in Org, NEW u \in User, RemoveMembership(o, u) PROVE GraphInv'
  BY <1>6 DEF RemoveMembership, GraphInv
<1>7. ASSUME NEW o \in Org, NEW u \in User, NEW r \in Roles, CreateMembership(o, u, r) PROVE GraphInv'
  BY <1>7 DEF CreateMembership, GraphInv, NoneAssumption
<1>8. ASSUME NEW q \in Queue, NEW o \in Org, CreateReviewQueue(q, o) PROVE GraphInv'
  BY <1>8 DEF CreateReviewQueue, GraphInv, NoneAssumption
<1>9. ASSUME NEW q \in Queue, NEW c \in Case, RegisterCase(q, c) PROVE GraphInv'
  <2>1. /\ owner[q] # None /\ UNCHANGED <<org, owner, role>>
        /\ \A k \in Queue : k # q => rows'[k] = rows[k]
    BY <1>9 DEF RegisterCase, ListsInv
  <2> QED
    BY <2>1 DEF GraphInv
<1>10. CASE UNCHANGED vars
  BY <1>2, <1>10 DEF vars
<1> SUFFICES ASSUME Step PROVE GraphInv'
  BY <1>10 DEF Next
<1>11. ASSUME NEW p \in Process, Serve(p) PROVE GraphInv'
  BY <1>2, <1>3, <1>11 DEF Serve, Admit, Done, ReadOrganization, ReadQueue, ReadMembership,
     CountCases, ListCases, GetCase, ListHistory, StorageFails, StorageCorrupt
<1> QED
  BY <1>2, <1>4, <1>5, <1>6, <1>7, <1>8, <1>9, <1>11 DEF Step, Arrive, Restart, EditConfig

LEMMA EditionsStep ==
  ASSUME LimitAssumption, ScopeInv, EditionsInv, [Next]_vars
  PROVE  EditionsInv'
<1>1. ASSUME UNCHANGED <<file, cache>> PROVE EditionsInv'
  BY <1>1 DEF EditionsInv
<1>2. ASSUME NEW p \in Process, Resolve(p) PROVE EditionsInv'
  <2> DEFINE k == req[p].queue
             e == Loaded(p, k)
  <2>1. k \in Queue
    BY <1>2, AtStepServes DEF Resolve, At, Serving, Reading, Operations, IsRequest
  <2>2. e \in 0..MaxConfig
    BY <2>1 DEF Loaded, EditionsInv
  <2>3. file' = file /\ (cache' = cache \/ cache' = [cache EXCEPT ![p][k] = e])
    BY <1>2, ResolveEffect DEF Resolve
  <2> HIDE DEF k, e
  <2> QED
    BY <2>1, <2>2, <2>3 DEF EditionsInv
<1>3. ASSUME NEW p \in Process, Restart(p) PROVE EditionsInv'
  BY <1>3 DEF Restart, EditionsInv, LimitAssumption
<1>4. ASSUME NEW n \in 0..MaxConfig, EditConfig(n) PROVE EditionsInv'
  BY <1>4 DEF EditionsInv, EditConfig
<1>5. CASE UNCHANGED vars
  BY <1>1, <1>5 DEF vars
<1> SUFFICES ASSUME Step PROVE EditionsInv'
  BY <1>5 DEF Next
<1>6. ASSUME NEW p \in Process, Serve(p) PROVE EditionsInv'
  BY <1>1, <1>2, <1>6 DEF Serve, Admit, Done, ReadOrganization, ReadQueue, ReadMembership,
     CountCases, ListCases, GetCase, ListHistory, StorageFails, StorageCorrupt
<1> QED
  BY <1>1, <1>3, <1>4, <1>6 DEF Step, Arrive, CreateOrganization, SetOrganizationStatus,
     RemoveMembership, CreateMembership, CreateReviewQueue, RegisterCase

LEMMA TypedWhole == ListsInv /\ GraphInv /\ EditionsInv => TypeOK
  BY DEF ListsInv, GraphInv, EditionsInv, TypeOK, DistinctCases, IsInjective

\* The rows of the tenant tables keep their type and their foreign keys, and no queue
\* lists a case twice (tenant_repository, review_repository).
THEOREM TenantsAreTyped ==
  ASSUME LimitAssumption, NoneAssumption
  PROVE  Spec => []TypeOK
<1>1. Init => ListsInv
  BY DEF Init, ListsInv, DistinctCases
<1>2. Init => GraphInv
  BY DEF Init, GraphInv, NoneAssumption
<1>3. Init => EditionsInv
  BY DEF Init, EditionsInv, LimitAssumption
<1>4. ScopeInv /\ ListsInv /\ [Next]_vars => ListsInv'
  BY ListsStep
<1>5. ScopeInv /\ ListsInv /\ GraphInv /\ [Next]_vars => GraphInv'
  BY GraphStep
<1>6. ScopeInv /\ EditionsInv /\ [Next]_vars => EditionsInv'
  BY EditionsStep
<1> QED
  BY <1>1, <1>2, <1>3, <1>4, <1>5, <1>6, TypedWhole, ScopeInvariant, PTL DEF Spec

----------------------------------------------------------------------------
(* Pages *)

\* A request for a list carries its offset from step to step, and has counted no more
\* rows than there are.
PageFits(p) ==
  LET r == req[p] IN
    /\ r.at \in Serving =>
         /\ {"offset", "pending"} \subseteq DOMAIN r /\ r.offset \in Nat
         /\ r.at \in Operations => r.op = r.at
         /\ r.at = "history" => r.op # "list"
         /\ r.at = "page" /\ ~ r.pending => r.total \in Nat /\ r.total <= Len(rows[r.queue])
    /\ r.at = "answered" /\ r.op = "list" /\ r.error = None /\ ~ r.pending =>
         r.offset + r.count >= Min({r.total, r.offset + Limit})

PagesInv == \A p \in Process : PageFits(p)

RowsGrow == \A q \in Queue : Len(rows[q]) \in Nat /\ Len(rows'[q]) \in Nat /\ Len(rows'[q]) >= Len(rows[q])

LEMMA ListsGrow ==
  ASSUME ScopeInv, ListsInv, [Next]_vars
  PROVE  RowsGrow
<1>1. \A q \in Queue : rows[q] \in Seq(StoredRow) /\ rows'[q] \in Seq(StoredRow)
  BY ListsStep DEF ListsInv
<1>2. \A q \in Queue : Len(rows[q]) \in Nat /\ Len(rows'[q]) \in Nat
  BY <1>1
<1>3. ASSUME rows' = rows PROVE RowsGrow
  BY <1>2, <1>3 DEF RowsGrow
<1>4. ASSUME NEW p \in Process, Resolve(p) PROVE RowsGrow
  <2>1. req[p].queue \in Queue
    BY <1>4, AtStepServes DEF Resolve, At, Serving, Reading, Operations, IsRequest
  <2>2. ASSUME NEW i \in Index(req[p].queue, req[p].case),
               rows' = [rows EXCEPT ![req[p].queue][i].by = req[p].user,
                                    ![req[p].queue][i].version = @ + 1],
               TRUE
        PROVE  RowsGrow
    <3>1. \A q \in Queue : DOMAIN rows'[q] = DOMAIN rows[q]
      BY <2>1, <2>2 DEF ListsInv
    <3>2. \A q \in Queue : Len(rows'[q]) = Len(rows[q])
      BY <1>1, <3>1
    <3> QED
      BY <1>2, <3>2 DEF RowsGrow
  <2> QED
    BY <1>3, <1>4, <2>2, ResolveEffect
<1>5. ASSUME NEW q \in Queue, NEW c \in Case, RegisterCase(q, c) PROVE RowsGrow
  <2> DEFINE x == [case |-> c, by |-> None, version |-> 1]
             s == rows[q]
  <2>1. PICK i \in 1..Len(rows[q]) + 1 : rows' = [rows EXCEPT ![q] = InsertAt(s, i, x)]
    BY <1>5 DEF RegisterCase
  <2>2. x \in StoredRow /\ s \in Seq(StoredRow)
    BY <1>1 DEF StoredRow
  <2> HIDE DEF x
  <2>3. Len(InsertAt(s, i, x)) = Len(s) + 1
    BY <2>1, <2>2, InsertedRow
  <2> QED
    BY <1>2, <2>1, <2>3 DEF ListsInv, RowsGrow
<1>6. CASE UNCHANGED vars
  BY <1>3, <1>6 DEF vars
<1> SUFFICES ASSUME Step PROVE RowsGrow
  BY <1>6 DEF Next
<1>7. ASSUME NEW p \in Process, Serve(p) PROVE RowsGrow
  BY <1>3, <1>4, <1>7 DEF Serve, Admit, Done, ReadOrganization, ReadQueue, ReadMembership,
     CountCases, ListCases, GetCase, ListHistory, StorageFails, StorageCorrupt
<1> QED
  BY <1>3, <1>5, <1>7 DEF Step, Arrive, Restart, CreateOrganization, SetOrganizationStatus,
     RemoveMembership, CreateMembership, CreateReviewQueue, EditConfig

LEMMA LeastOfTwo ==
  ASSUME NEW a \in Int, NEW b \in Int
  PROVE  Min({a, b}) <= a /\ Min({a, b}) <= b
<1>1. \E x \in {a, b} : \A y \in {a, b} : x <= y
  OBVIOUS
<1> QED
  BY <1>1 DEF Min

\* A page ends where the limit or the list does.
LEMMA PageLength ==
  ASSUME LimitAssumption, NEW T, NEW s \in Seq(T), NEW offset \in Nat
  PROVE  /\ Len(Page(s, offset)) \in Nat
         /\ offset + Len(Page(s, offset)) >= offset + Limit \/ offset + Len(Page(s, offset)) >= Len(s)
<1> DEFINE last == IF offset + Limit < Len(s) THEN offset + Limit ELSE Len(s)
<1>1. Len(s) \in Nat /\ last \in Nat /\ last <= Len(s) /\ Limit \in Nat
  BY DEF LimitAssumption
<1>2. CASE offset >= Len(s)
  BY <1>1, <1>2 DEF Page
<1>3. CASE offset < Len(s)
  <2>1. Len(SubSeq(s, offset + 1, last)) = last - offset
    BY <1>1, <1>3 DEF LimitAssumption
  <2> QED
    BY <1>1, <1>3, <2>1 DEF Page
<1> QED
  BY <1>1, <1>2, <1>3

LEMMA OthersKeepPages ==
  ASSUME ScopeInv, RowsGrow, NEW q \in Process, PageFits(q), req'[q] = req[q]
  PROVE  PageFits(q)'
<1>1. req[q].at = "page" => req[q].queue \in Queue
  BY AtStepServes DEF Serving, Reading, IsRequest
<1> QED
  BY <1>1 DEF PageFits, RowsGrow

LEMMA OnePage ==
  ASSUME ScopeInv, PagesInv, RowsGrow, NEW p \in Process, NEW r, req' = [req EXCEPT ![p] = r],
         req'[p] = r => PageFits(p)'
  PROVE  PagesInv'
<1>1. req'[p] = r /\ \A q \in Process : q # p => req'[q] = req[q]
  BY DEF ScopeInv
<1> QED
  BY <1>1, OthersKeepPages DEF PagesInv

LEMMA RaiseKeepsPages ==
  ASSUME LimitAssumption, ScopeInv, PagesInv, RowsGrow, NEW p \in Process, NEW e, Raise(p, e)
  PROVE  PagesInv'
<1> DEFINE r == [at |-> "answered", op |-> req[p].op, user |-> req[p].user,
                 org |-> req[p].org, queue |-> req[p].queue,
                 error |-> e, reply |-> Handled[e],
                 total |-> 0, count |-> 0, offset |-> 0, pending |-> FALSE]
<1>1. req' = [req EXCEPT ![p] = r]
  BY DEF Raise
<1>2. Min({0, 0 + Limit}) <= 0
  BY LeastOfTwo DEF LimitAssumption
<1>3. Min({0, 0 + Limit}) = 0
  <2>1. \E x \in {0, 0 + Limit} : \A y \in {0, 0 + Limit} : x <= y
    BY DEF LimitAssumption
  <2> QED
    BY <1>2, <2>1 DEF Min, LimitAssumption
<1>4. req'[p] = r => PageFits(p)'
  BY <1>3 DEF PageFits, Serving, Reading, Operations
<1> QED
  BY <1>1, <1>4, OnePage

LEMMA OtherOkKeepsPages ==
  ASSUME ScopeInv, PagesInv, RowsGrow, NEW p \in Process, Ok(p, 0, 0), req[p].op # "list"
  PROVE  PagesInv'
<1> DEFINE r == [at |-> "answered", op |-> req[p].op, user |-> req[p].user,
                 org |-> req[p].org, queue |-> req[p].queue,
                 error |-> None, reply |-> Reply(200, "OK"),
                 total |-> 0, count |-> 0, offset |-> req[p].offset, pending |-> req[p].pending]
<1>1. req' = [req EXCEPT ![p] = r]
  BY DEF Ok
<1>2. req'[p] = r => PageFits(p)'
  BY DEF PageFits, Serving, Reading, Operations
<1> QED
  BY <1>1, <1>2, OnePage

LEMMA GotoKeepsPages ==
  ASSUME ScopeInv, PagesInv, RowsGrow, NEW p \in Process, IsRequest(req[p]), NEW step, Goto(p, step),
         step # "page", step \in Operations => req[p].op = step,
         step = "history" => req[p].op # "list", step # "answered"
  PROVE  PagesInv'
<1> DEFINE r == [req[p] EXCEPT !.at = step]
<1>1. req' = [req EXCEPT ![p] = r]
  BY DEF Goto, ScopeInv
<1>2. /\ DOMAIN r = DOMAIN req[p] /\ r.at = step
      /\ r.op = req[p].op /\ r.offset = req[p].offset
  <2>1. {"at", "op", "offset"} \subseteq DOMAIN req[p]
    BY DEF PagesInv, PageFits, IsRequest
  <2> QED
    BY <2>1
<1> HIDE DEF r
<1>3. req'[p] = r => PageFits(p)'
  BY <1>2 DEF PagesInv, PageFits, IsRequest
<1> QED
  BY <1>1, <1>3, OnePage

LEMMA CountKeepsPages ==
  ASSUME ScopeInv, ListsInv, PagesInv, RowsGrow, NEW p \in Process, CountCases(p)
  PROVE  PagesInv'
<1> DEFINE n == Len(Matching(req[p].queue, req[p].pending))
           r == [req[p] EXCEPT !.at = "page", !.total = n]
<1>1. IsRequest(req[p]) /\ req[p].at = "list" /\ rows' = rows
  BY AtStepServes DEF CountCases, At, Serving, Reading, Operations
<1>2. req' = [req EXCEPT ![p] = r]
  BY DEF CountCases, ScopeInv
<1>3. ~ req[p].pending => n \in Nat /\ n <= Len(rows[req[p].queue])
  BY <1>1 DEF Matching, IsRequest, ListsInv
<1> HIDE DEF n
<1>4. /\ DOMAIN r = DOMAIN req[p] /\ r.at = "page" /\ r.total = n
      /\ r.pending = req[p].pending /\ r.offset = req[p].offset /\ r.queue = req[p].queue
  <2>1. {"at", "total", "queue", "offset", "pending"} \subseteq DOMAIN req[p]
    BY <1>1 DEF PagesInv, PageFits, IsRequest
  <2> QED
    BY <2>1
<1> HIDE DEF r
<1>5. req'[p] = r => PageFits(p)'
  BY <1>1, <1>3, <1>4 DEF PagesInv, PageFits, IsRequest, Operations
<1> QED
  BY <1>2, <1>5, OnePage

LEMMA ListKeepsPages ==
  ASSUME LimitAssumption, ScopeInv, ListsInv, PagesInv, RowsGrow, NEW p \in Process, ListCases(p)
  PROVE  PagesInv'
<1> DEFINE n == Len(Page(Matching(req[p].queue, req[p].pending), req[p].offset))
           r == [at |-> "answered", op |-> req[p].op, user |-> req[p].user,
                 org |-> req[p].org, queue |-> req[p].queue,
                 error |-> None, reply |-> Reply(200, "OK"),
                 total |-> req[p].total, count |-> n, offset |-> req[p].offset,
                 pending |-> req[p].pending]
<1>1. /\ req[p].at = "page" /\ req[p].queue \in Queue /\ req[p].offset \in Nat
      /\ ~ req[p].pending => req[p].total \in Nat /\ req[p].total <= Len(rows[req[p].queue])
  BY AtStepServes DEF ListCases, At, Serving, Reading, IsRequest, PagesInv, PageFits
<1>2. req' = [req EXCEPT ![p] = r]
  BY DEF ListCases, Ok
<1>3. ~ req[p].pending => req[p].offset + n >= Min({req[p].total, req[p].offset + Limit})
  <2> SUFFICES ASSUME ~ req[p].pending PROVE req[p].offset + n >= Min({req[p].total, req[p].offset + Limit})
    OBVIOUS
  <2> DEFINE s == rows[req[p].queue]
  <2>1. s \in Seq(StoredRow) /\ n = Len(Page(s, req[p].offset))
    BY <1>1 DEF ListsInv, Matching
  <2> HIDE DEF n, s
  <2>2. n \in Nat /\ (req[p].offset + n >= req[p].offset + Limit \/ req[p].offset + n >= Len(s))
    BY <1>1, <2>1, PageLength
  <2>3. Limit \in Int /\ Len(s) \in Nat /\ req[p].total <= Len(s)
    BY <1>1, <2>1 DEF LimitAssumption, s
  <2> DEFINE a == req[p].total
             b == req[p].offset + Limit
  <2>4. Min({a, b}) <= a /\ Min({a, b}) <= b /\ Min({a, b}) \in {a, b}
    <3>1. a \in Int /\ b \in Int
      BY <1>1, <2>3
    <3>2. \E x \in {a, b} : \A y \in {a, b} : x <= y
      BY <3>1
    <3> QED
      BY <3>1, <3>2, LeastOfTwo DEF Min
  <2> QED
    BY <1>1, <2>2, <2>3, <2>4
<1> HIDE DEF n
<1>4. req'[p] = r => PageFits(p)'
  BY <1>3 DEF PageFits, Serving, Reading, Operations
<1> QED
  BY <1>2, <1>4, OnePage

LEMMA PagesStep ==
  ASSUME LimitAssumption, ScopeInv, ListsInv, PagesInv, [Next]_vars
  PROVE  PagesInv'
<1>1. RowsGrow
  BY ListsGrow
<1>2. ASSUME req' = req PROVE PagesInv'
  BY <1>1, <1>2, OthersKeepPages DEF PagesInv
<1>3. ASSUME NEW p \in Process, req' = [req EXCEPT ![p] = NoRequest] PROVE PagesInv'
  <2>1. req'[p] = NoRequest => PageFits(p)'
    BY DEF NoRequest, PageFits, Serving, Reading, Operations
  <2> QED
    BY <1>1, <1>3, <2>1, OnePage
<1>4. ASSUME NEW p \in Process, NEW op \in Operations, NEW o, NEW q, NEW u, NEW t, Arrive(p, op, o, q, u, t)
      PROVE  PagesInv'
  <2>1. PICK c \in Case, pending \in BOOLEAN, offset \in 0..1, version \in 1..2, match \in BOOLEAN :
          req' = [req EXCEPT ![p] =
                    [at |-> "admit", op |-> op, org |-> o, queue |-> q, user |-> u, trusted |-> t,
                     case |-> c, pending |-> pending, offset |-> offset, version |-> version,
                     match |-> match, total |-> 0]]
    BY <1>4 DEF Arrive
  <2> DEFINE r == [at |-> "admit", op |-> op, org |-> o, queue |-> q, user |-> u, trusted |-> t,
                   case |-> c, pending |-> pending, offset |-> offset, version |-> version,
                   match |-> match, total |-> 0]
  <2>2. {"offset", "pending"} \subseteq DOMAIN r /\ r.offset \in Nat /\ r.at = "admit"
    OBVIOUS
  <2> HIDE DEF r
  <2>3. req'[p] = r => PageFits(p)'
    BY <2>2 DEF PageFits, Operations
  <2> QED
    BY <1>1, <2>1, <2>3, OnePage DEF r
<1>5. ASSUME NEW p \in Process, Serve(p) PROVE PagesInv'
  <2>1. PageFits(p)
    BY DEF PagesInv
  <2>2. req[p].at \in Serving => IsRequest(req[p]) /\ req[p].op \in Operations
    BY AtStepServes DEF IsRequest
  <2>3. CASE \E e : Raise(p, e)
    BY <1>1, <2>3, RaiseKeepsPages
  <2>4. CASE Admit(p)
    BY <1>1, <2>2, <2>3, <2>4, GotoKeepsPages DEF Admit, At, Serving, Operations
  <2>5. CASE ReadOrganization(p) \/ ReadQueue(p)
    BY <1>1, <2>2, <2>3, <2>5, GotoKeepsPages DEF ReadOrganization, ReadQueue, At, Serving, Operations
  <2>6. CASE ReadMembership(p)
    BY <1>1, <2>2, <2>3, <2>6, GotoKeepsPages DEF ReadMembership, At, Serving, Reading, Operations
  <2>7. CASE GetCase(p) \/ ListHistory(p)
    BY <1>1, <2>1, <2>2, <2>3, <2>7, GotoKeepsPages, OtherOkKeepsPages
       DEF GetCase, ListHistory, PageFits, At, Serving, Reading, Operations
  <2>8. CASE Resolve(p)
    BY <1>1, <2>1, <2>3, <2>8, OtherOkKeepsPages DEF Resolve, PageFits, At, Serving, Reading, Operations
  <2>9. CASE StorageFails(p) \/ StorageCorrupt(p)
    BY <2>3, <2>9 DEF StorageFails, StorageCorrupt
  <2> QED
    BY <1>1, <1>3, <1>5, <2>4, <2>5, <2>6, <2>7, <2>8, <2>9, CountKeepsPages, ListKeepsPages DEF Serve, Done
<1>6. CASE UNCHANGED vars
  BY <1>2, <1>6 DEF vars
<1> SUFFICES ASSUME Step PROVE PagesInv'
  BY <1>6 DEF Next
<1> QED
  BY <1>2, <1>3, <1>4, <1>5 DEF Step, Restart, CreateOrganization, SetOrganizationStatus,
     RemoveMembership, CreateMembership, CreateReviewQueue, RegisterCase, EditConfig

\* The unfiltered list never withholds a row that it has counted: its pages reach their
\* total (list_review_cases).
THEOREM PagesReachTheirTotal ==
  ASSUME LimitAssumption
  PROVE  Spec => []PageReachesItsTotal
<1>1. Init => ListsInv
  BY DEF Init, ListsInv, DistinctCases
<1>2. Init => PagesInv
  BY DEF Init, PagesInv, PageFits, NoRequest, Serving, Reading, Operations
<1>3. PagesInv => PageReachesItsTotal
  BY DEF PagesInv, PageFits, PageReachesItsTotal, At
<1>4. ScopeInv /\ ListsInv /\ [Next]_vars => ListsInv'
  BY ListsStep
<1>5. ScopeInv /\ ListsInv /\ PagesInv /\ [Next]_vars => PagesInv'
  BY PagesStep
<1> QED
  BY <1>1, <1>2, <1>3, <1>4, <1>5, ScopeInvariant, PTL DEF Spec
=============================================================================
