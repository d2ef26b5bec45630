----------------------------- MODULE ReviewApi -----------------------------
(***************************************************************************)
(* A request to the review API: the origin, the principal, the tenant      *)
(* scope, the operation on the queue, and the one error envelope that      *)
(* every failure becomes.  Each SELECT is a step; organizations,           *)
(* memberships, queues and cases change between any two of them.  How a    *)
(* session becomes a principal is module Sessions, what happens inside a   *)
(* decision is module ReviewQueue.                                         *)
(*                                                                         *)
(* An operator commented "Broken variant" is a plausible bug of the one    *)
(* that follows it; no specification uses it.                              *)
(***************************************************************************)
EXTENDS Integers, Sequences, FiniteSets, SequencesExt

CONSTANTS
  Process,     \* server processes
  User,        \* accounts
  Org,         \* organization ids that a request may name
  Queue,       \* queue ids that a request may name
  Case,        \* case ids that can be registered
  Limit,       \* the page size that clients ask for
  MaxConfig,   \* bound on the edits of the entity-resolution config
  None

LimitAssumption == Limit \in Nat \ {0} /\ MaxConfig \in Nat \ {0}
NoneAssumption == None \notin {"ACTIVE", "SUSPENDED"}

VARIABLES
  org,     \* the status of each organization, None if there is no row
  owner,   \* the organization of each queue, None if there is no row
  role,    \* the membership role of a user in an organization, or None
  rows,    \* the cases of each queue in the order of the list
  file,    \* the config file: its edition, 0 while it cannot be loaded
  cache,   \* the edition that each process loaded for each queue, 0 if none
  req,     \* what each process is serving
  saw,     \* history: the facts about the scope that held during the request
  used     \* history: the editions a process decided with since it started

vars == <<org, owner, role, rows, file, cache, req, saw, used>>

Roles == {"VIEWER", "REVIEWER"}
Operations == {"list", "detail", "events", "suggestions", "resolve"}
Capability(op) == IF op = "resolve" THEN "RESOLVE" ELSE "READ"
RoleCapabilities == [r \in Roles |-> IF r = "REVIEWER" THEN {"READ", "RESOLVE"} ELSE {"READ"}]

----------------------------------------------------------------------------
\* The exceptions that can leave a route, under the class each extends.
Parent == [
  ReviewConflictError |-> "ReviewApplicationError",
  PersistedCaseIntegrityError |-> "ReviewApplicationError",
  ReviewEventIntegrityError |-> "ReviewApplicationError",
  SemanticSuggestionIntegrityError |-> "ReviewApplicationError",
  ReviewAuthorizationConfigError |-> "ReviewApplicationError",
  ReviewWorkflowContextMissingError |-> "ReviewApplicationError",
  ReviewPersistenceError |-> "ReviewApplicationError",
  ReviewSchemaVersionError |-> "ReviewPersistenceError",
  ReviewCaseNotFoundError |-> "HumanReviewError",
  InvalidReviewTransitionError |-> "HumanReviewError",
  HumanReviewContradictionError |-> "HumanReviewError",
  HumanReviewAuthorizationError |-> "HumanReviewError",
  HumanReviewAuthorizationContextError |-> "HumanReviewError",
  OperationalError |-> "Exception",
  UnauthenticatedError |-> "Exception",
  UntrustedOriginError |-> "Exception",
  TenantScopeNotVisibleError |-> "Exception",
  TenantCapabilityError |-> "Exception",
  ReviewApplicationError |-> "Exception",
  HumanReviewError |-> "Exception"]

Reply(status, code) == [status |-> status, code |-> code]

\* register_error_handlers
Handlers == [
  UnauthenticatedError |-> Reply(401, "UNAUTHENTICATED"),
  UntrustedOriginError |-> Reply(403, "FORBIDDEN"),
  TenantScopeNotVisibleError |-> Reply(404, "NOT_FOUND"),
  TenantCapabilityError |-> Reply(403, "FORBIDDEN"),
  ReviewCaseNotFoundError |-> Reply(404, "REVIEW_CASE_NOT_FOUND"),
  PersistedCaseIntegrityError |-> Reply(500, "REVIEW_STORAGE_CORRUPT"),
  ReviewEventIntegrityError |-> Reply(500, "REVIEW_STORAGE_CORRUPT"),
  SemanticSuggestionIntegrityError |-> Reply(500, "REVIEW_STORAGE_CORRUPT"),
  ReviewSchemaVersionError |-> Reply(503, "REVIEW_STORAGE_UNAVAILABLE"),
  ReviewPersistenceError |-> Reply(503, "REVIEW_STORAGE_UNAVAILABLE"),
  InvalidReviewTransitionError |-> Reply(409, "REVIEW_CASE_NOT_PENDING"),
  HumanReviewContradictionError |-> Reply(409, "HUMAN_REVIEW_CONTRADICTION"),
  HumanReviewAuthorizationError |-> Reply(422, "MATCH_NOT_AUTHORIZED"),
  HumanReviewAuthorizationContextError |-> Reply(503, "AUTHORIZATION_CONTEXT_UNAVAILABLE"),
  ReviewAuthorizationConfigError |-> Reply(503, "AUTHORIZATION_CONFIG_UNAVAILABLE"),
  ReviewWorkflowContextMissingError |-> Reply(503, "REVIEW_QUEUE_NOT_READY"),
  ReviewConflictError |-> Reply(409, "REVIEW_CASE_VERSION_CONFLICT"),
  Exception |-> Reply(500, "INTERNAL_ERROR")]

\* Starlette walks the classes of the exception: the nearest handler answers.
Handled[e \in DOMAIN Parent \cup {"Exception"}] ==
  IF e \in DOMAIN Handlers THEN Handlers[e] ELSE Handled[Parent[e]]

----------------------------------------------------------------------------
Pending(row) == row.by = None
Matching(q, filter) == IF filter THEN SelectSeq(rows[q], Pending) ELSE rows[q]
Index(q, c) == {i \in DOMAIN rows[q] : rows[q][i].case = c}

Page(s, offset) == SubSeq(s, offset + 1, IF offset + Limit < Len(s) THEN offset + Limit ELSE Len(s))

NoRequest == [at |-> "idle"]
Idling(p) == req[p].at \in {"idle", "answered"}
At(p, step) == req[p].at = step

Init ==
  /\ \E o \in Org :
       /\ org \in [Org -> {None, "ACTIVE"}] /\ org[o] = "ACTIVE"
       /\ owner \in [Queue -> {o, None}]
  /\ role = [m \in Org \X User |-> None]
  /\ rows = [q \in Queue |-> <<>>]
  /\ file = 1
  /\ cache = [p \in Process |-> [q \in Queue |-> 0]]
  /\ req = [p \in Process |-> NoRequest]
  /\ saw = [p \in Process |-> {}]
  /\ used = [p \in Process |-> [q \in Queue |-> {}]]

Raise(p, e) ==
  req' = [req EXCEPT ![p] = [at |-> "answered", op |-> req[p].op, user |-> req[p].user,
                            org |-> req[p].org, queue |-> req[p].queue,
                            error |-> e, reply |-> Handled[e],
                            total |-> 0, count |-> 0, offset |-> 0, pending |-> FALSE]]
Ok(p, total, count) ==
  req' = [req EXCEPT ![p] = [at |-> "answered", op |-> req[p].op, user |-> req[p].user,
                            org |-> req[p].org, queue |-> req[p].queue,
                            error |-> None, reply |-> Reply(200, "OK"),
                            total |-> total, count |-> count, offset |-> req[p].offset,
                            pending |-> req[p].pending]]
Goto(p, step) == req' = [req EXCEPT ![p].at = step]

\* A request: the client names what it wants; its cookie resolves to a user or
\* to none, its origin is a configured one or not.
Arrive(p, op, o, q, u, trusted) ==
  /\ At(p, "idle")
  /\ \E c \in Case, pending \in BOOLEAN, offset \in 0..1, version \in 1..2, match \in BOOLEAN :
       /\ op # "list" => ~pending /\ offset = 0
       /\ op # "resolve" => version = 1 /\ ~match
       /\ op = "list" => c = CHOOSE x \in Case : TRUE
       /\ req' = [req EXCEPT ![p] =
            [at |-> "admit", op |-> op, org |-> o, queue |-> q, user |-> u, trusted |-> trusted,
             case |-> c, pending |-> pending, offset |-> offset, version |-> version,
             match |-> match, total |-> 0]]
  /\ UNCHANGED <<org, owner, role, rows, file, cache, used>>

Done(p) ==
  /\ At(p, "answered")
  /\ req' = [req EXCEPT ![p] = NoRequest]
  /\ UNCHANGED <<org, owner, role, rows, file, cache, used>>

\* The origin of a state-changing request is judged before anything is looked up.
Admit(p) ==
  /\ At(p, "admit")
  /\ IF req[p].op = "resolve" /\ ~req[p].trusted THEN Raise(p, "UntrustedOriginError")
     ELSE IF req[p].user = None THEN Raise(p, "UnauthenticatedError")
     ELSE Goto(p, "organization")
  /\ UNCHANGED <<org, owner, role, rows, file, cache, used>>

\* authorize: organization, queue, membership and capability, in this order.
ReadOrganization(p) ==
  /\ At(p, "organization")
  /\ IF org[req[p].org] = "ACTIVE" THEN Goto(p, "queue")
                                   ELSE Raise(p, "TenantScopeNotVisibleError")
  /\ UNCHANGED <<org, owner, role, rows, file, cache, used>>

\* Broken variant: a queue is served whichever organization the URL names.
ReadQueueOnly(p) ==
  /\ At(p, "queue")
  /\ IF owner[req[p].queue] # None THEN Goto(p, "membership")
                                   ELSE Raise(p, "TenantScopeNotVisibleError")
  /\ UNCHANGED <<org, owner, role, rows, file, cache, used>>

ReadQueue(p) ==
  /\ At(p, "queue")
  /\ IF owner[req[p].queue] = req[p].org THEN Goto(p, "membership")
                                         ELSE Raise(p, "TenantScopeNotVisibleError")
  /\ UNCHANGED <<org, owner, role, rows, file, cache, used>>

\* Broken variant: every member may do everything.
ReadMembershipOnly(p) ==
  /\ At(p, "membership")
  /\ IF role[<<req[p].org, req[p].user>>] = None THEN Raise(p, "TenantScopeNotVisibleError")
                                                 ELSE Goto(p, req[p].op)
  /\ UNCHANGED <<org, owner, role, rows, file, cache, used>>

ReadMembership(p) ==
  /\ At(p, "membership")
  /\ LET r == role[<<req[p].org, req[p].user>>]
     IN IF r = None THEN Raise(p, "TenantScopeNotVisibleError")
        ELSE IF Capability(req[p].op) \notin RoleCapabilities[r] THEN Raise(p, "TenantCapabilityError")
        ELSE Goto(p, req[p].op)
  /\ UNCHANGED <<org, owner, role, rows, file, cache, used>>

\* The list counts, then reads its page.
CountCases(p) ==
  /\ At(p, "list")
  /\ req' = [req EXCEPT ![p].at = "page", ![p].total = Len(Matching(req[p].queue, req[p].pending))]
  /\ UNCHANGED <<org, owner, role, rows, file, cache, used>>

ListCases(p) ==
  /\ At(p, "page")
  /\ Ok(p, req[p].total, Len(Page(Matching(req[p].queue, req[p].pending), req[p].offset)))
  /\ UNCHANGED <<org, owner, role, rows, file, cache, used>>

\* The three reads of one case look it up first; the history and the
\* suggestions are then a read of their own.
GetCase(p) ==
  /\ req[p].at \in {"detail", "events", "suggestions"}
  /\ IF Index(req[p].queue, req[p].case) = {} THEN Raise(p, "ReviewCaseNotFoundError")
     ELSE IF req[p].at = "detail" THEN Ok(p, 0, 0)
     ELSE Goto(p, "history")
  /\ UNCHANGED <<org, owner, role, rows, file, cache, used>>

ListHistory(p) ==
  /\ At(p, "history")
  /\ Ok(p, 0, 0)
  /\ UNCHANGED <<org, owner, role, rows, file, cache, used>>

\* Any read or transaction may find the database locked or unreadable; sqlite's
\* own exception is not translated.
StorageFails(p) ==
  /\ req[p].at \in {"organization", "queue", "membership", "page", "history"} \cup Operations
  /\ Raise(p, "OperationalError")
  /\ UNCHANGED <<org, owner, role, rows, file, cache, used>>

\* A stored row that the mappers refuse.
StorageCorrupt(p) ==
  /\ req[p].at \in {"page", "detail", "history", "resolve"}
  /\ \E e \in {"PersistedCaseIntegrityError", "ReviewEventIntegrityError",
               "SemanticSuggestionIntegrityError", "ReviewPersistenceError"} : Raise(p, e)
  /\ UNCHANGED <<org, owner, role, rows, file, cache, used>>

\* Broken variant: the file is read again for every decision.
LoadedAgain(p, q) == file

\* The config of a queue is loaded once in the life of a process.
Loaded(p, q) == IF cache[p][q] # 0 THEN cache[p][q] ELSE file

\* What the domain may answer to a pending case; only a MATCH is authorized.
Refusals(match) ==
  {"ReviewWorkflowContextMissingError"} \cup
  IF match THEN {"HumanReviewContradictionError", "HumanReviewAuthorizationError",
                 "HumanReviewAuthorizationContextError"}
           ELSE {}

\* resolve_case, one unit of work.
Resolve(p) ==
  LET q == req[p].queue  found == Index(q, req[p].case)
      edition == Loaded(p, q)
  IN /\ At(p, "resolve")
     /\ IF found = {} THEN Raise(p, "ReviewCaseNotFoundError") /\ UNCHANGED <<rows, cache, used>>
        ELSE LET i == CHOOSE i \in found : TRUE
                 row == rows[q][i]
             IN IF req[p].version # row.version
                  THEN Raise(p, "ReviewConflictError") /\ UNCHANGED <<rows, cache, used>>
                ELSE IF req[p].match /\ edition = 0
                  THEN Raise(p, "ReviewAuthorizationConfigError") /\ UNCHANGED <<rows, cache, used>>
                ELSE /\ cache' = IF req[p].match THEN [cache EXCEPT ![p][q] = edition] ELSE cache
                     /\ \/ /\ ~Pending(row)
                           /\ Raise(p, "InvalidReviewTransitionError")
                           /\ UNCHANGED <<rows, used>>
                        \/ /\ Pending(row)
                           /\ \E e \in Refusals(req[p].match) : Raise(p, e)
                           /\ UNCHANGED <<rows, used>>
                        \/ /\ Pending(row)
                           /\ rows' = [rows EXCEPT ![q][i].by = req[p].user, ![q][i].version = @ + 1]
                           /\ used' = IF req[p].match THEN [used EXCEPT ![p][q] = @ \cup {edition}]
                                                      ELSE used
                           /\ Ok(p, 0, 0)
     /\ UNCHANGED <<org, owner, role, file>>

----------------------------------------------------------------------------
\* The tenant graph grows in active organizations only.
CreateOrganization(o) ==
  /\ org[o] = None
  /\ org' = [org EXCEPT ![o] = "ACTIVE"]
  /\ UNCHANGED <<owner, role, rows, file, cache, req, used>>

CreateMembership(o, u, r) ==
  /\ org[o] = "ACTIVE"
  /\ role[<<o, u>>] = None
  /\ role' = [role EXCEPT ![<<o, u>>] = r]
  /\ UNCHANGED <<org, owner, rows, file, cache, req, used>>

CreateReviewQueue(q, o) ==
  /\ org[o] = "ACTIVE"
  /\ owner[q] = None
  /\ owner' = [owner EXCEPT ![q] = o]
  /\ UNCHANGED <<org, role, rows, file, cache, req, used>>

\* The list is ordered by creation time and id: a case may be stamped in the
\* second of an earlier one, or by a clock that is behind.
RegisterCase(q, c) ==
  /\ owner[q] # None /\ org[owner[q]] = "ACTIVE"
  /\ Index(q, c) = {}
  /\ \E i \in 1..Len(rows[q]) + 1 :
       rows' = [rows EXCEPT ![q] = InsertAt(@, i, [case |-> c, by |-> None, version |-> 1])]
  /\ UNCHANGED <<org, owner, role, file, cache, req, used>>

\* No command of the repository does these; an operator may.
SetOrganizationStatus(o) ==
  /\ org[o] # None
  /\ org' = [org EXCEPT ![o] = IF @ = "ACTIVE" THEN "SUSPENDED" ELSE "ACTIVE"]
  /\ UNCHANGED <<owner, role, rows, file, cache, req, used>>

RemoveMembership(o, u) ==
  /\ role[<<o, u>>] # None
  /\ role' = [role EXCEPT ![<<o, u>>] = None]
  /\ UNCHANGED <<org, owner, rows, file, cache, req, used>>

EditConfig(e) ==
  /\ e # file
  /\ file' = e
  /\ UNCHANGED <<org, owner, role, rows, cache, req, used>>

\* A restarted process has lost its request and its cache.
Restart(p) ==
  /\ req' = [req EXCEPT ![p] = NoRequest]
  /\ cache' = [cache EXCEPT ![p] = [q \in Queue |-> 0]]
  /\ used' = [used EXCEPT ![p] = [q \in Queue |-> {}]]
  /\ UNCHANGED <<org, owner, role, rows, file>>

Serve(p) ==
  \/ Admit(p) \/ Done(p)
  \/ ReadOrganization(p) \/ ReadQueue(p) \/ ReadMembership(p)
  \/ CountCases(p) \/ ListCases(p) \/ GetCase(p) \/ ListHistory(p) \/ Resolve(p)
  \/ StorageFails(p) \/ StorageCorrupt(p)

Step ==
  \/ \E p \in Process, op \in Operations, o \in Org, q \in Queue, u \in User \cup {None},
        t \in BOOLEAN : Arrive(p, op, o, q, u, t)
  \/ \E p \in Process : Serve(p) \/ Restart(p)
  \/ \E o \in Org : CreateOrganization(o) \/ SetOrganizationStatus(o)
  \/ \E o \in Org, u \in User : RemoveMembership(o, u) \/ \E r \in Roles : CreateMembership(o, u, r)
  \/ \E q \in Queue : \/ \E o \in Org : CreateReviewQueue(q, o)
                      \/ \E c \in Case : RegisterCase(q, c)
  \/ \E e \in 0..MaxConfig : EditConfig(e)

\* The facts a request may rely on, as they are now.
Facts(p) == {f \in {"active", "owned", "member", "reviewer"} :
  \/ f = "active" /\ org[req[p].org] = "ACTIVE"
  \/ f = "owned" /\ owner[req[p].queue] = req[p].org
  \/ f = "member" /\ req[p].user # None /\ role[<<req[p].org, req[p].user>>] # None
  \/ f = "reviewer" /\ req[p].user # None /\ role[<<req[p].org, req[p].user>>] = "REVIEWER"}
Observe == saw' = [p \in Process |->
  IF (~Idling(p))' THEN (IF Idling(p) \/ At(p, "admit") THEN {} ELSE saw[p]) \cup Facts(p)'
  ELSE IF (At(p, "answered"))' THEN saw[p] ELSE {}]

Next == Step /\ Observe

Spec == Init /\ [][Next]_vars

----------------------------------------------------------------------------
\* Type invariant, with the foreign keys of the tenant graph: a queue, a
\* membership and a case exist only under an organization that exists.
TypeOK ==
  /\ org \in [Org -> {None, "ACTIVE", "SUSPENDED"}]
  /\ owner \in [Queue -> Org \cup {None}]
  /\ role \in [Org \X User -> Roles \cup {None}]
  /\ file \in 0..MaxConfig
  /\ cache \in [Process -> [Queue -> 0..MaxConfig]]
  /\ \A q \in Queue : /\ owner[q] # None => org[owner[q]] # None
                      /\ rows[q] # <<>> => owner[q] # None
                      /\ IsInjective([i \in DOMAIN rows[q] |-> rows[q][i].case])
  /\ \A m \in Org \X User : role[m] # None => org[m[1]] # None

\* Whoever is not, at any moment of the request, a member of an active
\* organization that owns the queue gets one of four answers that do not depend
\* on what exists: 401, 403 for the origin, 404 NOT_FOUND, or 500 when a read
\* failed (authorize and the handlers).
Uninformative(a) ==
  a.reply \in {Reply(401, "UNAUTHENTICATED"), Reply(404, "NOT_FOUND"), Reply(500, "INTERNAL_ERROR")}
  \/ a.error = "UntrustedOriginError"
AnswersAreForMembers ==
  \A p \in Process : At(p, "answered") /\ ~Uninformative(req[p]) => {"active", "owned", "member"} \subseteq saw[p]

\* A decision is made by a user who was, at some moment of that request,
\* a reviewer of the active organization that owns the queue.
DecidedByReviewers ==
  [][\A q \in Queue : \A i \in DOMAIN rows[q] :
       Len(rows'[q]) = Len(rows[q]) /\ rows'[q][i].by # rows[q][i].by =>
         \E p \in Process : /\ At(p, "resolve")
                            /\ req[p].user = rows'[q][i].by /\ req[p].queue = q
                            /\ {"active", "owned", "reviewer"} \subseteq saw[p]]_vars

\* One process authorizes every MATCH of a queue with one edition of the
\* config, however often the file changes meanwhile (service_for and the cache
\* of _entity_resolution_config).
ConfigIsStable == \A p \in Process, q \in Queue : Cardinality(used[p][q]) <= 1

\* The unfiltered list never withholds a row it has counted: count and page are
\* two reads, but rows are only ever added between them.
PageReachesItsTotal ==
  \A p \in Process : LET a == req[p] IN
    At(p, "answered") /\ a.op = "list" /\ a.error = None /\ ~a.pending =>
      a.offset + a.count >= Min({a.total, a.offset + Limit})
=============================================================================
