----------------------------- MODULE ServerProofs -----------------------------
(***************************************************************************)
(* What several server processes do with one store, for any number of      *)
(* processes, sessions, accounts, tenants and any policy.                  *)
(*                                                                         *)
(* Sessions.  A request reads a row, judges it later and writes it later   *)
(* still.  Its answer is right because rows only age: once there they keep *)
(* their owner and their absolute bound, activity and the idle bound never *)
(* move back, and a revoked row never changes.  So a row that passes the   *)
(* judgement was usable when it was read, and an update that finds the row *)
(* moved finds it revoked or with activity at least as recent.             *)
(*                                                                         *)
(* Logins.  A login has seen its password stored by the time of the        *)
(* verdict and remembers it; accounts never vanish, so what it found is    *)
(* still there when it writes.                                             *)
(*                                                                         *)
(* Requests.  The proofs of ReviewApi, instantiated for both parts.        *)
(*                                                                         *)
(* The parts share no variable, so each runs as if it were alone: MCSpec   *)
(* implements the specification of every part that its initial states can  *)
(* start, and what holds of the parts holds of the whole.                  *)
(***************************************************************************)
EXTENDS MCServer, TLAPS, Sequences

-----------------------------------------------------------------------------
(* Sessions *)

\* What may become of a row.
Older(row, later) ==
  /\ later # None
  /\ later.user = row.user /\ later.absolute = row.absolute
  /\ later.last >= row.last /\ later.idle >= row.idle
  /\ row.revoked # None => later = row

RowsAge == \A s \in SessionId : stored[s] # None => Older(stored[s], stored'[s])

\* A login has its session for itself until the row is there ...
Inserting(p) ==
  At(p, "insert") =>
    /\ stored[req[p].session] = None
    /\ \A q \in Process : q # p /\ ~ Waiting(q) => req[q].session # req[p].session

\* ... and every other request works on a row that is there and belongs to one user.
Working(p) ==
  ~ Waiting(p) =>
    /\ req[p].now <= clock
    /\ ~ At(p, "insert") => /\ stored[req[p].session] # None
                            /\ stored[req[p].session].user = req[p].user
    /\ req[p].at \in {"resolve", "judge", "touch", "renew", "update", "recheck", "reread"} => req[p].kind = "use"

\* The row a request has read is the stored one at an earlier time.
HasRead(p) ==
  req[p].at \in {"judge", "renew"} =>
    /\ req[p].row # None
    /\ Older(req[p].row, stored[req[p].session])

\* What the request has seen by the time it judges, updates and answers.
SeenLive(p) ==
  /\ req[p].at = "renew" /\ Usable(req[p].row, clock) => sawLive[p]
  /\ req[p].at \in {"update", "recheck", "reread", "served"} => sawLive[p]

SeenUser(p) ==
  req[p].at \in {"touch", "renew", "update", "recheck", "reread", "served"} => sawUser[p]

\* The clock reading of an update lies before the end of its session, and when the
\* update fails there is nothing left to record.
Updating(p) ==
  LET row == stored[req[p].session] IN
    /\ req[p].at \in {"update", "recheck", "reread"} => req[p].now < row.idle /\ req[p].now < row.absolute
    /\ req[p].at = "recheck" => row.revoked # None \/ row.last >= req[p].now
    /\ req[p].at \in {"reread", "served"} => row # None /\ row.last >= req[p].now

RequestInv(p) ==
  Inserting(p) /\ Working(p) /\ HasRead(p) /\ SeenLive(p) /\ SeenUser(p) /\ Updating(p)

SessionInv == TypeOK /\ IdleFollowsActivity /\ \A p \in Process : RequestInv(p)

-----------------------------------------------------------------------------
(* Rows *)

LEMMA RowsAreTyped ==
  ASSUME NEW now \in Nat
  PROVE  /\ \A u \in User : Opened(u, now) \in Row
         /\ \A row \in Row : Renewed(row, now) \in Row /\ Revoked(row, now) \in Row
<1>1. now + Idle \in Nat /\ now + Absolute \in Nat
  BY PolicyAssumption
<1>2. ASSUME NEW a \in Nat
      PROVE  IdleWindow(now, a) \in Nat
  BY <1>1 DEF IdleWindow, Earlier
<1>3. ASSUME NEW u \in User
      PROVE  Opened(u, now) \in Row
  BY <1>1, <1>2 DEF Opened, Row
<1>4. ASSUME NEW row \in Row
      PROVE  Renewed(row, now) \in Row
  BY <1>2 DEF Renewed, Row
<1>5. ASSUME NEW row \in Row
      PROVE  Revoked(row, now) \in Row
  BY DEF Revoked, Row
<1> QED
  BY <1>3, <1>4, <1>5

\* Every row is what its last activity makes it.
Follows(row) ==
  /\ row.idle <= row.absolute /\ row.idle <= row.last + Idle
  /\ row.idle \in {row.absolute, row.last + Idle}
  /\ row.last <= clock /\ row.last < row.absolute

LEMMA OpenedFollows ==
  ASSUME clock \in Nat, NEW u \in User, NEW now \in Nat, now <= clock
  PROVE  Follows(Opened(u, now))
  BY PolicyAssumption DEF Follows, Opened, IdleWindow, Earlier

LEMMA RenewedFollows ==
  ASSUME clock \in Nat, NEW row \in Row, NEW now \in Nat, now <= clock, Follows(row),
         Renewable(row, now)
  PROVE  Follows(Renewed(row, now)) /\ Older(row, Renewed(row, now))
<1>1. row.last \in Nat /\ row.idle \in Nat /\ row.absolute \in Nat
  BY DEF Row
<1>2. /\ Renewed(row, now).last = now
      /\ Renewed(row, now).idle = IdleWindow(now, row.absolute)
      /\ Renewed(row, now).absolute = row.absolute
      /\ Renewed(row, now).user = row.user
  BY DEF Renewed, Row
<1>3. Follows(Renewed(row, now))
  BY <1>1, <1>2, PolicyAssumption DEF Follows, Renewable, IdleWindow, Earlier
<1>4. Renewed(row, now).idle >= row.idle
  BY <1>1, <1>2, PolicyAssumption DEF Follows, Renewable, IdleWindow, Earlier
<1>5. Renewed(row, now) # None
  BY RowsAreTyped, NoneAssumption
<1> QED
  BY <1>1, <1>2, <1>3, <1>4, <1>5 DEF Older, Renewable

LEMMA RevokedFollows ==
  ASSUME NEW row \in Row, NEW now \in Nat, Follows(row)
  PROVE  Follows(Revoked(row, now)) /\ Older(row, Revoked(row, now))
<1>1. Revoked(row, now) # None
  BY RowsAreTyped, NoneAssumption
<1>2. /\ Revoked(row, now).user = row.user /\ Revoked(row, now).last = row.last
      /\ Revoked(row, now).idle = row.idle /\ Revoked(row, now).absolute = row.absolute
      /\ row.revoked # None => Revoked(row, now) = row
  BY DEF Revoked, Row
<1> QED
  BY <1>1, <1>2 DEF Follows, Older, Row

LEMMA OlderIsOrder ==
  ASSUME NEW r \in Row, NEW s \in Row, NEW t \in Row
  PROVE  /\ Older(r, r)
         /\ Older(r, s) /\ Older(s, t) => Older(r, t)
  BY NoneAssumption DEF Older, Row

-----------------------------------------------------------------------------
(* Requests *)

Replies == Request \cup Answer \cup Refusal \cup {Ready}

LEMMA Shapes ==
  ASSUME TypeOK, NEW p \in Process
  PROVE  /\ req[p] \in Replies
         /\ ~ Waiting(p) => req[p] \in Request
         /\ req[p].at = "served" => req[p] \in Answer
<1>1. req[p] \in Replies
  BY DEF TypeOK, Replies
<1>2. CASE req[p] \in Request
  BY <1>1, <1>2 DEF Request, Steps
<1>3. CASE req[p] \in Answer
  BY <1>1, <1>3 DEF Answer, Waiting
<1>4. CASE req[p] \in Refusal
  BY <1>1, <1>4 DEF Refusal, Waiting
<1>5. CASE req[p] = Ready
  BY <1>1, <1>5 DEF Ready, Waiting
<1> QED
  BY <1>1, <1>2, <1>3, <1>4, <1>5 DEF Replies

\* What an observation keeps and what it adds.
LEMMA Observing ==
  ASSUME Observe, NEW p \in Process
  PROVE  /\ sawLive' \in [Process -> BOOLEAN] /\ sawUser' \in [Process -> BOOLEAN]
         /\ InRequest(p)' /\ InRequest(p) /\ sawLive[p] => sawLive'[p]
         /\ InRequest(p)' /\ InRequest(p) /\ sawUser[p] => sawUser'[p]
         /\ InRequest(p)' /\ LiveNow(req[p].session)' => sawLive'[p]
         /\ InRequest(p)' /\ (req[p].user \in active)' => sawUser'[p]
         /\ (req[p].at = "served")' /\ sawLive[p] => sawLive'[p]
         /\ (req[p].at = "served")' /\ sawUser[p] => sawUser'[p]
<1>1. /\ sawLive' \in [Process -> BOOLEAN]
      /\ sawLive'[p] <=> Seen(p, sawLive[p], LiveNow(req[p].session)')
  BY DEF Observe, Seen
<1>2. /\ sawUser' \in [Process -> BOOLEAN]
      /\ sawUser'[p] <=> Seen(p, sawUser[p], (req[p].user \in active)')
  BY DEF Observe, Seen
<1>3. (req[p].at = "served")' => ~ InRequest(p)'
  BY DEF InRequest, Waiting
<1> QED
  BY <1>1, <1>2, <1>3 DEF Seen

\* A process that does nothing keeps what it relies on while the rows age.
LEMMA Others ==
  ASSUME SessionInv, TypeOK', RowsAge, Observe, clock <= clock',
         NEW q \in Process, req'[q] = req[q], Inserting(q)'
  PROVE  RequestInv(q)'
<1> DEFINE s == req[q].session
<1>1. TypeOK /\ RequestInv(q) /\ clock \in Nat /\ clock' \in Nat
  BY DEF SessionInv, TypeOK
<1>2. /\ ~ Waiting(q) => req[q] \in Request /\ s \in SessionId /\ req[q].now \in Nat
      /\ req[q].at = "served" => req[q] \in Answer /\ s \in SessionId /\ req[q].now \in Nat
  BY <1>1, Shapes DEF Request, Answer
<1>3. \A t \in SessionId : stored[t] # None =>
        stored[t] \in Row /\ stored'[t] \in Row /\ Older(stored[t], stored'[t])
  BY <1>1 DEF TypeOK, RowsAge, Older
<1>4. Working(q)'
  BY <1>1, <1>2, <1>3 DEF RequestInv, Working, Waiting, At, Older
<1>5. HasRead(q)'
  <2>1. CASE req[q].at \in {"judge", "renew"}
    <3>1. ~ Waiting(q) /\ ~ At(q, "insert")
      BY <2>1 DEF Waiting, At
    <3>2. /\ req[q].row \in Row /\ stored[s] # None /\ s \in SessionId
          /\ Older(req[q].row, stored[s])
      BY <1>1, <1>2, <2>1, <3>1 DEF RequestInv, HasRead, Working, Request
    <3>3. Older(req[q].row, stored'[s])
      BY <1>3, <3>2, OlderIsOrder
    <3> QED
      BY <2>1, <3>2, <3>3, <1>1 DEF HasRead, RequestInv
  <2> QED
    BY <2>1 DEF HasRead
<1>6. InRequest(q)' <=> InRequest(q)
  BY DEF InRequest, Waiting
<1>7. /\ SeenLive(q)
      /\ SeenUser(q)
      /\ req[q].at \in {"touch", "renew", "update", "recheck", "reread"} => InRequest(q)
  BY <1>1 DEF RequestInv, Working, InRequest, Waiting
<1>8. SeenLive(q)'
  <2>1. CASE req[q].at = "renew"
    <3>1. req[q].row \in Row
      BY <1>1, <1>2, <2>1 DEF RequestInv, HasRead, Request, Waiting
    <3>2. Usable(req[q].row, clock') => Usable(req[q].row, clock)
      BY <1>1, <3>1 DEF Usable, Expired, Row
    <3> QED
      BY <1>6, <1>7, <2>1, <3>2, Observing DEF SeenLive
  <2>2. CASE req[q].at # "renew"
    BY <1>6, <1>7, <2>2, Observing DEF SeenLive
  <2> QED
    BY <2>1, <2>2
<1>9. SeenUser(q)'
  BY <1>6, <1>7, Observing DEF SeenUser
<1>10. Updating(q)'
  <2>1. CASE req[q].at \in {"update", "recheck", "reread"}
    <3>1. ~ Waiting(q) /\ ~ At(q, "insert")
      BY <2>1 DEF Waiting, At
    <3>2. s \in SessionId /\ req[q].now \in Nat /\ stored[s] # None /\ Updating(q)
      BY <1>1, <1>2, <3>1 DEF RequestInv, Working
    <3> QED
      BY <1>3, <3>2 DEF Updating, Older, Row
  <2>2. CASE req[q].at = "served"
    BY <1>1, <1>2, <1>3, <2>2 DEF RequestInv, Updating, Older, Row
  <2> QED
    BY <2>1, <2>2 DEF Updating
<1> QED
  BY <1>4, <1>5, <1>8, <1>9, <1>10 DEF RequestInv

\* Requests under way keep their claims when no login begins and no row appears.
LEMMA ClaimsKept ==
  ASSUME SessionInv, TypeOK',
         \A s \in SessionId : stored[s] = None => stored'[s] = None,
         \A q \in Process : ~ Waiting(q)' =>
           ~ Waiting(q) /\ req'[q].session = req[q].session /\ (At(q, "insert")' => At(q, "insert"))
  PROVE  \A q \in Process : Inserting(q)'
<1> SUFFICES ASSUME NEW p \in Process, At(p, "insert")'
             PROVE  /\ stored'[req'[p].session] = None
                    /\ \A q \in Process : q # p /\ ~ Waiting(q)' => req'[q].session # req'[p].session
  BY DEF Inserting
<1>1. ~ Waiting(p)' /\ ~ Waiting(p) /\ At(p, "insert") /\ req'[p].session = req[p].session
  BY DEF Waiting, At
<1>2. req[p].session \in SessionId
  BY <1>1, Shapes DEF SessionInv, Request
<1>3. Inserting(p)
  BY DEF SessionInv, RequestInv
<1> QED
  BY <1>1, <1>2, <1>3 DEF Inserting

LEMMA RowsKept ==
  ASSUME SessionInv, UNCHANGED <<clock, stored>>
  PROVE  RowsAge /\ IdleFollowsActivity'
<1>1. \A s \in SessionId : stored[s] # None => stored[s] \in Row
  BY DEF SessionInv, TypeOK
<1>2. RowsAge
  BY <1>1, OlderIsOrder DEF RowsAge
<1>3. IdleFollowsActivity'
  BY DEF SessionInv, IdleFollowsActivity
<1> QED
  BY <1>2, <1>3

\* One row becomes another that follows from it.
LEMMA OneRow ==
  ASSUME SessionInv, clock' = clock, NEW s \in SessionId, NEW row \in Row,
         stored' = [stored EXCEPT ![s] = row],
         Follows(row), stored[s] # None => Older(stored[s], row)
  PROVE  /\ RowsAge /\ IdleFollowsActivity' /\ stored' \in [SessionId -> Row \cup {None}]
         /\ stored'[s] = row /\ \A t \in SessionId : t # s => stored'[t] = stored[t]
<1>1. \A t \in SessionId : stored[t] # None => stored[t] \in Row
  BY DEF SessionInv, TypeOK
<1>2. /\ stored' \in [SessionId -> Row \cup {None}]
      /\ stored'[s] = row /\ \A t \in SessionId : t # s => stored'[t] = stored[t]
  BY DEF SessionInv, TypeOK
<1>3. RowsAge
  BY <1>1, <1>2, OlderIsOrder DEF RowsAge
<1>4. IdleFollowsActivity'
  BY <1>2 DEF SessionInv, IdleFollowsActivity, Follows
<1> QED
  BY <1>2, <1>3, <1>4

LEMMA OneRequest ==
  ASSUME SessionInv, Observe, NEW p \in Process, NEW r \in Replies, req' = [req EXCEPT ![p] = r],
         clock' = clock, active' = active, stored' \in [SessionId -> Row \cup {None}]
  PROVE  /\ TypeOK'
         /\ req'[p] = r
         /\ \A q \in Process : q # p => req'[q] = req[q]
<1>1. req' \in [Process -> Replies] /\ req'[p] = r /\ \A q \in Process : q # p => req'[q] = req[q]
  BY DEF SessionInv, TypeOK, Replies
<1>2. sawLive' \in [Process -> BOOLEAN] /\ sawUser' \in [Process -> BOOLEAN]
  BY Observing
<1> QED
  BY <1>1, <1>2 DEF SessionInv, TypeOK, Replies

\* A process works on: it keeps its session, and the rows age.
LEMMA ProcessSteps ==
  ASSUME SessionInv, Observe, NEW p \in Process, NEW r \in Replies, req' = [req EXCEPT ![p] = r],
         UNCHANGED <<clock, active>>, stored' \in [SessionId -> Row \cup {None}],
         RowsAge, IdleFollowsActivity', \A s \in SessionId : stored[s] = None => stored'[s] = None,
         ~ Waiting(p),
         r.at \in {"ready", "served", "refused"} \/ (r.at # "insert" /\ r.session = req[p].session),
         Working(p)', HasRead(p)', SeenLive(p)', SeenUser(p)', Updating(p)'
  PROVE  SessionInv'
<1>1. /\ TypeOK' /\ req'[p] = r
      /\ \A q \in Process : q # p => req'[q] = req[q]
  BY OneRequest
<1>2. \A q \in Process : Inserting(q)'
  <2> SUFFICES ASSUME NEW q \in Process, ~ Waiting(q)'
               PROVE  ~ Waiting(q) /\ req'[q].session = req[q].session /\ (At(q, "insert")' => At(q, "insert"))
    BY <1>1, ClaimsKept
  <2>1. CASE q = p
    BY <1>1, <2>1 DEF Waiting, At
  <2>2. CASE q # p
    BY <1>1, <2>2 DEF Waiting, At
  <2> QED
    BY <2>1, <2>2
<1>3. clock <= clock'
  BY DEF SessionInv, TypeOK
<1>4. ASSUME NEW q \in Process
      PROVE  RequestInv(q)'
  <2>1. CASE q = p
    BY <1>2, <2>1 DEF RequestInv
  <2>2. CASE q # p
    BY <1>1, <1>2, <1>3, <2>2, Others
  <2> QED
    BY <2>1, <2>2
<1> QED
  BY <1>1, <1>4 DEF SessionInv

\* The same with the rows as they are.
LEMMA ReadingSteps ==
  ASSUME SessionInv, Observe, NEW p \in Process, NEW r \in Replies, req' = [req EXCEPT ![p] = r],
         UNCHANGED <<clock, stored, active>>, ~ Waiting(p),
         r.at \in {"ready", "served", "refused"} \/ (r.at # "insert" /\ r.session = req[p].session),
         Working(p)', HasRead(p)', SeenLive(p)', SeenUser(p)', Updating(p)'
  PROVE  SessionInv' /\ RowsAge
<1>1. RowsAge /\ IdleFollowsActivity' /\ stored' \in [SessionId -> Row \cup {None}]
  BY RowsKept DEF SessionInv, TypeOK
<1> QED
  BY <1>1, ProcessSteps

\* Of a process that waits or was refused nothing more is asked.
LEMMA Refusals ==
  ASSUME NEW p \in Process, req'[p].at \in {"ready", "refused"}
  PROVE  Working(p)' /\ HasRead(p)' /\ SeenLive(p)' /\ SeenUser(p)' /\ Updating(p)'
  BY DEF Working, HasRead, SeenLive, SeenUser, Updating, Waiting, At

LEMMA Refusing ==
  ASSUME SessionInv, Observe, NEW p \in Process, ~ Waiting(p), Refuse(p),
         UNCHANGED <<clock, stored, active>>
  PROVE  SessionInv' /\ RowsAge
<1> DEFINE r == [at |-> "refused"]
<1>1. r \in Replies /\ req' = [req EXCEPT ![p] = r] /\ r.at = "refused"
  BY DEF Replies, Refusal, Refuse
<1>2. req'[p] = r
  BY <1>1, OneRequest DEF SessionInv, TypeOK
<1> QED
  BY <1>1, <1>2, Refusals, ReadingSteps

\* What a request in progress relies on.
LEMMA InProgress ==
  ASSUME SessionInv, NEW p \in Process, ~ Waiting(p), ~ At(p, "insert")
  PROVE  /\ req[p] \in Request
         /\ req[p].session \in SessionId /\ stored[req[p].session] \in Row
         /\ req[p].now \in Nat /\ req[p].now <= clock /\ clock \in Nat
         /\ stored[req[p].session].user = req[p].user
         /\ RequestInv(p)
<1>1. req[p] \in Request /\ RequestInv(p) /\ clock \in Nat
  BY Shapes DEF SessionInv, TypeOK
<1> QED
  BY <1>1 DEF SessionInv, TypeOK, RequestInv, Working, Request

-----------------------------------------------------------------------------
(* The steps *)

LEMMA ResolveLookupStep ==
  ASSUME SessionInv, Observe, NEW p \in Process, ResolveLookup(p)
  PROVE  SessionInv' /\ RowsAge
<1> DEFINE s == req[p].session
           r == [req[p] EXCEPT !.row = stored[s], !.at = "judge"]
<1>1. ~ Waiting(p) /\ ~ At(p, "insert") /\ req[p].at = "resolve"
  BY DEF ResolveLookup, At, Waiting
<1>2. req[p] \in Request /\ s \in SessionId /\ stored[s] \in Row /\ RequestInv(p)
  BY <1>1, InProgress
<1>3. /\ r \in Request /\ req' = [req EXCEPT ![p] = r] /\ r.at = "judge" /\ r.row = stored[s]
      /\ r.session = s /\ r.now = req[p].now /\ r.user = req[p].user /\ r.kind = req[p].kind
  BY <1>2 DEF ResolveLookup, Read, Request, Steps
<1>4. req'[p] = r /\ UNCHANGED <<clock, stored, active>>
  BY <1>3, OneRequest DEF ResolveLookup, SessionInv, TypeOK, Replies
<1>5. Older(stored[s], stored[s]) /\ stored[s] # None
  BY <1>2, OlderIsOrder, NoneAssumption
<1> HIDE DEF r
<1>6. Working(p)' /\ HasRead(p)' /\ SeenLive(p)' /\ SeenUser(p)' /\ Updating(p)'
  BY <1>1, <1>2, <1>3, <1>4, <1>5 DEF RequestInv, Working, HasRead, SeenLive, SeenUser, Updating,
     Waiting, At
<1> QED
  BY <1>1, <1>3, <1>4, <1>6, ReadingSteps DEF Replies

LEMMA ResolveJudgeStep ==
  ASSUME SessionInv, Observe, NEW p \in Process, ResolveJudge(p)
  PROVE  SessionInv' /\ RowsAge
<1> DEFINE r == [req[p] EXCEPT !.at = "touch"]
<1>1. ~ Waiting(p) /\ ~ At(p, "insert") /\ req[p].at = "judge"
  BY DEF ResolveJudge, At, Waiting
<1>2. CASE Refuse(p)
  BY <1>1, <1>2, Refusing DEF ResolveJudge
<1>3. CASE Goto(p, "touch") /\ req[p].row.user \in active
  <2>1. req[p] \in Request /\ stored[req[p].session].user = req[p].user /\ RequestInv(p)
    BY <1>1, InProgress
  <2>2. req[p].user \in active
    BY <1>1, <1>3, <2>1 DEF RequestInv, HasRead, Older
  <2>3. /\ r \in Request /\ req' = [req EXCEPT ![p] = r] /\ r.at = "touch" /\ r.row = req[p].row
        /\ r.session = req[p].session /\ r.now = req[p].now /\ r.user = req[p].user /\ r.kind = req[p].kind
    BY <1>3, <2>1 DEF Goto, Request, Steps
  <2>4. req'[p] = r /\ UNCHANGED <<clock, stored, active>>
    BY <2>3, OneRequest DEF ResolveJudge, SessionInv, TypeOK, Replies
  <2> HIDE DEF r
  <2>5. InRequest(p)' /\ (req[p].user \in active)'
    BY <1>1, <2>1, <2>2, <2>3, <2>4 DEF RequestInv, Working, InRequest, Waiting
  <2>6. sawUser'[p]
    BY <2>5, Observing
  <2>7. Working(p)' /\ HasRead(p)' /\ SeenLive(p)' /\ SeenUser(p)' /\ Updating(p)'
    BY <1>1, <2>1, <2>3, <2>4, <2>6 DEF RequestInv, Working, HasRead, SeenLive, SeenUser, Updating,
       Waiting, At
  <2> QED
    BY <1>1, <2>3, <2>4, <2>7, ReadingSteps DEF Replies
<1> QED
  BY <1>2, <1>3 DEF ResolveJudge

LEMMA TouchLookupStep ==
  ASSUME SessionInv, Observe, NEW p \in Process, TouchLookup(p)
  PROVE  SessionInv' /\ RowsAge
<1> DEFINE s == req[p].session
           r == [req[p] EXCEPT !.row = stored[s], !.at = "renew"]
<1>1. ~ Waiting(p) /\ ~ At(p, "insert") /\ req[p].at = "touch"
  BY DEF TouchLookup, At, Waiting
<1>2. req[p] \in Request /\ s \in SessionId /\ stored[s] \in Row /\ RequestInv(p) /\ clock \in Nat
  BY <1>1, InProgress
<1>3. /\ r \in Request /\ req' = [req EXCEPT ![p] = r] /\ r.at = "renew" /\ r.row = stored[s]
      /\ r.session = s /\ r.now = req[p].now /\ r.user = req[p].user /\ r.kind = req[p].kind
  BY <1>2 DEF TouchLookup, Read, Request, Steps
<1>4. req'[p] = r /\ UNCHANGED <<clock, stored, active>>
  BY <1>3, OneRequest DEF TouchLookup, SessionInv, TypeOK, Replies
<1>5. Older(stored[s], stored[s]) /\ stored[s] # None
  BY <1>2, OlderIsOrder, NoneAssumption
<1> HIDE DEF r
<1>6. InRequest(p) /\ InRequest(p)'
  BY <1>1, <1>2, <1>3, <1>4 DEF RequestInv, Working, InRequest, Waiting
<1>7. sawUser'[p]
  BY <1>1, <1>2, <1>6, Observing DEF RequestInv, SeenUser
<1>8. Usable(r.row, clock) => LiveNow(req[p].session)'
  BY <1>2, <1>3, <1>4, <1>5 DEF Usable, Expired, LiveNow, Row
<1>9. SeenLive(p)'
  BY <1>3, <1>4, <1>6, <1>8, Observing DEF SeenLive
<1>10. Working(p)' /\ HasRead(p)' /\ SeenUser(p)' /\ Updating(p)'
  BY <1>1, <1>2, <1>3, <1>4, <1>5, <1>7 DEF RequestInv, Working, HasRead, SeenUser, Updating,
     Waiting, At
<1> QED
  BY <1>1, <1>3, <1>4, <1>9, <1>10, ReadingSteps DEF Replies

LEMMA TouchJudgeStep ==
  ASSUME SessionInv, Observe, NEW p \in Process, TouchJudge(p)
  PROVE  SessionInv' /\ RowsAge
<1> DEFINE s == req[p].session
           r == [req[p] EXCEPT !.now = clock, !.at = "update"]
<1>1. ~ Waiting(p) /\ ~ At(p, "insert") /\ req[p].at = "renew"
  BY DEF TouchJudge, At, Waiting
<1>2. CASE Refuse(p)
  BY <1>1, <1>2, Refusing DEF TouchJudge
<1>3. CASE Usable(req[p].row, clock) /\ Judge(p, clock, "update")
  <2>1. req[p] \in Request /\ s \in SessionId /\ stored[s] \in Row /\ RequestInv(p) /\ clock \in Nat
    BY <1>1, InProgress
  <2>2. /\ r \in Request /\ req' = [req EXCEPT ![p] = r] /\ r.at = "update" /\ r.now = clock
        /\ r.session = s /\ r.user = req[p].user /\ r.kind = req[p].kind
    BY <1>3, <2>1 DEF Judge, Request, Steps
  <2>3. req'[p] = r /\ UNCHANGED <<clock, stored, active>>
    BY <2>2, OneRequest DEF TouchJudge, SessionInv, TypeOK, Replies
  <2>4. req[p].row \in Row /\ Older(req[p].row, stored[s])
    BY <1>1, <2>1 DEF RequestInv, HasRead, Request
  <2>5. clock < stored[s].idle /\ clock < stored[s].absolute
    BY <1>3, <2>1, <2>4 DEF Usable, Expired, Older, Row
  <2> HIDE DEF r
  <2>6. InRequest(p) /\ InRequest(p)'
    BY <1>1, <2>1, <2>2, <2>3 DEF RequestInv, Working, InRequest, Waiting
  <2>7. sawLive'[p] /\ sawUser'[p]
    BY <1>1, <1>3, <2>1, <2>6, Observing DEF RequestInv, SeenLive, SeenUser
  <2>8. Working(p)' /\ HasRead(p)' /\ SeenLive(p)' /\ SeenUser(p)' /\ Updating(p)'
    BY <1>1, <2>1, <2>2, <2>3, <2>5, <2>7 DEF RequestInv, Working, HasRead, SeenLive, SeenUser,
       Updating, Waiting, At
  <2> QED
    BY <1>1, <2>2, <2>3, <2>8, ReadingSteps DEF Replies
<1> QED
  BY <1>2, <1>3 DEF TouchJudge

LEMMA TouchUpdateStep ==
  ASSUME SessionInv, Observe, NEW p \in Process, TouchUpdate(p)
  PROVE  SessionInv' /\ RowsAge
<1> DEFINE s == req[p].session
           new == Renewed(stored[s], req[p].now)
<1>1. ~ Waiting(p) /\ ~ At(p, "insert") /\ req[p].at = "update" /\ UNCHANGED <<clock, active>>
  BY DEF TouchUpdate, At, Waiting
<1>2. /\ req[p] \in Request /\ s \in SessionId /\ stored[s] \in Row /\ stored[s] # None /\ RequestInv(p)
      /\ clock \in Nat /\ req[p].now \in Nat /\ req[p].now <= clock
  BY <1>1, InProgress, NoneAssumption
<1>3. InRequest(p) /\ sawLive[p] /\ sawUser[p]
  BY <1>1, <1>2 DEF RequestInv, Working, InRequest, SeenLive, SeenUser
<1>4. CASE Renewable(stored[s], req[p].now)
  <2> DEFINE r == [at |-> "served", session |-> s, row |-> new, now |-> req[p].now]
  <2>1. stored' = [stored EXCEPT ![s] = new] /\ req' = [req EXCEPT ![p] = r]
    BY <1>4 DEF TouchUpdate, Serve
  <2>2. Follows(stored[s])
    BY <1>2 DEF SessionInv, IdleFollowsActivity, Follows
  <2>3. new \in Row /\ Follows(new) /\ Older(stored[s], new)
    BY <1>2, <1>4, <2>2, RowsAreTyped, RenewedFollows
  <2>4. new.last = req[p].now /\ new # None
    BY <1>2, <2>3, NoneAssumption DEF Renewed, Row
  <2> HIDE DEF new
  <2>5. /\ RowsAge /\ IdleFollowsActivity' /\ stored' \in [SessionId -> Row \cup {None}]
        /\ stored'[s] = new /\ \A t \in SessionId : t # s => stored'[t] = stored[t]
    BY <1>1, <1>2, <2>1, <2>3, OneRow
  <2>6. r \in Replies /\ r.at = "served" /\ r.session = s /\ r.now = req[p].now
    BY <1>2, <2>3 DEF Replies, Answer
  <2> HIDE DEF r
  <2>7. req'[p] = r
    BY <1>1, <2>1, <2>5, <2>6, OneRequest
  <2>8. sawLive'[p] /\ sawUser'[p]
    BY <1>3, <2>6, <2>7, Observing
  <2>9. Working(p)' /\ HasRead(p)' /\ SeenLive(p)' /\ SeenUser(p)' /\ Updating(p)'
    BY <1>2, <2>4, <2>5, <2>6, <2>7, <2>8 DEF Working, HasRead, SeenLive, SeenUser, Updating,
       Waiting, At
  <2>10. \A t \in SessionId : stored[t] = None => stored'[t] = None
    BY <1>2, <2>5
  <2> QED
    BY <1>1, <2>1, <2>5, <2>6, <2>9, <2>10, ProcessSteps
<1>5. CASE ~ Renewable(stored[s], req[p].now)
  <2> DEFINE r == [req[p] EXCEPT !.at = "recheck"]
  <2>1. /\ r \in Request /\ req' = [req EXCEPT ![p] = r] /\ r.at = "recheck" /\ r.now = req[p].now
        /\ r.session = s /\ r.user = req[p].user /\ r.kind = req[p].kind /\ stored' = stored
    BY <1>2, <1>5 DEF TouchUpdate, Goto, Request, Steps
  <2>2. req'[p] = r
    BY <1>1, <2>1, OneRequest DEF SessionInv, TypeOK, Replies
  <2>3. req[p].now < stored[s].idle /\ req[p].now < stored[s].absolute
    BY <1>1, <1>2 DEF RequestInv, Updating
  <2>4. stored[s].revoked # None \/ stored[s].last >= req[p].now
    BY <1>2, <1>5, <2>3 DEF Renewable, Row
  <2> HIDE DEF r
  <2>5. InRequest(p)'
    BY <1>1, <1>3, <2>1, <2>2 DEF InRequest, Waiting
  <2>6. sawLive'[p] /\ sawUser'[p]
    BY <1>3, <2>5, Observing
  <2>7. Working(p)' /\ HasRead(p)' /\ SeenLive(p)' /\ SeenUser(p)' /\ Updating(p)'
    BY <1>1, <1>2, <2>1, <2>2, <2>3, <2>4, <2>6 DEF RequestInv, Working, HasRead, SeenLive,
       SeenUser, Updating, Waiting, At
  <2> QED
    BY <1>1, <2>1, <2>2, <2>7, ReadingSteps DEF Replies
<1> QED
  BY <1>4, <1>5

LEMMA TouchRecheckStep ==
  ASSUME SessionInv, Observe, NEW p \in Process, TouchRecheck(p)
  PROVE  SessionInv' /\ RowsAge
<1> DEFINE s == req[p].session
           r == [req[p] EXCEPT !.at = "reread"]
<1>1. ~ Waiting(p) /\ ~ At(p, "insert") /\ req[p].at = "recheck" /\ UNCHANGED <<clock, stored, active>>
  BY DEF TouchRecheck, At, Waiting
<1>2. CASE Refuse(p)
  BY <1>1, <1>2, Refusing
<1>3. CASE Usable(stored[s], req[p].now) /\ Goto(p, "reread")
  <2>1. /\ req[p] \in Request /\ s \in SessionId /\ stored[s] \in Row /\ stored[s] # None /\ RequestInv(p)
        /\ clock \in Nat
    BY <1>1, InProgress, NoneAssumption
  <2>2. /\ r \in Request /\ req' = [req EXCEPT ![p] = r] /\ r.at = "reread" /\ r.now = req[p].now
        /\ r.session = s /\ r.user = req[p].user /\ r.kind = req[p].kind
    BY <1>3, <2>1 DEF Goto, Request, Steps
  <2>3. req'[p] = r
    BY <1>1, <2>2, OneRequest DEF SessionInv, TypeOK, Replies
  <2>4. stored[s].last >= req[p].now
    BY <1>1, <1>3, <2>1 DEF RequestInv, Updating, Usable
  <2> HIDE DEF r
  <2>5. InRequest(p) /\ InRequest(p)'
    BY <1>1, <2>1, <2>2, <2>3 DEF RequestInv, Working, InRequest, Waiting
  <2>6. sawLive'[p] /\ sawUser'[p]
    BY <1>1, <2>1, <2>5, Observing DEF RequestInv, SeenLive, SeenUser
  <2>7. Working(p)' /\ HasRead(p)' /\ SeenLive(p)' /\ SeenUser(p)' /\ Updating(p)'
    BY <1>1, <2>1, <2>2, <2>3, <2>4, <2>6 DEF RequestInv, Working, HasRead, SeenLive, SeenUser,
       Updating, Waiting, At
  <2> QED
    BY <1>1, <2>2, <2>3, <2>7, ReadingSteps DEF Replies
<1> QED
  BY <1>2, <1>3 DEF TouchRecheck

LEMMA TouchRereadStep ==
  ASSUME SessionInv, Observe, NEW p \in Process, TouchReread(p)
  PROVE  SessionInv' /\ RowsAge
<1> DEFINE s == req[p].session
           r == [at |-> "served", session |-> s, row |-> stored[s], now |-> req[p].now]
<1>1. ~ Waiting(p) /\ ~ At(p, "insert") /\ req[p].at = "reread" /\ UNCHANGED <<clock, stored, active>>
  BY DEF TouchReread, At, Waiting
<1>2. /\ req[p] \in Request /\ s \in SessionId /\ stored[s] \in Row /\ RequestInv(p)
      /\ req[p].now \in Nat
  BY <1>1, InProgress
<1>3. r \in Replies /\ req' = [req EXCEPT ![p] = r] /\ r.at = "served" /\ r.session = s /\ r.now = req[p].now
  BY <1>2 DEF TouchReread, Serve, Replies, Answer
<1> HIDE DEF r
<1>4. req'[p] = r
  BY <1>1, <1>3, OneRequest DEF SessionInv, TypeOK
<1>5. sawLive'[p] /\ sawUser'[p]
  BY <1>1, <1>2, <1>3, <1>4, Observing DEF RequestInv, SeenLive, SeenUser
<1>6. Working(p)' /\ HasRead(p)' /\ SeenLive(p)' /\ SeenUser(p)' /\ Updating(p)'
  BY <1>1, <1>2, <1>3, <1>4, <1>5 DEF RequestInv, Working, HasRead, SeenLive, SeenUser, Updating,
     Waiting, At
<1> QED
  BY <1>1, <1>3, <1>4, <1>6, ReadingSteps

LEMMA RevokeLookupStep ==
  ASSUME SessionInv, Observe, NEW p \in Process, RevokeLookup(p)
  PROVE  SessionInv' /\ RowsAge
<1> DEFINE r == [req[p] EXCEPT !.now = clock, !.at = "mark"]
<1>1. ~ Waiting(p) /\ ~ At(p, "insert") /\ UNCHANGED <<clock, stored, active>>
  BY DEF RevokeLookup, At, Waiting
<1>2. req[p] \in Request /\ RequestInv(p) /\ clock \in Nat
  BY <1>1, InProgress
<1>3. /\ r \in Request /\ req' = [req EXCEPT ![p] = r] /\ r.at = "mark" /\ r.now = clock
      /\ r.session = req[p].session /\ r.user = req[p].user
  BY <1>2 DEF RevokeLookup, Request, Steps
<1> HIDE DEF r
<1>4. req'[p] = r
  BY <1>1, <1>3, OneRequest DEF SessionInv, TypeOK, Replies
<1>5. Working(p)' /\ HasRead(p)' /\ SeenLive(p)' /\ SeenUser(p)' /\ Updating(p)'
  BY <1>1, <1>2, <1>3, <1>4 DEF RequestInv, Working, HasRead, SeenLive, SeenUser, Updating,
     Waiting, At
<1> QED
  BY <1>1, <1>3, <1>4, <1>5, ReadingSteps DEF Replies

LEMMA RevokeUpdateStep ==
  ASSUME SessionInv, Observe, NEW p \in Process, RevokeUpdate(p)
  PROVE  SessionInv' /\ RowsAge
<1> DEFINE s == req[p].session
           new == Revoked(stored[s], req[p].now)
<1>1. ~ Waiting(p) /\ ~ At(p, "insert") /\ UNCHANGED <<clock, active>>
  BY DEF RevokeUpdate, At, Waiting
<1>2. s \in SessionId /\ stored[s] \in Row /\ stored[s] # None /\ req[p].now \in Nat
  BY <1>1, InProgress, NoneAssumption
<1>3. stored' = [stored EXCEPT ![s] = new] /\ req' = [req EXCEPT ![p] = Ready]
  BY DEF RevokeUpdate, Finish
<1>4. Follows(stored[s])
  BY <1>2 DEF SessionInv, IdleFollowsActivity, Follows
<1>5. new \in Row /\ Follows(new) /\ Older(stored[s], new)
  BY <1>2, <1>4, RowsAreTyped, RevokedFollows
<1> HIDE DEF new
<1>6. /\ RowsAge /\ IdleFollowsActivity' /\ stored' \in [SessionId -> Row \cup {None}]
      /\ \A t \in SessionId : t # s => stored'[t] = stored[t]
  BY <1>1, <1>2, <1>3, <1>5, OneRow
<1>7. Ready \in Replies /\ Ready.at = "ready"
  BY DEF Replies, Ready
<1>8. req'[p] = Ready
  BY <1>1, <1>3, <1>6, <1>7, OneRequest
<1>9. \A t \in SessionId : stored[t] = None => stored'[t] = None
  BY <1>2, <1>6
<1> QED
  BY <1>1, <1>3, <1>6, <1>7, <1>8, <1>9, Refusals, ProcessSteps

\* A request that arrives, or a login that begins, claims no session of another login.
LEMMA Arrivals ==
  ASSUME SessionInv, Observe, NEW p \in Process, Waiting(p), NEW r \in Request,
         req' = [req EXCEPT ![p] = r], UNCHANGED <<clock, stored, active>>,
         r.at \in {"insert", "resolve", "revoke"}, r.now = clock,
         r.at = "resolve" => r.kind = "use",
         r.at # "insert" => stored[r.session] # None /\ stored[r.session].user = r.user,
         r.at = "insert" => /\ stored[r.session] = None
                            /\ \A q \in Process : ~ Waiting(q) => req[q].session # r.session
  PROVE  SessionInv' /\ RowsAge
<1>1. /\ RowsAge /\ IdleFollowsActivity' /\ TypeOK' /\ req'[p] = r
      /\ \A q \in Process : q # p => req'[q] = req[q]
  BY RowsKept, OneRequest DEF SessionInv, TypeOK, Replies
<1>2. r.session \in SessionId /\ clock \in Nat
  BY DEF Request, SessionInv, TypeOK
<1>3. \A q \in Process : Inserting(q)'
  <2> SUFFICES ASSUME NEW q \in Process, At(q, "insert")',
                      NEW o \in Process, o # q, ~ Waiting(o)'
               PROVE  stored[req'[q].session] = None /\ req'[o].session # req'[q].session
    <3>1. ASSUME NEW q \in Process, At(q, "insert")'
          PROVE  stored'[req'[q].session] = None
      <4>1. CASE q = p
        BY <1>1, <3>1, <4>1 DEF At
      <4>2. CASE q # p
        BY <1>1, <3>1, <4>2 DEF At, SessionInv, RequestInv, Inserting
      <4> QED
        BY <4>1, <4>2
    <3> QED
      BY <3>1 DEF Inserting
  <2>1. CASE q = p
    BY <1>1, <2>1 DEF At, Waiting
  <2>2. CASE q # p /\ o = p
    <3>1. stored[req[q].session] = None /\ ~ Waiting(q) /\ req'[q] = req[q] /\ req'[o] = r
      BY <1>1, <2>2 DEF At, Waiting, SessionInv, RequestInv, Inserting
    <3> QED
      BY <3>1
  <2>3. CASE q # p /\ o # p
    BY <1>1, <2>3 DEF At, Waiting, SessionInv, RequestInv, Inserting
  <2> QED
    BY <2>1, <2>2, <2>3
<1>4. Working(p)' /\ HasRead(p)' /\ SeenLive(p)' /\ SeenUser(p)' /\ Updating(p)'
  BY <1>1, <1>2 DEF Working, HasRead, SeenLive, SeenUser, Updating, Waiting, At
<1>5. ASSUME NEW q \in Process
      PROVE  RequestInv(q)'
  <2>1. CASE q = p
    BY <1>3, <1>4, <2>1 DEF RequestInv
  <2>2. CASE q # p
    BY <1>1, <1>2, <1>3, <2>2, Others
  <2> QED
    BY <2>1, <2>2
<1> QED
  BY <1>1, <1>5 DEF SessionInv

LEMMA ArriveStep ==
  ASSUME SessionInv, Observe, NEW p \in Process, NEW s \in SessionId, NEW kind \in {"use", "logout"},
         Arrive(p, s, kind)
  PROVE  SessionInv' /\ RowsAge
<1> DEFINE r == [at |-> IF kind = "logout" THEN "revoke" ELSE "resolve", session |-> s,
                 user |-> stored[s].user, row |-> None, now |-> clock, kind |-> kind]
<1>1. stored[s] \in Row /\ clock \in Nat /\ stored[s] # None
  BY DEF Arrive, SessionInv, TypeOK
<1>2. r \in Request
  BY <1>1 DEF Request, Steps, Row
<1> QED
  BY <1>1, <1>2, Arrivals DEF Arrive

LEMMA BeginSessionStep ==
  ASSUME SessionInv, Observe, NEW p \in Process, NEW u \in User, BeginSession(p, u)
  PROVE  SessionInv' /\ RowsAge
<1>1. PICK s \in SessionId :
        /\ stored[s] = None
        /\ \A q \in Process : ~ Waiting(q) => req[q].session # s
        /\ req' = [req EXCEPT ![p] = [at |-> "insert", session |-> s, user |-> u, row |-> None,
                                      now |-> clock, kind |-> "login"]]
  BY DEF BeginSession
<1> DEFINE r == [at |-> "insert", session |-> s, user |-> u, row |-> None, now |-> clock, kind |-> "login"]
<1>2. /\ r \in Request /\ req' = [req EXCEPT ![p] = r]
      /\ r.at = "insert" /\ r.now = clock /\ r.session = s
  BY <1>1 DEF Request, Steps, SessionInv, TypeOK
<1> HIDE DEF r
<1>3. Waiting(p) /\ UNCHANGED <<clock, stored, active>>
  BY DEF BeginSession
<1> QED
  BY <1>1, <1>2, <1>3, Arrivals

LEMMA InsertSessionStep ==
  ASSUME SessionInv, Observe, NEW p \in Process, InsertSession(p)
  PROVE  SessionInv' /\ RowsAge
<1> DEFINE s == req[p].session
           new == Opened(req[p].user, req[p].now)
<1>1. /\ At(p, "insert") /\ ~ Waiting(p) /\ UNCHANGED <<clock, active>>
      /\ stored' = [stored EXCEPT ![s] = new] /\ req' = [req EXCEPT ![p] = Ready]
  BY DEF InsertSession, At, Waiting, Finish
<1>2. /\ req[p] \in Request /\ s \in SessionId /\ req[p].user \in User /\ req[p].now \in Nat
      /\ stored[s] = None /\ req[p].now <= clock /\ clock \in Nat
  BY <1>1, Shapes DEF SessionInv, RequestInv, Inserting, Working, Request, TypeOK
<1>3. new \in Row /\ Follows(new)
  BY <1>2, RowsAreTyped, OpenedFollows
<1> HIDE DEF new
<1>4. /\ RowsAge /\ IdleFollowsActivity' /\ stored' \in [SessionId -> Row \cup {None}]
      /\ stored'[s] = new /\ \A t \in SessionId : t # s => stored'[t] = stored[t]
  BY <1>1, <1>2, <1>3, OneRow
<1>5. Ready \in Replies /\ Ready.at = "ready"
  BY DEF Replies, Ready
<1>6. TypeOK' /\ req'[p] = Ready /\ \A q \in Process : q # p => req'[q] = req[q]
  BY <1>1, <1>4, <1>5, OneRequest
<1>7. \A q \in Process : Inserting(q)'
  <2> SUFFICES ASSUME NEW q \in Process, At(q, "insert")'
               PROVE  /\ stored'[req'[q].session] = None
                      /\ \A o \in Process : o # q /\ ~ Waiting(o)' => req'[o].session # req'[q].session
    BY DEF Inserting
  <2>1. q # p /\ req'[q] = req[q] /\ At(q, "insert") /\ ~ Waiting(q)
    BY <1>5, <1>6 DEF At, Waiting
  <2>2. /\ stored[req[q].session] = None /\ req[q].session \in SessionId
        /\ \A o \in Process : o # q /\ ~ Waiting(o) => req[o].session # req[q].session
    BY <2>1, Shapes DEF SessionInv, RequestInv, Inserting, Request
  <2>3. \A o \in Process : ~ Waiting(o)' => o # p /\ ~ Waiting(o) /\ req'[o] = req[o]
    BY <1>5, <1>6 DEF Waiting
  <2> QED
    BY <1>1, <1>4, <2>1, <2>2, <2>3
<1>8. ASSUME NEW q \in Process
      PROVE  RequestInv(q)'
  <2>1. CASE q = p
    BY <1>5, <1>6, <1>7, <2>1, Refusals DEF RequestInv
  <2>2. CASE q # p
    BY <1>1, <1>2, <1>4, <1>6, <1>7, <2>2, Others
  <2> QED
    BY <2>1, <2>2
<1> QED
  BY <1>4, <1>6, <1>8 DEF SessionInv

\* Time passes, or the status of a user changes: nobody's row or request does.
LEMMA Surroundings ==
  ASSUME SessionInv, Observe, UNCHANGED <<stored, req>>, clock' \in Nat, clock <= clock',
         active' \subseteq User
  PROVE  SessionInv' /\ RowsAge
<1>1. TypeOK'
  <2>1. sawLive' \in [Process -> BOOLEAN] /\ sawUser' \in [Process -> BOOLEAN]
    BY DEF Observe, Seen
  <2> QED
    BY <2>1 DEF SessionInv, TypeOK
<1>2. \A s \in SessionId : stored[s] # None => stored[s] \in Row
  BY DEF SessionInv, TypeOK
<1>3. RowsAge
  BY <1>2, OlderIsOrder DEF RowsAge
<1>4. IdleFollowsActivity'
  BY <1>2 DEF SessionInv, TypeOK, IdleFollowsActivity, Row
<1>5. \A q \in Process : Inserting(q)'
  BY <1>1, ClaimsKept DEF Waiting, At
<1>6. \A q \in Process : RequestInv(q)'
  BY <1>1, <1>3, <1>5, Others
<1> QED
  BY <1>1, <1>3, <1>4, <1>6 DEF SessionInv

-----------------------------------------------------------------------------
(* The theorems *)

LEMMA InitSession == Init => SessionInv
<1> SUFFICES ASSUME Init
             PROVE  SessionInv
  OBVIOUS
<1>1. TypeOK
  BY DEF Init, TypeOK
<1>2. IdleFollowsActivity
  BY DEF Init, IdleFollowsActivity
<1>3. \A p \in Process : RequestInv(p)
  BY DEF Init, Ready, RequestInv, Inserting, Working, HasRead, SeenLive, SeenUser, Updating,
     Waiting, At
<1> QED
  BY <1>1, <1>2, <1>3 DEF SessionInv

LEMMA StepSession == SessionInv /\ Next => SessionInv' /\ RowsAge
<1> SUFFICES ASSUME SessionInv, Step, Observe
             PROVE  SessionInv' /\ RowsAge
  BY DEF Next
<1>1. CASE \E p \in Process, u \in User : BeginSession(p, u)
  BY <1>1, BeginSessionStep
<1>2. CASE \E p \in Process, s \in SessionId : Arrive(p, s, "use") \/ Arrive(p, s, "logout")
  BY <1>2, ArriveStep
<1>3. CASE \E p \in Process : Proceed(p)
  BY <1>3, InsertSessionStep, ResolveLookupStep, ResolveJudgeStep, TouchLookupStep, TouchJudgeStep,
     TouchUpdateStep, TouchRecheckStep, TouchRereadStep, RevokeLookupStep, RevokeUpdateStep
     DEF Proceed
<1>4. CASE \E u \in User : SetUserStatus(u)
  BY <1>4, Surroundings DEF SetUserStatus, SessionInv, TypeOK
<1>5. CASE Tick
  BY <1>5, Surroundings DEF Tick, SessionInv, TypeOK
<1> QED
  BY <1>1, <1>2, <1>3, <1>4, <1>5 DEF Step

LEMMA StutterSession == SessionInv /\ UNCHANGED vars => SessionInv'
  BY DEF vars, SessionInv, TypeOK, IdleFollowsActivity, RequestInv, Inserting, Working, HasRead,
         SeenLive, SeenUser, Updating, Waiting, At

LEMMA SessionInvariant == Spec => []SessionInv
<1>1. SessionInv /\ [Next]_vars => SessionInv'
  BY StepSession, StutterSession
<1> QED
  BY InitSession, <1>1, PTL DEF Spec

\* A request is served only if its session was usable and its owner active at some
\* moment of the request, and its activity is on record (resolve_session, touch_session).
THEOREM ServedSessionsWereLive == Spec => []ServedWasLive
<1>1. SessionInv => ServedWasLive
  BY DEF SessionInv, RequestInv, SeenLive, SeenUser, Updating, ServedWasLive
<1> QED
  BY SessionInvariant, <1>1, PTL

\* The rows of sessions have their type and end when their last activity says.
THEOREM SessionsAreTyped == Spec => [](TypeOK /\ IdleFollowsActivity)
<1>1. SessionInv => TypeOK /\ IdleFollowsActivity
  BY DEF SessionInv
<1> QED
  BY SessionInvariant, <1>1, PTL

\* Activity never moves back and a revoked row never changes (revoke_session).
THEOREM SessionsNeverGetYounger == Spec => SessionsOnlyAge
<1> DEFINE Ages == \A s \in SessionId : stored[s] # None =>
                     /\ stored'[s].last >= stored[s].last
                     /\ stored[s].revoked # None => stored'[s] = stored[s]
<1>1. SessionInv /\ [Next]_vars => [Ages]_vars
  BY StepSession DEF RowsAge, Older
<1> QED
  BY SessionInvariant, <1>1, PTL DEF Spec, SessionsOnlyAge

-----------------------------------------------------------------------------
(* Logins and passwords *)

LoginSteps == {"user", "credential", "stamp", "rehash", "account", "insert"}
Settled == {"200", "401", "500"}

\* A login knows a stored account once it has found one, an upgrade the row it read.
KnowsItsUser(p) ==
  /\ job[p].at \in LoginSteps => job[p].handle \in Address
  /\ job[p].at = "replace" => job[p].user \in Account /\ job[p].handle = None
  /\ job[p].at \in LoginSteps \ {"user"} =>
       /\ job[p].user \in Account /\ users[job[p].user] # None
       /\ users[job[p].user].handle = job[p].handle
  /\ job[p].at \in {"stamp", "rehash"} => job[p].row # None

\* The password was stored when the verdict fell, and is remembered from there on.
HasSeen(p) ==
  /\ job[p].at \in {"stamp", "rehash", "account", "insert", "200"} => seen[p]
  /\ job[p].at = "200" => job[p].user \in opened

NothingWrittenYet(p) == job[p].at \in {"user", "credential", "stamp", "401"} => ~ job[p].wrote

LoginInv ==
  /\ Logins!TypeOK /\ Logins!AccountsAreWhole
  /\ \A p \in Process : KnowsItsUser(p) /\ HasSeen(p) /\ NothingWrittenYet(p)

LEMMA JobShapes ==
  ASSUME Logins!TypeOK, NEW p \in Process
  PROVE  /\ job[p].at \in LoginSteps \cup {"replace"} => job[p] \in Logins!Working
         /\ job[p].at \in Settled => job[p] \in Logins!Done
         /\ Logins!Idling(p) <=> job[p].at \notin LoginSteps \cup {"replace"}
         /\ job[p].at \in LoginSteps \cup {"replace", "ready"} \cup Settled
<1>1. CASE job[p] \in Logins!Working
  BY <1>1 DEF Logins!Working, Logins!Steps, LoginSteps, Settled, Logins!Idling
<1>2. CASE job[p] \in Logins!Done
  BY <1>2 DEF Logins!Done, LoginSteps, Settled, Logins!Idling
<1>3. CASE job[p] = Logins!Ready
  BY <1>3 DEF Logins!Ready, LoginSteps, Settled, Logins!Idling
<1> QED
  BY <1>1, <1>2, <1>3 DEF Logins!TypeOK

\* What has been seen in a login stays seen, in it and in its answer.
LEMMA Remembering ==
  ASSUME Logins!Observe, NEW p \in Process
  PROVE  /\ seen' \in [Process -> BOOLEAN]
         /\ Logins!LoggingIn(p)' /\ Logins!LoggingIn(p) /\ seen[p] => seen'[p]
         /\ Logins!LoggingIn(p)' /\ Logins!HeldNow(job[p].handle, job[p].password)' => seen'[p]
         /\ (job[p].at = "200")' /\ seen[p] => seen'[p]
<1>1. (job[p].at = "200")' => ~ Logins!LoggingIn(p)'
  BY DEF Logins!LoggingIn, Logins!Idling
<1>2. seen'[p] = IF Logins!LoggingIn(p)'
                   THEN (Logins!LoggingIn(p) /\ seen[p]) \/ Logins!HeldNow(job[p].handle, job[p].password)'
                   ELSE seen[p] /\ (job[p].at = "200")'
  BY DEF Logins!Observe
<1> QED
  BY <1>1, <1>2 DEF Logins!Observe

LEMMA LoginSteppers ==
  ASSUME Logins!TypeOK, NEW p \in Process, KnowsItsUser(p)
  PROVE  Logins!LoggingIn(p) <=> job[p].at \in LoginSteps
  BY JobShapes, LoginsAssumption DEF Logins!LoggingIn, KnowsItsUser, LoginSteps,
     Logins!NoneAssumption

\* Accounts stay, sessions stay: a process that does nothing keeps what it knows.
LEMMA OtherLogins ==
  ASSUME LoginInv, Logins!TypeOK', Logins!Observe, NEW q \in Process, job'[q] = job[q],
         opened \subseteq opened',
         \A u \in Account : users[u] # None => users'[u] # None /\ users'[u].handle = users[u].handle
  PROVE  (KnowsItsUser(q) /\ HasSeen(q) /\ NothingWrittenYet(q))'
<1>1. KnowsItsUser(q)'
  BY DEF LoginInv, KnowsItsUser
<1>2. Logins!LoggingIn(q)' <=> Logins!LoggingIn(q)
  BY DEF Logins!LoggingIn, Logins!Idling
<1>3. HasSeen(q)'
  BY <1>2, Remembering, LoginSteppers DEF LoginInv, HasSeen, LoginSteps
<1> QED
  BY <1>1, <1>3 DEF LoginInv, NothingWrittenYet

\* One process moves; the accounts, if they change, stay whole.
LEMMA OneLogin ==
  ASSUME LoginInv, Logins!Observe, NEW p \in Process,
         NEW r \in Logins!Working \cup Logins!Done \cup {Logins!Ready},
         job' = [job EXCEPT ![p] = r],
         day' = day, users' = users, bare' = bare, opened \subseteq opened',
         opened' \subseteq Account, verifier' \in [Account -> Logins!Verifier \cup {None}],
           Logins!AccountsAreWhole',
         KnowsItsUser(p)' /\ HasSeen(p)' /\ NothingWrittenYet(p)'
  PROVE  LoginInv'
<1>1. /\ job' \in [Process -> Logins!Working \cup Logins!Done \cup {Logins!Ready}]
      /\ \A q \in Process : q # p => job'[q] = job[q]
  BY DEF LoginInv, Logins!TypeOK
<1>2. seen' \in [Process -> BOOLEAN]
  BY Remembering
<1>3. Logins!TypeOK'
  BY <1>1, <1>2 DEF LoginInv, Logins!TypeOK
<1> QED
  BY <1>1, <1>3, OtherLogins DEF LoginInv

\* The rows stay: a login reads, judges and answers.
LEMMA ReadingLogin ==
  ASSUME LoginInv, Logins!Observe, NEW p \in Process,
         NEW r \in Logins!Working \cup Logins!Done \cup {Logins!Ready},
         job' = [job EXCEPT ![p] = r], UNCHANGED <<day, users, verifier, opened, bare>>,
         KnowsItsUser(p)' /\ HasSeen(p)' /\ NothingWrittenYet(p)'
  PROVE  LoginInv'
  BY OneLogin DEF LoginInv, Logins!TypeOK, Logins!AccountsAreWhole

LEMMA Answers ==
  ASSUME LoginInv, NEW p \in Process, ~ Logins!Idling(p), NEW code \in Settled
  PROVE  /\ Logins!Answered(p, code) \in Logins!Done
         /\ Logins!Answered(p, code).at = code /\ Logins!Answered(p, code).wrote = job[p].wrote
         /\ Logins!Answered(p, code).user = job[p].user
  BY JobShapes DEF LoginInv, Logins!Answered, Logins!Working, Logins!Done, Settled

\* A login that is refused has written nothing.
LEMMA RefusedLogin ==
  ASSUME LoginInv, Logins!Observe, NEW p \in Process, NEW code \in {"401", "500"},
         Logins!Reply(p, code), ~ Logins!Idling(p),
         code = "401" => ~ job[p].wrote, UNCHANGED <<day, users, verifier, opened, bare>>
  PROVE  LoginInv'
<1> DEFINE r == Logins!Answered(p, code)
<1>1. r \in Logins!Done /\ r.at = code /\ r.wrote = job[p].wrote
  BY Answers DEF Settled
<1>2. job' = [job EXCEPT ![p] = r] /\ job'[p] = r
  BY DEF Logins!Reply, LoginInv, Logins!TypeOK
<1>3. (KnowsItsUser(p) /\ HasSeen(p) /\ NothingWrittenYet(p))'
  BY <1>1, <1>2 DEF KnowsItsUser, HasSeen, NothingWrittenYet, LoginSteps
<1> QED
  BY <1>1, <1>2, <1>3, ReadingLogin

\* A process goes on to a step of its login, with the same user.
LEMMA GoingOn ==
  ASSUME LoginInv, Logins!Observe, NEW p \in Process, NEW r \in Logins!Working,
         job' = [job EXCEPT ![p] = r],
         UNCHANGED <<day, users, verifier, opened, bare>>,
         job[p].at \in LoginSteps, r.at \in LoginSteps, r.handle = job[p].handle,
         r.at # "user" => r.user \in Account /\ users[r.user] # None /\ users[r.user].handle = r.handle,
         r.at \in {"stamp", "rehash"} => r.row # None,
         r.at \in {"stamp", "rehash", "account", "insert"} => seen[p] \/ Logins!HeldNow(r.handle, r.password),
         r.at \in {"user", "credential", "stamp"} => ~ r.wrote
  PROVE  LoginInv'
<1>1. job'[p] = r
  BY DEF LoginInv, Logins!TypeOK
<1>2. KnowsItsUser(p)' /\ NothingWrittenYet(p)'
  BY <1>1 DEF LoginInv, KnowsItsUser, NothingWrittenYet, LoginSteps
<1>3. Logins!LoggingIn(p)
  BY LoginSteppers DEF LoginInv
<1>4. Logins!LoggingIn(p)'
  BY <1>1, LoginsAssumption DEF LoginInv, KnowsItsUser, Logins!LoggingIn, Logins!Idling,
     LoginSteps, Logins!NoneAssumption
<1>5. Logins!HeldNow(r.handle, r.password) => Logins!HeldNow(job[p].handle, job[p].password)'
  BY <1>1 DEF Logins!HeldNow, Logins!Owner, Logins!Accepts
<1>6. HasSeen(p)'
  BY <1>1, <1>3, <1>4, <1>5, Remembering DEF HasSeen, LoginSteps
<1> QED
  BY <1>2, <1>6, ReadingLogin

LEMMA BeginLoginStep ==
  ASSUME LoginInv, Logins!Observe, NEW p \in Process, NEW h \in Address, NEW w \in Password,
         Logins!Login(p, h, w)
  PROVE  LoginInv'
<1> DEFINE r == Logins!Started("user", None, h, w, None)
<1>1. r \in Logins!Working /\ r.at = "user" /\ r.handle = h /\ r.wrote = FALSE
  BY DEF Logins!Started, Logins!Working, Logins!Steps, LoginInv, Logins!TypeOK
<1>2. job' = [job EXCEPT ![p] = r] /\ job'[p] = r
  BY DEF Logins!Login, LoginInv, Logins!TypeOK
<1>3. (KnowsItsUser(p) /\ HasSeen(p) /\ NothingWrittenYet(p))'
  BY <1>1, <1>2 DEF KnowsItsUser, HasSeen, NothingWrittenYet, LoginSteps
<1> QED
  BY <1>1, <1>2, <1>3, ReadingLogin DEF Logins!Login

LEMMA FindUserStep ==
  ASSUME LoginInv, Logins!Observe, NEW p \in Process, Logins!FindUser(p)
  PROVE  LoginInv'
<1>1. job[p] \in Logins!Working /\ ~ Logins!Idling(p) /\ ~ job[p].wrote /\ job[p].at = "user"
  BY JobShapes DEF Logins!FindUser, Logins!At, LoginInv, NothingWrittenYet, LoginSteps
<1>2. CASE Logins!Reply(p, "401")
  BY <1>1, <1>2, RefusedLogin DEF Logins!FindUser
<1>3. ASSUME NEW u \in Logins!Owner(job[p].handle),
             job' = [job EXCEPT ![p].user = u, ![p].enabled = users[u].active, ![p].at = "credential"]
      PROVE  LoginInv'
  <2> DEFINE r == [job[p] EXCEPT !.user = u, !.enabled = users[u].active, !.at = "credential"]
  <2>1. u \in Account /\ users[u] # None /\ users[u].handle = job[p].handle
    BY DEF Logins!Owner
  <2>2. users[u].active \in BOOLEAN
    BY <2>1 DEF LoginInv, Logins!TypeOK, Logins!UserRow
  <2>3. r \in Logins!Working /\ r.at = "credential" /\ r.user = u /\ r.handle = job[p].handle /\ ~ r.wrote
    BY <1>1, <2>1, <2>2 DEF Logins!Working, Logins!Steps
  <2>4. job' = [job EXCEPT ![p] = r]
    BY <1>3 DEF LoginInv, Logins!TypeOK
  <2> QED
    BY <1>1, <2>1, <2>3, <2>4, GoingOn DEF Logins!FindUser, LoginSteps
<1> QED
  BY <1>2, <1>3 DEF Logins!FindUser

LEMMA AuthenticateStep ==
  ASSUME LoginInv, Logins!Observe, NEW p \in Process, Logins!Authenticate(p)
  PROVE  LoginInv'
<1> DEFINE u == job[p].user
           row == verifier[u]
<1>1. /\ job[p] \in Logins!Working /\ ~ Logins!Idling(p) /\ ~ job[p].wrote /\ job[p].at = "credential"
      /\ u \in Account /\ users[u] # None /\ users[u].handle = job[p].handle
  BY JobShapes DEF Logins!Authenticate, Logins!At, LoginInv, NothingWrittenYet, KnowsItsUser,
     LoginSteps
<1>2. row \in Logins!Verifier \cup {None}
  BY <1>1 DEF LoginInv, Logins!TypeOK
<1>3. CASE Logins!Accepts(row, job[p].password) /\ job[p].enabled
  <2> DEFINE step == IF row.strong THEN "account" ELSE "stamp"
             r == [job[p] EXCEPT !.row = row, !.at = step]
  <2>1. Logins!HeldNow(job[p].handle, job[p].password)
    BY <1>1, <1>3 DEF Logins!HeldNow, Logins!Owner
  <2>2. r \in Logins!Working /\ r.at \in {"account", "stamp"} /\ r.user = u /\ r.handle = job[p].handle
        /\ ~ r.wrote /\ r.password = job[p].password /\ r.row # None
    BY <1>1, <1>2, <1>3 DEF Logins!Working, Logins!Steps, Logins!Accepts
  <2>3. job' = [job EXCEPT ![p] = r]
    BY <1>3 DEF Logins!Authenticate, LoginInv, Logins!TypeOK
  <2> QED
    BY <1>1, <2>1, <2>2, <2>3, GoingOn DEF Logins!Authenticate, LoginSteps
<1>4. CASE ~ (Logins!Accepts(row, job[p].password) /\ job[p].enabled)
  BY <1>1, <1>4, RefusedLogin DEF Logins!Authenticate
<1> QED
  BY <1>3, <1>4

LEMMA StampRehashStep ==
  ASSUME LoginInv, Logins!Observe, NEW p \in Process, Logins!StampRehash(p)
  PROVE  LoginInv'
<1> DEFINE r == [job[p] EXCEPT !.now = day, !.at = "rehash"]
<1>1. /\ job[p] \in Logins!Working /\ ~ job[p].wrote /\ job[p].at = "stamp" /\ seen[p] /\ job[p].row # None
      /\ job[p].user \in Account /\ users[job[p].user] # None /\ users[job[p].user].handle = job[p].handle
  BY JobShapes DEF Logins!StampRehash, Logins!At, LoginInv, NothingWrittenYet, KnowsItsUser,
     HasSeen, LoginSteps
<1>2. /\ r \in Logins!Working /\ r.at = "rehash" /\ r.user = job[p].user /\ r.handle = job[p].handle
      /\ r.row = job[p].row
  BY <1>1 DEF Logins!Working, Logins!Steps, LoginInv, Logins!TypeOK
<1>3. job' = [job EXCEPT ![p] = r]
  BY DEF Logins!StampRehash, LoginInv, Logins!TypeOK
<1> HIDE DEF r
<1>4. /\ users[r.user] # None /\ users[r.user].handle = r.handle /\ r.user \in Account
      /\ UNCHANGED <<day, users, verifier, opened, bare>>
  BY <1>1, <1>2 DEF Logins!StampRehash
<1> QED
  BY <1>1, <1>2, <1>3, <1>4, GoingOn DEF LoginSteps

LEMMA CheckAccountStep ==
  ASSUME LoginInv, Logins!Observe, NEW p \in Process, Logins!CheckAccount(p)
  PROVE  LoginInv'
<1> DEFINE r == [job[p] EXCEPT !.at = "insert"]
<1>1. /\ job[p] \in Logins!Working /\ job[p].at = "account" /\ seen[p] /\ ~ Logins!Idling(p)
      /\ job[p].user \in Account /\ users[job[p].user] # None /\ users[job[p].user].handle = job[p].handle
  BY JobShapes DEF Logins!CheckAccount, Logins!At, LoginInv, KnowsItsUser, HasSeen, LoginSteps
<1>2. CASE users[job[p].user].active
  <2>1. r \in Logins!Working /\ r.at = "insert" /\ r.user = job[p].user /\ r.handle = job[p].handle
    BY <1>1 DEF Logins!Working, Logins!Steps
  <2>2. job' = [job EXCEPT ![p] = r]
    BY <1>2 DEF Logins!CheckAccount, Logins!Goto, LoginInv, Logins!TypeOK
  <2> QED
    BY <1>1, <2>1, <2>2, GoingOn DEF Logins!CheckAccount, LoginSteps
<1>3. CASE ~ users[job[p].user].active
  BY <1>1, <1>3, RefusedLogin DEF Logins!CheckAccount
<1> QED
  BY <1>2, <1>3

LEMMA UpsertedRows ==
  ASSUME LoginInv, NEW u \in Account, NEW new \in Logins!Verifier
  PROVE  Logins!Upserted(verifier[u], new) \in Logins!Verifier
  BY LoginsAssumption DEF Logins!Upserted, Logins!Verifier, LoginInv, Logins!TypeOK

\* The password of a stored account changes: the accounts stay whole.
LEMMA VerifierChanges ==
  ASSUME LoginInv, NEW u \in Account, users[u] # None, NEW row \in Logins!Verifier,
         verifier' = [verifier EXCEPT ![u] = row], UNCHANGED <<users, bare>>
  PROVE  verifier' \in [Account -> Logins!Verifier \cup {None}] /\ Logins!AccountsAreWhole'
<1>1. row # None
  BY LoginsAssumption DEF Logins!NoneAssumption
<1> QED
  BY <1>1 DEF LoginInv, Logins!TypeOK, Logins!AccountsAreWhole

LEMMA RehashStep ==
  ASSUME LoginInv, Logins!Observe, NEW p \in Process, Logins!Rehash(p)
  PROVE  LoginInv'
<1> DEFINE u == job[p].user
           new == [Logins!Fresh(job[p].password, TRUE, job[p].row.created) EXCEPT !.updated = job[p].now]
           r == [job[p] EXCEPT !.wrote = TRUE, !.at = "account"]
<1>1. /\ job[p] \in Logins!Working /\ job[p].at = "rehash" /\ seen[p] /\ job[p].row # None
      /\ u \in Account /\ users[u] # None /\ users[u].handle = job[p].handle
      /\ job[p].handle \in Address
  BY JobShapes DEF Logins!Rehash, Logins!At, LoginInv, KnowsItsUser, HasSeen, LoginSteps
<1>2. new \in Logins!Verifier
  BY <1>1 DEF Logins!Working, Logins!Verifier, Logins!Fresh
<1>3. verifier' \in [Account -> Logins!Verifier \cup {None}] /\ Logins!AccountsAreWhole'
  BY <1>1, <1>2, UpsertedRows, VerifierChanges DEF Logins!Rehash
<1>4. r \in Logins!Working /\ r.at = "account" /\ r.user = u /\ r.handle = job[p].handle
  BY <1>1 DEF Logins!Working, Logins!Steps
<1>5. job' = [job EXCEPT ![p] = r] /\ job'[p] = r
  BY DEF Logins!Rehash, LoginInv, Logins!TypeOK
<1>6. Logins!LoggingIn(p) /\ Logins!LoggingIn(p)'
  BY <1>1, <1>4, <1>5, LoginsAssumption DEF Logins!LoggingIn, Logins!Idling, Logins!NoneAssumption
<1>7. (KnowsItsUser(p) /\ HasSeen(p) /\ NothingWrittenYet(p))'
  BY <1>1, <1>4, <1>5, <1>6, Remembering DEF Logins!Rehash, KnowsItsUser, HasSeen,
     NothingWrittenYet, LoginSteps
<1> QED
  BY <1>3, <1>4, <1>5, <1>7, OneLogin DEF Logins!Rehash, LoginInv, Logins!TypeOK

LEMMA StoreSessionStep ==
  ASSUME LoginInv, Logins!Observe, NEW p \in Process, Logins!StoreSession(p)
  PROVE  LoginInv'
<1> DEFINE r == [Logins!Answered(p, "200") EXCEPT !.wrote = TRUE]
<1>1. job[p].at = "insert" /\ ~ Logins!Idling(p) /\ seen[p] /\ job[p].user \in Account
  BY JobShapes DEF Logins!StoreSession, Logins!At, LoginInv, KnowsItsUser, HasSeen, LoginSteps
<1>2. r \in Logins!Done /\ r.at = "200" /\ r.user = job[p].user
  BY <1>1, Answers DEF Settled, Logins!Done, Logins!Answered
<1>3. job' = [job EXCEPT ![p] = r] /\ job'[p] = r
  BY DEF Logins!StoreSession, LoginInv, Logins!TypeOK
<1>4. (KnowsItsUser(p) /\ HasSeen(p) /\ NothingWrittenYet(p))'
  BY <1>1, <1>2, <1>3, Remembering DEF Logins!StoreSession, KnowsItsUser, HasSeen,
     NothingWrittenYet, LoginSteps
<1>5. opened \subseteq opened' /\ opened' \subseteq Account
  BY <1>1 DEF Logins!StoreSession, LoginInv, Logins!TypeOK
<1>6. verifier' \in [Account -> Logins!Verifier \cup {None}] /\ Logins!AccountsAreWhole'
  BY DEF Logins!StoreSession, LoginInv, Logins!TypeOK, Logins!AccountsAreWhole
<1> QED
  BY <1>2, <1>3, <1>4, <1>5, <1>6, OneLogin DEF Logins!StoreSession

LEMMA LoginStorageFailsStep ==
  ASSUME LoginInv, Logins!Observe, NEW p \in Process, Logins!StorageFails(p)
  PROVE  LoginInv'
<1>1. ~ Logins!Idling(p)
  BY JobShapes DEF Logins!StorageFails, LoginInv, LoginSteps
<1> QED
  BY <1>1, RefusedLogin DEF Logins!StorageFails, Logins!Reply

LEMMA SetPasswordStep ==
  ASSUME LoginInv, Logins!Observe, NEW p \in Process, NEW u \in Account, NEW w \in Password,
         Logins!SetPassword(p, u, w)
  PROVE  LoginInv'
<1> DEFINE r == Logins!Started("replace", u, None, w, verifier[u])
<1>1. r \in Logins!Working /\ r.at = "replace" /\ r.handle = None /\ r.user = u
  BY DEF Logins!Started, Logins!Working, Logins!Steps, LoginInv, Logins!TypeOK
<1>2. job' = [job EXCEPT ![p] = r] /\ job'[p] = r
  BY DEF Logins!SetPassword, LoginInv, Logins!TypeOK
<1>3. (KnowsItsUser(p) /\ HasSeen(p) /\ NothingWrittenYet(p))'
  BY <1>1, <1>2 DEF KnowsItsUser, HasSeen, NothingWrittenYet, LoginSteps
<1> QED
  BY <1>1, <1>2, <1>3, ReadingLogin DEF Logins!SetPassword

LEMMA ReplacePasswordStep ==
  ASSUME LoginInv, Logins!Observe, NEW p \in Process, Logins!ReplacePassword(p)
  PROVE  LoginInv'
<1> DEFINE u == job[p].user
           new == [Logins!Fresh(job[p].password, TRUE,
                         IF job[p].row = None THEN job[p].now ELSE job[p].row.created)
                     EXCEPT !.updated = job[p].now]
<1>1. job[p] \in Logins!Working /\ u \in Account /\ users[u] # None
  BY JobShapes DEF Logins!ReplacePassword, Logins!At, LoginInv, KnowsItsUser, LoginSteps
<1>2. new \in Logins!Verifier
  BY <1>1 DEF Logins!Working, Logins!Verifier, Logins!Fresh
<1>3. verifier' \in [Account -> Logins!Verifier \cup {None}] /\ Logins!AccountsAreWhole'
  BY <1>1, <1>2, UpsertedRows, VerifierChanges DEF Logins!ReplacePassword
<1>4. job' = [job EXCEPT ![p] = Logins!Ready] /\ job'[p] = Logins!Ready
  BY DEF Logins!ReplacePassword, LoginInv, Logins!TypeOK
<1>5. (KnowsItsUser(p) /\ HasSeen(p) /\ NothingWrittenYet(p))'
  BY <1>4 DEF Logins!Ready, KnowsItsUser, HasSeen, NothingWrittenYet, LoginSteps
<1> QED
  BY <1>3, <1>4, <1>5, OneLogin DEF Logins!ReplacePassword, LoginInv, Logins!TypeOK

-----------------------------------------------------------------------------
\* The operator provisions, the clock moves: no process does anything.
LEMMA AccountsGrow ==
  ASSUME LoginInv, Logins!Observe, day' \in Nat, UNCHANGED <<opened, job>>, Logins!AccountsAreWhole',
         users' \in [Account -> Logins!UserRow \cup {None}],
         verifier' \in [Account -> Logins!Verifier \cup {None}], bare' \subseteq Account,
         \A u \in Account : users[u] # None => users'[u] # None /\ users'[u].handle = users[u].handle
  PROVE  LoginInv'
<1>1. seen' \in [Process -> BOOLEAN]
  BY DEF Logins!Observe
<1>2. Logins!TypeOK'
  BY <1>1 DEF LoginInv, Logins!TypeOK
<1> QED
  BY <1>2, OtherLogins DEF LoginInv

\* A new account has a handle of its own.
LEMMA NewAccount ==
  ASSUME LoginInv, NEW u \in Account, NEW h \in Address, users[u] = None, Logins!Owner(h) = {},
         users' = [users EXCEPT ![u] = [handle |-> h, active |-> TRUE]]
  PROVE  /\ users' \in [Account -> Logins!UserRow \cup {None}]
         /\ users'[u] # None /\ users'[u].handle = h /\ \A v \in Account : v # u => users'[v] = users[v]
         /\ \A v \in Account : v # u /\ users[v] # None => users[v].handle # h
<1> DEFINE row == [handle |-> h, active |-> TRUE]
<1>1. row \in Logins!UserRow /\ row.handle = h
  BY DEF Logins!UserRow
<1>2. row # None
  BY <1>1, LoginsAssumption DEF Logins!NoneAssumption
<1> HIDE DEF row
<1>3. users \in [Account -> Logins!UserRow \cup {None}] /\ users' = [users EXCEPT ![u] = row]
  BY DEF LoginInv, Logins!TypeOK, row
<1>4. \A v \in Account : v # u /\ users[v] # None => users[v].handle # h
  BY DEF Logins!Owner
<1> QED
  BY <1>1, <1>2, <1>3, <1>4

LEMMA ProvisionUserStep ==
  ASSUME LoginInv, Logins!Observe, NEW u \in Account, NEW h \in Address, NEW w \in Password,
         Logins!ProvisionUser(u, h, w)
  PROVE  LoginInv'
<1>1. users[u] = None /\ Logins!Owner(h) = {} /\ users' = [users EXCEPT ![u] = [handle |-> h, active |-> TRUE]]
  BY DEF Logins!ProvisionUser, Logins!Provisioned
<1>2. Logins!Fresh(w, TRUE, day) \in Logins!Verifier
  BY DEF Logins!Fresh, Logins!Verifier, LoginInv, Logins!TypeOK
<1>3. Logins!Fresh(w, TRUE, day) # None
  BY <1>2, LoginsAssumption DEF Logins!NoneAssumption
<1>4. /\ verifier' \in [Account -> Logins!Verifier \cup {None}]
      /\ verifier'[u] # None /\ \A v \in Account : v # u => verifier'[v] = verifier[v]
  BY <1>2, <1>3 DEF Logins!ProvisionUser, Logins!Provisioned, LoginInv, Logins!TypeOK
<1>5. /\ users'[u] # None /\ users'[u].handle = h /\ \A v \in Account : v # u => users'[v] = users[v]
      /\ \A v \in Account : v # u /\ users[v] # None => users[v].handle # h
  BY <1>1, NewAccount
<1>6. bare' = bare /\ Logins!AccountsAreWhole
  BY DEF Logins!ProvisionUser, LoginInv
<1>7. Logins!AccountsAreWhole'
  BY <1>4, <1>5, <1>6 DEF Logins!AccountsAreWhole
<1> QED
  BY <1>1, <1>4, <1>7, NewAccount, AccountsGrow DEF Logins!ProvisionUser, LoginInv, Logins!TypeOK

LEMMA CreateUserStep ==
  ASSUME LoginInv, Logins!Observe, NEW u \in Account, NEW h \in Address, Logins!CreateUser(u, h)
  PROVE  LoginInv'
<1>1. users[u] = None /\ Logins!Owner(h) = {} /\ users' = [users EXCEPT ![u] = [handle |-> h, active |-> TRUE]]
  BY DEF Logins!CreateUser
<1>2. /\ users'[u] # None /\ users'[u].handle = h /\ \A v \in Account : v # u => users'[v] = users[v]
      /\ \A v \in Account : v # u /\ users[v] # None => users[v].handle # h
  BY <1>1, NewAccount
<1>3. bare' = bare \cup {u} /\ verifier' = verifier /\ Logins!AccountsAreWhole
  BY DEF Logins!CreateUser, LoginInv
<1>4. Logins!AccountsAreWhole'
  BY <1>2, <1>3 DEF Logins!AccountsAreWhole
<1> QED
  BY <1>1, <1>4, NewAccount, AccountsGrow DEF Logins!CreateUser, LoginInv, Logins!TypeOK

LEMMA SetStatusOfUserStep ==
  ASSUME LoginInv, Logins!Observe, NEW u \in Account, Logins!SetUserStatus(u)
  PROVE  LoginInv'
<1> DEFINE row == [users[u] EXCEPT !.active = ~ @]
<1>1. users[u] \in Logins!UserRow /\ users[u] # None
  BY DEF Logins!SetUserStatus, LoginInv, Logins!TypeOK
<1>2. row \in Logins!UserRow /\ row.handle = users[u].handle
  BY <1>1 DEF Logins!UserRow
<1>3. row # None
  BY <1>2, LoginsAssumption DEF Logins!NoneAssumption
<1>4. users' = [users EXCEPT ![u] = row]
  BY DEF Logins!SetUserStatus, LoginInv, Logins!TypeOK
<1>5. /\ users' \in [Account -> Logins!UserRow \cup {None}]
      /\ users'[u] = row /\ \A v \in Account : v # u => users'[v] = users[v]
  BY <1>2, <1>4 DEF LoginInv, Logins!TypeOK
<1>6. Logins!AccountsAreWhole'
  BY <1>2, <1>3, <1>5 DEF Logins!SetUserStatus, LoginInv, Logins!AccountsAreWhole
<1> QED
  BY <1>2, <1>3, <1>5, <1>6, AccountsGrow DEF Logins!SetUserStatus, LoginInv, Logins!TypeOK

LEMMA LoginTick ==
  ASSUME LoginInv, Logins!Observe, Logins!Tick
  PROVE  LoginInv'
  BY AccountsGrow DEF Logins!Tick, LoginInv, Logins!TypeOK, Logins!AccountsAreWhole

-----------------------------------------------------------------------------
LEMMA InitLogins == Logins!Init => LoginInv
<1> SUFFICES ASSUME Logins!Init
             PROVE  LoginInv
  OBVIOUS
<1>1. \A w \in Password, s \in BOOLEAN : Logins!Fresh(w, s, 0) \in Logins!Verifier
  BY DEF Logins!Fresh, Logins!Verifier
<1>2. \A h \in Address : [handle |-> h, active |-> TRUE] \in Logins!UserRow
  BY DEF Logins!UserRow
<1>3. verifier \in [Account -> Logins!Verifier \cup {None}] /\ users \in [Account -> Logins!UserRow \cup {None}]
  BY <1>1, <1>2 DEF Logins!Init
<1>4. Logins!TypeOK
  BY <1>3 DEF Logins!Init, Logins!TypeOK
<1>5. Logins!AccountsAreWhole
  BY <1>1, <1>2, LoginsAssumption DEF Logins!Init, Logins!AccountsAreWhole, Logins!NoneAssumption
<1>6. \A p \in Process : KnowsItsUser(p) /\ HasSeen(p) /\ NothingWrittenYet(p)
  BY DEF Logins!Init, Logins!Ready, KnowsItsUser, HasSeen, NothingWrittenYet, LoginSteps
<1> QED
  BY <1>4, <1>5, <1>6 DEF LoginInv

LEMMA NextLogins == LoginInv /\ [Logins!Next]_(Logins!vars) => LoginInv'
<1>1. ASSUME LoginInv, Logins!Step, Logins!Observe
      PROVE  LoginInv'
  <2>1. CASE \E p \in Process, h \in Address, w \in Password : Logins!Login(p, h, w)
    BY <1>1, <2>1, BeginLoginStep
  <2>2. CASE \E p \in Process, u \in Account, w \in Password : Logins!SetPassword(p, u, w)
    BY <1>1, <2>2, SetPasswordStep
  <2>3. CASE \E p \in Process : \/ Logins!FindUser(p) \/ Logins!Authenticate(p) \/ Logins!StampRehash(p)
                                \/ Logins!Rehash(p)
                                \/ Logins!CheckAccount(p) \/ Logins!StoreSession(p) \/ Logins!StorageFails(p)
                                \/ Logins!ReplacePassword(p)
    BY <1>1, <2>3, FindUserStep, AuthenticateStep, StampRehashStep, RehashStep, CheckAccountStep,
       StoreSessionStep, LoginStorageFailsStep, ReplacePasswordStep
  <2>4. CASE \E u \in Account,
    h \in Address : Logins!CreateUser(u, h) \/ \E w \in Password : Logins!ProvisionUser(u, h, w)
    BY <1>1, <2>4, CreateUserStep, ProvisionUserStep
  <2>5. CASE \E u \in Account : Logins!SetUserStatus(u)
    BY <1>1, <2>5, SetStatusOfUserStep
  <2>6. CASE Logins!Tick
    BY <1>1, <2>6, LoginTick
  <2> QED
    BY <1>1, <2>1, <2>2, <2>3, <2>4, <2>5, <2>6 DEF Logins!Step
<1>2. LoginInv /\ UNCHANGED Logins!vars => LoginInv'
  BY DEF Logins!vars, LoginInv, Logins!TypeOK, Logins!AccountsAreWhole, KnowsItsUser, HasSeen,
     NothingWrittenYet
<1> QED
  BY <1>1, <1>2 DEF Logins!Next

LEMMA HonestLogins ==
  LoginInv => /\ Logins!TypeOK /\ Logins!SignedInWithAStoredPassword
              /\ Logins!RefusedLoginWroteNothing /\ Logins!AccountsAreWhole
  BY DEF LoginInv, HasSeen, NothingWrittenYet, Logins!SignedInWithAStoredPassword,
     Logins!RefusedLoginWroteNothing, Logins!At

-----------------------------------------------------------------------------
(* Requests to the review API *)

\* The proofs of ReviewApi, about the two instances that run.  The prover takes the
\* operators of two instances for different ones: that they are the same with the same
\* substitution is shown operator by operator.
TP == INSTANCE ReviewApiProofs WITH Process <- Server, Case <- {CHOOSE c \in Case : TRUE},
                                    Limit <- 1, MaxConfig <- 1, req <- call
RP == INSTANCE ReviewApiProofs WITH Process <- Server, Org <- {CHOOSE o \in Org : TRUE},
                                    Limit <- 1, MaxConfig <- 2, req <- call

\* Both instances of ReviewApi are one system: with two organizations ...
LEMMA TenantsAsProved == Tenants!Spec => TP!Spec
<1>1. Tenants!Handled = TP!Handled
  BY DEF Tenants!Handled, TP!Handled, Tenants!Parent, TP!Parent, Tenants!Handlers, TP!Handlers,
     Tenants!Reply, TP!Reply
<1>2. \A p, e : Tenants!Raise(p, e) <=> TP!Raise(p, e)
  BY <1>1 DEF Tenants!Raise, TP!Raise
<1>3. \A p, n, m : Tenants!Ok(p, n, m) <=> TP!Ok(p, n, m)
  BY DEF Tenants!Ok, TP!Ok, Tenants!Reply, TP!Reply
<1>4. \A p, s : (Tenants!Goto(p, s) <=> TP!Goto(p, s)) /\ (Tenants!At(p, s) <=> TP!At(p, s))
  BY DEF Tenants!Goto, TP!Goto, Tenants!At, TP!At
<1>5. \A q, c : Tenants!Index(q, c) = TP!Index(q, c)
  BY DEF Tenants!Index, TP!Index
<1>6. \A q, b : Tenants!Matching(q, b) = TP!Matching(q, b)
  BY DEF Tenants!Matching, TP!Matching, Tenants!Pending, TP!Pending
<1>7. \A s, n : Tenants!Page(s, n) = TP!Page(s, n)
  BY DEF Tenants!Page, TP!Page
<1>8. \A p, op, o, q, u, t : Tenants!Arrive(p, op, o, q, u, t) <=> TP!Arrive(p, op, o, q, u, t)
  BY DEF Tenants!Arrive, TP!Arrive, Tenants!At, TP!At
<1>9. \A p : Tenants!Resolve(p) <=> TP!Resolve(p)
  BY DEF Tenants!Resolve, TP!Resolve, Tenants!Index, TP!Index, Tenants!Loaded, TP!Loaded,
     Tenants!Pending, TP!Pending, Tenants!Refusals, TP!Refusals, Tenants!At, TP!At, Tenants!Raise,
     TP!Raise, Tenants!Ok, TP!Ok, Tenants!Handled, TP!Handled, Tenants!Parent, TP!Parent,
     Tenants!Handlers, TP!Handlers, Tenants!Reply, TP!Reply
<1>10. \A p : Tenants!Admit(p) => TP!Admit(p)
  BY <1>2, <1>4 DEF Tenants!Admit, TP!Admit
<1>11. \A p : Tenants!Done(p) => TP!Done(p)
  BY <1>4 DEF Tenants!Done, TP!Done, Tenants!NoRequest, TP!NoRequest
<1>12. \A p : Tenants!ReadOrganization(p) => TP!ReadOrganization(p)
  BY <1>2, <1>4 DEF Tenants!ReadOrganization, TP!ReadOrganization
<1>13. \A p : Tenants!ReadQueue(p) => TP!ReadQueue(p)
  BY <1>2, <1>4 DEF Tenants!ReadQueue, TP!ReadQueue
<1>14. \A p : Tenants!ReadMembership(p) => TP!ReadMembership(p)
  BY <1>2, <1>4 DEF Tenants!ReadMembership, TP!ReadMembership, Tenants!Capability, TP!Capability,
     Tenants!RoleCapabilities, TP!RoleCapabilities, Tenants!Roles, TP!Roles
<1>15. \A p : Tenants!CountCases(p) => TP!CountCases(p)
  BY <1>4, <1>6 DEF Tenants!CountCases, TP!CountCases
<1>16. \A p : Tenants!ListCases(p) => TP!ListCases(p)
  BY <1>3, <1>4, <1>6, <1>7 DEF Tenants!ListCases, TP!ListCases
<1>17. \A p : Tenants!GetCase(p) => TP!GetCase(p)
  BY <1>2, <1>3, <1>4, <1>5 DEF Tenants!GetCase, TP!GetCase
<1>18. \A p : Tenants!ListHistory(p) => TP!ListHistory(p)
  BY <1>3, <1>4 DEF Tenants!ListHistory, TP!ListHistory
<1>19. \A p : Tenants!StorageFails(p) => TP!StorageFails(p)
  BY <1>2, <1>4 DEF Tenants!StorageFails, TP!StorageFails, Tenants!Operations, TP!Operations
<1>20. \A p : Tenants!StorageCorrupt(p) => TP!StorageCorrupt(p)
  BY <1>2, <1>4 DEF Tenants!StorageCorrupt, TP!StorageCorrupt, Tenants!Operations, TP!Operations
<1>21. \A p : Tenants!Serve(p) => TP!Serve(p)
  BY <1>9, <1>10, <1>11, <1>12, <1>13, <1>14, <1>15, <1>16, <1>17, <1>18, <1>19, <1>20
     DEF Tenants!Serve, TP!Serve
<1>22. \A p : Tenants!Restart(p) => TP!Restart(p)
  BY DEF Tenants!Restart, TP!Restart, Tenants!NoRequest, TP!NoRequest
<1>23. \A q, c : Tenants!RegisterCase(q, c) => TP!RegisterCase(q, c)
  BY <1>5 DEF Tenants!RegisterCase, TP!RegisterCase, Tenants!InsertAt, TP!InsertAt
<1>24. \A o, u, r : Tenants!CreateMembership(o, u, r) => TP!CreateMembership(o, u, r)
  BY DEF Tenants!CreateMembership, TP!CreateMembership
<1>25. \A o, u : Tenants!RemoveMembership(o, u) => TP!RemoveMembership(o, u)
  BY DEF Tenants!RemoveMembership, TP!RemoveMembership
<1>26. \A o : Tenants!CreateOrganization(o) => TP!CreateOrganization(o)
  BY DEF Tenants!CreateOrganization, TP!CreateOrganization
<1>27. \A o : Tenants!SetOrganizationStatus(o) => TP!SetOrganizationStatus(o)
  BY DEF Tenants!SetOrganizationStatus, TP!SetOrganizationStatus
<1>28. \A q, o : Tenants!CreateReviewQueue(q, o) => TP!CreateReviewQueue(q, o)
  BY DEF Tenants!CreateReviewQueue, TP!CreateReviewQueue
<1>29. \A e : Tenants!EditConfig(e) => TP!EditConfig(e)
  BY DEF Tenants!EditConfig, TP!EditConfig
<1>30. Tenants!Observe => TP!Observe
  BY DEF Tenants!Observe, TP!Observe, Tenants!Idling, TP!Idling, Tenants!At, TP!At, Tenants!Facts,
     TP!Facts
<1>31. Tenants!Step => TP!Step
  <2>1. Tenants!Roles = TP!Roles /\ Tenants!Operations = TP!Operations
    BY DEF Tenants!Roles, TP!Roles, Tenants!Operations, TP!Operations
  <2>2. (\E p \in Server : Tenants!Serve(p) \/ Tenants!Restart(p)) => TP!Step
    BY <1>21, <1>22 DEF TP!Step
  <2>3. ASSUME NEW p \in Server, NEW op \in Tenants!Operations, NEW o \in Org, NEW q \in Queue,
               NEW u \in User \cup {None}, NEW t \in BOOLEAN, Tenants!Arrive(p, op, o, q, u, t)
        PROVE  TP!Step
    <3>1. TP!Arrive(p, op, o, q, u, t)
      BY <1>8, <2>3
    <3> QED
      BY <2>1, <3>1 DEF TP!Step
  <2>4. (\E o \in Org : Tenants!CreateOrganization(o) \/ Tenants!SetOrganizationStatus(o)) => TP!Step
    BY <1>26, <1>27 DEF TP!Step
  <2>5. (\E o \in Org, u \in User : \/ Tenants!RemoveMembership(o, u)
                               \/ \E r \in Tenants!Roles : Tenants!CreateMembership(o, u, r)) => TP!Step
    BY <1>24, <1>25, <2>1 DEF TP!Step
  <2>6. (\E q \in Queue : \/ \E o \in Org : Tenants!CreateReviewQueue(q, o)
                         \/ \E c \in {CHOOSE c \in Case : TRUE} : Tenants!RegisterCase(q, c)) => TP!Step
    BY <1>23, <1>28 DEF TP!Step
  <2>7. (\E e \in 0..1 : Tenants!EditConfig(e)) => TP!Step
    BY <1>29 DEF TP!Step
  <2> QED
    BY <2>2, <2>3, <2>4, <2>5, <2>6, <2>7 DEF Tenants!Step
<1>32. Tenants!Next => TP!Next
  BY <1>30, <1>31 DEF Tenants!Next, TP!Next
<1>33. Tenants!Init => TP!Init
  BY DEF Tenants!Init, TP!Init, Tenants!NoRequest, TP!NoRequest
<1>34. [Tenants!Next]_(Tenants!vars) => [TP!Next]_(TP!vars)
  BY <1>32 DEF Tenants!vars, TP!vars
<1> QED
  BY <1>33, <1>34, PTL DEF Tenants!Spec, TP!Spec

\* ... and with two cases and an edited configuration.
LEMMA ReadsAsProved == Reads!Spec => RP!Spec
<1>1. Reads!Handled = RP!Handled
  BY DEF Reads!Handled, RP!Handled, Reads!Parent, RP!Parent, Reads!Handlers, RP!Handlers,
     Reads!Reply, RP!Reply
<1>2. \A p, e : Reads!Raise(p, e) <=> RP!Raise(p, e)
  BY <1>1 DEF Reads!Raise, RP!Raise
<1>3. \A p, n, m : Reads!Ok(p, n, m) <=> RP!Ok(p, n, m)
  BY DEF Reads!Ok, RP!Ok, Reads!Reply, RP!Reply
<1>4. \A p, s : (Reads!Goto(p, s) <=> RP!Goto(p, s)) /\ (Reads!At(p, s) <=> RP!At(p, s))
  BY DEF Reads!Goto, RP!Goto, Reads!At, RP!At
<1>5. \A q, c : Reads!Index(q, c) = RP!Index(q, c)
  BY DEF Reads!Index, RP!Index
<1>6. \A q, b : Reads!Matching(q, b) = RP!Matching(q, b)
  BY DEF Reads!Matching, RP!Matching, Reads!Pending, RP!Pending
<1>7. \A s, n : Reads!Page(s, n) = RP!Page(s, n)
  BY DEF Reads!Page, RP!Page
<1>8. \A p, op, o, q, u, t : Reads!Arrive(p, op, o, q, u, t) <=> RP!Arrive(p, op, o, q, u, t)
  BY DEF Reads!Arrive, RP!Arrive, Reads!At, RP!At
<1>9. \A p : Reads!Resolve(p) <=> RP!Resolve(p)
  BY DEF Reads!Resolve, RP!Resolve, Reads!Index, RP!Index, Reads!Loaded, RP!Loaded, Reads!Pending,
     RP!Pending, Reads!Refusals, RP!Refusals, Reads!At, RP!At, Reads!Raise, RP!Raise, Reads!Ok,
     RP!Ok, Reads!Handled, RP!Handled, Reads!Parent, RP!Parent, Reads!Handlers, RP!Handlers,
     Reads!Reply, RP!Reply
<1>10. \A p : Reads!Admit(p) => RP!Admit(p)
  BY <1>2, <1>4 DEF Reads!Admit, RP!Admit
<1>11. \A p : Reads!Done(p) => RP!Done(p)
  BY <1>4 DEF Reads!Done, RP!Done, Reads!NoRequest, RP!NoRequest
<1>12. \A p : Reads!ReadOrganization(p) => RP!ReadOrganization(p)
  BY <1>2, <1>4 DEF Reads!ReadOrganization, RP!ReadOrganization
<1>13. \A p : Reads!ReadQueue(p) => RP!ReadQueue(p)
  BY <1>2, <1>4 DEF Reads!ReadQueue, RP!ReadQueue
<1>14. \A p : Reads!ReadMembership(p) => RP!ReadMembership(p)
  BY <1>2, <1>4 DEF Reads!ReadMembership, RP!ReadMembership, Reads!Capability, RP!Capability,
     Reads!RoleCapabilities, RP!RoleCapabilities, Reads!Roles, RP!Roles
<1>15. \A p : Reads!CountCases(p) => RP!CountCases(p)
  BY <1>4, <1>6 DEF Reads!CountCases, RP!CountCases
<1>16. \A p : Reads!ListCases(p) => RP!ListCases(p)
  BY <1>3, <1>4, <1>6, <1>7 DEF Reads!ListCases, RP!ListCases
<1>17. \A p : Reads!GetCase(p) => RP!GetCase(p)
  BY <1>2, <1>3, <1>4, <1>5 DEF Reads!GetCase, RP!GetCase
<1>18. \A p : Reads!ListHistory(p) => RP!ListHistory(p)
  BY <1>3, <1>4 DEF Reads!ListHistory, RP!ListHistory
<1>19. \A p : Reads!StorageFails(p) => RP!StorageFails(p)
  BY <1>2, <1>4 DEF Reads!StorageFails, RP!StorageFails, Reads!Operations, RP!Operations
<1>20. \A p : Reads!StorageCorrupt(p) => RP!StorageCorrupt(p)
  BY <1>2, <1>4 DEF Reads!StorageCorrupt, RP!StorageCorrupt, Reads!Operations, RP!Operations
<1>21. \A p : Reads!Serve(p) => RP!Serve(p)
  BY <1>9, <1>10, <1>11, <1>12, <1>13, <1>14, <1>15, <1>16, <1>17, <1>18, <1>19, <1>20
     DEF Reads!Serve, RP!Serve
<1>22. \A p : Reads!Restart(p) => RP!Restart(p)
  BY DEF Reads!Restart, RP!Restart, Reads!NoRequest, RP!NoRequest
<1>23. \A q, c : Reads!RegisterCase(q, c) => RP!RegisterCase(q, c)
  BY <1>5 DEF Reads!RegisterCase, RP!RegisterCase, Reads!InsertAt, RP!InsertAt
<1>24. \A o, u, r : Reads!CreateMembership(o, u, r) => RP!CreateMembership(o, u, r)
  BY DEF Reads!CreateMembership, RP!CreateMembership
<1>25. \A o, u : Reads!RemoveMembership(o, u) => RP!RemoveMembership(o, u)
  BY DEF Reads!RemoveMembership, RP!RemoveMembership
<1>26. \A o : Reads!CreateOrganization(o) => RP!CreateOrganization(o)
  BY DEF Reads!CreateOrganization, RP!CreateOrganization
<1>27. \A o : Reads!SetOrganizationStatus(o) => RP!SetOrganizationStatus(o)
  BY DEF Reads!SetOrganizationStatus, RP!SetOrganizationStatus
<1>28. \A q, o : Reads!CreateReviewQueue(q, o) => RP!CreateReviewQueue(q, o)
  BY DEF Reads!CreateReviewQueue, RP!CreateReviewQueue
<1>29. \A e : Reads!EditConfig(e) => RP!EditConfig(e)
  BY DEF Reads!EditConfig, RP!EditConfig
<1>30. Reads!Observe => RP!Observe
  BY DEF Reads!Observe, RP!Observe, Reads!Idling, RP!Idling, Reads!At, RP!At, Reads!Facts, RP!Facts
<1>31. Reads!Step => RP!Step
  <2>1. Reads!Roles = RP!Roles /\ Reads!Operations = RP!Operations
    BY DEF Reads!Roles, RP!Roles, Reads!Operations, RP!Operations
  <2>2. (\E p \in Server : Reads!Serve(p) \/ Reads!Restart(p)) => RP!Step
    BY <1>21, <1>22 DEF RP!Step
  <2>3. ASSUME NEW p \in Server, NEW op \in Reads!Operations, NEW o \in {CHOOSE o \in Org : TRUE},
               NEW q \in Queue,
               NEW u \in User \cup {None}, NEW t \in BOOLEAN, Reads!Arrive(p, op, o, q, u, t)
        PROVE  RP!Step
    <3>1. RP!Arrive(p, op, o, q, u, t)
      BY <1>8, <2>3
    <3> QED
      BY <2>1, <3>1 DEF RP!Step
  <2>4. (\E o \in {CHOOSE o \in Org : TRUE} : \/ Reads!CreateOrganization(o)
                                           \/ Reads!SetOrganizationStatus(o)) => RP!Step
    BY <1>26, <1>27 DEF RP!Step
  <2>5. (\E o \in {CHOOSE o \in Org : TRUE}, u \in User : \/ Reads!RemoveMembership(o, u)
                               \/ \E r \in Reads!Roles : Reads!CreateMembership(o, u, r)) => RP!Step
    BY <1>24, <1>25, <2>1 DEF RP!Step
  <2>6. (\E q \in Queue : \/ \E o \in {CHOOSE o \in Org : TRUE} : Reads!CreateReviewQueue(q, o)
                         \/ \E c \in Case : Reads!RegisterCase(q, c)) => RP!Step
    BY <1>23, <1>28 DEF RP!Step
  <2>7. (\E e \in 0..2 : Reads!EditConfig(e)) => RP!Step
    BY <1>29 DEF RP!Step
  <2> QED
    BY <2>2, <2>3, <2>4, <2>5, <2>6, <2>7 DEF Reads!Step
<1>32. Reads!Next => RP!Next
  BY <1>30, <1>31 DEF Reads!Next, RP!Next
<1>33. Reads!Init => RP!Init
  BY DEF Reads!Init, RP!Init, Reads!NoRequest, RP!NoRequest
<1>34. [Reads!Next]_(Reads!vars) => [RP!Next]_(RP!vars)
  BY <1>32 DEF Reads!vars, RP!vars
<1> QED
  BY <1>33, <1>34, PTL DEF Reads!Spec, RP!Spec

-----------------------------------------------------------------------------
(* The whole *)

\* Each part runs as if it were alone.
LEMMA SessionsRun == MCSpec => Spec
<1>1. MCInit => Init
  BY DEF MCInit
<1>2. [MCNext]_<<part, vars, loginVars, apiVars>> => [Next]_vars
  BY DEF MCNext
<1> QED
  BY <1>1, <1>2, PTL DEF MCSpec, Spec

LEMMA LoginsRun == MCSpec => Logins!Spec
<1>1. MCInit => Logins!Init
  BY DEF MCInit
<1>2. [MCNext]_<<part, vars, loginVars, apiVars>> => [Logins!Next]_(Logins!vars)
  BY DEF MCNext, loginVars, Logins!vars
<1> QED
  BY <1>1, <1>2, PTL DEF MCSpec, Logins!Spec

LEMMA TenantsRun == MCSpec /\ part # "reads" => Tenants!Spec /\ [](part # "reads")
<1>1. MCInit /\ part # "reads" => Tenants!Init
  BY DEF MCInit
<1>2. part # "reads" /\ [MCNext]_<<part, vars, loginVars, apiVars>>
        => (part # "reads")' /\ [Tenants!Next]_(Tenants!vars)
  BY DEF MCNext, apiVars, Tenants!vars
<1> QED
  BY <1>1, <1>2, PTL DEF MCSpec, Tenants!Spec

LEMMA ReadsRun == MCSpec /\ part = "reads" => Reads!Spec /\ [](part = "reads")
<1>1. MCInit /\ part = "reads" => Reads!Init
  BY DEF MCInit
<1>2. part = "reads" /\ [MCNext]_<<part, vars, loginVars, apiVars>>
        => (part = "reads")' /\ [Reads!Next]_(Reads!vars)
  BY DEF MCNext, apiVars, Reads!vars
<1> QED
  BY <1>1, <1>2, PTL DEF MCSpec, Reads!Spec

LEMMA LoginInvariant == MCSpec => []LoginInv
  BY LoginsRun, InitLogins, NextLogins, PTL DEF Logins!Spec

\* A login that succeeds gave a password that was stored meanwhile for that user, one that
\* is refused wrote nothing, and provisioning leaves no half account (LoginService,
\* AuthenticationService, provisioning).
THEOREM HonestAnswersToLogins == MCSpec => []LoginsAreHonest
<1>1. LoginInv => LoginsAreHonest
  BY HonestLogins DEF LoginsAreHonest
<1> QED
  BY LoginInvariant, <1>1, PTL

\* The rows of the identity and tenant tables keep their types and their foreign keys
\* (identity, tenant_repository).
THEOREM TablesAreTyped == MCSpec => []TypesOK
<1>1. LoginInv => Logins!TypeOK
  BY HonestLogins
<1>2. TP!LimitAssumption /\ TP!NoneAssumption /\ RP!LimitAssumption /\ RP!NoneAssumption
  BY ApiAssumption DEF Tenants!LimitAssumption, TP!LimitAssumption, Reads!LimitAssumption,
     RP!LimitAssumption, Tenants!NoneAssumption, TP!NoneAssumption, Reads!NoneAssumption,
     RP!NoneAssumption
<1>3. TP!Spec => []TP!TypeOK
  BY <1>2, TP!TenantsAreTyped
<1>4. RP!Spec => []RP!TypeOK
  BY <1>2, RP!TenantsAreTyped
<1>5. (TP!TypeOK <=> Tenants!TypeOK) /\ (RP!TypeOK <=> Reads!TypeOK)
  BY DEF TP!TypeOK, Tenants!TypeOK, RP!TypeOK, Reads!TypeOK, TP!Roles, Tenants!Roles, RP!Roles,
     Reads!Roles, TP!IsInjective, Tenants!IsInjective, RP!IsInjective, Reads!IsInjective
<1>6. MCSpec /\ part = "reads" => [](part = "reads" /\ RP!TypeOK)
  BY <1>4, ReadsRun, ReadsAsProved, PTL
<1>7. MCSpec /\ part # "reads" => [](part # "reads" /\ TP!TypeOK)
  BY <1>3, TenantsRun, TenantsAsProved, PTL
<1>8. /\ TypeOK /\ IdleFollowsActivity /\ Logins!TypeOK /\ part = "reads" /\ RP!TypeOK => TypesOK
      /\ TypeOK /\ IdleFollowsActivity /\ Logins!TypeOK /\ part # "reads" /\ TP!TypeOK => TypesOK
  BY <1>5 DEF TypesOK
<1>9. part = "reads" \/ part # "reads"
  OBVIOUS
<1>10. MCSpec => [](TypeOK /\ IdleFollowsActivity) /\ []Logins!TypeOK
  BY <1>1, SessionsRun, SessionsAreTyped, LoginInvariant, PTL
<1> QED
  BY <1>6, <1>7, <1>8, <1>9, <1>10, PTL

\* Whoever is not, at any moment of a request, a member of the active organization that
\* owns the queue learns nothing from the answer (tenancy.authorize and the handlers).
THEOREM AnswersStayInTheTenant == MCSpec => []AnswersAreForMembers
<1>1. TP!Spec => []TP!AnswersAreForMembers
  BY TP!OutsidersLearnNothing
<1>2. TP!AnswersAreForMembers => AnswersAreForMembers
  BY DEF AnswersAreForMembers, TP!AnswersAreForMembers, Tenants!AnswersAreForMembers, TP!At,
     Tenants!At,
     TP!Uninformative, Tenants!Uninformative, TP!Reply, Tenants!Reply
<1>3. part = "reads" => AnswersAreForMembers
  BY DEF AnswersAreForMembers
<1>4. MCSpec /\ part # "reads" => []AnswersAreForMembers
  BY <1>1, <1>2, TenantsRun, TenantsAsProved, PTL
<1>5. MCSpec /\ part = "reads" => []AnswersAreForMembers
  BY <1>3, ReadsRun, PTL
<1>6. part = "reads" \/ part # "reads"
  OBVIOUS
<1> QED
  BY <1>4, <1>5, <1>6, PTL

\* A decision is made by a user who was, at some moment of that request, a reviewer of the
\* active organization that owns the queue (tenancy.authorize, resolve_case).
THEOREM ReviewersMakeDecisions == MCSpec => DecidedByReviewers
<1> DEFINE D == \A q \in Queue : \A i \in DOMAIN rows[q] :
                  Len(rows'[q]) = Len(rows[q]) /\ rows'[q][i].by # rows[q][i].by =>
                    \E p \in Server : /\ call[p].at = "resolve"
                                      /\ call[p].user = rows'[q][i].by /\ call[p].queue = q
                                      /\ {"active", "owned", "reviewer"} \subseteq saw[p]
<1>1. TP!Spec => [][D]_apiVars
  BY TP!ReviewersDecide DEF TP!DecidedByReviewers, TP!At, TP!vars, apiVars
<1>2. RP!Spec => [][D]_apiVars
  BY RP!ReviewersDecide DEF RP!DecidedByReviewers, RP!At, RP!vars, apiVars
<1>3. part = "reads" \/ part # "reads"
  OBVIOUS
<1>4. MCSpec => [][D]_apiVars
  BY <1>1, <1>2, <1>3, TenantsRun, TenantsAsProved, ReadsRun, ReadsAsProved, PTL
<1> QED
  BY <1>4 DEF DecidedByReviewers, Tenants!DecidedByReviewers, Tenants!At, Tenants!vars, apiVars

\* One process answers with one edition of the config, and the unfiltered list never
\* withholds a row that it has counted (_entity_resolution_config, list_review_cases).
THEOREM AnswersFitTogether == MCSpec => []AnswersAreConsistent
<1>1. TP!LimitAssumption /\ RP!LimitAssumption
  BY ApiAssumption DEF Tenants!LimitAssumption, TP!LimitAssumption, Reads!LimitAssumption,
     RP!LimitAssumption
<1>2. TP!Spec => []TP!ConfigIsStable /\ []TP!PageReachesItsTotal
  BY <1>1, TP!OneEditionPerProcess, TP!PagesReachTheirTotal
<1>3. RP!Spec => []RP!ConfigIsStable /\ []RP!PageReachesItsTotal
  BY <1>1, RP!OneEditionPerProcess, RP!PagesReachTheirTotal
<1>4. (TP!ConfigIsStable <=> Reads!ConfigIsStable) /\ (RP!ConfigIsStable <=> Reads!ConfigIsStable)
  BY DEF TP!ConfigIsStable, RP!ConfigIsStable, Reads!ConfigIsStable, TP!Cardinality,
     RP!Cardinality, Reads!Cardinality, TP!IsFiniteSet, RP!IsFiniteSet, Reads!IsFiniteSet
<1>5. TP!PageReachesItsTotal <=> Reads!PageReachesItsTotal
  BY DEF TP!PageReachesItsTotal, Reads!PageReachesItsTotal, TP!At, Reads!At, TP!Min, Reads!Min
<1>6. RP!PageReachesItsTotal <=> Reads!PageReachesItsTotal
  BY DEF RP!PageReachesItsTotal, Reads!PageReachesItsTotal, RP!At, Reads!At, RP!Min, Reads!Min
<1>7. /\ TP!ConfigIsStable /\ TP!PageReachesItsTotal => AnswersAreConsistent
      /\ RP!ConfigIsStable /\ RP!PageReachesItsTotal => AnswersAreConsistent
  BY <1>4, <1>5, <1>6 DEF AnswersAreConsistent
<1>8. part = "reads" \/ part # "reads"
  OBVIOUS
<1> QED
  BY <1>2, <1>3, <1>7, <1>8, TenantsRun, TenantsAsProved, ReadsRun, ReadsAsProved, PTL
=============================================================================
