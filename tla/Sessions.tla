------------------------------ MODULE Sessions ------------------------------
(***************************************************************************)
(* Browser sessions: creation at login, resolution and renewal on every    *)
(* authenticated request, and revocation at logout.                        *)
(*                                                                         *)
(* Several server processes share one store.  Each SELECT and each write   *)
(* transaction is one step, so a request is a sequence of steps with the   *)
(* other processes, the clock and the operator in between; in particular a *)
(* request reads the clock before it waits for the write lock.             *)
(*                                                                         *)
(* An operator commented "Broken variant" is a plausible bug of the one    *)
(* that follows it; no specification uses it.                              *)
(***************************************************************************)
EXTENDS Integers, FiniteSets, TLC

CONSTANTS
  Process,    \* server processes, each serving one request at a time
  SessionId,  \* ids (and tokens) of the sessions that can be created
  User,       \* accounts
  Idle,       \* idle_timeout, in ticks of the stored resolution
  Absolute,   \* absolute_timeout
  None,       \* NULL
  MaxTime     \* bound on the clock

ASSUME PolicyAssumption == Idle \in Nat \ {0} /\ Absolute \in Nat /\ Idle < Absolute
ASSUME BoundAssumption == MaxTime \in Nat

VARIABLES
  clock,    \* the shared clock of the host
  stored,   \* the session rows, None where none was inserted
  active,   \* the users whose status is ACTIVE
  req,      \* what each process is doing
  sawLive,  \* history: the session was usable at a moment of the request
  sawUser   \* history: its owner was active at a moment of the request

vars == <<clock, stored, active, req, sawLive, sawUser>>

Earlier(a, b) == IF a < b THEN a ELSE b

Row == [user : User, last : Nat, idle : Nat, absolute : Nat, revoked : Nat \cup {None}]

ASSUME NoneAssumption == None \notin Int /\ None \notin SessionId /\ None \notin Row

Steps == {"resolve", "judge", "touch", "renew", "update", "recheck", "reread",
          "insert", "revoke", "mark"}
Request == [at : Steps, session : SessionId, user : User,
            row : Row \cup {None}, now : Nat, kind : {"use", "login", "logout"}]
Answer == [at : {"served"}, session : SessionId, row : Row, now : Nat]
Refusal == [at : {"refused"}]
Ready == [at |-> "ready"]

TypeOK ==
  /\ clock \in Nat
  /\ stored \in [SessionId -> Row \cup {None}]
  /\ active \subseteq User
  /\ req \in [Process -> Request \cup Answer \cup Refusal \cup {Ready}]
  /\ sawLive \in [Process -> BOOLEAN]
  /\ sawUser \in [Process -> BOOLEAN]

Expired(row, now) == now >= row.absolute \/ now >= row.idle
\* Broken variant: an expired session is still usable while it is not revoked.
UsableBeforeExpiry(row, now) == row.revoked = None

Usable(row, now) == row.revoked = None /\ ~Expired(row, now)

\* Broken variant: nothing caps the idle window.
IdleWindowUncapped(now, absolute) == now + Idle

\* touch_session and create_session: activity opens an idle window, but never
\* one that outlasts the absolute bound.
IdleWindow(now, absolute) == Earlier(now + Idle, absolute)

Opened(u, now) == [user |-> u, last |-> now, idle |-> IdleWindow(now, now + Absolute),
                   absolute |-> now + Absolute, revoked |-> None]

\* Broken variant: the renewal forgets the revocation.
RenewableRevoked(row, now) == row.last <= now /\ row.idle > now /\ row.absolute > now

\* The WHERE clause of the conditional renewal.
Renewable(row, now) == /\ row.revoked = None
                       /\ row.last <= now
                       /\ row.idle > now
                       /\ row.absolute > now

Renewed(row, now) == [row EXCEPT !.last = now, !.idle = IdleWindow(now, row.absolute)]

\* The WHERE clause of the revocation: the first instant stands.
Revoked(row, now) == IF row.revoked = None THEN [row EXCEPT !.revoked = now] ELSE row

Init == /\ clock = 0
        /\ stored = [s \in SessionId |-> None]
        /\ active = User
        /\ req = [p \in Process |-> Ready]
        /\ sawLive = [p \in Process |-> FALSE]
        /\ sawUser = [p \in Process |-> FALSE]

----------------------------------------------------------------------------
\* Every step of a process ends with one of these.
Goto(p, step) == req' = [req EXCEPT ![p].at = step]
Read(p, row, step) == req' = [req EXCEPT ![p].row = row, ![p].at = step]
Judge(p, now, step) == req' = [req EXCEPT ![p].now = now, ![p].at = step]
Serve(p, row) == req' = [req EXCEPT ![p] = [at |-> "served", session |-> req[p].session,
                                           row |-> row, now |-> req[p].now]]
Refuse(p) == req' = [req EXCEPT ![p] = [at |-> "refused"]]
Finish(p) == req' = [req EXCEPT ![p] = Ready]

Waiting(p) == req[p].at \in {"ready", "served", "refused"}
InRequest(p) == ~Waiting(p) /\ req[p].kind = "use"
At(p, step) == req[p].at = step

\* A request brings the token of a session that was handed out at some time.
Arrive(p, s, kind) ==
  /\ Waiting(p)
  /\ stored[s] # None
  /\ req' = [req EXCEPT ![p] = [at |-> IF kind = "logout" THEN "revoke" ELSE "resolve",
                                session |-> s, user |-> stored[s].user, row |-> None,
                                now |-> clock, kind |-> kind]]
  /\ UNCHANGED <<clock, stored, active>>

----------------------------------------------------------------------------
\* Login, once the password is verified: the user is read again, the clock is
\* read, and the row is inserted.
BeginSession(p, u) ==
  /\ Waiting(p)
  /\ u \in active
  /\ \E s \in SessionId :
       /\ stored[s] = None
       /\ \A q \in Process : ~Waiting(q) => req[q].session # s
       /\ req' = [req EXCEPT ![p] = [at |-> "insert", session |-> s, user |-> u, row |-> None,
                                     now |-> clock, kind |-> "login"]]
  /\ UNCHANGED <<clock, stored, active>>

InsertSession(p) ==
  /\ At(p, "insert")
  /\ stored' = [stored EXCEPT ![req[p].session] = Opened(req[p].user, req[p].now)]
  /\ Finish(p)
  /\ UNCHANGED <<clock, active>>

\* An authenticated request resolves its session: it reads the row, then reads
\* the clock and judges the row, then reads the owner.
ResolveLookup(p) ==
  /\ At(p, "resolve")
  /\ Read(p, stored[req[p].session], "judge")
  /\ UNCHANGED <<clock, stored, active>>

ResolveJudge(p) ==
  /\ At(p, "judge")
  /\ IF Usable(req[p].row, clock) /\ req[p].row.user \in active
       THEN Goto(p, "touch")
       ELSE Refuse(p)
  /\ UNCHANGED <<clock, stored, active>>

\* It then records activity: a second read, a second judgement ...
TouchLookup(p) ==
  /\ At(p, "touch")
  /\ Read(p, stored[req[p].session], "renew")
  /\ UNCHANGED <<clock, stored, active>>

TouchJudge(p) ==
  /\ At(p, "renew")
  /\ IF Usable(req[p].row, clock) THEN Judge(p, clock, "update") ELSE Refuse(p)
  /\ UNCHANGED <<clock, stored, active>>

\* ... and the conditional update, stamped with the clock reading before it.
TouchUpdate(p) ==
  /\ At(p, "update")
  /\ LET s == req[p].session
     IN IF Renewable(stored[s], req[p].now)
          THEN /\ stored' = [stored EXCEPT ![s] = Renewed(stored[s], req[p].now)]
               /\ Serve(p, Renewed(stored[s], req[p].now))
          ELSE Goto(p, "recheck") /\ UNCHANGED stored
  /\ UNCHANGED <<clock, active>>

\* The row moved: it is read and judged again, at the old clock reading, and if
\* it is still usable, read once more for the answer.
TouchRecheck(p) ==
  /\ At(p, "recheck")
  /\ LET row == stored[req[p].session]
     IN /\ IF Usable(row, req[p].now) THEN Goto(p, "reread") ELSE Refuse(p)
  /\ UNCHANGED <<clock, stored, active>>

TouchReread(p) ==
  /\ At(p, "reread")
  /\ Serve(p, stored[req[p].session])
  /\ UNCHANGED <<clock, stored, active>>

\* Logout does not resolve: it looks the row up, reads the clock and revokes.
RevokeLookup(p) ==
  /\ At(p, "revoke")
  /\ req' = [req EXCEPT ![p].now = clock, ![p].at = "mark"]
  /\ UNCHANGED <<clock, stored, active>>

RevokeUpdate(p) ==
  /\ At(p, "mark")
  /\ stored' = [stored EXCEPT ![req[p].session] = Revoked(@, req[p].now)]
  /\ Finish(p)
  /\ UNCHANGED <<clock, active>>

----------------------------------------------------------------------------
\* Time passes between any two steps; an operator changes the status of a user.
Tick == /\ clock < MaxTime
        /\ clock' = clock + 1
        /\ UNCHANGED <<stored, active, req>>

SetUserStatus(u) == /\ active' = IF u \in active THEN active \ {u} ELSE active \cup {u}
                    /\ UNCHANGED <<clock, stored, req>>

Proceed(p) ==
  \/ InsertSession(p)
  \/ ResolveLookup(p) \/ ResolveJudge(p)
  \/ TouchLookup(p) \/ TouchJudge(p) \/ TouchUpdate(p) \/ TouchRecheck(p) \/ TouchReread(p)
  \/ RevokeLookup(p) \/ RevokeUpdate(p)

Step ==
  \/ \E p \in Process, u \in User : BeginSession(p, u)
  \/ \E p \in Process, s \in SessionId : Arrive(p, s, "use") \/ Arrive(p, s, "logout")
  \/ \E p \in Process : Proceed(p)
  \/ \E u \in User : SetUserStatus(u)
  \/ Tick

\* What a request saw starts afresh when it arrives, then only grows, and is
\* kept with the answer.
LiveNow(s) == /\ stored[s] # None /\ stored[s].revoked = None
              /\ clock < stored[s].idle /\ clock < stored[s].absolute
Seen(p, before, now) == IF InRequest(p)' THEN (InRequest(p) /\ before) \/ now
                                         ELSE before /\ (req[p].at = "served")'
Observe ==
  /\ sawLive' = [p \in Process |-> Seen(p, sawLive[p], LiveNow(req[p].session)')]
  /\ sawUser' = [p \in Process |-> Seen(p, sawUser[p], (req[p].user \in active)')]

Next == Step /\ Observe

Spec == Init /\ [][Next]_vars

----------------------------------------------------------------------------
\* Every row is what its last activity makes it: the idle bound follows the
\* activity, is capped by the absolute bound, and no activity is in the future.
IdleFollowsActivity ==
  \A s \in SessionId : stored[s] # None =>
    /\ stored[s].idle <= stored[s].absolute
    /\ stored[s].idle <= stored[s].last + Idle
    /\ stored[s].idle \in {stored[s].absolute, stored[s].last + Idle}
    /\ stored[s].last <= clock
    /\ stored[s].last < stored[s].absolute

\* A request is served only if its session was usable, and its owner active, at
\* some moment between its arrival and its answer: what was revoked, expired or
\* disabled before it arrived and stays so is refused.  And the request is on
\* record: the activity stored is at least as recent, also when its own update found
\* the row moved and wrote nothing (touch_session answers "Nothing is owed" from this).
ServedWasLive ==
  \A p \in Process :
    /\ req[p].at = "served" => sawLive[p] /\ sawUser[p]
    /\ req[p].at \in {"served", "reread"} => stored[req[p].session].last >= req[p].now

\* What a session has been through stands: activity never moves backwards, however
\* late an update reaches the store, and a revoked row keeps its first revocation
\* instant and is never renewed.
SessionsOnlyAge ==
  [][\A s \in SessionId : stored[s] # None =>
       /\ stored'[s].last >= stored[s].last
       /\ stored[s].revoked # None => stored'[s] = stored[s]]_vars
=============================================================================
