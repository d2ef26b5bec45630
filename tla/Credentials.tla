---------------------------- MODULE Credentials ----------------------------
(***************************************************************************)
(* Accounts and their passwords: the login of a user, which may upgrade    *)
(* the stored verifier, and the operator who provisions accounts and sets  *)
(* passwords, over one store that several processes share.                 *)
(*                                                                         *)
(* A verifier is the password it accepts and whether the current hashing   *)
(* parameters made it; hashing itself is left out.  Each SELECT and each   *)
(* write transaction is one step, and a stamp is read before the           *)
(* transaction that stores it.  An operator commented "Broken variant" is  *)
(* a plausible bug of the one that follows it; no specification uses it.   *)
(***************************************************************************)
EXTENDS Naturals, FiniteSets, TLC

CONSTANTS
  Process,   \* processes: API servers and operator commands
  User,      \* user ids that can be minted
  Handle,    \* normalized login handles
  Password,  \* passwords
  Allowed,   \* the passwords that the policy accepts
  None,      \* NULL, and no row
  MaxTime    \* bound on the clock

AllowedAssumption == Allowed \subseteq Password

VARIABLES
  clock,     \* the clock of the host
  users,     \* the user rows
  verifier,  \* the credential row of each user
  sessions,  \* the users for whom a login stored a session
  job,       \* what each process is doing
  bare,      \* history: users created without a password
  seen       \* history: the store has held what a login gave since it began

vars == <<clock, users, verifier, sessions, job, bare, seen>>

Ready == [at |-> "ready"]
Verifier == [password : Password, strong : BOOLEAN, created : Nat, updated : Nat]
UserRow == [handle : Handle, active : BOOLEAN]
NoneAssumption == None \notin Nat \cup User \cup Handle \cup Password \cup Verifier \cup UserRow

Steps == {"user", "credential", "stamp", "rehash", "account", "insert", "replace"}
Working == [at : Steps, user : User \cup {None}, handle : Handle \cup {None}, password : Password,
            enabled : BOOLEAN, row : Verifier \cup {None}, now : Nat, wrote : BOOLEAN]
Done == [at : {"200", "401", "500"}, user : User \cup {None}, password : Password,
         wrote : BOOLEAN]

TypeOK ==
  /\ clock \in Nat
  /\ users \in [User -> UserRow \cup {None}]
  /\ verifier \in [User -> Verifier \cup {None}]
  /\ sessions \subseteq User
  /\ job \in [Process -> Working \cup Done \cup {Ready}]
  /\ bare \subseteq User
  /\ seen \in [Process -> BOOLEAN]

Fresh(w, s, now) == [password |-> w, strong |-> s, created |-> now, updated |-> now]

\* An account may exist, with a verifier of this build or of an older one.
Init ==
  /\ clock = 0
  /\ \/ /\ users = [u \in User |-> None]
        /\ verifier = [u \in User |-> None]
     \/ \E u \in User, h \in Handle, s \in BOOLEAN, w \in Password :
          /\ users = [v \in User |-> IF v = u THEN [handle |-> h, active |-> TRUE] ELSE None]
          /\ verifier = [v \in User |-> IF v = u THEN Fresh(w, s, 0) ELSE None]
  /\ sessions = {}
  /\ job = [p \in Process |-> Ready]
  /\ bare = {}
  /\ seen = [p \in Process |-> FALSE]

Owner(h) == {u \in User : users[u] # None /\ users[u].handle = h}
Idling(p) == job[p].at \in {"ready", "200", "401", "500"}
At(p, step) == job[p].at = step

\* ON CONFLICT keeps the instant at which the user first got a password.
Upserted(old, new) == IF old = None THEN new ELSE [new EXCEPT !.created = old.created]

\* CHECK (updated_at_utc >= created_at_utc)
Storable(row) == row.updated >= row.created

Answered(p, code) ==
  [at |-> code, user |-> job[p].user, password |-> job[p].password, wrote |-> job[p].wrote]
Reply(p, code) == job' = [job EXCEPT ![p] = Answered(p, code)]
Goto(p, step) == job' = [job EXCEPT ![p].at = step]

Started(step, u, h, w, row) ==
  [at |-> step, user |-> u, handle |-> h, password |-> w, enabled |-> FALSE,
   row |-> row, now |-> clock, wrote |-> FALSE]

----------------------------------------------------------------------------
\* Login: the user row, then the credential row and the verdict on both ...
Login(p, h, w) ==
  /\ Idling(p)
  /\ job' = [job EXCEPT ![p] = Started("user", None, h, w, None)]
  /\ UNCHANGED <<clock, users, verifier, sessions, bare>>

FindUser(p) ==
  /\ At(p, "user")
  /\ \/ /\ Owner(job[p].handle) = {}
        /\ Reply(p, "401")
     \/ \E u \in Owner(job[p].handle) :
          job' = [job EXCEPT ![p].user = u, ![p].enabled = users[u].active,
                             ![p].at = "credential"]
  /\ UNCHANGED <<clock, users, verifier, sessions, bare>>

Accepts(row, w) == row # None /\ row.password = w

Authenticate(p) ==
  /\ At(p, "credential")
  /\ LET row == verifier[job[p].user]
     IN IF Accepts(row, job[p].password) /\ job[p].enabled
          THEN job' = [job EXCEPT ![p].row = row,
                                  ![p].at = IF row.strong THEN "account" ELSE "stamp"]
          ELSE Reply(p, "401")
  /\ UNCHANGED <<clock, users, verifier, sessions, bare>>

\* ... the upgrade of a weak verifier, hashed and stamped before its transaction ...
StampRehash(p) ==
  /\ At(p, "stamp")
  /\ job' = [job EXCEPT ![p].now = clock, ![p].at = "rehash"]
  /\ UNCHANGED <<clock, users, verifier, sessions, bare>>

Rehash(p) ==
  /\ At(p, "rehash")
  /\ LET u == job[p].user
         new == [Fresh(job[p].password, TRUE, job[p].row.created) EXCEPT !.updated = job[p].now]
         row == Upserted(verifier[u], new)
     IN /\ Storable(row)
        /\ verifier' = [verifier EXCEPT ![u] = row]
  /\ job' = [job EXCEPT ![p].wrote = TRUE, ![p].at = "account"]
  /\ UNCHANGED <<clock, users, sessions, bare>>

\* ... and the session, for which the user is read again.
CheckAccount(p) ==
  /\ At(p, "account")
  /\ IF users[job[p].user].active THEN Goto(p, "insert") ELSE Reply(p, "500")
  /\ UNCHANGED <<clock, users, verifier, sessions, bare>>

StoreSession(p) ==
  /\ At(p, "insert")
  /\ sessions' = sessions \cup {job[p].user}
  /\ job' = [job EXCEPT ![p] = [Answered(p, "200") EXCEPT !.wrote = TRUE]]
  /\ UNCHANGED <<clock, users, verifier, bare>>

\* A transaction that cannot take the lock, or that a CHECK refuses, stores
\* nothing and ends the request.
StorageFails(p) ==
  /\ job[p].at \in {"rehash", "insert", "replace"}
  /\ job' = [job EXCEPT ![p] = Answered(p, "500")]
  /\ UNCHANGED <<clock, users, verifier, sessions, bare>>

----------------------------------------------------------------------------
\* The operator sets a password: what is stored is read before the transaction.
SetPassword(p, u, w) ==
  /\ Idling(p)
  /\ w \in Allowed
  /\ job' = [job EXCEPT ![p] = Started("replace", u, None, w, verifier[u])]
  /\ UNCHANGED <<clock, users, verifier, sessions, bare>>

ReplacePassword(p) ==
  /\ At(p, "replace")
  /\ LET u == job[p].user  w == job[p].password  old == job[p].row
         new == [Fresh(w, TRUE, IF old = None THEN job[p].now ELSE old.created)
                   EXCEPT !.updated = job[p].now]
         row == Upserted(verifier[u], new)
     IN /\ users[u] # None
        /\ Storable(row)
        /\ verifier' = [verifier EXCEPT ![u] = row]
  /\ job' = [job EXCEPT ![p] = Ready]
  /\ UNCHANGED <<clock, users, sessions, bare>>

\* Broken variant: account and password are two transactions.
ProvisionedAlone(u, h, w) ==
  /\ users' = [users EXCEPT ![u] = [handle |-> h, active |-> TRUE]]
  /\ UNCHANGED verifier

\* One transaction for both rows.
Provisioned(u, h, w) ==
  /\ users' = [users EXCEPT ![u] = [handle |-> h, active |-> TRUE]]
  /\ verifier' = [verifier EXCEPT ![u] = Fresh(w, TRUE, clock)]

\* A handle that is taken refuses the account (UNIQUE normalized_email).
ProvisionUser(u, h, w) ==
  /\ w \in Allowed
  /\ users[u] = None
  /\ Owner(h) = {}
  /\ Provisioned(u, h, w)
  /\ UNCHANGED <<clock, sessions, job, bare>>

\* create_user stores no credential material.
CreateUser(u, h) ==
  /\ users[u] = None
  /\ Owner(h) = {}
  /\ users' = [users EXCEPT ![u] = [handle |-> h, active |-> TRUE]]
  /\ bare' = bare \cup {u}
  /\ UNCHANGED <<clock, verifier, sessions, job>>

SetUserStatus(u) ==
  /\ users[u] # None
  /\ users' = [users EXCEPT ![u].active = ~@]
  /\ UNCHANGED <<clock, verifier, sessions, job, bare>>

Tick == /\ clock < MaxTime
        /\ clock' = clock + 1
        /\ UNCHANGED <<users, verifier, sessions, job, bare>>

Step ==
  \/ \E p \in Process, h \in Handle, w \in Password : Login(p, h, w)
  \/ \E p \in Process, u \in User, w \in Password : SetPassword(p, u, w)
  \/ \E p \in Process : \/ FindUser(p) \/ Authenticate(p) \/ StampRehash(p) \/ Rehash(p)
                        \/ CheckAccount(p) \/ StoreSession(p) \/ StorageFails(p)
                        \/ ReplacePassword(p)
  \/ \E u \in User, h \in Handle : CreateUser(u, h) \/ \E w \in Password : ProvisionUser(u, h, w)
  \/ \E u \in User : SetUserStatus(u)
  \/ Tick

LoggingIn(p) == ~Idling(p) /\ job[p].handle # None
HeldNow(h, w) == \E u \in Owner(h) : Accepts(verifier[u], w)
Observe == seen' = [p \in Process |->
  IF LoggingIn(p)'
    THEN (LoggingIn(p) /\ seen[p]) \/ HeldNow(job[p].handle, job[p].password)'
    ELSE seen[p] /\ (job[p].at = "200")']

Next == Step /\ Observe

Spec == Init /\ [][Next]_vars

----------------------------------------------------------------------------
\* A login that succeeds named a stored user, and gave the password that was
\* stored for them at some moment between the request and its answer.
SignedInWithAStoredPassword ==
  \A p \in Process : At(p, "200") =>
    seen[p] /\ job[p].user \in sessions

\* login.py: nothing is written until the password has been verified and the
\* account found active, so a login answered 401 left neither session nor verifier.
RefusedLoginWroteNothing ==
  \A p \in Process : At(p, "401") => ~job[p].wrote

\* Provisioning leaves no account that cannot sign in, no password without its
\* account and no two accounts with one handle, whoever provisions meanwhile.
AccountsAreWhole ==
  /\ \A u \in User : users[u] # None => u \in bare \/ verifier[u] # None
  /\ \A u \in User : verifier[u] # None => users[u] # None
  /\ \A u, v \in User : users[u] # None /\ users[v] # None /\ u # v
                          => users[u].handle # users[v].handle
=============================================================================
