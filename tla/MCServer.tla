------------------------------ MODULE MCServer ------------------------------
(***************************************************************************)
(* What several server processes do with one store, explored one subject   *)
(* at a time: sessions (Sessions), logins and passwords (Credentials), and *)
(* requests to the review API (ReviewApi), once with two organizations and *)
(* once with two cases and an edited configuration.  part says which; the  *)
(* state of the others does not move.                                      *)
(***************************************************************************)
EXTENDS Sessions

CONSTANTS
  Account, Address, Password, Allowed,  \* of Credentials
  Server, Org, Queue, Case,             \* of ReviewApi
  MaxDay                                \* the bound on the clock of Credentials

VARIABLES
  part,
  day, users, verifier, opened, job, bare, seen,
  org, owner, role, rows, file, cache, call, saw, used

loginVars == <<day, users, verifier, opened, job, bare, seen>>
apiVars == <<org, owner, role, rows, file, cache, call, saw, used>>

Logins == INSTANCE Credentials WITH User <- Account, Handle <- Address, MaxTime <- MaxDay,
                                    clock <- day, sessions <- opened
Tenants == INSTANCE ReviewApi WITH Process <- Server, Case <- {CHOOSE c \in Case : TRUE},
                                   Limit <- 1, MaxConfig <- 1, req <- call
Reads == INSTANCE ReviewApi WITH Process <- Server, Org <- {CHOOSE o \in Org : TRUE},
                                 Limit <- 1, MaxConfig <- 2, req <- call

ASSUME LoginsAssumption == Logins!AllowedAssumption /\ Logins!NoneAssumption
ASSUME ApiAssumption ==
  /\ Tenants!LimitAssumption /\ Reads!LimitAssumption
  /\ Tenants!NoneAssumption /\ Reads!NoneAssumption

\* The parts that do not run start in one state.
MCInit ==
  /\ part \in {"sessions", "logins", "tenants", "reads"}
  /\ Init /\ Logins!Init
  /\ IF part = "reads" THEN Reads!Init ELSE Tenants!Init
  /\ part # "logins" => \A u \in Account : users[u] = None
  /\ part \notin {"tenants", "reads"} =>
       (\A o \in Org : org[o] = "ACTIVE") /\ (\A q \in Queue : owner[q] = None)

\* The config file is edited in the part with one organization only.
MCNext ==
  /\ UNCHANGED part
  /\ \/ part = "sessions" /\ Next /\ UNCHANGED <<loginVars, apiVars>>
     \/ part = "logins" /\ Logins!Next /\ UNCHANGED <<vars, apiVars>>
     \/ part = "tenants" /\ Tenants!Next /\ file' = file /\ UNCHANGED <<vars, loginVars>>
     \/ part = "reads" /\ Reads!Next /\ UNCHANGED <<vars, loginVars>>

MCSpec == MCInit /\ [][MCNext]_<<part, vars, loginVars, apiVars>>

Alike == Permutations(Process) \cup Permutations(Account)

----------------------------------------------------------------------------
\* Every row of the identity and tenant tables has its type and its foreign keys, and
\* a session ends when its last activity says (identity, tenant_repository).
TypesOK ==
  /\ TypeOK /\ IdleFollowsActivity
  /\ Logins!TypeOK
  /\ IF part = "reads" THEN Reads!TypeOK ELSE Tenants!TypeOK
\* A login that succeeds gave a password stored meanwhile for that user, one that is
\* refused wrote nothing, and provisioning leaves no half account (LoginService,
\* AuthenticationService, provisioning).
LoginsAreHonest ==
  /\ Logins!SignedInWithAStoredPassword
  /\ Logins!RefusedLoginWroteNothing
  /\ Logins!AccountsAreWhole
\* Only members learn anything of a queue (tenancy.authorize and the handlers).
AnswersAreForMembers == part = "tenants" => Tenants!AnswersAreForMembers
\* A decision is made by a reviewer of the organization that owns the queue.
DecidedByReviewers == Tenants!DecidedByReviewers
\* One process answers with one edition of the config, and the unfiltered list never
\* withholds a row that it has counted (_entity_resolution_config, list_review_cases).
AnswersAreConsistent == Reads!ConfigIsStable /\ Reads!PageReachesItsTotal
=============================================================================
