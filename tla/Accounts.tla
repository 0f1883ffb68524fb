------------------------------ MODULE Accounts ------------------------------
(***************************************************************************)
(* services/auth: users, clients and the tokens granted to them, as they   *)
(* are kept in the database (service/user_service.go, client_service.go)   *)
(* and asked for over HTTP and gRPC (handles/, service/grpc_server.go).    *)
(* Of a token only its client is used here, and that it expires, is        *)
(* refreshed or revoked is TokenStore's: here it may be used or not.  The  *)
(* table of users has two more writers: the user service (services/user)   *)
(* and the tool that creates the tables and rows to test with              *)
(* (platform/migrate).  The database commits or rolls back, and may fail   *)
(* before or after it has.                                                 *)
(***************************************************************************)
EXTENDS Naturals, FiniteSets

CONSTANTS
  Requests,  \* goroutines that serve a request each, or run the tool
  Names, Passwords,  \* of users
  ClientIds,
  SeedNames, SeedPassword, SeedClients,  \* of the rows to test with
  MaxUsers, MaxClients, MaxRows,  \* bounds on the rows ever inserted, each and together
  None       \* no user

ASSUME AccountsAssumption ==
  /\ IsFiniteSet(Requests)
  /\ SeedNames \subseteq Names /\ SeedPassword \in Passwords /\ SeedClients \subseteq ClientIds
  /\ MaxUsers \in Nat /\ MaxClients \in Nat /\ MaxRows \in Nat

VARIABLES
  users,       \* committed rows of table users
  elsewhere,   \* those not inserted by the auth service (history)
  authorities, \* user ids with a row in table user_authority
  userId,      \* last value of the sequence of user_id
  clients,     \* committed rows of table client_details
  secrets,     \* number of client secrets made up
  tokens,      \* clients that were granted a token, for themselves or a user
  req,         \* req[r]: the request and where it is
  registered   \* users and clients that were answered with success (history): that
               \* the answer may get lost only leaves less to show

rows == <<users, elsewhere, authorities, clients>>
vars == <<rows, userId, secrets, tokens, req, registered>>

UserIds == 1 .. MaxUsers
SeedIds == {1, 2}
SeedSecret == 0
Secrets == SeedSecret .. MaxClients
Client(c, s) == [client |-> c, secret |-> s]
Users == [id : UserIds, name : Names, password : Passwords]
Clients == [client : ClientIds, secret : Secrets]

(* What is asked for, by whom, and with which credentials; which of the    *)
(* rows to test with are still to come; for the properties, whether the    *)
(* caller was told that the credentials are good, and whether a look-up    *)
(* of them failed.                                                         *)
Asks(op, pc, c, s, n, p, due) ==
  [op |-> op, pc |-> pc, client |-> c, secret |-> s, name |-> n,
   password |-> p, id |-> None, names |-> {}, clients |-> {}, due |-> due,
   failed |-> FALSE]

(* The tool, with the rows that are left to insert. *)
Seeding(names, ids) ==
  [Asks("migrate", "seed", None, None, None, None, FALSE)
     EXCEPT !.names = names, !.clients = ids]

Idle == Asks("none", "idle", None, None, None, None, FALSE)

RoomForUser == userId < MaxUsers /\ userId + secrets < MaxRows
RoomForClient == secrets < MaxClients /\ userId + secrets < MaxRows

Init ==
  /\ users = {} /\ elsewhere = {} /\ authorities = {} /\ userId = 0
  /\ clients = {} /\ secrets = 0
  /\ tokens = {}
  /\ req = [r \in Requests |-> Idle]
  /\ registered = [users |-> {}, clients |-> {}]

At(r, pc) == req[r].pc = pc
Goes(r, pc) ==
  req' = [req EXCEPT ![r] = IF pc = "idle" THEN Idle ELSE [@ EXCEPT !.pc = pc]]
Continues(r) == req' = [req EXCEPT ![r] = Seeding(@.names, @.clients)]
Receives(r, q) == At(r, "idle") /\ req' = [req EXCEPT ![r] = q]

(* A call fails, the request is cancelled or its process dies, and what    *)
(* the transaction did is undone; or a refusal has been answered.  Of the  *)
(* look-ups of credentials only the last two go unanswered.                *)
Ends(r) ==
  /\ ~At(r, "idle")
  /\ Goes(r, "idle")
  /\ UNCHANGED <<rows, userId, secrets, tokens, registered>>

Named(n) == {u \in users : u.name = n}
Of(c) == {x \in clients : x.client = c}
Own(n) == Named(n) \ elsewhere
OwnClients(c) == {x \in Of(c) : x.secret # SeedSecret}

-----------------------------------------------------------------------------
(* POST /client/register: CreateClientDetails                              *)

RegisterClient(r, c) ==
  /\ Receives(r, Asks("registerClient", "countClients", c, None, None, None, FALSE))
  /\ UNCHANGED <<rows, userId, secrets, tokens, registered>>

CountClients(r) ==
  /\ At(r, "countClients")
  /\ Goes(r, IF Of(req[r].client) = {} THEN "insertClient" ELSE "idle")
  /\ UNCHANGED <<rows, userId, secrets, tokens, registered>>

(* The row is committed, and the caller gets to know the secret. *)
InsertClient(r) ==
  LET row == Client(req[r].client, secrets + 1) IN
  /\ At(r, "insertClient") /\ RoomForClient
  /\ secrets' = secrets + 1
  /\ clients' = clients \union {row}
  /\ registered' = [registered EXCEPT !.clients = @ \union {row}]
  /\ Goes(r, "idle")
  /\ UNCHANGED <<users, elsewhere, authorities, userId, tokens>>

-----------------------------------------------------------------------------
(* MakeSimpleClientMiddleware: a token has a client, be it granted to one  *)
(* or to a user, and the client in the token is all that is asked for.     *)
Bearers == {c \in ClientIds : c \in tokens}

(* POST /user/register: CreateUserDetails                                  *)

RegisterUser(r, c, n, p) ==
  /\ Receives(r, Asks("registerUser", "countUsers", c, None, n, p, FALSE))
  /\ UNCHANGED <<rows, userId, secrets, tokens, registered>>

(* Mutant: nobody looks whether the user exists.                           *)
CountUsersNot(r) ==
  /\ At(r, "countUsers")
  /\ Goes(r, "insertUser")
  /\ UNCHANGED <<rows, userId, secrets, tokens, registered>>

CountUsers(r) ==
  /\ At(r, "countUsers")
  /\ Goes(r, IF Named(req[r].name) = {} THEN "insertUser" ELSE "idle")
  /\ UNCHANGED <<rows, userId, secrets, tokens, registered>>

UserRow(r) == [id |-> req[r].id, name |-> req[r].name, password |-> req[r].password]

(* Mutant: the user is inserted outside of the transaction.                *)
InsertUserCommitted(r) ==
  /\ At(r, "insertUser") /\ RoomForUser
  /\ userId' = userId + 1
  /\ users' = users \union {[UserRow(r) EXCEPT !.id = userId + 1]}
  /\ req' = [req EXCEPT ![r].pc = "insertAuthority", ![r].id = userId + 1]
  /\ UNCHANGED <<elsewhere, authorities, clients, secrets, tokens, registered>>

(* The transaction begins; the sequence is not part of it. *)
InsertUser(r) ==
  /\ At(r, "insertUser") /\ RoomForUser
  /\ userId' = userId + 1
  /\ req' = [req EXCEPT ![r].pc = "insertAuthority", ![r].id = userId + 1]
  /\ UNCHANGED <<rows, secrets, tokens, registered>>

InsertAuthority(r) ==
  /\ At(r, "insertAuthority")
  /\ Goes(r, "commit")
  /\ UNCHANGED <<rows, userId, secrets, tokens, registered>>

(* Mutant: the error of the transaction is not looked at.                  *)
CommitUnchecked(r) ==
  /\ At(r, "commit")
  /\ \/ users' = users \union {UserRow(r)} /\ authorities' = authorities \union {req[r].id}
     \/ UNCHANGED <<users, authorities>>
  /\ registered' = [registered EXCEPT !.users = @ \union {UserRow(r)}]
  /\ Goes(r, "idle")
  /\ UNCHANGED <<elsewhere, clients, userId, secrets, tokens>>

(* Both rows at once. *)
Commit(r) ==
  /\ At(r, "commit")
  /\ users' = users \union {UserRow(r)}
  /\ authorities' = authorities \union {req[r].id}
  /\ registered' = [registered EXCEPT !.users = @ \union {UserRow(r)}]
  /\ Goes(r, "idle")
  /\ UNCHANGED <<elsewhere, clients, userId, secrets, tokens>>

-----------------------------------------------------------------------------
(* The user service: POST /users/.  Nobody looks whether the user exists,  *)
(* nothing in the database is unique, and there is no row of authorities.  *)

CreateUser(r, n, p) ==
  /\ Receives(r, Asks("createUser", "createUser", None, None, n, p, FALSE))
  /\ UNCHANGED <<rows, userId, secrets, tokens, registered>>

(* Create draws an id. *)
Create(r) ==
  /\ At(r, "createUser") /\ RoomForUser
  /\ userId' = userId + 1
  /\ req' = [req EXCEPT ![r].pc = "commitUser", ![r].id = userId + 1]
  /\ UNCHANGED <<rows, secrets, tokens, registered>>

(* The end of the user service's transaction, or of the tool's insert. *)
CommitUser(r) ==
  LET served == req[r].op = "createUser" IN
  /\ At(r, "commitUser")
  /\ users' = users \union {UserRow(r)}
  /\ elsewhere' = elsewhere \union {UserRow(r)}
  /\ registered' = IF served THEN [registered EXCEPT !.users = @ \union {UserRow(r)}]
                   ELSE registered
  /\ IF served THEN Goes(r, "idle") ELSE Continues(r)
  /\ UNCHANGED <<authorities, clients, userId, secrets, tokens>>

-----------------------------------------------------------------------------
(* migrate -auto: users, then clients, then authorities, in any order      *)

Migrate(r) ==
  /\ Receives(r, Seeding(SeedNames, SeedClients))
  /\ UNCHANGED <<rows, userId, secrets, tokens, registered>>

(* A user that is there is left out.  One is inserted that is not, or if   *)
(* counting fails.                                                         *)
SeedUser(r, n) ==
  /\ At(r, "seed") /\ n \in req[r].names
  /\ \/ /\ Named(n) # {}
        /\ req' = [req EXCEPT ![r].names = @ \ {n}]
     \/ req' = [req EXCEPT ![r].pc = "createUser", ![r].names = @ \ {n},
                           ![r].name = n, ![r].password = SeedPassword]
  /\ UNCHANGED <<rows, userId, secrets, tokens, registered>>

SeedClient(r, c) ==
  /\ At(r, "seed") /\ req[r].names = {} /\ c \in req[r].clients
  /\ \/ /\ Of(c) # {}
        /\ req' = [req EXCEPT ![r].clients = @ \ {c}]
     \/ req' = [req EXCEPT ![r].pc = "seedClient", ![r].clients = @ \ {c}, ![r].client = c]
  /\ UNCHANGED <<rows, userId, secrets, tokens, registered>>

InsertSeedClient(r) ==
  /\ At(r, "seedClient")
  /\ clients' = clients \union {Client(req[r].client, SeedSecret)}
  /\ Continues(r)
  /\ UNCHANGED <<users, elsewhere, authorities, userId, secrets, tokens, registered>>

(* An insert fails: the tool prints it and goes on. *)
SeedFails(r) ==
  /\ req[r].op = "migrate" /\ req[r].pc \in {"createUser", "commitUser", "seedClient"}
  /\ Continues(r)
  /\ UNCHANGED <<rows, userId, secrets, tokens, registered>>

(* Whoever has the ids 1 and 2, and whichever of the inserts succeed. *)
SeedAuthorities(r) ==
  /\ At(r, "seed") /\ req[r].names = {} /\ req[r].clients = {}
  /\ \E ids \in SUBSET SeedIds : authorities' = authorities \union ids
  /\ Goes(r, "idle")
  /\ UNCHANGED <<users, elsewhere, clients, userId, secrets, tokens, registered>>

-----------------------------------------------------------------------------
(* gRPC GrantToken, POST /oauth2/token, POST /login                        *)

Told(n, p) == \E u \in registered.users : u.name = n /\ u.password = p

(* A client asks with a secret, for itself or for a user. *)
GrantToken(r, op, c, s, n, p) ==
  /\ Receives(r, Asks(op, "loadClient", c, s, n, p,
       /\ Client(c, s) \in registered.clients
       /\ op = "password" => Told(n, p)))
  /\ UNCHANGED <<rows, userId, secrets, tokens, registered>>

(* POST /oauth2/token has no room for a user's name: the one grant that    *)
(* does without is the client's own.                                       *)
MakeTokenEndpoint(r, c, s) == GrantToken(r, "client_credentials", c, s, None, None)

(* Whatever error the database has is answered as bad credentials are.     *)
LookUpFails(r) == req' = [req EXCEPT ![r].pc = "refused", ![r].failed = TRUE]

(* First orders by a column that duplicates share: any of them.  The       *)
(* client_credentials granter loads and compares once more.                *)
LoadClient(r) ==
  LET q == req[r] IN
  /\ q.pc \in {"loadClient", "loadClientAgain"}
  /\ \/ /\ Of(q.client) = {} \/ \E x \in Of(q.client) : x.secret # q.secret
        /\ Goes(r, "refused")
     \/ /\ Client(q.client, q.secret) \in clients
        /\ Goes(r, IF q.op = "password" THEN "loadUser"
                   ELSE IF q.pc = "loadClient" THEN "loadClientAgain" ELSE "issue")
     \/ LookUpFails(r)
  /\ UNCHANGED <<rows, userId, secrets, tokens, registered>>

(* POST /login: the client is that of the token. *)
Login(r, c, n, p) ==
  /\ Receives(r, Asks("login", "loadUser", c, None, n, p, Told(n, p)))
  /\ UNCHANGED <<rows, userId, secrets, tokens, registered>>

(* LoadUserByUsername: the row with the lowest id; CheckPassword.  The     *)
(* scopes that the granter reads next do not get into the token.           *)
LoadUser(r) ==
  LET q == req[r]
      found == {u \in Named(q.name) : \A v \in Named(q.name) : u.id <= v.id} IN
  /\ At(r, "loadUser")
  /\ \/ /\ \A u \in found : u.password # q.password
        /\ Goes(r, "refused")
     \/ \E u \in found :
          /\ u.password = q.password
          /\ Goes(r, "issue")
     \/ LookUpFails(r)
  /\ UNCHANGED <<rows, userId, secrets, tokens, registered>>

(* CreateAccessToken *)
Issue(r) ==
  /\ At(r, "issue")
  /\ tokens' = tokens \union {req[r].client}
  /\ Goes(r, "idle")
  /\ UNCHANGED <<rows, userId, secrets, registered>>

-----------------------------------------------------------------------------
Next ==
  \E r \in Requests :
    \/ \E c \in ClientIds :
         \/ RegisterClient(r, c)
         \/ \E s \in SeedSecret .. secrets :
              \/ MakeTokenEndpoint(r, c, s)
              \/ \E n \in Names, p \in Passwords : GrantToken(r, "password", c, s, n, p)
    \/ \E c \in Bearers :
         \E n \in Names, p \in Passwords : RegisterUser(r, c, n, p) \/ Login(r, c, n, p)
    \/ CountClients(r) \/ InsertClient(r)
    \/ CountUsers(r) \/ InsertUser(r) \/ InsertAuthority(r) \/ Commit(r)
    \/ \E n \in Names, p \in Passwords : CreateUser(r, n, p)
    \/ Create(r) \/ CommitUser(r)
    \/ Migrate(r) \/ SeedFails(r) \/ InsertSeedClient(r) \/ SeedAuthorities(r)
    \/ \E n \in SeedNames : SeedUser(r, n)
    \/ \E c \in SeedClients : SeedClient(r, c)
    \/ LoadClient(r) \/ LoadUser(r) \/ Issue(r)
    \/ Ends(r)

Spec == Init /\ [][Next]_vars

-----------------------------------------------------------------------------
Operations ==
  {"none", "registerClient", "registerUser", "client_credentials", "password",
   "login", "createUser", "migrate"}
Places ==
  {"idle", "countClients", "insertClient", "countUsers", "insertUser", "insertAuthority",
   "commit", "loadClient", "loadClientAgain", "loadUser", "issue", "refused",
   "createUser", "commitUser", "seed", "seedClient"}

(* Every variable has its type.                                            *)
TypeOK ==
  /\ users \subseteq Users /\ elsewhere \subseteq users /\ clients \subseteq Clients
  /\ authorities \subseteq UserIds \union SeedIds
  /\ userId \in 0 .. MaxUsers /\ secrets \in 0 .. MaxClients
  /\ tokens \subseteq ClientIds
  /\ registered \in [users : SUBSET Users, clients : SUBSET Clients]
  /\ req \in [Requests ->
       [op : Operations, pc : Places, client : ClientIds \union {None},
        secret : Secrets \union {None}, name : Names \union {None},
        password : Passwords \union {None}, id : UserIds \union {None},
        names : SUBSET SeedNames, clients : SUBSET SeedClients, due : BOOLEAN,
        failed : BOOLEAN]]

(* user_service.go:98-113: a user of the auth service is there with the    *)
(* row of its authority or not at all, whatever fails between the two      *)
(* inserts.  Only migrate (main.go:226-254) has rows for nobody.           *)
UserHasAuthority ==
  /\ \A u \in users \ elsewhere : u.id \in authorities
  /\ authorities \subseteq {u.id : u \in users} \union SeedIds

(* user_service.go:77-85, client_service.go:63-72: nothing but the count   *)
(* keeps names and client ids unique, and the count is not in the          *)
(* transaction.  Requests that counted before the first of them committed  *)
(* add a row each, and nobody adds another afterwards: the auth service    *)
(* has never more rows of a name than requests at a time, whatever the     *)
(* others insert.                                                          *)
DuplicatesBounded ==
  /\ \A n \in Names : Cardinality(Own(n)) <= Cardinality(Requests)
  /\ \A c \in ClientIds : Cardinality(OwnClients(c)) <= Cardinality(Requests)

RegisteredTwice(q) ==
  \/ Cardinality(Named(q.name)) > 1
  \/ q.op # "login" /\ Cardinality(Of(q.client)) > 1

(* user_service.go:52-63, client_service.go:43-55: credentials that a      *)
(* caller was told are good are refused only if the name or the client id  *)
(* has been registered a second time, or a look-up failed.                 *)
RefusedOnlyIfTwice ==
  \A r \in Requests :
    At(r, "refused") /\ req[r].due /\ ~req[r].failed => RegisteredTwice(req[r])

(* grpc_server.go:38, usernamepassword_token_granter.go:39: the answer is  *)
(* for a client or a user that does not exist, so that credentials that    *)
(* were registered once do not get it.  It does not hold: a look-up that   *)
(* fails is answered so, too.                                              *)
RefusedOnMerits ==
  \A r \in Requests : At(r, "refused") /\ req[r].due => RegisteredTwice(req[r])

(* user_service.go:52-63: a password that was good once remains good.  It  *)
(* does not hold: ids are drawn before the commit, and a duplicate with a  *)
(* lower one may be committed later.                                       *)
PasswordRemainsGood ==
  [][\A u \in users :
       (\A v \in Named(u.name) : u.id <= v.id) => \A v \in users' : v.name = u.name => u.id <= v.id]_vars
=============================================================================
