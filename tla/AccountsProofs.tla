--------------------------- MODULE AccountsProofs ---------------------------
(***************************************************************************)
(* What the database has of users and clients, proved for any number of    *)
(* requests, names and rows.                                               *)
(***************************************************************************)
EXTENDS Accounts, FiniteSetTheorems, TLAPS

RequestType ==
  [op : Operations, pc : Places, client : ClientIds \union {None},
   secret : Secrets \union {None}, name : Names \union {None},
   password : Passwords \union {None}, id : UserIds \union {None},
   names : SUBSET SeedNames, clients : SUBSET SeedClients, due : BOOLEAN,
   failed : BOOLEAN]

(* A request has the fields that its place asks for. *)
Fields(q) ==
  /\ q \in RequestType
  /\ q.pc \in {"countUsers", "insertUser", "insertAuthority", "commit", "loadUser",
               "createUser", "commitUser"} => q.name \in Names /\ q.password \in Passwords
  /\ q.op = "password" => q.name \in Names /\ q.password \in Passwords
  /\ q.pc \in {"insertAuthority", "commit", "commitUser"} => q.id \in UserIds
  /\ q.pc \in {"countClients", "insertClient", "loadClient", "loadClientAgain",
               "loadUser", "issue", "seedClient"} => q.client \in ClientIds
  /\ q.pc = "seed" => ~q.due
  /\ q.pc \in {"loadClient", "loadClientAgain"} => q.op \in {"client_credentials", "password"}
  /\ q.pc = "loadUser" => q.op \in {"password", "login"}

(* The credentials a caller was told are good are in the database. *)
Due(q) ==
  q.due =>
    /\ q.op \in {"password", "login"} =>
         \E u \in users : u.name = q.name /\ u.password = q.password
    /\ q.op # "login" => Client(q.client, q.secret) \in clients

Good(q) ==
  Fields(q) /\ Due(q) /\ (q.pc = "refused" /\ q.due /\ ~q.failed => RegisteredTwice(q))

ReqInv == \A r \in Requests : Good(req[r])

(* The rows are finitely many, and those told of are among them. *)
RowsInv ==
  /\ IsFiniteSet(users) /\ IsFiniteSet(clients)
  /\ registered.users \subseteq users /\ registered.clients \subseteq clients

(* The requests that have counted and not yet inserted for good. *)
Inserting(n) ==
  {r \in Requests : req[r].pc \in {"insertUser", "insertAuthority", "commit"}
                    /\ req[r].name = n}
InsertingClient(c) == {r \in Requests : req[r].pc = "insertClient" /\ req[r].client = c}

(* Whoever may still add a row of a name has not added one. *)
CountInv ==
  /\ \A n \in Names : Cardinality(Own(n)) + Cardinality(Inserting(n)) <= Cardinality(Requests)
  /\ \A c \in ClientIds :
       Cardinality(OwnClients(c)) + Cardinality(InsertingClient(c)) <= Cardinality(Requests)

IInv == TypeOK /\ ReqInv /\ RowsInv /\ UserHasAuthority /\ CountInv

-----------------------------------------------------------------------------
(* Finite sets *)
LEMMA Single ==
  ASSUME NEW S, IsFiniteSet(S), NEW x \in S, NEW y \in S, x # y
  PROVE  Cardinality(S) > 1
  <1>1. /\ IsFiniteSet(S \ {x}) /\ Cardinality(S \ {x}) = Cardinality(S) - 1
        /\ Cardinality(S) \in Nat /\ Cardinality(S \ {x}) \in Nat
    BY FS_RemoveElement, FS_CardinalityType
  <1>2. Cardinality(S \ {x}) # 0
    BY <1>1, FS_EmptySet
  <1> QED
    BY <1>1, <1>2

LEMMA SubsetCount ==
  ASSUME NEW S, IsFiniteSet(S), NEW T \in SUBSET S
  PROVE  IsFiniteSet(T) /\ Cardinality(T) \in Nat /\ Cardinality(T) <= Cardinality(S)
         /\ Cardinality(S) \in Nat
  BY FS_Subset, FS_CardinalityType

(* One more is counted, and one less. *)
LEMMA AddCount ==
  ASSUME NEW S, IsFiniteSet(S), NEW x, NEW T \in SUBSET (S \union {x})
  PROVE  Cardinality(T) <= Cardinality(S) + 1 /\ IsFiniteSet(T) /\ Cardinality(T) \in Nat
  <1>1. /\ IsFiniteSet(S \union {x}) /\ Cardinality(S) \in Nat
        /\ Cardinality(S \union {x}) <= Cardinality(S) + 1
    <2>1. /\ IsFiniteSet(S \union {x})
          /\ Cardinality(S \union {x}) =
               IF x \in S THEN Cardinality(S) ELSE Cardinality(S) + 1
      BY FS_AddElement
    <2>2. Cardinality(S) \in Nat
      BY FS_CardinalityType
    <2> QED
      BY <2>1, <2>2
  <1>2. IsFiniteSet(T) /\ Cardinality(T) <= Cardinality(S \union {x}) /\ Cardinality(T) \in Nat
        /\ Cardinality(S \union {x}) \in Nat
    BY <1>1, SubsetCount
  <1> QED
    BY <1>1, <1>2

LEMMA RemoveCount ==
  ASSUME NEW S, IsFiniteSet(S), NEW x \in S, NEW T \in SUBSET (S \ {x})
  PROVE  Cardinality(T) + 1 <= Cardinality(S) /\ IsFiniteSet(T) /\ Cardinality(T) \in Nat
  <1>1. /\ IsFiniteSet(S \ {x}) /\ Cardinality(S) \in Nat
        /\ Cardinality(S \ {x}) = Cardinality(S) - 1
    BY FS_RemoveElement, FS_CardinalityType
  <1>2. IsFiniteSet(T) /\ Cardinality(T) <= Cardinality(S \ {x}) /\ Cardinality(T) \in Nat
    BY <1>1, SubsetCount
  <1> QED
    BY <1>1, <1>2

-----------------------------------------------------------------------------
(* A step of one request; rows only come. *)
LEMMA GoodKept ==
  ASSUME RowsInv, IsFiniteSet(users'), IsFiniteSet(clients'),
         users \subseteq users', clients \subseteq clients', NEW q, Good(q)
  PROVE  Good(q)'
  <1>1. Due(q)'
    BY DEF Good, Due
  <1>2. ASSUME RegisteredTwice(q) PROVE RegisteredTwice(q)'
    <2>1. /\ Named(q.name) \subseteq Named(q.name)'
          /\ Named(q.name)' \subseteq users'
          /\ Of(q.client) \subseteq Of(q.client)' /\ Of(q.client)' \subseteq clients'
      BY DEF Named, Of
    <2>2. IsFiniteSet(Named(q.name)') /\ IsFiniteSet(Of(q.client)')
      BY <2>1, SubsetCount
    <2>3. /\ Cardinality(Named(q.name)) <= Cardinality(Named(q.name)')
          /\ Cardinality(Of(q.client)) <= Cardinality(Of(q.client)')
          /\ Cardinality(Named(q.name)) \in Nat /\ Cardinality(Named(q.name)') \in Nat
          /\ Cardinality(Of(q.client)) \in Nat /\ Cardinality(Of(q.client)') \in Nat
      BY <2>1, <2>2, SubsetCount
    <2> QED
      BY <1>2, <2>3 DEF RegisteredTwice
  <1> QED
    BY <1>1, <1>2 DEF Good, Fields

LEMMA Moved ==
  ASSUME TypeOK, ReqInv, RowsInv, IsFiniteSet(users'), IsFiniteSet(clients'),
         users \subseteq users', clients \subseteq clients',
         NEW r \in Requests, NEW q, Good(q), req' = [req EXCEPT ![r] = q]
  PROVE  req' \in [Requests -> RequestType] /\ ReqInv'
  <1>1. \A s \in Requests : req'[s] = IF s = r THEN q ELSE req[s]
    BY DEF TypeOK
  <1>2. ASSUME NEW s \in Requests
        PROVE  Good(req'[s]) /\ req'[s] \in RequestType
    BY <1>1 DEF ReqInv, Good, Fields
  <1>3. req' \in [Requests -> RequestType]
    BY <1>2 DEF TypeOK, RequestType
  <1>4. ASSUME NEW s \in Requests
        PROVE  Good(req[s])'
    <2>1. PICK z : z = req'[s]
      OBVIOUS
    <2>2. Good(z)'
      BY <1>2, <2>1, GoodKept
    <2> QED
      BY <2>1, <2>2 DEF Good, Fields, Due, RegisteredTwice
  <1> QED
    BY <1>3, <1>4 DEF ReqInv

-----------------------------------------------------------------------------
(* What the steps do to a request *)
LEMMA IdleGood == Good(Idle)
  <1>1. /\ Idle.op = "none" /\ Idle.pc = "idle" /\ Idle.due = FALSE
        /\ Idle \in RequestType
    BY DEF Idle, Asks, RequestType, Operations, Places
  <1> QED
    BY <1>1 DEF Good, Fields, Due

LEMMA AsksGood ==
  ASSUME NEW op \in Operations, NEW pc \in {"countClients", "countUsers", "loadClient", "loadUser", "createUser"},
         NEW c \in ClientIds \union {None}, NEW s \in Secrets \union {None},
         NEW n \in Names \union {None}, NEW p \in Passwords \union {None}, NEW due \in BOOLEAN,
         pc # "createUser" => c \in ClientIds,
         pc \in {"countUsers", "loadUser", "createUser"} \/ op = "password" =>
           n \in Names /\ p \in Passwords,
         pc = "loadClient" => op \in {"client_credentials", "password"},
         pc = "loadUser" => op \in {"password", "login"},
         due /\ op \in {"password", "login"} =>
           \E u \in users : u.name = n /\ u.password = p,
         due /\ op # "login" => Client(c, s) \in clients
  PROVE  Good(Asks(op, pc, c, s, n, p, due))
  <1> DEFINE q == Asks(op, pc, c, s, n, p, due)
  <1>1. /\ q.op = op /\ q.pc = pc /\ q.client = c /\ q.secret = s /\ q.name = n
        /\ q.password = p /\ q.due = due /\ q.failed = FALSE /\ q \in RequestType
    BY DEF Asks, RequestType, Places
  <1> HIDE DEF q
  <1>2. Good(q)
    BY <1>1 DEF Good, Fields, Due
  <1> QED
    BY <1>2 DEF q

LEMMA PlaceGood ==
  ASSUME NEW q, Good(q), NEW pc \in Places,
         pc \in {"insertUser", "insertAuthority", "commit", "loadUser"} =>
           q.name \in Names /\ q.password \in Passwords,
         pc \in {"insertAuthority", "commit"} => q.id \in UserIds,
         pc \in {"insertClient", "loadClientAgain", "loadUser", "issue"} => q.client \in ClientIds,
         pc = "loadClientAgain" => q.op = "client_credentials",
         pc = "loadUser" => q.op = "password",
         pc \notin {"countUsers", "countClients", "loadClient", "createUser", "commitUser",
                   "seed", "seedClient"},
         pc = "refused" /\ q.due /\ ~q.failed => RegisteredTwice(q)
  PROVE  Good([q EXCEPT !.pc = pc])
  <1> DEFINE p == [q EXCEPT !.pc = pc]
  <1>1. /\ p \in RequestType /\ p.op = q.op /\ p.pc = pc /\ p.client = q.client
        /\ p.secret = q.secret /\ p.name = q.name /\ p.password = q.password
        /\ p.id = q.id /\ p.due = q.due /\ p.failed = q.failed
    BY DEF Good, Fields, RequestType
  <1> HIDE DEF p
  <1>2. Good(p)
    BY <1>1 DEF Good, Fields, Due, RegisteredTwice
  <1> QED
    BY <1>2 DEF p

(* A refusal by a look-up that failed says nothing of the rows. *)
LEMMA FailedGood ==
  ASSUME NEW q, Good(q)
  PROVE  Good([q EXCEPT !.pc = "refused", !.failed = TRUE])
  <1> DEFINE p == [q EXCEPT !.pc = "refused", !.failed = TRUE]
  <1>1. /\ p \in RequestType /\ p.op = q.op /\ p.pc = "refused" /\ p.failed = TRUE
        /\ p.name = q.name /\ p.password = q.password /\ p.client = q.client
        /\ p.secret = q.secret /\ p.due = q.due
    BY DEF Good, Fields, RequestType, Places
  <1> HIDE DEF p
  <1>2. Good(p)
    BY <1>1 DEF Good, Fields, Due
  <1> QED
    BY <1>2 DEF p

LEMMA IdGood ==
  ASSUME NEW q, Good(q), NEW pc \in {"insertAuthority", "commitUser"}, NEW i \in UserIds,
         q.name \in Names, q.password \in Passwords
  PROVE  Good([q EXCEPT !.pc = pc, !.id = i])
  <1> DEFINE p == [q EXCEPT !.pc = pc, !.id = i]
  <1>1. pc \in Places
    BY DEF Places
  <1>2. /\ p \in RequestType /\ p.op = q.op /\ p.pc = pc /\ p.client = q.client
        /\ p.secret = q.secret /\ p.name = q.name /\ p.password = q.password
        /\ p.id = i /\ p.due = q.due /\ p.failed = q.failed
    BY <1>1 DEF Good, Fields, RequestType
  <1> HIDE DEF p
  <1>3. Good(p)
    BY <1>2 DEF Good, Fields, Due, RegisteredTwice
  <1> QED
    BY <1>3 DEF p

(* The tool, between two rows and at one of them. *)
LEMMA SeedingGood ==
  ASSUME NEW names \in SUBSET SeedNames, NEW ids \in SUBSET SeedClients
  PROVE  Good(Seeding(names, ids)) /\ Seeding(names, ids).pc = "seed"
  <1> DEFINE q == Seeding(names, ids)
  <1>1. /\ q.op = "migrate" /\ q.pc = "seed" /\ q.due = FALSE /\ q \in RequestType
    BY DEF Seeding, Asks, RequestType, Operations, Places
  <1> HIDE DEF q
  <1>2. Good(q)
    BY <1>1 DEF Good, Fields, Due
  <1> QED
    BY <1>1, <1>2 DEF q

LEMMA ContinuesGood ==
  ASSUME TypeOK, NEW r \in Requests, req[r] \in RequestType, Continues(r)
  PROVE  \E q : Good(q) /\ q.pc = "seed" /\ req' = [req EXCEPT ![r] = q]
  <1>1. req' = [req EXCEPT ![r] = Seeding(req[r].names, req[r].clients)]
    BY DEF Continues, TypeOK
  <1>2. req[r].names \in SUBSET SeedNames /\ req[r].clients \in SUBSET SeedClients
    BY DEF RequestType
  <1> QED
    BY <1>1, <1>2, SeedingGood

LEMMA SeedGood ==
  ASSUME NEW q, Good(q), q.pc = "seed", NEW p \in RequestType, p.op = q.op, p.due = q.due,
         \/ p.pc = "seed"
         \/ p.pc = "createUser" /\ p.name \in Names /\ p.password \in Passwords
         \/ p.pc = "seedClient" /\ p.client \in ClientIds,
         p.pc # "createUser" => p.name = q.name /\ p.password = q.password
  PROVE  Good(p)
  BY DEF Good, Fields, Due

-----------------------------------------------------------------------------
(* The counts *)
Inserts == {"insertUser", "insertAuthority", "commit"}

(* A request that is about to insert has found nothing, or was about to. *)
LEMMA CountKept ==
  ASSUME TypeOK, RowsInv, CountInv, NEW r \in Requests, NEW q,
         req' = [req EXCEPT ![r] = q], UNCHANGED rows,
         q.pc \in Inserts =>
           (req[r].pc \in Inserts /\ q.name = req[r].name) \/ Named(q.name) = {},
         q.pc = "insertClient" => Of(q.client) = {}
  PROVE  CountInv'
  <1>1. \A s \in Requests : req'[s] = IF s = r THEN q ELSE req[s]
    BY DEF TypeOK
  <1>2. ASSUME NEW n \in Names
        PROVE  Cardinality(Own(n)') + Cardinality(Inserting(n)') <= Cardinality(Requests)
    <2>1. Named(n)' = Named(n) /\ Own(n)' = Own(n) /\ Own(n) \subseteq users
      BY DEF Named, Own, rows
    <2>2. Inserting(n) \subseteq Requests /\ Inserting(n)' \subseteq Requests
      BY DEF Inserting
    <2>3. /\ IsFiniteSet(Inserting(n)) /\ Cardinality(Inserting(n)) \in Nat
          /\ Cardinality(Inserting(n)') \in Nat /\ Cardinality(Requests) \in Nat
          /\ Cardinality(Inserting(n)') <= Cardinality(Requests)
          /\ Cardinality(Own(n)) \in Nat
      BY <2>1, <2>2, SubsetCount, AccountsAssumption DEF RowsInv
    <2>4. CASE Named(n) = {}
      <3>1. Own(n) = {}
        BY <2>4 DEF Own
      <3> QED
        BY <2>1, <2>3, <3>1, FS_EmptySet
    <2>5. CASE Named(n) # {}
      <3>1. Inserting(n)' \subseteq Inserting(n)
        BY <1>1, <2>5 DEF Inserting, Inserts
      <3>2. Cardinality(Inserting(n)') <= Cardinality(Inserting(n))
        BY <2>3, <3>1, SubsetCount
      <3> QED
        BY <2>1, <2>3, <3>2 DEF CountInv
    <2> QED
      BY <2>4, <2>5
  <1>3. ASSUME NEW c \in ClientIds
        PROVE  Cardinality(OwnClients(c)') + Cardinality(InsertingClient(c)') <= Cardinality(Requests)
    <2>1. Of(c)' = Of(c) /\ OwnClients(c)' = OwnClients(c) /\ OwnClients(c) \subseteq clients
      BY DEF Of, OwnClients, rows
    <2>2. InsertingClient(c) \subseteq Requests /\ InsertingClient(c)' \subseteq Requests
      BY DEF InsertingClient
    <2>3. /\ IsFiniteSet(InsertingClient(c)) /\ Cardinality(InsertingClient(c)) \in Nat
          /\ Cardinality(InsertingClient(c)') \in Nat /\ Cardinality(Requests) \in Nat
          /\ Cardinality(InsertingClient(c)') <= Cardinality(Requests)
          /\ Cardinality(OwnClients(c)) \in Nat
      BY <2>1, <2>2, SubsetCount, AccountsAssumption DEF RowsInv
    <2>4. CASE Of(c) = {}
      <3>1. OwnClients(c) = {}
        BY <2>4 DEF OwnClients
      <3> QED
        BY <2>1, <2>3, <3>1, FS_EmptySet
    <2>5. CASE Of(c) # {}
      <3>1. InsertingClient(c)' \subseteq InsertingClient(c)
        BY <1>1, <2>5 DEF InsertingClient
      <3>2. Cardinality(InsertingClient(c)') <= Cardinality(InsertingClient(c))
        BY <2>3, <3>1, SubsetCount
      <3> QED
        BY <2>1, <2>3, <3>2 DEF CountInv
    <2> QED
      BY <2>4, <2>5
  <1> QED
    BY <1>2, <1>3 DEF CountInv

(* Rows of others do not count. *)
LEMMA LessCounted ==
  ASSUME IInv,
         \A n \in Names : Own(n)' \subseteq Own(n) /\ Inserting(n)' \subseteq Inserting(n),
         \A c \in ClientIds : /\ OwnClients(c)' \subseteq OwnClients(c)
                              /\ InsertingClient(c)' \subseteq InsertingClient(c)
  PROVE  CountInv'
  <1>1. IsFiniteSet(users) /\ IsFiniteSet(clients) /\ IsFiniteSet(Requests)
    BY AccountsAssumption DEF IInv, RowsInv
  <1>2. ASSUME NEW n \in Names
        PROVE  Cardinality(Own(n)') + Cardinality(Inserting(n)') <= Cardinality(Requests)
    <2>1. Own(n) \subseteq users /\ Inserting(n) \subseteq Requests
      BY DEF Own, Named, Inserting
    <2>2. /\ IsFiniteSet(Own(n)) /\ IsFiniteSet(Inserting(n))
          /\ Cardinality(Requests) \in Nat
      BY <1>1, <2>1, SubsetCount, FS_CardinalityType
    <2>3. /\ Cardinality(Own(n)') <= Cardinality(Own(n))
          /\ Cardinality(Own(n)) \in Nat /\ Cardinality(Own(n)') \in Nat
      BY <2>2, SubsetCount
    <2>4. /\ Cardinality(Inserting(n)') <= Cardinality(Inserting(n))
          /\ Cardinality(Inserting(n)) \in Nat /\ Cardinality(Inserting(n)') \in Nat
      BY <2>2, SubsetCount
    <2>5. Cardinality(Own(n)) + Cardinality(Inserting(n)) <= Cardinality(Requests)
      BY DEF IInv, CountInv
    <2> QED
      BY <2>2, <2>3, <2>4, <2>5
  <1>3. ASSUME NEW c \in ClientIds
        PROVE  Cardinality(OwnClients(c)') + Cardinality(InsertingClient(c)')
                 <= Cardinality(Requests)
    <2>1. OwnClients(c) \subseteq clients /\ InsertingClient(c) \subseteq Requests
      BY DEF OwnClients, Of, InsertingClient
    <2>2. /\ IsFiniteSet(OwnClients(c)) /\ IsFiniteSet(InsertingClient(c))
          /\ Cardinality(Requests) \in Nat
      BY <1>1, <2>1, SubsetCount, FS_CardinalityType
    <2>3. /\ Cardinality(OwnClients(c)') <= Cardinality(OwnClients(c))
          /\ Cardinality(OwnClients(c)) \in Nat /\ Cardinality(OwnClients(c)') \in Nat
      BY <2>2, SubsetCount
    <2>4. /\ Cardinality(InsertingClient(c)') <= Cardinality(InsertingClient(c))
          /\ Cardinality(InsertingClient(c)) \in Nat /\ Cardinality(InsertingClient(c)') \in Nat
      BY <2>2, SubsetCount
    <2>5. Cardinality(OwnClients(c)) + Cardinality(InsertingClient(c)) <= Cardinality(Requests)
      BY DEF IInv, CountInv
    <2> QED
      BY <2>2, <2>3, <2>4, <2>5
  <1> QED
    BY <1>2, <1>3 DEF CountInv

(* The steps that write no row. *)
LEMMA ReadStep ==
  ASSUME IInv, NEW r \in Requests, NEW q, Good(q), req' = [req EXCEPT ![r] = q],
         UNCHANGED <<rows, registered>>,
         q.pc \in Inserts =>
           (req[r].pc \in Inserts /\ q.name = req[r].name) \/ Named(q.name) = {},
         q.pc = "insertClient" => Of(q.client) = {}
  PROVE  /\ req' \in [Requests -> RequestType]
         /\ ReqInv' /\ RowsInv' /\ UserHasAuthority' /\ CountInv'
  <1>1. UNCHANGED <<users, elsewhere, authorities, clients>>
    BY DEF rows
  <1>2. RowsInv' /\ UserHasAuthority'
    BY <1>1 DEF IInv, RowsInv, UserHasAuthority
  <1>3. IsFiniteSet(users') /\ IsFiniteSet(clients')
    BY <1>1 DEF IInv, RowsInv
  <1>4. req' \in [Requests -> RequestType] /\ ReqInv'
    BY <1>1, <1>3, Moved DEF IInv
  <1>5. CountInv'
    BY CountKept DEF IInv
  <1> QED
    BY <1>2, <1>4, <1>5

(* Two rows when good credentials are refused. *)
LEMMA ClientRefused ==
  ASSUME IInv, NEW r \in Requests, req[r].due, req[r].op # "login",
         \/ Of(req[r].client) = {}
         \/ \E x \in Of(req[r].client) : x.secret # req[r].secret
  PROVE  RegisteredTwice(req[r])
  <1> DEFINE c == req[r].client
             y == Client(c, req[r].secret)
  <1>1. y \in clients
    BY DEF IInv, ReqInv, Good, Due
  <1>2. y \in Of(c) /\ y.secret = req[r].secret
    BY <1>1 DEF Of, Client
  <1>3. PICK x \in Of(c) : x.secret # req[r].secret
    BY <1>2
  <1>4. x # y
    BY <1>2, <1>3
  <1>5. IsFiniteSet(Of(c))
    <2>1. Of(c) \subseteq clients
      BY DEF Of
    <2> QED
      BY <2>1, FS_Subset DEF IInv, RowsInv
  <1> QED
    BY <1>2, <1>4, <1>5, Single DEF RegisteredTwice

LEMMA UserRefused ==
  ASSUME IInv, NEW r \in Requests, req[r].due, req[r].op \in {"password", "login"},
         \A u \in Named(req[r].name) :
           (\A v \in Named(req[r].name) : u.id <= v.id) => u.password # req[r].password
  PROVE  RegisteredTwice(req[r])
  <1> DEFINE n == req[r].name
  <1>1. PICK u \in users : u.name = n /\ u.password = req[r].password
    BY DEF IInv, ReqInv, Good, Due
  <1>2. u \in Named(n) /\ Named(n) \subseteq users
    BY <1>1 DEF Named
  <1>3. PICK v \in Named(n) : ~(u.id <= v.id)
    BY <1>1, <1>2
  <1>4. u.id \in Nat
    BY DEF IInv, TypeOK, Users, UserIds
  <1>5. u # v
    BY <1>3, <1>4
  <1>6. IsFiniteSet(Named(n))
    BY <1>2, FS_Subset DEF IInv, RowsInv
  <1> QED
    BY <1>2, <1>5, <1>6, Single DEF RegisteredTwice

-----------------------------------------------------------------------------
(* Every step that writes no row is a ReadStep. *)
Receipt(r) ==
  \/ \E c \in ClientIds :
       \/ RegisterClient(r, c)
       \/ \E s \in SeedSecret .. secrets :
            \/ MakeTokenEndpoint(r, c, s)
            \/ \E n \in Names, p \in Passwords : GrantToken(r, "password", c, s, n, p)
  \/ \E c \in Bearers :
       \E n \in Names, p \in Passwords : RegisterUser(r, c, n, p) \/ Login(r, c, n, p)
  \/ \E n \in Names, p \in Passwords : CreateUser(r, n, p)
  \/ Migrate(r)

Inv(r) ==
  /\ req' \in [Requests -> RequestType]
  /\ ReqInv' /\ RowsInv' /\ UserHasAuthority' /\ CountInv'

LEMMA ReceiptKeeps ==
  ASSUME IInv, NEW r \in Requests, Receipt(r)
  PROVE  Inv(r)
  <1>1. ASSUME NEW q, Good(q), q.pc \in {"countClients", "countUsers", "loadClient", "loadUser", "createUser", "seed"},
               req' = [req EXCEPT ![r] = q], UNCHANGED <<rows, registered>>
        PROVE  Inv(r)
    BY <1>1, ReadStep DEF Inserts, Inv
  <1>2. /\ "registerClient" \in Operations /\ "registerUser" \in Operations
        /\ "client_credentials" \in Operations /\ "password" \in Operations
        /\ "login" \in Operations /\ "createUser" \in Operations
        /\ None \in ClientIds \union {None} /\ None \in Secrets \union {None} /\ None \in Names \union {None}
        /\ None \in Passwords \union {None}
    BY DEF Operations
  <1>3. ASSUME NEW c \in ClientIds, RegisterClient(r, c) PROVE Inv(r)
    <2> DEFINE q == Asks("registerClient", "countClients", c, None, None, None, FALSE)
    <2>1. q.pc = "countClients"
      BY DEF Asks
    <2>2. Good(q)
      BY <1>2, AsksGood
    <2> HIDE DEF q
    <2> QED
      BY <1>1, <1>3, <2>1, <2>2 DEF RegisterClient, Receives, q
  <1>4. ASSUME NEW c \in Bearers, NEW n \in Names, NEW p \in Passwords, RegisterUser(r, c, n, p)
        PROVE  Inv(r)
    <2> DEFINE q == Asks("registerUser", "countUsers", c, None, n, p, FALSE)
    <2>1. c \in ClientIds
      BY DEF Bearers
    <2>2. Good(q)
      BY <1>2, <2>1, AsksGood
    <2>3. q.pc = "countUsers"
      BY DEF Asks
    <2> HIDE DEF q
    <2> QED
      BY <1>1, <1>4, <2>2, <2>3 DEF RegisterUser, Receives, q
  <1>5. ASSUME NEW n, NEW p, Told(n, p)
        PROVE  \E u \in users : u.name = n /\ u.password = p
    BY <1>5 DEF IInv, RowsInv, Told
  <1>6. ASSUME NEW c \in Bearers, NEW n \in Names, NEW p \in Passwords, Login(r, c, n, p)
        PROVE  Inv(r)
    <2> DEFINE q == Asks("login", "loadUser", c, None, n, p, Told(n, p))
    <2>1. c \in ClientIds /\ Told(n, p) \in BOOLEAN
      BY DEF Bearers, Told
    <2>2. Good(q)
      BY <1>2, <1>5, <2>1, AsksGood
    <2>3. q.pc = "loadUser"
      BY DEF Asks
    <2> HIDE DEF q
    <2> QED
      BY <1>1, <1>6, <2>2, <2>3 DEF Login, Receives, q
  <1>7. ASSUME NEW op \in {"client_credentials", "password"}, NEW c \in ClientIds,
               NEW s \in SeedSecret .. secrets, NEW n \in Names \union {None},
               NEW p \in Passwords \union {None}, GrantToken(r, op, c, s, n, p),
               op = "password" => n \in Names /\ p \in Passwords
        PROVE  Inv(r)
    <2> DEFINE due == Client(c, s) \in registered.clients /\ (op = "password" => Told(n, p))
               q == Asks(op, "loadClient", c, s, n, p, due)
    <2>1. s \in Secrets /\ due \in BOOLEAN
      BY AccountsAssumption DEF IInv, TypeOK, Secrets, SeedSecret
    <2>2. /\ due /\ op \in {"password", "login"} =>
               \E u \in users : u.name = n /\ u.password = p
          /\ due /\ op # "login" => Client(c, s) \in clients
      BY <1>5 DEF IInv, RowsInv
    <2>3. req' = [req EXCEPT ![r] = q]
      BY <1>7 DEF GrantToken, Receives
    <2> HIDE DEF due
    <2>4. Good(q)
      BY <1>2, <1>7, <2>1, <2>2, AsksGood
    <2>5. q.pc = "loadClient"
      BY DEF Asks
    <2> HIDE DEF q
    <2> QED
      BY <1>1, <1>7, <2>3, <2>4, <2>5 DEF GrantToken
  <1>8. ASSUME NEW n \in Names, NEW p \in Passwords, CreateUser(r, n, p)
        PROVE  Inv(r)
    <2> DEFINE q == Asks("createUser", "createUser", None, None, n, p, FALSE)
    <2>1. Good(q)
      BY <1>2, AsksGood
    <2>2. q.pc = "createUser"
      BY DEF Asks
    <2> HIDE DEF q
    <2> QED
      BY <1>1, <1>8, <2>1, <2>2 DEF CreateUser, Receives, q
  <1>9. ASSUME Migrate(r) PROVE Inv(r)
    BY <1>1, <1>9, SeedingGood DEF Migrate, Receives
  <1> QED
    BY <1>3, <1>4, <1>6, <1>7, <1>8, <1>9 DEF Receipt, MakeTokenEndpoint

Reading(r) ==
  \/ CountClients(r) \/ CountUsers(r) \/ InsertUser(r) \/ InsertAuthority(r)
  \/ LoadClient(r) \/ LoadUser(r) \/ Issue(r) \/ Ends(r)
  \/ Create(r) \/ SeedFails(r)
  \/ \E n \in SeedNames : SeedUser(r, n)
  \/ \E c \in SeedClients : SeedClient(r, c)

LEMMA ReadingKeeps ==
  ASSUME IInv, NEW r \in Requests, Reading(r)
  PROVE  Inv(r)
  <1>1. Good(req[r]) /\ req[r] \in RequestType
    BY DEF IInv, ReqInv, Good, Fields
  <1>2. UNCHANGED <<rows, registered>>
    BY DEF Reading, CountClients, CountUsers, InsertUser, InsertAuthority, LoadClient,
       LoadUser, Issue, Ends, Create, SeedFails, SeedUser, SeedClient, rows
  <1>3. CASE Goes(r, "idle")
    <2>1. req' = [req EXCEPT ![r] = Idle] /\ Idle.pc = "idle"
      BY <1>3 DEF Goes, Idle, Asks
    <2> QED
      BY <1>2, <2>1, IdleGood, ReadStep DEF Inserts, Inv
  <1>4. ASSUME NEW pc \in Places \ {"idle"}, Goes(r, pc), Good([req[r] EXCEPT !.pc = pc]),
               pc \in Inserts => req[r].pc \in Inserts \/ Named(req[r].name) = {},
               pc = "insertClient" => Of(req[r].client) = {}
        PROVE  Inv(r)
    <2> DEFINE q == [req[r] EXCEPT !.pc = pc]
    <2>1. q.pc = pc /\ q.name = req[r].name /\ q.client = req[r].client
      BY <1>1 DEF RequestType
    <2>2. req' = [req EXCEPT ![r] = q]
      BY <1>4 DEF Goes, IInv, TypeOK
    <2> HIDE DEF q
    <2>3. Good(q)
      BY <1>4 DEF q
    <2> QED
      BY <1>2, <1>4, <2>1, <2>2, <2>3, ReadStep DEF Inv
  <1>5. ASSUME NEW pc \in {"insertAuthority", "commitUser"}, NEW i \in UserIds,
               req' = [req EXCEPT ![r].pc = pc, ![r].id = i],
               Good([req[r] EXCEPT !.pc = pc, !.id = i]),
               pc \in Inserts => req[r].pc \in Inserts
        PROVE  Inv(r)
    <2> DEFINE q == [req[r] EXCEPT !.pc = pc, !.id = i]
    <2>1. q.pc = pc /\ q.name = req[r].name /\ q.client = req[r].client
      BY <1>1 DEF RequestType
    <2>2. req' = [req EXCEPT ![r] = q]
      BY <1>5 DEF IInv, TypeOK
    <2> HIDE DEF q
    <2>3. Good(q)
      BY <1>5 DEF q
    <2> QED
      BY <1>2, <1>5, <2>1, <2>2, <2>3, ReadStep DEF Inv
  <1>6. CASE CountClients(r)
    <2>1. req[r].client \in ClientIds
      BY <1>1, <1>6 DEF CountClients, At, Good, Fields
    <2>2. CASE Goes(r, "insertClient") /\ Of(req[r].client) = {}
      <3>1. Good([req[r] EXCEPT !.pc = "insertClient"])
        BY <1>1, <2>1, PlaceGood DEF Places
      <3> QED
        BY <1>4, <2>2, <3>1 DEF Places, Inserts
    <2> QED
      BY <1>3, <1>6, <2>2 DEF CountClients
  <1>7. CASE CountUsers(r)
    <2>1. req[r].name \in Names /\ req[r].password \in Passwords
      BY <1>1, <1>7 DEF CountUsers, At, Good, Fields
    <2>2. CASE Goes(r, "insertUser") /\ Named(req[r].name) = {}
      <3>1. Good([req[r] EXCEPT !.pc = "insertUser"])
        BY <1>1, <2>1, PlaceGood DEF Places
      <3> QED
        BY <1>4, <2>2, <3>1 DEF Places
    <2> QED
      BY <1>3, <1>7, <2>2 DEF CountUsers
  <1>8. CASE InsertUser(r)
    <2>1. req[r].name \in Names /\ req[r].password \in Passwords /\ req[r].pc = "insertUser"
      BY <1>1, <1>8 DEF InsertUser, At, Good, Fields
    <2>2. userId + 1 \in UserIds
      BY <1>8, AccountsAssumption DEF InsertUser, RoomForUser, IInv, TypeOK, UserIds
    <2>3. Good([req[r] EXCEPT !.pc = "insertAuthority", !.id = userId + 1])
      BY <1>1, <2>1, <2>2, IdGood
    <2> QED
      BY <1>5, <1>8, <2>1, <2>2, <2>3 DEF InsertUser, Inserts
  <1>9. CASE InsertAuthority(r)
    <2>1. /\ req[r].name \in Names /\ req[r].password \in Passwords
          /\ req[r].id \in UserIds /\ req[r].pc = "insertAuthority"
      BY <1>1, <1>9 DEF InsertAuthority, At, Good, Fields
    <2>2. Good([req[r] EXCEPT !.pc = "commit"])
      BY <1>1, <2>1, PlaceGood DEF Places
    <2> QED
      BY <1>4, <1>9, <2>1, <2>2 DEF InsertAuthority, Places, Inserts
  <1>20. CASE LookUpFails(r)
    <2> DEFINE q == [req[r] EXCEPT !.pc = "refused", !.failed = TRUE]
    <2>1. q.pc = "refused" /\ q.name = req[r].name /\ q.client = req[r].client
      BY <1>1 DEF RequestType
    <2>2. req' = [req EXCEPT ![r] = q]
      BY <1>20 DEF LookUpFails, IInv, TypeOK
    <2>3. Good(q)
      BY <1>1, FailedGood
    <2> HIDE DEF q
    <2> QED
      BY <1>2, <2>1, <2>2, <2>3, ReadStep DEF Inserts, Inv
  <1>10. CASE LoadClient(r)
    <2>1. /\ req[r].client \in ClientIds /\ req[r].op \in {"client_credentials", "password"}
      BY <1>1, <1>10 DEF LoadClient, Good, Fields
    <2>2. CASE /\ Goes(r, "refused")
               /\ \/ Of(req[r].client) = {}
                  \/ \E x \in Of(req[r].client) : x.secret # req[r].secret
      <3>1. req[r].due => RegisteredTwice(req[r])
        BY <2>1, <2>2, ClientRefused
      <3>2. Good([req[r] EXCEPT !.pc = "refused"])
        BY <1>1, <3>1, PlaceGood DEF Places
      <3> QED
        BY <1>4, <2>2, <3>2 DEF Places, Inserts
    <2>3. CASE Goes(r, "loadUser") /\ req[r].op = "password"
      <3>1. req[r].name \in Names /\ req[r].password \in Passwords
        BY <1>1, <2>3 DEF Good, Fields
      <3>2. Good([req[r] EXCEPT !.pc = "loadUser"])
        BY <1>1, <2>1, <2>3, <3>1, PlaceGood DEF Places
      <3> QED
        BY <1>4, <2>3, <3>2 DEF Places, Inserts
    <2>4. ASSUME NEW pc \in {"loadClientAgain", "issue"}, Goes(r, pc), req[r].op # "password"
          PROVE  Inv(r)
      <3>1. Good([req[r] EXCEPT !.pc = pc])
        BY <1>1, <2>1, <2>4, PlaceGood DEF Places
      <3> QED
        BY <1>4, <2>4, <3>1 DEF Places, Inserts
    <2> QED
      BY <1>10, <1>20, <2>2, <2>3, <2>4 DEF LoadClient
  <1>11. CASE LoadUser(r)
    <2>1. /\ req[r].client \in ClientIds /\ req[r].op \in {"password", "login"}
          /\ req[r].name \in Names
      BY <1>1, <1>11 DEF LoadUser, At, Good, Fields
    <2> DEFINE found == {u \in Named(req[r].name) :
                           \A v \in Named(req[r].name) : u.id <= v.id}
    <2>2. CASE Goes(r, "refused") /\ \A u \in found : u.password # req[r].password
      <3>1. req[r].due => RegisteredTwice(req[r])
        BY <2>1, <2>2, UserRefused
      <3>2. Good([req[r] EXCEPT !.pc = "refused"])
        BY <1>1, <3>1, PlaceGood DEF Places
      <3> QED
        BY <1>4, <2>2, <3>2 DEF Places, Inserts
    <2>3. CASE Goes(r, "issue")
      <3>1. Good([req[r] EXCEPT !.pc = "issue"])
        BY <1>1, <2>1, PlaceGood DEF Places
      <3> QED
        BY <1>4, <2>3, <3>1 DEF Places, Inserts
    <2> QED
      BY <1>11, <1>20, <2>2, <2>3 DEF LoadUser
  <1>12. CASE Issue(r)
    BY <1>3, <1>12 DEF Issue
  <1>13. CASE Ends(r)
    BY <1>3, <1>13 DEF Ends
  <1>14. CASE Create(r)
    <2>1. req[r].name \in Names /\ req[r].password \in Passwords
      BY <1>1, <1>14 DEF Create, At, Good, Fields
    <2>2. userId + 1 \in UserIds
      BY <1>14, AccountsAssumption DEF Create, RoomForUser, IInv, TypeOK, UserIds
    <2>3. Good([req[r] EXCEPT !.pc = "commitUser", !.id = userId + 1])
      BY <1>1, <2>1, <2>2, IdGood
    <2> QED
      BY <1>5, <1>14, <2>2, <2>3 DEF Create, Inserts
  <1>15. CASE SeedFails(r)
    <2>1. PICK q : Good(q) /\ q.pc = "seed" /\ req' = [req EXCEPT ![r] = q]
      BY <1>1, <1>15, ContinuesGood DEF SeedFails, IInv
    <2> QED
      BY <1>2, <2>1, ReadStep DEF Inserts, Inv
  <1>16. ASSUME NEW q \in RequestType, req[r].pc = "seed", req' = [req EXCEPT ![r] = q],
                q.op = req[r].op, q.due = req[r].due,
                \/ q.pc = "seed"
                \/ q.pc = "createUser" /\ q.name \in Names /\ q.password \in Passwords
                \/ q.pc = "seedClient" /\ q.client \in ClientIds,
                q.pc # "createUser" => q.name = req[r].name /\ q.password = req[r].password
         PROVE  Inv(r)
    <2>1. Good(q)
      BY <1>1, <1>16, SeedGood
    <2> QED
      BY <1>2, <1>16, <2>1, ReadStep DEF Inserts, Inv
  <1>17. ASSUME NEW n \in SeedNames, SeedUser(r, n) PROVE Inv(r)
    <2> DEFINE left == [req[r] EXCEPT !.names = @ \ {n}]
               next == [req[r] EXCEPT !.pc = "createUser", !.names = @ \ {n},
                                      !.name = n, !.password = SeedPassword]
    <2>1. /\ left \in RequestType /\ left.op = req[r].op /\ left.due = req[r].due
          /\ left.pc = req[r].pc /\ left.name = req[r].name /\ left.password = req[r].password
      BY <1>1 DEF RequestType
    <2>2. /\ next \in RequestType /\ next.op = req[r].op /\ next.due = req[r].due
          /\ next.pc = "createUser" /\ next.name \in Names /\ next.password \in Passwords
      BY <1>1, AccountsAssumption DEF RequestType, Places
    <2>3. req[r].pc = "seed" /\ (req' = [req EXCEPT ![r] = left] \/ req' = [req EXCEPT ![r] = next])
      BY <1>17 DEF SeedUser, At, IInv, TypeOK
    <2> HIDE DEF left, next
    <2> QED
      BY <1>16, <2>1, <2>2, <2>3
  <1>18. ASSUME NEW c \in SeedClients, SeedClient(r, c) PROVE Inv(r)
    <2> DEFINE left == [req[r] EXCEPT !.clients = @ \ {c}]
               next == [req[r] EXCEPT !.pc = "seedClient", !.clients = @ \ {c}, !.client = c]
    <2>1. /\ left \in RequestType /\ left.op = req[r].op /\ left.due = req[r].due
          /\ left.pc = req[r].pc /\ left.name = req[r].name /\ left.password = req[r].password
      BY <1>1 DEF RequestType
    <2>2. /\ next \in RequestType /\ next.op = req[r].op /\ next.due = req[r].due
          /\ next.pc = "seedClient" /\ next.client \in ClientIds
          /\ next.name = req[r].name /\ next.password = req[r].password
      BY <1>1, AccountsAssumption DEF RequestType, Places
    <2>3. req[r].pc = "seed" /\ (req' = [req EXCEPT ![r] = left] \/ req' = [req EXCEPT ![r] = next])
      BY <1>18 DEF SeedClient, At, IInv, TypeOK
    <2> HIDE DEF left, next
    <2> QED
      BY <1>16, <2>1, <2>2, <2>3
  <1> QED
    BY <1>6, <1>7, <1>8, <1>9, <1>10, <1>11, <1>12, <1>13, <1>14, <1>15, <1>17, <1>18
    DEF Reading

-----------------------------------------------------------------------------
(* The two steps that write rows: the request no longer counts, its row    *)
(* does.                                                                   *)
LEMMA CommitKeeps ==
  ASSUME IInv, NEW r \in Requests, Commit(r)
  PROVE  Inv(r)
  <1> DEFINE n == req[r].name
             row == UserRow(r)
  <1>1. users' = users \union {row} /\ authorities' = authorities \union {req[r].id}
        /\ clients' = clients /\ elsewhere' = elsewhere
        /\ registered' = [registered EXCEPT !.users = @ \union {row}]
    BY DEF Commit
  <1>2. /\ IsFiniteSet(users') /\ IsFiniteSet(clients')
        /\ users \subseteq users' /\ clients \subseteq clients'
    BY <1>1, FS_AddElement DEF IInv, RowsInv
  <1>3. req' = [req EXCEPT ![r] = Idle]
    BY DEF Commit, Goes
  <1>4. req' \in [Requests -> RequestType] /\ ReqInv'
    BY <1>2, <1>3, IdleGood, Moved DEF IInv
  <1>5. RowsInv'
    <2>1. registered'.users \subseteq users' /\ registered'.clients \subseteq clients'
      <3>1. registered.users \subseteq users /\ registered.clients \subseteq clients
        BY DEF IInv, RowsInv
      <3>2. registered \in [users : SUBSET Users, clients : SUBSET Clients]
        BY DEF IInv, TypeOK
      <3> HIDE DEF row
      <3> QED
        BY <1>1, <3>1, <3>2
    <2> QED
      BY <1>2, <2>1 DEF RowsInv
  <1>6. UserHasAuthority'
    <2>1. row.id = req[r].id
      BY DEF UserRow
    <2> HIDE DEF row
    <2> QED
      BY <1>1, <2>1 DEF IInv, UserHasAuthority
  <1>7. \A s \in Requests : req'[s] = IF s = r THEN Idle ELSE req[s]
    BY <1>3 DEF IInv, TypeOK
  <1>8. Idle.pc = "idle" /\ req[r].pc = "commit" /\ row.name = n
    BY DEF Idle, Asks, Commit, At, UserRow
  <1>9. ASSUME NEW m \in Names
        PROVE  Cardinality(Own(m)') + Cardinality(Inserting(m)') <= Cardinality(Requests)
    <2>1. /\ Own(m) \subseteq users /\ Inserting(m) \subseteq Requests
          /\ IsFiniteSet(Own(m)) /\ IsFiniteSet(Inserting(m))
          /\ Cardinality(Own(m)) \in Nat /\ Cardinality(Inserting(m)) \in Nat
          /\ Cardinality(Requests) \in Nat
      <3>1. Own(m) \subseteq users /\ Inserting(m) \subseteq Requests
        BY DEF Own, Named, Inserting
      <3>2. IsFiniteSet(users) /\ IsFiniteSet(Requests)
        BY AccountsAssumption DEF IInv, RowsInv
      <3> QED
        BY <3>1, <3>2, SubsetCount
    <2>2. Cardinality(Own(m)) + Cardinality(Inserting(m)) <= Cardinality(Requests)
      BY DEF IInv, CountInv
    <2>3. CASE m = n
      <3>1. Own(m)' \in SUBSET (Own(m) \union {row})
        BY <1>1 DEF Own, Named
      <3>2. r \in Inserting(m) /\ Inserting(m)' \in SUBSET (Inserting(m) \ {r})
        BY <1>7, <1>8, <2>3 DEF Inserting
      <3>3. Cardinality(Own(m)') <= Cardinality(Own(m)) + 1 /\ Cardinality(Own(m)') \in Nat
        BY <2>1, <3>1, AddCount
      <3>4. /\ Cardinality(Inserting(m)') + 1 <= Cardinality(Inserting(m))
            /\ Cardinality(Inserting(m)') \in Nat
        BY <2>1, <3>2, RemoveCount
      <3> QED
        BY <2>1, <2>2, <3>3, <3>4
    <2>4. CASE m # n
      <3>1. Own(m)' = Own(m)
        <4> HIDE DEF row
        <4> QED
          BY <1>1, <1>8, <2>4 DEF Own, Named
      <3>2. Inserting(m)' \in SUBSET Inserting(m)
        BY <1>7, <1>8 DEF Inserting
      <3>3. /\ Cardinality(Inserting(m)') <= Cardinality(Inserting(m))
            /\ Cardinality(Inserting(m)') \in Nat
        BY <2>1, <3>2, SubsetCount
      <3> QED
        BY <2>1, <2>2, <3>1, <3>3
    <2> QED
      BY <2>3, <2>4
  <1>10. ASSUME NEW c \in ClientIds
         PROVE  Cardinality(OwnClients(c)') + Cardinality(InsertingClient(c)') <= Cardinality(Requests)
    <2>1. OwnClients(c)' = OwnClients(c) /\ InsertingClient(c)' = InsertingClient(c)
      BY <1>1, <1>7, <1>8 DEF OwnClients, Of, InsertingClient
    <2> QED
      BY <2>1 DEF IInv, CountInv
  <1>11. CountInv'
    BY <1>9, <1>10 DEF CountInv
  <1> QED
    BY <1>4, <1>5, <1>6, <1>11 DEF Inv

LEMMA InsertClientKeeps ==
  ASSUME IInv, NEW r \in Requests, InsertClient(r)
  PROVE  Inv(r)
  <1> DEFINE c == req[r].client
             row == Client(req[r].client, secrets + 1)
  <1>1. /\ users' = users /\ elsewhere' = elsewhere /\ authorities' = authorities
        /\ clients' = clients \union {row}
        /\ registered' = [registered EXCEPT !.clients = @ \union {row}]
    BY DEF InsertClient
  <1>2. /\ IsFiniteSet(users') /\ IsFiniteSet(clients')
        /\ users \subseteq users' /\ clients \subseteq clients'
    BY <1>1, FS_AddElement DEF IInv, RowsInv
  <1>3. req' = [req EXCEPT ![r] = Idle]
    BY DEF InsertClient, Goes
  <1>4. req' \in [Requests -> RequestType] /\ ReqInv'
    BY <1>2, <1>3, IdleGood, Moved DEF IInv
  <1>5. RowsInv'
    <2>1. registered'.users \subseteq users' /\ registered'.clients \subseteq clients'
      <3>1. registered.users \subseteq users /\ registered.clients \subseteq clients
        BY DEF IInv, RowsInv
      <3>2. registered \in [users : SUBSET Users, clients : SUBSET Clients]
        BY DEF IInv, TypeOK
      <3> HIDE DEF row
      <3> QED
        BY <1>1, <3>1, <3>2
    <2> QED
      BY <1>2, <2>1 DEF RowsInv
  <1>6. UserHasAuthority'
    BY <1>1 DEF IInv, UserHasAuthority
  <1>7. \A s \in Requests : req'[s] = IF s = r THEN Idle ELSE req[s]
    BY <1>3 DEF IInv, TypeOK
  <1>8. Idle.pc = "idle" /\ req[r].pc = "insertClient" /\ row.client = c
    BY DEF Idle, Asks, InsertClient, At, Client
  <1>9. ASSUME NEW m \in Names
        PROVE  Cardinality(Own(m)') + Cardinality(Inserting(m)') <= Cardinality(Requests)
    <2>1. Own(m)' = Own(m) /\ Inserting(m)' = Inserting(m)
      BY <1>1, <1>7, <1>8 DEF Own, Named, Inserting
    <2> QED
      BY <2>1 DEF IInv, CountInv
  <1>10. ASSUME NEW m \in ClientIds
         PROVE  Cardinality(OwnClients(m)') + Cardinality(InsertingClient(m)') <= Cardinality(Requests)
    <2>1. /\ IsFiniteSet(OwnClients(m)) /\ IsFiniteSet(InsertingClient(m))
          /\ Cardinality(OwnClients(m)) \in Nat /\ Cardinality(InsertingClient(m)) \in Nat
          /\ Cardinality(Requests) \in Nat
      <3>1. OwnClients(m) \subseteq clients /\ InsertingClient(m) \subseteq Requests
        BY DEF OwnClients, Of, InsertingClient
      <3>2. IsFiniteSet(clients) /\ IsFiniteSet(Requests)
        BY AccountsAssumption DEF IInv, RowsInv
      <3> QED
        BY <3>1, <3>2, SubsetCount
    <2>2. Cardinality(OwnClients(m)) + Cardinality(InsertingClient(m)) <= Cardinality(Requests)
      BY DEF IInv, CountInv
    <2>3. CASE m = c
      <3>1. OwnClients(m)' \in SUBSET (OwnClients(m) \union {row})
        BY <1>1 DEF OwnClients, Of
      <3>2. r \in InsertingClient(m) /\ InsertingClient(m)' \in SUBSET (InsertingClient(m) \ {r})
        BY <1>7, <1>8, <2>3 DEF InsertingClient
      <3>3. Cardinality(OwnClients(m)') <= Cardinality(OwnClients(m)) + 1 /\ Cardinality(OwnClients(m)') \in Nat
        BY <2>1, <3>1, AddCount
      <3>4. /\ Cardinality(InsertingClient(m)') + 1 <= Cardinality(InsertingClient(m))
            /\ Cardinality(InsertingClient(m)') \in Nat
        BY <2>1, <3>2, RemoveCount
      <3> QED
        BY <2>1, <2>2, <3>3, <3>4
    <2>4. CASE m # c
      <3>1. OwnClients(m)' = OwnClients(m)
        <4> HIDE DEF row
        <4> QED
          BY <1>1, <1>8, <2>4 DEF OwnClients, Of
      <3>2. InsertingClient(m)' \in SUBSET InsertingClient(m)
        BY <1>7, <1>8 DEF InsertingClient
      <3>3. /\ Cardinality(InsertingClient(m)') <= Cardinality(InsertingClient(m))
            /\ Cardinality(InsertingClient(m)') \in Nat
        BY <2>1, <3>2, SubsetCount
      <3> QED
        BY <2>1, <2>2, <3>1, <3>3
    <2> QED
      BY <2>3, <2>4
  <1>11. CountInv'
    BY <1>9, <1>10 DEF CountInv
  <1> QED
    BY <1>4, <1>5, <1>6, <1>11 DEF Inv

-----------------------------------------------------------------------------
(* The rows of the others *)
LEMMA CommitUserKeeps ==
  ASSUME IInv, NEW r \in Requests, CommitUser(r)
  PROVE  Inv(r)
  <1> DEFINE row == UserRow(r)
  <1>1. /\ users' = users \union {row} /\ elsewhere' = elsewhere \union {row}
        /\ authorities' = authorities /\ clients' = clients
        /\ registered' = [registered EXCEPT !.users = @ \union {row}]
             \/ registered' = registered
    BY DEF CommitUser
  <1>2. /\ IsFiniteSet(users') /\ IsFiniteSet(clients')
        /\ users \subseteq users' /\ clients \subseteq clients'
    BY <1>1, FS_AddElement DEF IInv, RowsInv
  <1>3. PICK q : Good(q) /\ q.pc \in {"idle", "seed"} /\ req' = [req EXCEPT ![r] = q]
    <2>1. req[r] \in RequestType
      BY DEF IInv, TypeOK, RequestType
    <2>2. CASE Goes(r, "idle")
      <3>1. req' = [req EXCEPT ![r] = Idle] /\ Idle.pc = "idle"
        BY <2>2 DEF Goes, Idle, Asks
      <3> QED
        BY <3>1, IdleGood
    <2>3. CASE Continues(r)
      BY <2>1, <2>3, ContinuesGood DEF IInv
    <2> QED
      BY <2>2, <2>3 DEF CommitUser
  <1>4. req' \in [Requests -> RequestType] /\ ReqInv'
    BY <1>2, <1>3, Moved DEF IInv
  <1>5. RowsInv'
    <2>1. registered'.users \subseteq users' /\ registered'.clients \subseteq clients'
      <3>1. registered.users \subseteq users /\ registered.clients \subseteq clients
        BY DEF IInv, RowsInv
      <3>2. registered \in [users : SUBSET Users, clients : SUBSET Clients]
        BY DEF IInv, TypeOK
      <3> HIDE DEF row
      <3> QED
        BY <1>1, <3>1, <3>2
    <2> QED
      BY <1>2, <2>1 DEF RowsInv
  <1>6. UserHasAuthority'
    <2> HIDE DEF row
    <2> QED
      BY <1>1 DEF IInv, UserHasAuthority
  <1>7. \A s \in Requests : req'[s] = IF s = r THEN q ELSE req[s]
    BY <1>3 DEF IInv, TypeOK
  <1>8. CountInv'
    <2> HIDE DEF row
    <2>1. \A n \in Names : Own(n)' \subseteq Own(n) /\ Inserting(n)' \subseteq Inserting(n)
      BY <1>1, <1>3, <1>7 DEF Own, Named, Inserting
    <2>2. \A c \in ClientIds : /\ OwnClients(c)' \subseteq OwnClients(c)
                               /\ InsertingClient(c)' \subseteq InsertingClient(c)
      BY <1>1, <1>3, <1>7 DEF OwnClients, Of, InsertingClient
    <2> QED
      BY <2>1, <2>2, LessCounted
  <1> QED
    BY <1>4, <1>5, <1>6, <1>8 DEF Inv

LEMMA InsertSeedClientKeeps ==
  ASSUME IInv, NEW r \in Requests, InsertSeedClient(r)
  PROVE  Inv(r)
  <1> DEFINE row == Client(req[r].client, SeedSecret)
  <1>1. /\ users' = users /\ elsewhere' = elsewhere /\ authorities' = authorities
        /\ clients' = clients \union {row} /\ registered' = registered
        /\ row.secret = SeedSecret
    BY DEF InsertSeedClient, Client
  <1>2. PICK q : Good(q) /\ q.pc = "seed" /\ req' = [req EXCEPT ![r] = q]
    <2>1. req[r] \in RequestType
      BY DEF IInv, TypeOK, RequestType
    <2> QED
      BY <2>1, ContinuesGood DEF IInv, InsertSeedClient
  <1> HIDE DEF row
  <1>3. /\ IsFiniteSet(users') /\ IsFiniteSet(clients')
        /\ users \subseteq users' /\ clients \subseteq clients'
    BY <1>1, FS_AddElement DEF IInv, RowsInv
  <1>4. req' \in [Requests -> RequestType] /\ ReqInv'
    BY <1>2, <1>3, Moved DEF IInv
  <1>5. RowsInv' /\ UserHasAuthority'
    BY <1>1, <1>3 DEF IInv, RowsInv, UserHasAuthority
  <1>6. \A s \in Requests : req'[s] = IF s = r THEN q ELSE req[s]
    BY <1>2 DEF IInv, TypeOK
  <1>7. CountInv'
    <2>1. \A n \in Names : Own(n)' \subseteq Own(n) /\ Inserting(n)' \subseteq Inserting(n)
      BY <1>1, <1>2, <1>6 DEF Own, Named, Inserting
    <2>2. \A c \in ClientIds : /\ OwnClients(c)' \subseteq OwnClients(c)
                               /\ InsertingClient(c)' \subseteq InsertingClient(c)
      BY <1>1, <1>2, <1>6 DEF OwnClients, Of, InsertingClient
    <2> QED
      BY <2>1, <2>2, LessCounted
  <1> QED
    BY <1>4, <1>5, <1>7 DEF Inv

LEMMA SeedAuthoritiesKeep ==
  ASSUME IInv, NEW r \in Requests, SeedAuthorities(r)
  PROVE  Inv(r)
  <1>1. /\ users' = users /\ elsewhere' = elsewhere /\ clients' = clients
        /\ registered' = registered
        /\ authorities \subseteq authorities' /\ authorities' \subseteq authorities \union SeedIds
    BY DEF SeedAuthorities
  <1>2. req' = [req EXCEPT ![r] = Idle] /\ Idle.pc = "idle"
    BY DEF SeedAuthorities, Goes, Idle, Asks
  <1>3. RowsInv' /\ IsFiniteSet(users') /\ IsFiniteSet(clients')
    BY <1>1 DEF IInv, RowsInv
  <1>4. req' \in [Requests -> RequestType] /\ ReqInv'
    BY <1>1, <1>2, <1>3, IdleGood, Moved DEF IInv
  <1>5. UserHasAuthority'
    BY <1>1 DEF IInv, UserHasAuthority
  <1>6. \A s \in Requests : req'[s] = IF s = r THEN Idle ELSE req[s]
    BY <1>2 DEF IInv, TypeOK
  <1>7. CountInv'
    <2>1. \A n \in Names : Own(n)' \subseteq Own(n) /\ Inserting(n)' \subseteq Inserting(n)
      BY <1>1, <1>2, <1>6 DEF Own, Named, Inserting
    <2>2. \A c \in ClientIds : /\ OwnClients(c)' \subseteq OwnClients(c)
                               /\ InsertingClient(c)' \subseteq InsertingClient(c)
      BY <1>1, <1>2, <1>6 DEF OwnClients, Of, InsertingClient
    <2> QED
      BY <2>1, <2>2, LessCounted
  <1> QED
    BY <1>3, <1>4, <1>5, <1>7 DEF Inv

Writing(r) ==
  \/ Commit(r) \/ InsertClient(r)
  \/ CommitUser(r) \/ InsertSeedClient(r) \/ SeedAuthorities(r)

-----------------------------------------------------------------------------
(* Types of the rest *)
RestType ==
  /\ users \subseteq Users /\ elsewhere \subseteq users /\ clients \subseteq Clients
  /\ authorities \subseteq UserIds \union SeedIds
  /\ userId \in 0 .. MaxUsers /\ secrets \in 0 .. MaxClients
  /\ tokens \subseteq ClientIds
  /\ registered \in [users : SUBSET Users, clients : SUBSET Clients]

LEMMA RestKept ==
  ASSUME IInv, NEW r \in Requests,
         Receipt(r) \/ Reading(r) \/ Writing(r)
  PROVE  RestType'
  <1> USE DEF IInv, TypeOK
  <1>1. Fields(req[r]) /\ req[r] \in RequestType
    BY DEF ReqInv, Good, Fields
  <1>2. CASE UNCHANGED <<rows, userId, secrets, tokens, registered>>
    BY <1>2 DEF rows, RestType
  <1>3. CASE InsertUser(r)
    <2>1. userId + 1 \in 0 .. MaxUsers
      BY <1>3, AccountsAssumption DEF InsertUser, RoomForUser
    <2> QED
      BY <1>3, <2>1 DEF InsertUser, rows, RestType
  <1>4. CASE Issue(r)
    <2>1. req[r].client \in ClientIds
      BY <1>1, <1>4 DEF Issue, At, Fields
    <2> QED
      BY <1>4, <2>1 DEF Issue, rows, RestType
  <1>5. CASE Commit(r)
    <2>1. UserRow(r) \in Users /\ req[r].id \in UserIds
      BY <1>1, <1>5 DEF Commit, At, Fields, UserRow, Users
    <2>2. registered' \in [users : SUBSET Users, clients : SUBSET Clients]
      BY <1>5, <2>1 DEF Commit
    <2> QED
      BY <1>5, <2>1, <2>2 DEF Commit, RestType
  <1>6. CASE InsertClient(r)
    <2>1. secrets + 1 \in 1 .. MaxClients /\ secrets + 1 \in 0 .. MaxClients
      BY <1>6, AccountsAssumption DEF InsertClient, RoomForClient
    <2>2. Client(req[r].client, secrets + 1) \in Clients
      BY <1>1, <1>6, <2>1 DEF InsertClient, At, Fields, Client, Clients, Secrets, SeedSecret
    <2>3. registered' \in [users : SUBSET Users, clients : SUBSET Clients]
      BY <1>6, <2>2 DEF InsertClient
    <2> QED
      BY <1>6, <2>1, <2>2, <2>3 DEF InsertClient, RestType
  <1>7. CASE Create(r)
    <2>1. userId + 1 \in 0 .. MaxUsers
      BY <1>7, AccountsAssumption DEF Create, RoomForUser
    <2> QED
      BY <1>7, <2>1 DEF Create, rows, RestType
  <1>8. CASE CommitUser(r)
    <2>1. UserRow(r) \in Users
      BY <1>1, <1>8 DEF CommitUser, At, Fields, UserRow, Users
    <2>2. registered' \in [users : SUBSET Users, clients : SUBSET Clients]
      BY <1>8, <2>1 DEF CommitUser
    <2> QED
      BY <1>8, <2>1, <2>2 DEF CommitUser, RestType
  <1>9. CASE InsertSeedClient(r)
    <2>1. Client(req[r].client, SeedSecret) \in Clients
      BY <1>1, <1>9, AccountsAssumption
      DEF InsertSeedClient, At, Fields, Client, Clients, Secrets, SeedSecret
    <2> QED
      BY <1>9, <2>1 DEF InsertSeedClient, RestType
  <1>10. CASE SeedAuthorities(r)
    BY <1>10 DEF SeedAuthorities, RestType
  <1> QED
    BY <1>2, <1>3, <1>4, <1>5, <1>6, <1>7, <1>8, <1>9, <1>10
    DEF Receipt, RegisterClient, RegisterUser, MakeTokenEndpoint, GrantToken, Login, CreateUser, Migrate,
        Reading,
        CountClients, CountUsers, InsertAuthority, LoadClient, LoadUser, Ends, SeedFails,
        SeedUser, SeedClient, Writing

LEMMA InitInv == Init => IInv
  <1> SUFFICES ASSUME Init PROVE IInv
    OBVIOUS
  <1>1. Idle \in RequestType /\ Idle.pc = "idle"
    BY IdleGood DEF Good, Fields, Idle, Asks
  <1>2. TypeOK
    BY <1>1, AccountsAssumption DEF Init, TypeOK, RequestType
  <1>3. ReqInv
    BY IdleGood DEF Init, ReqInv
  <1>4. RowsInv /\ UserHasAuthority
    BY FS_EmptySet DEF Init, RowsInv, UserHasAuthority
  <1>5. CountInv
    <2>1. \A n : /\ Own(n) = {} /\ OwnClients(n) = {}
                /\ Inserting(n) = {} /\ InsertingClient(n) = {}
      BY <1>1 DEF Init, Own, Named, OwnClients, Of, Inserting, InsertingClient
    <2>2. Cardinality({}) = 0 /\ Cardinality(Requests) \in Nat
      BY FS_EmptySet, FS_CardinalityType, AccountsAssumption
    <2> QED
      BY <2>1, <2>2 DEF CountInv
  <1> QED
    BY <1>2, <1>3, <1>4, <1>5 DEF IInv

LEMMA Step == IInv /\ [Next]_vars => IInv'
  <1> SUFFICES ASSUME IInv, [Next]_vars PROVE IInv'
    OBVIOUS
  <1>1. ASSUME NEW r \in Requests, Receipt(r) \/ Reading(r) \/ Writing(r)
        PROVE  IInv'
    <2>1. Inv(r)
      BY <1>1, ReceiptKeeps, ReadingKeeps, CommitKeeps, InsertClientKeeps, CommitUserKeeps,
         InsertSeedClientKeeps, SeedAuthoritiesKeep DEF Writing
    <2>2. RestType'
      BY <1>1, RestKept
    <2> QED
      BY <2>1, <2>2 DEF Inv, IInv, TypeOK, RestType, RequestType
  <1>2. CASE UNCHANGED vars
    <2> USE <1>2 DEF vars, rows, IInv
    <2>1. TypeOK' /\ RowsInv' /\ UserHasAuthority'
      BY DEF TypeOK, RowsInv, UserHasAuthority
    <2>2. ReqInv'
      <3>1. \A q : RegisteredTwice(q)' <=> RegisteredTwice(q)
        BY DEF RegisteredTwice, Named, Of
      <3> QED
        BY <3>1 DEF ReqInv, Good, Fields, Due, RegisteredTwice, Named, Of
    <2>3. CountInv'
      BY DEF CountInv, Own, Named, OwnClients, Of, Inserting, InsertingClient
    <2> QED
      BY <2>1, <2>2, <2>3
  <1> QED
    BY <1>1, <1>2 DEF Next, Receipt, Reading, Writing

LEMMA Invariance == Spec => []IInv
  BY InitInv, Step, PTL DEF Spec

-----------------------------------------------------------------------------
(* Rows, tokens and requests keep their types.                             *)
THEOREM TypeCorrect == Spec => []TypeOK
  <1>1. IInv => TypeOK
    BY DEF IInv
  <1> QED
    BY Invariance, <1>1, PTL

(* user_service.go:98-113: user and authority of the auth service are      *)
(* written together.                                                       *)
THEOREM UsersHaveAuthorities == Spec => []UserHasAuthority
  <1>1. IInv => UserHasAuthority
    BY DEF IInv
  <1> QED
    BY Invariance, <1>1, PTL

(* user_service.go:77-85, client_service.go:63-72: a name or client id is  *)
(* registered by the auth service at most as often as requests run at a    *)
(* time.                                                                   *)
THEOREM DuplicatesAreBounded == Spec => []DuplicatesBounded
  <1>1. IInv => DuplicatesBounded
    <2> SUFFICES ASSUME IInv PROVE DuplicatesBounded
      OBVIOUS
    <2>1. ASSUME NEW n \in Names PROVE Cardinality(Own(n)) <= Cardinality(Requests)
      <3>1. Own(n) \subseteq users /\ Inserting(n) \subseteq Requests
        BY DEF Own, Named, Inserting
      <3>2. Cardinality(Own(n)) \in Nat /\ Cardinality(Inserting(n)) \in Nat
            /\ Cardinality(Requests) \in Nat
        BY <3>1, SubsetCount, AccountsAssumption DEF IInv, RowsInv
      <3> QED
        BY <3>2 DEF IInv, CountInv
    <2>2. ASSUME NEW c \in ClientIds PROVE Cardinality(OwnClients(c)) <= Cardinality(Requests)
      <3>1. OwnClients(c) \subseteq clients /\ InsertingClient(c) \subseteq Requests
        BY DEF OwnClients, Of, InsertingClient
      <3>2. Cardinality(OwnClients(c)) \in Nat /\ Cardinality(InsertingClient(c)) \in Nat
            /\ Cardinality(Requests) \in Nat
        BY <3>1, SubsetCount, AccountsAssumption DEF IInv, RowsInv
      <3> QED
        BY <3>2 DEF IInv, CountInv
    <2> QED
      BY <2>1, <2>2 DEF DuplicatesBounded
  <1> QED
    BY Invariance, <1>1, PTL

(* user_service.go:52-63, client_service.go:43-55: credentials that were   *)
(* answered with success are found good by every look-up that gets to the  *)
(* rows, until the name or client id is registered again.                  *)
THEOREM GoodCredentialsHold == Spec => []RefusedOnlyIfTwice
  <1>1. IInv => RefusedOnlyIfTwice
    BY DEF IInv, ReqInv, Good, RegisteredTwice, RefusedOnlyIfTwice, At
  <1> QED
    BY Invariance, <1>1, PTL
=============================================================================
