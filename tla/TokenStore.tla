----------------------------- MODULE TokenStore -----------------------------
(***************************************************************************)
(* services/auth: instances of the auth service that verify, refresh and   *)
(* revoke tokens (service/token_service.go over storage/token_store.go).   *)
(* A revocation is written to the instance's own cache, to Redis and to    *)
(* the database, one after the other and without a transaction; a check    *)
(* reads them in the same order.  Cache and Redis keys carry a kind        *)
(* ("access" or "refresh"), database rows do not.  Signing and parsing of  *)
(* the JWT are abstracted to: parsing fails once the token has expired.    *)
(***************************************************************************)
EXTENDS Naturals

CONSTANTS
  Instances,   \* processes of the auth service
  Requests,    \* goroutines serving one request at a time
  Tokens,      \* signed tokens in circulation
  RedisFails,  \* may Redis fail to answer or lose an entry
  DbFails      \* may the database fail to answer

ASSUME TokenAssumption == RedisFails \in BOOLEAN /\ DbFails \in BOOLEAN

VARIABLES
  local,     \* local[i]: revokedCache of instance i
  redis,     \* revocation entries in Redis
  db,        \* tokens with a RevokedToken row
  expired,   \* tokens past their expiry
  req,       \* req[r]: the request r is serving
  asked,     \* tokens somebody began to revoke (history)
  exchanged  \* refresh tokens for which a new pair was returned (history)

storeVars == <<local, redis, db>>
vars == <<storeVars, expired, req, asked, exchanged>>

Kinds == {"access", "refresh"}
Key(k, t) == <<k, t>>

(* A request: what it does, where and on which token; pc and round, the    *)
(* step of the check or the revocation it is at; its result; and, for the  *)
(* properties, what the stores knew when it began, whether Redis failed it *)
(* since, and whether the token had been exchanged already.                *)
Idle(i, t) ==
  [op |-> "none", at |-> i, token |-> t, pc |-> "idle", round |-> 0,
   result |-> "none", inDb |-> FALSE, inRedis |-> FALSE, fault |-> FALSE, replay |-> FALSE]

Init ==
  /\ local = [i \in Instances |-> {}]
  /\ redis = {}
  /\ db = {}
  /\ expired = {}
  /\ \E i \in Instances, t \in Tokens : req = [r \in Requests |-> Idle(i, t)]
  /\ asked = {}
  /\ exchanged = {}

-----------------------------------------------------------------------------
(* VerifyToken, the refresh grant, RemoveAccessToken.                      *)

Fresh(op, i, t) ==
  [op |-> op, at |-> i, token |-> t,
   pc |-> IF op = "remove" THEN "setLocal" ELSE "local",
   round |-> IF op = "remove" THEN 0 ELSE 1,
   result |-> "none",
   inDb |-> t \in db, inRedis |-> Key("access", t) \in redis,
   fault |-> FALSE, replay |-> t \in exchanged]

Begin(r, op, i, t) ==
  /\ req[r].pc = "idle"
  /\ req' = [req EXCEPT ![r] = Fresh(op, i, t)]
  /\ asked' = IF op = "remove" THEN asked \union {t} ELSE asked
  /\ UNCHANGED <<storeVars, expired, exchanged>>

(* gRPC VerifyToken and POST /oauth2/verify: the token is good if the      *)
(* check and the reading of its details succeed.                           *)
VerifyToken(r, i, t) == Begin(r, "verify", i, t)

(* POST /oauth2/refresh and the refresh_token grant. *)
RefreshToken(r, i, t) == Begin(r, "refresh", i, t)

(* A method of the store, called by its test alone. *)
RemoveAccessToken(r, i, t) == Begin(r, "remove", i, t)

Finished(r, result) == [req EXCEPT ![r].pc = "idle", ![r].round = 0, ![r].result = result]
Goto(r, step) == [req EXCEPT ![r].pc = step]

(* What isTokenRevoked and the parsing that follows it lead to when no     *)
(* store knows the token.  The check is made twice, by ReadAccessToken and *)
(* by ReadOAuth2Details; after the second one a refresh creates the new    *)
(* pair and revokes the old token.                                         *)
NotRevoked(r) ==
  LET q == req[r] IN
  \/ /\ q.token \in expired
     /\ req' = Finished(r, "invalid")
     /\ UNCHANGED asked
  \/ /\ q.token \notin expired /\ q.round = 1
     /\ req' = [req EXCEPT ![r].pc = "local", ![r].round = 2]
     /\ UNCHANGED asked
  \/ /\ q.token \notin expired /\ q.round = 2 /\ q.op = "verify"
     /\ req' = Finished(r, "ok")
     /\ UNCHANGED asked
  \/ /\ q.token \notin expired /\ q.round = 2 /\ q.op = "refresh"
     /\ req' = Goto(r, "setLocal")
     /\ asked' = asked \union {q.token}

(* isTokenRevoked, 1: the instance's cache. *)
LookLocal(r) ==
  LET q == req[r] IN
  /\ q.pc = "local"
  /\ req' = IF Key("access", q.token) \in local[q.at] THEN Finished(r, "revoked") ELSE Goto(r, "redis")
  /\ UNCHANGED <<storeVars, expired, asked, exchanged>>

Remember(i, k) == [local EXCEPT ![i] = @ \union {k}]

(* Mutant: the lookup uses the other prefix.                               *)
LookRedisOtherKind(r) ==
  LET q == req[r]
      k == Key("refresh", q.token) IN
  /\ q.pc = "redis"
  /\ req' = IF k \in redis THEN Finished(r, "revoked") ELSE Goto(r, "db")
  /\ local' = IF k \in redis THEN Remember(q.at, k) ELSE local
  /\ UNCHANGED <<redis, db, expired, asked, exchanged>>

(* Mutant: a miss is cached like a hit.                                    *)
LookRedisCaching(r) ==
  LET q == req[r]
      k == Key("access", q.token) IN
  /\ q.pc = "redis"
  /\ req' = IF k \in redis THEN Finished(r, "revoked") ELSE Goto(r, "db")
  /\ local' = Remember(q.at, k)
  /\ UNCHANGED <<redis, db, expired, asked, exchanged>>

(* 2: Redis.  An error counts like a miss. *)
LookRedis(r) ==
  LET q == req[r]
      k == Key("access", q.token) IN
  /\ q.pc = "redis"
  /\ \/ /\ k \in redis
        /\ req' = Finished(r, "revoked")
        /\ local' = Remember(q.at, k)
     \/ /\ k \notin redis
        /\ req' = Goto(r, "db")
        /\ UNCHANGED local
     \/ /\ RedisFails
        /\ req' = [req EXCEPT ![r].pc = "db", ![r].fault = TRUE]
        /\ UNCHANGED local
  /\ UNCHANGED <<redis, db, expired, asked, exchanged>>

(* Mutant: an error of the database lets the token pass.                   *)
LookDbLenient(r) ==
  LET q == req[r] IN
  /\ q.pc = "db"
  /\ \/ /\ q.token \in db
        /\ req' = Finished(r, "revoked")
        /\ local' = Remember(q.at, Key("access", q.token))
        /\ UNCHANGED asked
     \/ /\ q.token \notin db \/ DbFails
        /\ NotRevoked(r)
        /\ UNCHANGED local
  /\ UNCHANGED <<redis, db, expired, exchanged>>

(* 3: the database, by the token's hash alone.  An error fails the check. *)
LookDb(r) ==
  LET q == req[r] IN
  /\ q.pc = "db"
  /\ \/ /\ q.token \in db
        /\ req' = Finished(r, "revoked")
        /\ local' = Remember(q.at, Key("access", q.token))
        /\ UNCHANGED asked
     \/ /\ q.token \notin db
        /\ NotRevoked(r)
        /\ UNCHANGED local
     \/ /\ DbFails
        /\ req' = Finished(r, "invalid")
        /\ UNCHANGED <<local, asked>>
  /\ UNCHANGED <<redis, db, expired, exchanged>>

-----------------------------------------------------------------------------
(* revokeToken.  Errors of Redis and of the database are logged only.      *)

RevokeKey(q) == Key(IF q.op = "remove" THEN "access" ELSE "refresh", q.token)

(* The caller of a refresh gets its new pair whatever became of the        *)
(* revocation.                                                             *)
Return(r) ==
  /\ req' = Finished(r, "ok")
  /\ exchanged' = IF req[r].op = "refresh" THEN exchanged \union {req[r].token} ELSE exchanged

SetLocal(r) ==
  LET q == req[r] IN
  /\ q.pc = "setLocal"
  /\ IF q.token \in expired
     THEN Return(r) /\ UNCHANGED local
     ELSE /\ local' = Remember(q.at, RevokeKey(q))
          /\ req' = Goto(r, "setRedis")
          /\ UNCHANGED exchanged
  /\ UNCHANGED <<redis, db, expired, asked>>

SetRedis(r) ==
  LET q == req[r] IN
  /\ q.pc = "setRedis"
  /\ \/ redis' = redis \union {RevokeKey(q)}
     \/ RedisFails /\ UNCHANGED redis
  /\ req' = Goto(r, "setDb")
  /\ UNCHANGED <<local, db, expired, asked, exchanged>>

SetDb(r) ==
  LET q == req[r] IN
  /\ q.pc = "setDb"
  /\ \/ db' = db \union {q.token}
     \/ DbFails /\ UNCHANGED db
  /\ Return(r)
  /\ UNCHANGED <<local, redis, expired, asked>>

-----------------------------------------------------------------------------
(* Time and failures.                                                      *)

Expire(t) ==
  /\ t \notin expired
  /\ expired' = expired \union {t}
  /\ UNCHANGED <<storeVars, req, asked, exchanged>>

(* A local entry taken from Redis or the database lives five minutes. *)
ForgetLocal(i, k) ==
  /\ k \in local[i]
  /\ local' = [local EXCEPT ![i] = @ \ {k}]
  /\ UNCHANGED <<redis, db, expired, req, asked, exchanged>>

(* Redis drops an entry before the token expires: eviction, restart, or a  *)
(* lifetime rounded down to whole seconds.                                 *)
DropRedis(k) ==
  /\ RedisFails
  /\ k \in redis
  /\ redis' = redis \ {k}
  /\ req' = [r \in Requests |-> [req[r] EXCEPT !.fault = @ \/ req[r].pc # "idle"]]
  /\ UNCHANGED <<local, db, expired, asked, exchanged>>

(* An instance restarts: its cache and its requests are gone. *)
Crash(i) ==
  /\ local' = [local EXCEPT ![i] = {}]
  /\ req' = [r \in Requests |-> IF req[r].at = i THEN Idle(i, req[r].token) ELSE req[r]]
  /\ UNCHANGED <<redis, db, expired, asked, exchanged>>

-----------------------------------------------------------------------------
Serve(r) ==
  \/ LookLocal(r) \/ LookRedis(r) \/ LookDb(r)
  \/ SetLocal(r) \/ SetRedis(r) \/ SetDb(r)

Next ==
  \/ \E r \in Requests, i \in Instances, t \in Tokens :
        VerifyToken(r, i, t) \/ RefreshToken(r, i, t) \/ RemoveAccessToken(r, i, t)
  \/ \E r \in Requests : Serve(r)
  \/ \E t \in Tokens : Expire(t) \/ \E k \in Kinds : DropRedis(Key(k, t))
  \/ \E i \in Instances : Crash(i) \/ \E k \in Kinds, t \in Tokens : ForgetLocal(i, Key(k, t))

Spec == Init /\ [][Next]_vars

-----------------------------------------------------------------------------
Keys == Kinds \X Tokens

Request ==
  [op : {"none", "verify", "refresh", "remove"}, at : Instances, token : Tokens,
   pc : {"idle", "local", "redis", "db", "setLocal", "setRedis", "setDb"},
   round : {0, 1, 2}, result : {"none", "ok", "revoked", "invalid"},
   inDb : BOOLEAN, inRedis : BOOLEAN, fault : BOOLEAN, replay : BOOLEAN]

(* Every variable has its type. *)
TypeOK ==
  /\ local \in [Instances -> SUBSET Keys]
  /\ redis \subseteq Keys
  /\ db \subseteq Tokens
  /\ expired \subseteq Tokens
  /\ req \in [Requests -> Request]
  /\ asked \subseteq Tokens
  /\ exchanged \subseteq Tokens

Accepted(r) == req[r].op \in {"verify", "refresh"} /\ req[r].result = "ok"

(* isTokenRevoked: a revocation that has reached the database holds on     *)
(* every instance: no verification and no refresh that begins afterwards   *)
(* succeeds, whatever the caches hold, whichever answers of Redis or of    *)
(* the database are lost, and wherever the instances restart.              *)
DatabaseRevocationHolds ==
  \A r \in Requests : Accepted(r) => ~req[r].inDb

(* revokeToken writes Redis and the database so that either suffices: an   *)
(* access token whose revocation is in Redis is refused on every instance  *)
(* even when the database write failed, as long as Redis answers.          *)
RedisRevocationHolds ==
  \A r \in Requests : Accepted(r) /\ req[r].inRedis => req[r].fault

(* Only a token that somebody asked to revoke is ever refused as revoked,  *)
(* and every entry of every store stems from such a request.               *)
NoFalseRevocation ==
  /\ \A r \in Requests : req[r].result = "revoked" => req[r].token \in asked
  /\ \A i \in Instances : \A k \in local[i] : k[2] \in asked
  /\ \A k \in redis : k[2] \in asked
  /\ db \subseteq asked

(* token_service.go:134, token_store.go:98-100: the old refresh token is   *)
(* revoked against replay, in Redis as well as in the database: with a     *)
(* Redis that never fails, a refresh that begins after the token was       *)
(* exchanged does not succeed.  It does not hold: the caches are looked up *)
(* by another kind than they are written with.                             *)
ReplayRefused ==
  \A r \in Requests : Accepted(r) /\ req[r].op = "refresh" => ~req[r].replay

=============================================================================
