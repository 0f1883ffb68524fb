-------------------------- MODULE TokenStoreProofs --------------------------
(***************************************************************************)
(* What TokenStore promises, proved for any number of instances, requests  *)
(* and tokens.                                                             *)
(***************************************************************************)
EXTENDS TokenStore, TLAPS

Checks == {"verify", "refresh"}
Revoking == {"setLocal", "setRedis", "setDb"}

(* A check that has looked into the database once and found nothing. *)
Passed(q) ==
  /\ q.op \in Checks
  /\ q.round = 2 \/ q.pc \in Revoking \/ q.result = "ok"

(* A request that revokes has announced it; what the database knew when a  *)
(* request began it still knows, and a check that passed it began without  *)
(* it.                                                                     *)
DbKept(q, rows, announced) ==
  /\ q.pc # "idle" => q.result = "none"
  /\ q.pc \in Revoking \/ q.result = "revoked" => q.token \in announced
  /\ q.inDb => q.token \in rows
  /\ Passed(q) => ~q.inDb

(* As long as Redis does not fail a request, what Redis knew when the      *)
(* request began it still knows, and the request cannot get past it.       *)
RedisKept(q, entries) ==
  q.inRedis /\ ~q.fault =>
    /\ q.pc # "idle" => Key("access", q.token) \in entries
    /\ ~Passed(q)
    /\ q.op \in Checks => q.pc # "db"

Kept(q, rows, announced, entries) == DbKept(q, rows, announced) /\ RedisKept(q, entries)

RequestInv == \A r \in Requests : Kept(req[r], db, asked, redis)

(* Every entry of a store stems from an announced revocation. *)
EntriesAsked ==
  /\ \A i \in Instances : \A k \in local[i] : k[2] \in asked
  /\ \A k \in redis : k[2] \in asked
  /\ db \subseteq asked

IInv == TypeOK /\ EntriesAsked /\ RequestInv

-----------------------------------------------------------------------------
(* Keys *)

LEMMA KeyFacts ==
  ASSUME NEW k \in Kinds, NEW t \in Tokens
  PROVE  Key(k, t) \in Keys /\ Key(k, t)[2] = t
  BY DEF Key, Keys, Kinds

Steps == {"idle", "local", "redis", "db", "setLocal", "setRedis", "setDb"}
Results == {"none", "ok", "revoked", "invalid"}

(* A request changes only in these fields. *)
LEMMA StepUpdate ==
  ASSUME NEW q \in Request, NEW pc \in Steps
  PROVE  [q EXCEPT !.pc = pc] \in Request
  BY SMTT(60) DEF Request, Steps

LEMMA RoundUpdate ==
  ASSUME NEW q \in Request, NEW round \in {0, 1, 2}
  PROVE  [q EXCEPT !.round = round] \in Request
  BY SMTT(60) DEF Request

LEMMA ResultUpdate ==
  ASSUME NEW q \in Request, NEW result \in Results
  PROVE  [q EXCEPT !.result = result] \in Request
  BY SMTT(60) DEF Request, Results

LEMMA FaultUpdate ==
  ASSUME NEW q \in Request, NEW fault \in BOOLEAN
  PROVE  [q EXCEPT !.fault = fault] \in Request
  BY SMTT(60) DEF Request

LEMMA RequestUpdate ==
  ASSUME NEW q \in Request, NEW pc \in Steps, NEW round \in {0, 1, 2},
         NEW result \in Results, NEW fault \in BOOLEAN
  PROVE  /\ [q EXCEPT !.pc = pc] \in Request
         /\ [q EXCEPT !.pc = pc, !.round = round] \in Request
         /\ [q EXCEPT !.pc = pc, !.round = round, !.result = result] \in Request
         /\ [q EXCEPT !.pc = pc, !.fault = fault] \in Request
         /\ [q EXCEPT !.fault = fault] \in Request
<1> DEFINE p == [q EXCEPT !.pc = pc]
           pr == [p EXCEPT !.round = round]
<1>1. p \in Request
  BY StepUpdate
<1>2. pr \in Request
  <2> HIDE DEF p
  <2> QED BY <1>1, RoundUpdate
<1>3. [pr EXCEPT !.result = result] \in Request
  <2> HIDE DEF pr
  <2> QED BY <1>2, ResultUpdate
<1>4. [p EXCEPT !.fault = fault] \in Request
  <2> HIDE DEF p
  <2> QED BY <1>1, FaultUpdate
<1>5. [q EXCEPT !.pc = pc, !.round = round] = pr
  OBVIOUS
<1>6. [q EXCEPT !.pc = pc, !.round = round, !.result = result] = [pr EXCEPT !.result = result]
  OBVIOUS
<1>7. [q EXCEPT !.pc = pc, !.fault = fault] = [p EXCEPT !.fault = fault]
  OBVIOUS
<1>8. [q EXCEPT !.fault = fault] \in Request
  BY FaultUpdate
<1> QED
  BY <1>1, <1>2, <1>3, <1>4, <1>5, <1>6, <1>7, <1>8

(* The updates of req, as updates of one request. *)
LEMMA ReqUpdate ==
  ASSUME req \in [Requests -> Request], NEW r \in Requests, NEW result, NEW step
  PROVE  /\ Finished(r, result) =
              [req EXCEPT ![r] = [req[r] EXCEPT !.pc = "idle", !.round = 0, !.result = result]]
         /\ Goto(r, step) = [req EXCEPT ![r] = [req[r] EXCEPT !.pc = step]]
         /\ [req EXCEPT ![r].pc = "db", ![r].fault = TRUE] =
              [req EXCEPT ![r] = [req[r] EXCEPT !.pc = "db", !.fault = TRUE]]
         /\ [req EXCEPT ![r].pc = "local", ![r].round = 2] =
              [req EXCEPT ![r] = [req[r] EXCEPT !.pc = "local", !.round = 2]]
  BY DEF Finished, Goto

LEMMA InitInv == Init => IInv
  <1> SUFFICES ASSUME Init PROVE IInv
    OBVIOUS
  <1>1. PICK i \in Instances, t \in Tokens : req = [r \in Requests |-> Idle(i, t)]
    BY DEF Init
  <1>2. TypeOK
    BY <1>1 DEF Init, TypeOK, Request, Idle
  <1>3. EntriesAsked
    BY DEF Init, EntriesAsked
  <1>4. RequestInv
    BY <1>1 DEF RequestInv, Kept, DbKept, RedisKept, Passed, Idle, Revoking, Checks
  <1> QED
    BY <1>2, <1>3, <1>4 DEF IInv

-----------------------------------------------------------------------------
(* Types *)

LEMMA TypeStep == TypeOK /\ [Next]_vars => TypeOK'
  <1> SUFFICES ASSUME TypeOK, [Next]_vars PROVE TypeOK'
    OBVIOUS
  <1> USE DEF TypeOK
  <1>0. ASSUME NEW r \in Requests, NEW q \in Request
        PROVE  [req EXCEPT ![r] = q] \in [Requests -> Request]
    BY <1>0
  <1>f. ASSUME NEW r \in Requests, NEW result \in {"ok", "revoked", "invalid"}
        PROVE  Finished(r, result) \in [Requests -> Request]
    <2>1. [req[r] EXCEPT !.pc = "idle", !.round = 0, !.result = result] \in Request
      BY <1>f, RequestUpdate DEF Steps, Results
    <2>2. Finished(r, result) =
            [req EXCEPT ![r] = [req[r] EXCEPT !.pc = "idle", !.round = 0, !.result = result]]
      BY <1>f, ReqUpdate
    <2> QED
      BY <1>0, <1>f, <2>1, <2>2
  <1>g. ASSUME NEW r \in Requests, NEW step \in {"redis", "db", "setLocal", "setRedis", "setDb"}
        PROVE  Goto(r, step) \in [Requests -> Request]
    <2>1. [req[r] EXCEPT !.pc = step] \in Request
      BY <1>g, RequestUpdate DEF Steps, Results
    <2>2. Goto(r, step) = [req EXCEPT ![r] = [req[r] EXCEPT !.pc = step]]
      BY <1>g, ReqUpdate
    <2> QED
      BY <1>0, <1>g, <2>1, <2>2
  <1>m. ASSUME NEW i \in Instances, NEW k \in Keys
        PROVE  Remember(i, k) \in [Instances -> SUBSET Keys]
    BY <1>m DEF Remember
  <1>k. ASSUME NEW r \in Requests
        PROVE  /\ req[r] \in Request /\ req[r].at \in Instances /\ req[r].token \in Tokens
               /\ Key("access", req[r].token) \in Keys /\ RevokeKey(req[r]) \in Keys
    BY <1>k DEF Request, Key, Keys, Kinds, RevokeKey
  <1>1. ASSUME NEW r \in Requests, NEW op \in {"verify", "refresh", "remove"},
               NEW i \in Instances, NEW t \in Tokens, Begin(r, op, i, t)
        PROVE  TypeOK'
    <2>1. Fresh(op, i, t) \in Request
      BY DEF Fresh, Request
    <2> QED
      BY <1>0, <1>1, <2>1 DEF Begin, storeVars
  <1>2. ASSUME NEW r \in Requests, LookLocal(r) PROVE TypeOK'
    <2>1. req' \in [Requests -> Request]
      BY <1>2, <1>f, <1>g DEF LookLocal
    <2> QED
      BY <1>2, <2>1 DEF LookLocal, storeVars
  <1>3. ASSUME NEW r \in Requests, LookRedis(r) PROVE TypeOK'
    <2>1. req' \in [Requests -> Request]
      <3>1. [req EXCEPT ![r].pc = "db", ![r].fault = TRUE] \in [Requests -> Request]
        <4>1. [req[r] EXCEPT !.pc = "db", !.fault = TRUE] \in Request
          BY RequestUpdate DEF Steps, Results
        <4> QED
          BY <1>0, <4>1, ReqUpdate
      <3> QED
        BY <1>3, <1>f, <1>g, <3>1 DEF LookRedis
    <2>2. local' \in [Instances -> SUBSET Keys]
      BY <1>3, <1>m, <1>k DEF LookRedis
    <2> QED
      BY <1>3, <2>1, <2>2 DEF LookRedis
  <1>4. ASSUME NEW r \in Requests, LookDb(r) PROVE TypeOK'
    <2>1. req' \in [Requests -> Request] /\ asked' \subseteq Tokens
      <3>1. [req EXCEPT ![r].pc = "local", ![r].round = 2] \in [Requests -> Request]
        <4>1. [req[r] EXCEPT !.pc = "local", !.round = 2] \in Request
          BY RequestUpdate DEF Steps, Results
        <4> QED
          BY <1>0, <4>1, ReqUpdate
      <3>2. CASE NotRevoked(r)
        <4>1. req' = Finished(r, "invalid") \/ req' = Finished(r, "ok") \/ req' = Goto(r, "setLocal")
                \/ req' = [req EXCEPT ![r].pc = "local", ![r].round = 2]
          BY <3>2 DEF NotRevoked
        <4>2. asked' \in {asked, asked \union {req[r].token}}
          BY <3>2 DEF NotRevoked
        <4>3. req' \in [Requests -> Request]
          BY <3>1, <4>1, <1>f, <1>g
        <4> QED
          BY <4>2, <4>3, <1>k
      <3>3. CASE ~NotRevoked(r)
        BY <3>3, <1>4, <1>f DEF LookDb
      <3> QED
        BY <3>2, <3>3
    <2>2. local' \in [Instances -> SUBSET Keys]
      BY <1>4, <1>m, <1>k DEF LookDb
    <2> QED
      BY <1>4, <2>1, <2>2 DEF LookDb
  <1>r. ASSUME NEW r \in Requests, Return(r)
        PROVE  req' \in [Requests -> Request] /\ exchanged' \subseteq Tokens
    BY <1>r, <1>f, <1>k DEF Return
  <1>5. ASSUME NEW r \in Requests, SetLocal(r) PROVE TypeOK'
    <2>1. CASE req[r].token \in expired
      BY <1>5, <1>r, <2>1 DEF SetLocal
    <2>2. CASE req[r].token \notin expired
      BY <1>5, <1>g, <1>m, <1>k, <2>2 DEF SetLocal
    <2> QED
      BY <2>1, <2>2
  <1>6. ASSUME NEW r \in Requests, SetRedis(r) PROVE TypeOK'
    BY <1>6, <1>g, <1>k DEF SetRedis
  <1>7. ASSUME NEW r \in Requests, SetDb(r) PROVE TypeOK'
    BY <1>7, <1>r, <1>k DEF SetDb
  <1>8. ASSUME NEW t \in Tokens, Expire(t) PROVE TypeOK'
    BY <1>8 DEF Expire, storeVars
  <1>9. ASSUME NEW k \in Keys, DropRedis(k) PROVE TypeOK'
    <2>1. ASSUME NEW r \in Requests
          PROVE  [req[r] EXCEPT !.fault = @ \/ req[r].pc # "idle"] \in Request
      <3>1. req[r] \in Request /\ (req[r].fault \/ req[r].pc # "idle") \in BOOLEAN
        BY <2>1 DEF Request
      <3> QED
        BY <3>1, RequestUpdate DEF Steps, Results
    <2> QED
      BY <1>9, <2>1 DEF DropRedis
  <1>10. ASSUME NEW i \in Instances, Crash(i) PROVE TypeOK'
    <2>1. \A r \in Requests : Idle(i, req[r].token) \in Request
      BY <1>k DEF Idle, Request
    <2> QED
      BY <1>10, <2>1 DEF Crash
  <1>11. ASSUME NEW i \in Instances, NEW k \in Keys, ForgetLocal(i, k) PROVE TypeOK'
    BY <1>11 DEF ForgetLocal
  <1>12. CASE UNCHANGED vars
    BY <1>12 DEF vars, storeVars
  <1> QED
    BY <1>1, <1>2, <1>3, <1>4, <1>5, <1>6, <1>7, <1>8, <1>9, <1>10, <1>11, <1>12, KeyFacts
    DEF Next, VerifyToken, RefreshToken, RemoveAccessToken, Serve

-----------------------------------------------------------------------------
(* Requests and stores *)

(* Nothing a request relies on is lost when the stores only grow. *)
LEMMA KeptMonotone ==
  ASSUME NEW q, NEW rows, NEW rows2, NEW announced, NEW announced2, NEW entries, NEW entries2,
         rows \subseteq rows2, announced \subseteq announced2, entries \subseteq entries2,
         Kept(q, rows, announced, entries)
  PROVE  Kept(q, rows2, announced2, entries2)
  BY DEF Kept, DbKept, RedisKept

(* A step of one request keeps the invariant when the request's own new    *)
(* record satisfies it.                                                    *)
LEMMA OneRequest ==
  ASSUME TypeOK, RequestInv, NEW r \in Requests, NEW q, req' = [req EXCEPT ![r] = q],
         db \subseteq db', asked \subseteq asked', redis \subseteq redis',
         Kept(q, db', asked', redis')
  PROVE  RequestInv'
  <1>1. ASSUME NEW s \in Requests PROVE Kept(req[s]', db', asked', redis')
    <2>1. CASE s = r
      BY <2>1 DEF TypeOK
    <2>2. CASE s # r
      <3>1. req[s]' = req[s] /\ Kept(req[s], db, asked, redis)
        BY <2>2 DEF TypeOK, RequestInv
      <3>2. Kept(req[s], db', asked', redis')
        BY <3>1, KeptMonotone
      <3> QED
        BY <3>1, <3>2
    <2> QED
      BY <2>1, <2>2
  <1> QED
    BY <1>1 DEF RequestInv

(* Refused, or on to the next step of the same round. *)
LEMMA SameRequest ==
  ASSUME NEW q \in Request, NEW step \in {"redis", "db", "setLocal", "setRedis", "setDb"},
         NEW result \in {"ok", "revoked", "invalid"}
  PROVE  /\ LET p == [q EXCEPT !.pc = "idle", !.round = 0, !.result = result] IN
            /\ p.pc = "idle" /\ p.round = 0 /\ p.result = result
            /\ p.op = q.op /\ p.token = q.token /\ p.at = q.at
            /\ p.inDb = q.inDb /\ p.inRedis = q.inRedis /\ p.fault = q.fault
         /\ LET p == [q EXCEPT !.pc = step] IN
            /\ p.pc = step /\ p.round = q.round /\ p.result = q.result
            /\ p.op = q.op /\ p.token = q.token /\ p.at = q.at
            /\ p.inDb = q.inDb /\ p.inRedis = q.inRedis /\ p.fault = q.fault
  BY DEF Request

(* A request that ends as refused or invalid. *)
LEMMA KeptRefused ==
  ASSUME NEW q \in Request, NEW result \in {"revoked", "invalid"},
         NEW rows, NEW announced, NEW entries, Kept(q, rows, announced, entries),
         result = "revoked" => q.token \in announced
  PROVE  Kept([q EXCEPT !.pc = "idle", !.round = 0, !.result = result], rows, announced, entries)
  BY SameRequest DEF Kept, DbKept, RedisKept, Passed, Revoking

LEMMA RequestStep == IInv /\ Next => RequestInv'
  <1> SUFFICES ASSUME IInv, Next PROVE RequestInv'
    OBVIOUS
  <1> USE DEF IInv
  <1>k. ASSUME NEW r \in Requests
        PROVE  req[r] \in Request /\ Kept(req[r], db, asked, redis)
    BY <1>k DEF TypeOK, RequestInv
  <1>1. ASSUME NEW r \in Requests, NEW op \in {"verify", "refresh", "remove"},
               NEW i \in Instances, NEW t \in Tokens, Begin(r, op, i, t)
        PROVE  RequestInv'
    <2>1. /\ req' = [req EXCEPT ![r] = Fresh(op, i, t)]
          /\ db' = db /\ redis' = redis /\ asked \subseteq asked'
          /\ op = "remove" => t \in asked'
      BY <1>1 DEF Begin, storeVars
    <2>2. Kept(Fresh(op, i, t), db, asked', redis)
      <3> DEFINE q == Fresh(op, i, t)
      <3>1. /\ q.pc = IF op = "remove" THEN "setLocal" ELSE "local"
            /\ q.round \in {0, 1} /\ q.result = "none" /\ q.op = op /\ q.token = t
            /\ q.inDb = (t \in db) /\ q.inRedis = (Key("access", t) \in redis)
        BY DEF Fresh
      <3>2. ~Passed(q)
        BY <3>1 DEF Passed, Checks, Revoking
      <3> HIDE DEF q
      <3>3. DbKept(q, db, asked')
        BY <2>1, <3>1, <3>2 DEF DbKept, Revoking
      <3>4. RedisKept(q, redis)
        BY <3>1, <3>2 DEF RedisKept
      <3> QED
        BY <3>3, <3>4 DEF Kept, q
    <2> QED
      BY <2>1, <2>2, OneRequest
  <1>f. ASSUME NEW r \in Requests, NEW result \in {"ok", "revoked", "invalid"}
        PROVE  Finished(r, result) =
                 [req EXCEPT ![r] = [req[r] EXCEPT !.pc = "idle", !.round = 0, !.result = result]]
    BY <1>f, ReqUpdate DEF TypeOK
  <1>g. ASSUME NEW r \in Requests, NEW step
        PROVE  Goto(r, step) = [req EXCEPT ![r] = [req[r] EXCEPT !.pc = step]]
    BY <1>g, ReqUpdate DEF TypeOK
  <1>r. ASSUME NEW r \in Requests, NEW result \in {"revoked", "invalid"}, req' = Finished(r, result),
               result = "revoked" => req[r].token \in asked,
               db' = db, asked' = asked, redis' = redis
        PROVE  RequestInv'
    <2>1. Kept([req[r] EXCEPT !.pc = "idle", !.round = 0, !.result = result], db, asked, redis)
      BY <1>r, <1>k, KeptRefused
    <2> QED
      BY <1>r, <1>f, <2>1, OneRequest
  <1>2. ASSUME NEW r \in Requests, LookLocal(r) PROVE RequestInv'
    <2>1. CASE Key("access", req[r].token) \in local[req[r].at]
      <3>1. req[r].token \in asked
        BY <2>1, <1>k DEF EntriesAsked, Key, Request
      <3> QED
        BY <1>2, <1>r, <2>1, <3>1 DEF LookLocal, storeVars
    <2>2. CASE Key("access", req[r].token) \notin local[req[r].at]
      <3>1. Kept([req[r] EXCEPT !.pc = "redis"], db, asked, redis)
        BY <1>2, <1>k, SameRequest DEF LookLocal, Kept, DbKept, RedisKept, Passed, Revoking
      <3> QED
        BY <1>2, <1>g, <2>2, <3>1, OneRequest DEF LookLocal, storeVars
    <2> QED
      BY <2>1, <2>2
  <1>3. ASSUME NEW r \in Requests, LookRedis(r) PROVE RequestInv'
    <2>1. CASE Key("access", req[r].token) \in redis /\ req' = Finished(r, "revoked")
      <3>1. req[r].token \in asked
        BY <2>1, <1>k DEF EntriesAsked, Key, Request
      <3> QED
        BY <1>3, <1>r, <2>1, <3>1 DEF LookRedis
    <2>2. CASE Key("access", req[r].token) \notin redis /\ req' = Goto(r, "db")
      <3>1. Kept([req[r] EXCEPT !.pc = "db"], db, asked, redis)
        BY <1>3, <1>k, <2>2, SameRequest DEF LookRedis, Kept, DbKept, RedisKept, Passed, Revoking
      <3> QED
        BY <1>3, <1>g, <2>2, <3>1, OneRequest DEF LookRedis
    <2>3. CASE req' = [req EXCEPT ![r].pc = "db", ![r].fault = TRUE]
      <3>1. req' = [req EXCEPT ![r] = [req[r] EXCEPT !.pc = "db", !.fault = TRUE]]
        BY <2>3, ReqUpdate DEF TypeOK
      <3>2. Kept([req[r] EXCEPT !.pc = "db", !.fault = TRUE], db, asked, redis)
        BY <1>3, <1>k DEF LookRedis, Request, Kept, DbKept, RedisKept, Passed, Revoking
      <3> QED
        BY <1>3, <3>1, <3>2, OneRequest DEF LookRedis
    <2> QED
      BY <1>3, <2>1, <2>2, <2>3 DEF LookRedis
  <1>4. ASSUME NEW r \in Requests, LookDb(r) PROVE RequestInv'
    <2> DEFINE q == req[r]
    <2>0. q.pc = "db" /\ db' = db /\ redis' = redis /\ exchanged' = exchanged
      BY <1>4 DEF LookDb
    <2>1. CASE q.token \in db /\ req' = Finished(r, "revoked") /\ asked' = asked
      <3>1. q.token \in asked
        BY <2>1 DEF EntriesAsked
      <3> QED
        BY <1>r, <2>0, <2>1, <3>1
    <2>2. CASE req' = Finished(r, "invalid") /\ asked' = asked
      BY <1>r, <2>0, <2>2
    <2>3. CASE q.token \notin db /\ q.round = 1 /\ asked' = asked
               /\ req' = [req EXCEPT ![r].pc = "local", ![r].round = 2]
      <3>1. req' = [req EXCEPT ![r] = [q EXCEPT !.pc = "local", !.round = 2]]
        BY <2>3, ReqUpdate DEF TypeOK
      <3>2. Kept([q EXCEPT !.pc = "local", !.round = 2], db, asked, redis)
        BY <2>0, <2>3, <1>k DEF Request, Kept, DbKept, RedisKept, Passed, Revoking, Checks
      <3> QED
        BY <2>0, <2>3, <3>1, <3>2, OneRequest
    <2>4. CASE q.token \notin db /\ q.round = 2 /\ q.op = "verify" /\ asked' = asked
               /\ req' = Finished(r, "ok")
      <3>1. Kept([q EXCEPT !.pc = "idle", !.round = 0, !.result = "ok"], db, asked, redis)
        BY <2>0, <2>4, <1>k, SameRequest DEF Kept, DbKept, RedisKept, Passed, Revoking, Checks
      <3> QED
        BY <2>0, <2>4, <1>f, <3>1, OneRequest
    <2>5. CASE q.token \notin db /\ q.round = 2 /\ q.op = "refresh" /\ asked' = asked \union {q.token}
               /\ req' = Goto(r, "setLocal")
      <3>1. Kept([q EXCEPT !.pc = "setLocal"], db, asked', redis)
        BY <2>0, <2>5, <1>k, SameRequest DEF Kept, DbKept, RedisKept, Passed, Revoking, Checks
      <3> QED
        BY <2>0, <2>5, <1>g, <3>1, OneRequest
    <2> QED
      BY <1>4, <2>1, <2>2, <2>3, <2>4, <2>5 DEF LookDb, NotRevoked
  <1>t. ASSUME NEW r \in Requests, Return(r), req[r].pc \in Revoking,
               db \subseteq db', asked' = asked, redis \subseteq redis'
        PROVE  RequestInv'
    <2>1. Kept(req[r], db', asked', redis')
      BY <1>t, <1>k, KeptMonotone
    <2>2. Kept([req[r] EXCEPT !.pc = "idle", !.round = 0, !.result = "ok"], db', asked', redis')
      BY <1>t, <1>k, <2>1, SameRequest DEF Kept, DbKept, RedisKept, Passed, Revoking, Checks
    <2> QED
      BY <1>t, <1>f, <2>2, OneRequest DEF Return
  <1>n. ASSUME NEW r \in Requests, NEW step \in {"setRedis", "setDb"}, req' = Goto(r, step),
               req[r].pc \in Revoking, db' = db, asked' = asked, redis \subseteq redis'
        PROVE  RequestInv'
    <2>1. Kept(req[r], db', asked', redis')
      BY <1>n, <1>k, KeptMonotone
    <2>2. Kept([req[r] EXCEPT !.pc = step], db', asked', redis')
      BY <1>n, <1>k, <2>1, SameRequest DEF Kept, DbKept, RedisKept, Passed, Revoking, Checks
    <2> QED
      BY <1>n, <1>g, <2>2, OneRequest
  <1>5. ASSUME NEW r \in Requests, SetLocal(r) PROVE RequestInv'
    <2>1. req[r].pc \in Revoking /\ db' = db /\ asked' = asked /\ redis' = redis
      BY <1>5 DEF SetLocal, Revoking
    <2>2. Return(r) \/ req' = Goto(r, "setRedis")
      BY <1>5 DEF SetLocal
    <2> QED
      BY <2>1, <2>2, <1>t, <1>n
  <1>6. ASSUME NEW r \in Requests, SetRedis(r) PROVE RequestInv'
    BY <1>6, <1>n DEF SetRedis, Revoking
  <1>7. ASSUME NEW r \in Requests, SetDb(r) PROVE RequestInv'
    BY <1>7, <1>t DEF SetDb, Revoking
  <1>8. ASSUME NEW k \in Keys, DropRedis(k) PROVE RequestInv'
    <2>1. ASSUME NEW s \in Requests PROVE Kept(req[s]', db', asked', redis')
      <3> DEFINE q == req[s]
                 p == [q EXCEPT !.fault = @ \/ q.pc # "idle"]
      <3>1. req[s]' = p /\ db' = db /\ asked' = asked
        BY <1>8 DEF DropRedis
      <3>2. q \in Request /\ Kept(q, db, asked, redis)
        BY <1>k
      <3>3. /\ p.pc = q.pc /\ p.round = q.round /\ p.result = q.result
            /\ p.op = q.op /\ p.token = q.token
            /\ p.inDb = q.inDb /\ p.inRedis = q.inRedis
            /\ p.fault = (q.fault \/ q.pc # "idle")
        BY <3>2 DEF Request
      <3>4. DbKept(p, db, asked)
        BY <3>2, <3>3 DEF Kept, DbKept, Passed
      <3>5. RedisKept(p, redis')
        BY <3>2, <3>3 DEF Kept, RedisKept, Passed
      <3> QED
        BY <3>1, <3>4, <3>5 DEF Kept
    <2> QED
      BY <2>1 DEF RequestInv
  <1>9. ASSUME NEW i \in Instances, Crash(i) PROVE RequestInv'
    <2>1. ASSUME NEW s \in Requests PROVE Kept(req[s]', db', asked', redis')
      <3>1. req[s]' \in {req[s], Idle(i, req[s].token)} /\ db' = db /\ asked' = asked /\ redis' = redis
        BY <1>9 DEF Crash
      <3>2. Kept(Idle(i, req[s].token), db, asked, redis)
        BY DEF Kept, DbKept, RedisKept, Passed, Idle, Checks, Revoking
      <3>3. Kept(req[s], db, asked, redis)
        BY <1>k
      <3> QED
        BY <3>1, <3>2, <3>3
    <2> QED
      BY <2>1 DEF RequestInv
  <1>10. ASSUME UNCHANGED <<redis, db, req, asked>> PROVE RequestInv'
    BY <1>10 DEF RequestInv, Kept, DbKept, RedisKept
  <1>11. ASSUME NEW t \in Tokens, Expire(t) PROVE RequestInv'
    BY <1>10, <1>11 DEF Expire, storeVars
  <1>12. ASSUME NEW i \in Instances, NEW k \in Keys, ForgetLocal(i, k) PROVE RequestInv'
    BY <1>10, <1>12 DEF ForgetLocal
  <1> QED
    BY <1>1, <1>2, <1>3, <1>4, <1>5, <1>6, <1>7, <1>8, <1>9, <1>11, <1>12, KeyFacts
    DEF Next, VerifyToken, RefreshToken, RemoveAccessToken, Serve

(* The stores only ever receive the key of an announced revocation. *)
LEMMA EntriesStep == IInv /\ Next => EntriesAsked'
  <1> SUFFICES ASSUME IInv, Next PROVE EntriesAsked'
    OBVIOUS
  <1> USE DEF IInv
  <1>k. ASSUME NEW r \in Requests
        PROVE  /\ req[r] \in Request /\ Kept(req[r], db, asked, redis)
               /\ Key("access", req[r].token)[2] = req[r].token
               /\ RevokeKey(req[r])[2] = req[r].token
    BY <1>k DEF TypeOK, RequestInv, Key, RevokeKey
  <1>s. ASSUME asked \subseteq asked', local' = local, redis' \subseteq redis, db' = db
        PROVE  EntriesAsked'
    BY <1>s DEF EntriesAsked
  <1>m. ASSUME NEW i \in Instances, NEW k, k[2] \in asked', local' = Remember(i, k),
               asked \subseteq asked', redis' = redis, db' = db
        PROVE  EntriesAsked'
    BY <1>m DEF EntriesAsked, Remember, TypeOK
  <1>1. ASSUME NEW r \in Requests, NEW op \in {"verify", "refresh", "remove"},
               NEW i \in Instances, NEW t \in Tokens, Begin(r, op, i, t)
        PROVE  EntriesAsked'
    BY <1>1, <1>s DEF Begin, storeVars
  <1>2. ASSUME NEW r \in Requests, LookLocal(r) PROVE EntriesAsked'
    BY <1>2, <1>s DEF LookLocal, storeVars
  <1>3. ASSUME NEW r \in Requests, LookRedis(r) PROVE EntriesAsked'
    <2>1. CASE local' = local
      BY <1>3, <1>s, <2>1 DEF LookRedis
    <2>2. CASE Key("access", req[r].token) \in redis
               /\ local' = Remember(req[r].at, Key("access", req[r].token))
      <3>1. req[r].at \in Instances /\ Key("access", req[r].token)[2] \in asked
        BY <1>k, <2>2 DEF Request, EntriesAsked
      <3> QED
        BY <1>3, <1>m, <2>2, <3>1 DEF LookRedis
    <2> QED
      BY <1>3, <2>1, <2>2 DEF LookRedis
  <1>4. ASSUME NEW r \in Requests, LookDb(r) PROVE EntriesAsked'
    <2>0. redis' = redis /\ db' = db
      BY <1>4 DEF LookDb
    <2>1. CASE local' = local
      <3>1. asked \subseteq asked'
        BY <1>4 DEF LookDb, NotRevoked
      <3> QED
        BY <1>s, <2>0, <2>1, <3>1
    <2>2. CASE req[r].token \in db /\ asked' = asked
               /\ local' = Remember(req[r].at, Key("access", req[r].token))
      <3>1. req[r].at \in Instances /\ Key("access", req[r].token)[2] \in asked
        BY <1>k, <2>2 DEF Request, EntriesAsked
      <3> QED
        BY <2>0, <1>m, <2>2, <3>1
    <2> QED
      BY <1>4, <2>1, <2>2 DEF LookDb
  <1>5. ASSUME NEW r \in Requests, SetLocal(r) PROVE EntriesAsked'
    <2>1. CASE local' = local
      BY <1>5, <1>s, <2>1 DEF SetLocal
    <2>2. CASE local' = Remember(req[r].at, RevokeKey(req[r]))
      <3>1. req[r].at \in Instances /\ RevokeKey(req[r])[2] \in asked
        BY <1>5, <1>k DEF SetLocal, Request, Kept, DbKept, Revoking
      <3> QED
        BY <1>5, <1>m, <2>2, <3>1 DEF SetLocal
    <2> QED
      BY <1>5, <2>1, <2>2 DEF SetLocal
  <1>6. ASSUME NEW r \in Requests, SetRedis(r) PROVE EntriesAsked'
    <2>1. RevokeKey(req[r])[2] \in asked
      BY <1>6, <1>k DEF SetRedis, Kept, DbKept, Revoking
    <2> QED
      BY <1>6, <2>1 DEF SetRedis, EntriesAsked
  <1>7. ASSUME NEW r \in Requests, SetDb(r) PROVE EntriesAsked'
    <2>1. req[r].token \in asked
      BY <1>7, <1>k DEF SetDb, Kept, DbKept, Revoking
    <2> QED
      BY <1>7, <2>1 DEF SetDb, EntriesAsked
  <1>8. ASSUME NEW t \in Tokens, Expire(t) PROVE EntriesAsked'
    BY <1>8, <1>s DEF Expire, storeVars
  <1>9. ASSUME NEW k \in Keys, DropRedis(k) PROVE EntriesAsked'
    BY <1>9, <1>s DEF DropRedis
  <1>10. ASSUME NEW i \in Instances, Crash(i) PROVE EntriesAsked'
    BY <1>10 DEF Crash, EntriesAsked, TypeOK
  <1>11. ASSUME NEW i \in Instances, NEW k \in Keys, ForgetLocal(i, k) PROVE EntriesAsked'
    BY <1>11 DEF ForgetLocal, EntriesAsked, TypeOK
  <1> QED
    BY <1>1, <1>2, <1>3, <1>4, <1>5, <1>6, <1>7, <1>8, <1>9, <1>10, <1>11, KeyFacts
    DEF Next, VerifyToken, RefreshToken, RemoveAccessToken, Serve

-----------------------------------------------------------------------------
(* Results *)

LEMMA Invariant == Spec => []IInv
  <1>1. IInv /\ [Next]_vars => IInv'
    <2> SUFFICES ASSUME IInv, [Next]_vars PROVE IInv'
      OBVIOUS
    <2>1. CASE Next
      BY <2>1, TypeStep, RequestStep, EntriesStep DEF IInv
    <2>2. CASE UNCHANGED vars
      BY <2>2, TypeStep DEF vars, storeVars, IInv, EntriesAsked, RequestInv
    <2> QED
      BY <2>1, <2>2
  <1> QED
    BY InitInv, <1>1, PTL DEF Spec

(* Every variable of TokenStore keeps its type. *)
THEOREM TypeCorrect == Spec => []TypeOK
  <1>1. IInv => TypeOK
    BY DEF IInv
  <1> QED
    BY Invariant, <1>1, PTL

(* A revocation in the database holds for every later check, on every      *)
(* instance (isTokenRevoked, step 3).                                      *)
THEOREM DatabaseHolds == Spec => []DatabaseRevocationHolds
  <1>1. IInv => DatabaseRevocationHolds
    BY DEF IInv, RequestInv, Kept, DbKept, Passed, Checks, DatabaseRevocationHolds, Accepted
  <1> QED
    BY Invariant, <1>1, PTL

(* An access token's revocation in Redis holds for every later check that  *)
(* Redis does not fail (isTokenRevoked, step 2).                           *)
THEOREM RedisHolds == Spec => []RedisRevocationHolds
  <1>1. IInv => RedisRevocationHolds
    BY DEF IInv, RequestInv, Kept, RedisKept, Passed, Checks, RedisRevocationHolds, Accepted
  <1> QED
    BY Invariant, <1>1, PTL

(* No token is refused as revoked, and no store holds an entry, that       *)
(* nobody asked for (revokeToken, isTokenRevoked).                         *)
THEOREM NothingRevokedUnasked == Spec => []NoFalseRevocation
  <1>1. IInv => NoFalseRevocation
    BY DEF IInv, RequestInv, EntriesAsked, Kept, DbKept, NoFalseRevocation
  <1> QED
    BY Invariant, <1>1, PTL
=============================================================================
