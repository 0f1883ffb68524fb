----------------------- MODULE GatewayAdmissionProofs -----------------------
(***************************************************************************)
(* The limit of the token bucket and what is left of a revoked token, for  *)
(* any number of requests and tokens, any rate, capacity, lateness of the  *)
(* clock and life of the token cache.                                      *)
(***************************************************************************)
EXTENDS GatewayAdmission, TLAPS

(* The plugin is in the chain wherever a request meets it, requests are    *)
(* served when it has been connected or left out, and it has attempts left *)
(* as long as it is neither.                                               *)
GateInv ==
  /\ gate = "connecting" => tries < MaxTries /\ \A r \in Requests : At(r, "idle")
  /\ gate # "on" => \A r \in Requests :
       req[r].pc \notin {"auth", "verify", "vouched", "refused"}
  /\ \A r \in Requests :
       req[r].pc \in {"verify", "vouched", "refused"} => req[r].token \in Tokens

(* The ideal bucket holds at least what the keys are worth now; they live  *)
(* until the bucket they describe is full again.                           *)
BucketInv ==
  /\ budget >= Filled(tokens + age * Rate)
  /\ ttl = 0 => tokens = Capacity /\ age = 0
  /\ ttl > 0 => age >= Ttl - ttl

IInv == TypeOK /\ GateInv /\ BucketInv

-----------------------------------------------------------------------------
(* Arithmetic *)
LEMMA ProductType == \A n \in Nat : n * Rate \in Nat
  BY AdmissionAssumption

LEMMA ProductGrows ==
  ASSUME NEW m \in Nat, NEW n \in Nat, m <= n
  PROVE  m * Rate <= n * Rate
  BY AdmissionAssumption

LEMMA ProductNext ==
  ASSUME NEW n \in Nat
  PROVE  (n + 1) * Rate = n * Rate + Rate
  BY AdmissionAssumption

(* redis script: fill_time * 2 fills the bucket when it is not zero. *)
LEMMA TtlFills ==
  /\ Ttl \in Nat
  /\ Ttl > 0 => Ttl * Rate >= Capacity
  <1>1. Ttl \in Nat /\ 2 * Capacity < Ttl * Rate + Rate
    BY AdmissionAssumption DEF Ttl
  <1>2. Ttl > 0 => Ttl * Rate >= Rate
    BY <1>1, AdmissionAssumption
  <1> QED
    BY <1>1, <1>2, ProductType, AdmissionAssumption

LEMMA FilledType ==
  ASSUME NEW n \in Int
  PROVE  /\ Filled(n) \in Int /\ Filled(n) <= Capacity /\ Filled(n) <= n
         /\ n >= 0 => Filled(n) \in 0 .. Capacity
         /\ n >= Capacity => Filled(n) = Capacity
         /\ Filled(n) \in {n, Capacity}
  BY AdmissionAssumption DEF Filled, AtMost

LEMMA FilledGrows ==
  ASSUME NEW m \in Int, NEW n \in Int, m <= n
  PROVE  Filled(m) <= Filled(n)
  BY AdmissionAssumption DEF Filled, AtMost

-----------------------------------------------------------------------------
(* The chain *)
LEMMA Successor ==
  /\ gate = "on" =>
       /\ Chain[1] = "mock" /\ Following("mock") = "auth" /\ Following("auth") = "ratelimit"
       /\ Following("ratelimit") = "routing" /\ Following("routing") = "forwarded"
  /\ gate # "on" =>
       /\ Chain[1] = "mock" /\ Following("mock") = "ratelimit"
       /\ Following("ratelimit") = "routing" /\ Following("routing") = "forwarded"
  <1>1. CASE gate = "on"
    <2>1. /\ Len(Chain) = 4 /\ DOMAIN Chain = 1 .. 4
          /\ Chain[1] = "mock" /\ Chain[2] = "auth" /\ Chain[3] = "ratelimit"
          /\ Chain[4] = "routing"
      BY <1>1 DEF Chain, Registered
    <2> HIDE DEF Chain
    <2>2. ASSUME NEW k \in 1 .. 4
          PROVE  (CHOOSE j \in DOMAIN Chain : Chain[j] = Chain[k]) = k
      BY <2>1
    <2>3. ASSUME NEW k \in 1 .. 4
          PROVE  Following(Chain[k]) = IF k < 4 THEN Chain[k + 1] ELSE "forwarded"
      BY <2>1, <2>2 DEF Following
    <2> QED
      BY <1>1, <2>1, <2>3
  <1>2. CASE gate # "on"
    <2>1. /\ Len(Chain) = 3 /\ DOMAIN Chain = 1 .. 3
          /\ Chain[1] = "mock" /\ Chain[2] = "ratelimit" /\ Chain[3] = "routing"
      BY <1>2 DEF Chain, Registered
    <2> HIDE DEF Chain
    <2>2. ASSUME NEW k \in 1 .. 3
          PROVE  (CHOOSE j \in DOMAIN Chain : Chain[j] = Chain[k]) = k
      BY <2>1
    <2>3. ASSUME NEW k \in 1 .. 3
          PROVE  Following(Chain[k]) = IF k < 3 THEN Chain[k + 1] ELSE "forwarded"
      BY <2>1, <2>2 DEF Following
    <2> QED
      BY <1>2, <2>1, <2>3
  <1> QED
    BY <1>1, <1>2

(* What a step of one request leaves of the others. *)
LEMMA Moved ==
  ASSUME TypeOK, GateInv, NEW r \in Requests, NEW q,
         req' = [req EXCEPT ![r] = q],
         UNCHANGED <<gate, tries>>,
         q \in [pc : Places, skip : BOOLEAN, token : Tokens \union {NoToken},
                late : 0 .. MaxLate],
         gate # "connecting" \/ q.pc = "idle",
         q.pc \in {"auth", "verify", "vouched", "refused"} => gate = "on",
         q.pc \in {"verify", "vouched", "refused"} => q.token \in Tokens
  PROVE  /\ req' \in [Requests -> [pc : Places, skip : BOOLEAN,
                                   token : Tokens \union {NoToken}, late : 0 .. MaxLate]]
         /\ GateInv'
  <1>1. req' \in [Requests -> [pc : Places, skip : BOOLEAN,
                               token : Tokens \union {NoToken}, late : 0 .. MaxLate]]
    BY DEF TypeOK
  <1>2. \A s \in Requests : req'[s] = IF s = r THEN q ELSE req[s]
    BY DEF TypeOK
  <1> QED
    BY <1>1, <1>2 DEF GateInv, At

ReqType ==
  req \in [Requests -> [pc : Places, skip : BOOLEAN,
                        token : Tokens \union {NoToken}, late : 0 .. MaxLate]]

LEMMA IdleMoved ==
  ASSUME TypeOK, GateInv, NEW r \in Requests, Ends(r), UNCHANGED <<gate, tries>>
  PROVE  ReqType' /\ GateInv'
  <1>1. Idle \in [pc : Places, skip : BOOLEAN, token : Tokens \union {NoToken},
                  late : 0 .. MaxLate] /\ Idle.pc = "idle"
    BY AdmissionAssumption DEF Idle, Places
  <1> QED
    BY <1>1, Moved DEF Ends, ReqType

LEMMA PlaceMoved ==
  ASSUME TypeOK, GateInv, NEW r \in Requests, ~At(r, "idle"), UNCHANGED <<gate, tries>>,
         NEW p \in Places, Goes(r, p),
         p \in {"auth", "verify", "vouched", "refused"} => gate = "on",
         p \in {"verify", "vouched", "refused"} => req[r].token \in Tokens
  PROVE  ReqType' /\ GateInv'
  <1> DEFINE q == [req[r] EXCEPT !.pc = p]
  <1>1. q \in [pc : Places, skip : BOOLEAN, token : Tokens \union {NoToken},
               late : 0 .. MaxLate] /\ q.pc = p /\ q.token = req[r].token
    BY DEF TypeOK
  <1>2. req' = [req EXCEPT ![r] = q]
    BY DEF Goes
  <1>3. gate # "connecting"
    BY DEF GateInv, At
  <1> HIDE DEF q
  <1> QED
    BY <1>1, <1>2, <1>3, Moved DEF ReqType

LEMMA ScriptMoved ==
  ASSUME TypeOK, GateInv, NEW r \in Requests, At(r, "script"), UNCHANGED <<gate, tries>>,
         req' = [req EXCEPT ![r].pc = "routing", ![r].late = 0]
  PROVE  ReqType' /\ GateInv'
  <1> DEFINE q == [req[r] EXCEPT !.pc = "routing", !.late = 0]
  <1>1. q \in [pc : Places, skip : BOOLEAN, token : Tokens \union {NoToken},
               late : 0 .. MaxLate] /\ q.pc = "routing"
    <2>1. 0 \in 0 .. MaxLate /\ "routing" \in Places
      BY AdmissionAssumption DEF Places
    <2>2. req[r] \in [pc : Places, skip : BOOLEAN, token : Tokens \union {NoToken},
                      late : 0 .. MaxLate]
      BY DEF TypeOK
    <2> QED
      BY <2>1, <2>2
  <1>2. req' = [req EXCEPT ![r] = q]
    BY DEF TypeOK
  <1>3. gate # "connecting"
    BY DEF GateInv, At
  <1> HIDE DEF q
  <1> QED
    BY <1>1, <1>2, <1>3, Moved DEF ReqType

LEMMA Served ==
  ASSUME TypeOK, GateInv, NEW r \in Requests, ServeHTTP(r)
  PROVE  ReqType' /\ GateInv'
  <1>1. PICK skip \in BOOLEAN, t \in Tokens \union {NoToken} :
          req' = [req EXCEPT ![r] = [Idle EXCEPT !.pc = Chain[1], !.skip = skip, !.token = t]]
    BY DEF ServeHTTP
  <1> DEFINE q == [Idle EXCEPT !.pc = Chain[1], !.skip = skip, !.token = t]
  <1>2. q \in [pc : Places, skip : BOOLEAN, token : Tokens \union {NoToken},
               late : 0 .. MaxLate] /\ q.pc = "mock"
    <2>1. 0 \in 0 .. MaxLate /\ Chain[1] \in Places /\ Chain[1] = "mock"
      BY AdmissionAssumption, Successor DEF Places
    <2>2. Idle \in [pc : Places, skip : BOOLEAN, token : Tokens \union {NoToken},
                    late : 0 .. MaxLate]
      BY <2>1 DEF Idle, Places
    <2>3. ASSUME NEW i \in [pc : Places, skip : BOOLEAN, token : Tokens \union {NoToken},
                            late : 0 .. MaxLate], NEW c \in Places
          PROVE  /\ [i EXCEPT !.pc = c, !.skip = skip, !.token = t] \in
                      [pc : Places, skip : BOOLEAN, token : Tokens \union {NoToken},
                       late : 0 .. MaxLate]
                 /\ [i EXCEPT !.pc = c, !.skip = skip, !.token = t].pc = c
      OBVIOUS
    <2> QED
      BY <2>1, <2>2, <2>3
  <1>3. gate # "connecting" /\ UNCHANGED <<gate, tries>>
    BY DEF ServeHTTP, Elsewhere, startVars
  <1>4. req' = [req EXCEPT ![r] = q]
    BY <1>1
  <1> HIDE DEF q
  <1> QED
    BY <1>2, <1>3, <1>4, Moved DEF ReqType

(* The step of a request keeps it where it may be. *)
LEMMA RequestMoved ==
  ASSUME TypeOK, GateInv, NEW r \in Requests, RequestStep(r)
  PROVE  ReqType' /\ GateInv'
  <1>1. UNCHANGED <<gate, tries>>
    BY DEF RequestStep, Mock, Auth, VerifyToken, Vouched, Refused, RateLimit, Recovered,
           Script, ScriptFails, Routing, Done, Elsewhere, startVars
  <1>2. ~At(r, "idle")
    BY DEF RequestStep, Mock, Auth, VerifyToken, Vouched, Refused, RateLimit, Recovered,
           Script, ScriptFails, Routing, Done, At
  <1>3. At(r, "auth") \/ At(r, "verify") \/ At(r, "vouched") => gate = "on"
    BY DEF GateInv, At
  <1>4. At(r, "verify") => req[r].token \in Tokens
    BY DEF GateInv, At
  <1>5. CASE Ends(r)
    BY <1>1, <1>5, IdleMoved
  <1>6. CASE req' = [req EXCEPT ![r].pc = "routing", ![r].late = 0] /\ At(r, "script")
    BY <1>1, <1>6, ScriptMoved
  <1>7. ASSUME NEW p \in {"auth", "ratelimit", "routing", "forwarded", "script", "panicked"},
               Goes(r, p), p = "auth" => gate = "on"
        PROVE  ReqType' /\ GateInv'
    BY <1>1, <1>2, <1>7, PlaceMoved DEF Places
  <1>8. ASSUME NEW p \in {"verify", "vouched", "refused"},
               Goes(r, p), gate = "on", req[r].token \in Tokens
        PROVE  ReqType' /\ GateInv'
    BY <1>1, <1>2, <1>8, PlaceMoved DEF Places
  <1>9. CASE Mock(r)
    BY <1>5, <1>7, <1>9, Successor DEF Mock, Proceed, At
  <1>10. CASE Auth(r)
    <2>1. Proceed(r) => Goes(r, "ratelimit")
      BY <1>3, <1>10, Successor DEF Auth, Proceed, At
    <2>2. req[r].token \in Tokens \union {NoToken}
      BY DEF TypeOK
    <2> QED
      BY <1>3, <1>5, <1>7, <1>8, <1>10, <2>1, <2>2 DEF Auth
  <1>11. CASE VerifyToken(r)
    BY <1>3, <1>4, <1>8, <1>11 DEF VerifyToken
  <1>12. CASE Vouched(r)
    BY <1>3, <1>7, <1>12, Successor DEF Vouched
  <1>13. CASE Refused(r)
    BY <1>5, <1>13 DEF Refused
  <1>14. CASE RateLimit(r)
    BY <1>7, <1>14, Successor DEF RateLimit, Proceed, At
  <1>15. CASE Recovered(r)
    BY <1>5, <1>15 DEF Recovered
  <1>16. CASE Script(r)
    BY <1>5, <1>6, <1>16 DEF Script
  <1>17. CASE ScriptFails(r)
    BY <1>6, <1>17 DEF ScriptFails
  <1>18. CASE Routing(r)
    BY <1>5, <1>7, <1>18, Successor DEF Routing, Proceed, At
  <1>19. CASE Done(r)
    BY <1>5, <1>19 DEF Done
  <1> QED
    BY <1>9, <1>10, <1>11, <1>12, <1>13, <1>14, <1>15, <1>16, <1>17, <1>18, <1>19
    DEF RequestStep

-----------------------------------------------------------------------------
(* The bucket *)
BucketType ==
  /\ tokens \in 0 .. Capacity /\ age \in Nat /\ ttl \in 0 .. Ttl
  /\ budget \in Int /\ budget <= Capacity

LEMMA BucketKept ==
  BucketType /\ BucketInv /\ UNCHANGED bucket => BucketType' /\ BucketInv'
  BY DEF BucketType, BucketInv, bucket

(* The script finds no more than the ideal bucket holds, and leaves no     *)
(* more there.                                                             *)
LEMMA ScriptBucket ==
  ASSUME BucketType, BucketInv, NEW r \in Requests, req[r].late \in Nat, Script(r)
  PROVE  BucketType' /\ BucketInv'
  <1> DEFINE late == req[r].late
             filled == Available(late)
  <1>1. filled \in 0 .. Capacity /\ budget >= filled
    <2>1. CASE ttl = 0
      <3>1. budget >= Filled(Capacity + 0 * Rate)
        BY <2>1 DEF BucketInv
      <3>2. 0 * Rate = 0 /\ Filled(Capacity) = Capacity
        BY AdmissionAssumption, FilledType
      <3> QED
        BY <2>1, <3>1, <3>2, AdmissionAssumption DEF Available
    <2>2. CASE ttl # 0
      <3> DEFINE n == IF age > late THEN age - late ELSE 0
      <3>1. n \in Nat /\ n <= age /\ age \in Nat /\ tokens \in Nat
        BY DEF BucketType
      <3>2. filled = Filled(tokens + n * Rate)
        BY <2>2 DEF Available
      <3> HIDE DEF n, filled
      <3>3. n * Rate \in Nat /\ age * Rate \in Nat /\ n * Rate <= age * Rate
        BY <3>1, ProductType, ProductGrows
      <3>4. Filled(tokens + n * Rate) <= Filled(tokens + age * Rate)
        BY <3>1, <3>3, FilledGrows
      <3>5. /\ Filled(tokens + n * Rate) \in 0 .. Capacity
            /\ Filled(tokens + age * Rate) \in 0 .. Capacity
        BY <3>1, <3>3, FilledType
      <3> QED
        BY <3>2, <3>4, <3>5, AdmissionAssumption DEF BucketInv, BucketType
    <2> QED
      BY <2>1, <2>2
  <1>2. Ttl > 0 /\ Ttl \in Nat
    BY TtlFills DEF Script
  <1>3. late * Rate \in Nat /\ late \in Nat
    BY ProductType
  <1>4. CASE filled >= 1 /\ Written(filled - 1, late, Ttl)
             /\ budget' = Filled(budget - 1 + late * Rate)
    <2> HIDE DEF late, filled
    <2>1. Filled(filled - 1 + late * Rate) <= Filled(budget - 1 + late * Rate)
      BY <1>1, <1>3, FilledGrows DEF BucketType
    <2>2. Filled(budget - 1 + late * Rate) \in Int
          /\ Filled(budget - 1 + late * Rate) <= Capacity
      BY <1>1, <1>3, FilledType DEF BucketType
    <2> QED
      <3>1. /\ tokens' = filled - 1 /\ age' = late /\ ttl' = Ttl
            /\ budget' = Filled(budget - 1 + late * Rate)
        BY <1>4 DEF Written
      <3>2. filled >= 1
        BY <1>4
      <3>3. BucketType'
        BY <1>1, <1>2, <1>3, <2>2, <3>1, <3>2, AdmissionAssumption DEF BucketType
      <3>4. BucketInv'
        BY <1>2, <1>3, <2>1, <3>1 DEF BucketInv
      <3> QED
        BY <3>3, <3>4
  <1>5. CASE filled < 1 /\ Written(filled, late, Ttl)
             /\ budget' = Filled(budget + late * Rate)
    <2> HIDE DEF late, filled
    <2>1. Filled(filled + late * Rate) <= Filled(budget + late * Rate)
      BY <1>1, <1>3, FilledGrows DEF BucketType
    <2>2. Filled(budget + late * Rate) \in Int
          /\ Filled(budget + late * Rate) <= Capacity
      BY <1>1, <1>3, FilledType DEF BucketType
    <2> QED
      <3>1. /\ tokens' = filled /\ age' = late /\ ttl' = Ttl
            /\ budget' = Filled(budget + late * Rate)
        BY <1>5 DEF Written
      <3> QED
        BY <1>1, <1>2, <1>3, <2>1, <2>2, <3>1 DEF BucketType, BucketInv
  <1> QED
    BY <1>4, <1>5 DEF Script

(* While the keys live the ideal bucket is filled as fast; when they die   *)
(* it is full.                                                             *)
LEMMA TickBucket ==
  ASSUME BucketType, BucketInv, Tick
  PROVE  BucketType' /\ BucketInv'
  <1>1. /\ budget + Rate \in Int /\ age * Rate \in Nat
        /\ (age + 1) * Rate = age * Rate + Rate
    BY AdmissionAssumption, ProductType, ProductNext DEF BucketType
  <1>2. Filled(tokens + age * Rate) \in {tokens + age * Rate, Capacity}
    BY <1>1, FilledType DEF BucketType
  <1>3. budget' = Filled(budget + Rate)
    BY DEF Tick
  <1>4. Filled(budget + Rate) \in Int /\ Filled(budget + Rate) <= Capacity
    BY <1>1, FilledType
  <1>5. CASE ttl > 1
    <2>1. ttl' = ttl - 1 /\ age' = age + 1 /\ tokens' = tokens
      BY <1>5 DEF Tick
    <2>2. Filled(tokens + age * Rate + Rate) <= Filled(budget + Rate)
      <3>1. CASE budget >= Capacity
        <4>1. Filled(budget + Rate) = Capacity
          BY <1>1, <3>1, FilledType, AdmissionAssumption DEF BucketType
        <4>2. Filled(tokens + age * Rate + Rate) <= Capacity
          BY <1>1, FilledType, AdmissionAssumption DEF BucketType
        <4> QED
          BY <4>1, <4>2
      <3>2. CASE budget >= tokens + age * Rate
        BY <1>1, <3>2, FilledGrows, AdmissionAssumption DEF BucketType
      <3> QED
        BY <1>2, <3>1, <3>2 DEF BucketInv
    <2>3. tokens + age' * Rate = tokens + age * Rate + Rate
      BY <1>1, <2>1, AdmissionAssumption DEF BucketType
    <2> QED
      <3>1. BucketType'
        BY <1>3, <1>4, <1>5, <2>1, TtlFills DEF BucketType
      <3>2. budget' >= Filled(tokens' + age' * Rate)
        BY <1>3, <2>1, <2>2, <2>3
      <3>3. ttl' > 0 /\ age' >= Ttl - ttl'
        BY <1>5, <2>1, TtlFills DEF BucketType, BucketInv
      <3> QED
        BY <3>1, <3>2, <3>3 DEF BucketInv, BucketType
  <1>6. CASE ~(ttl > 1)
    <2>1. ttl' = 0 /\ age' = 0 /\ tokens' = Capacity
      BY <1>6 DEF Tick
    <2>2. budget + Rate >= Capacity
      <3>1. CASE ttl = 0
        <4>1. age * Rate = 0 /\ tokens = Capacity
          BY <3>1, AdmissionAssumption DEF BucketInv
        <4> QED
          BY <1>2, <4>1, AdmissionAssumption DEF BucketInv, BucketType
      <3>2. CASE ttl = 1
        <4>1. Ttl > 0 /\ Ttl \in Nat /\ age \in Nat /\ Ttl <= age + 1
          BY <3>2, TtlFills DEF BucketType, BucketInv
        <4>2. Ttl * Rate <= (age + 1) * Rate /\ Ttl * Rate \in Nat
          BY <4>1, ProductGrows, ProductType
        <4>3. age * Rate + Rate >= Capacity
          BY <1>1, <4>1, <4>2, TtlFills, AdmissionAssumption
        <4> QED
          BY <1>1, <1>2, <4>3, AdmissionAssumption DEF BucketInv, BucketType
      <3> QED
        BY <1>6, <3>1, <3>2, TtlFills DEF BucketType
    <2>3. Filled(budget + Rate) = Capacity
      BY <1>1, <2>2, FilledType
    <2>4. Filled(Capacity + 0 * Rate) <= Capacity /\ 0 * Rate = 0
      BY FilledType, AdmissionAssumption
    <2> QED
      <3>1. BucketType'
        BY <1>3, <2>1, <2>3, TtlFills, AdmissionAssumption DEF BucketType
      <3>2. BucketInv'
        BY <1>3, <2>1, <2>3, <2>4, FilledType, AdmissionAssumption DEF BucketInv
      <3> QED
        BY <3>1, <3>2
  <1> QED
    BY <1>5, <1>6
-----------------------------------------------------------------------------
(* The steps *)
LEMMA InitInv == Init => IInv
  <1> SUFFICES ASSUME Init PROVE IInv
    OBVIOUS
  <1>1. Idle \in [pc : Places, skip : BOOLEAN, token : Tokens \union {NoToken},
                  late : 0 .. MaxLate] /\ Idle.pc = "idle"
    BY AdmissionAssumption DEF Idle, Places
  <1>2. TypeOK
    BY <1>1, TtlFills, AdmissionAssumption DEF Init, TypeOK
  <1>3. GateInv
    BY <1>1, AdmissionAssumption DEF Init, GateInv, At
  <1>4. BucketInv
    BY FilledType, AdmissionAssumption DEF Init, BucketInv
  <1> QED
    BY <1>2, <1>3, <1>4 DEF IInv

LEMMA Step == IInv /\ [Next]_vars => IInv'
  <1> SUFFICES ASSUME TypeOK, GateInv, BucketInv, [Next]_vars
               PROVE  TypeOK' /\ GateInv' /\ BucketInv'
    BY DEF IInv
  <1> USE DEF startVars
  <1>1. BucketType
    BY DEF TypeOK, BucketType
  <1>2. CASE Connect
    <2>1. GateInv'
      BY <1>2 DEF Connect, GateInv, At
    <2> QED
      BY <1>1, <1>2, <2>1, BucketKept DEF Connect, TypeOK, BucketType
  <1>3. CASE ConnectFails
    <2>1. tries' \in 0 .. MaxTries /\ GateInv'
      BY <1>3, AdmissionAssumption DEF ConnectFails, GateInv, TypeOK, At
    <2>2. BucketType' /\ BucketInv'
      BY <1>1, <1>3, BucketKept DEF ConnectFails
    <2> QED
      BY <1>3, <2>1, <2>2 DEF ConnectFails, TypeOK, BucketType
  <1>4. ASSUME NEW r \in Requests, ServeHTTP(r)
        PROVE  TypeOK' /\ GateInv' /\ BucketInv'
    <2>1. ReqType' /\ GateInv'
      BY <1>4, Served
    <2>2. BucketType' /\ BucketInv'
      BY <1>1, <1>4, BucketKept DEF ServeHTTP
    <2> QED
      BY <1>4, <2>1, <2>2 DEF ServeHTTP, Elsewhere, TypeOK, ReqType, BucketType
  <1>5. ASSUME NEW r \in Requests, RequestStep(r)
        PROVE  TypeOK' /\ GateInv' /\ BucketInv'
    <2>1. ReqType' /\ GateInv'
      BY <1>5, RequestMoved
    <2>2. UNCHANGED <<startVars, valid>>
      BY <1>5 DEF RequestStep, Mock, Auth, VerifyToken, Vouched, Refused, RateLimit,
         Recovered, Script, ScriptFails, Routing, Done, Elsewhere
    <2>3. authCache' \in [Tokens -> 0 .. CacheExpiration]
      <3>1. CASE Vouched(r)
        <4>1. CacheExpiration \in 0 .. CacheExpiration
          BY AdmissionAssumption
        <4> QED
          BY <3>1, <4>1 DEF Vouched, TypeOK
      <3>2. CASE UNCHANGED authCache
        BY <3>2 DEF TypeOK
      <3> QED
        BY <1>5, <3>1, <3>2 DEF RequestStep, Mock, Auth, VerifyToken, Refused, RateLimit,
           Recovered, Script, ScriptFails, Routing, Done
    <2>4. BucketType' /\ BucketInv'
      <3>1. CASE Script(r)
        <4>1. req[r].late \in Nat
          BY AdmissionAssumption DEF TypeOK
        <4> QED
          BY <1>1, <3>1, <4>1, ScriptBucket
      <3>2. CASE UNCHANGED bucket
        BY <1>1, <3>2, BucketKept
      <3> QED
        BY <1>5, <3>1, <3>2 DEF RequestStep, Mock, Auth, VerifyToken, Vouched, Refused,
           RateLimit, Recovered, ScriptFails, Routing, Done
    <2> QED
      BY <2>1, <2>2, <2>3, <2>4 DEF TypeOK, ReqType, BucketType
  <1>6. ASSUME NEW t \in Tokens, Revoke(t)
        PROVE  TypeOK' /\ GateInv' /\ BucketInv'
    <2>1. BucketType' /\ BucketInv'
      BY <1>1, <1>6, BucketKept DEF Revoke
    <2> QED
      BY <1>6, <2>1 DEF Revoke, TypeOK, GateInv, At, BucketType
  <1>7. CASE Tick
    <2>1. BucketType' /\ BucketInv'
      BY <1>1, <1>7, TickBucket
    <2>2. \A t \in Tokens :
            (IF Cached(t) THEN authCache[t] - 1 ELSE 0) \in 0 .. CacheExpiration
      BY AdmissionAssumption DEF TypeOK, Cached
    <2>3. authCache' \in [Tokens -> 0 .. CacheExpiration]
      BY <1>7, <2>2 DEF Tick
    <2>4. ASSUME NEW r \in Requests
          PROVE  /\ req'[r] \in [pc : Places, skip : BOOLEAN,
                                 token : Tokens \union {NoToken}, late : 0 .. MaxLate]
                 /\ req'[r].pc = req[r].pc /\ req'[r].token = req[r].token
      <3>1. req[r] \in [pc : Places, skip : BOOLEAN, token : Tokens \union {NoToken},
                        late : 0 .. MaxLate]
        BY DEF TypeOK
      <3>2. req[r].late + 1 \in 0 .. MaxLate
        BY <1>7, <3>1, AdmissionAssumption DEF Tick
      <3>3. req'[r] = IF At(r, "script") THEN [req[r] EXCEPT !.late = @ + 1] ELSE req[r]
        BY <1>7 DEF Tick
      <3> QED
        BY <3>1, <3>2, <3>3
    <2>5. req' \in [Requests -> [pc : Places, skip : BOOLEAN,
                                 token : Tokens \union {NoToken}, late : 0 .. MaxLate]]
      <3>1. req' = [r \in Requests |-> req'[r]]
        BY <1>7 DEF Tick
      <3> QED
        BY <2>4, <3>1
    <2>6. GateInv'
      BY <1>7, <2>4 DEF Tick, GateInv, At
    <2> QED
      BY <1>7, <2>1, <2>3, <2>5, <2>6 DEF Tick, TypeOK, BucketType
  <1>8. CASE Restart
    <2>1. /\ Idle \in [pc : Places, skip : BOOLEAN, token : Tokens \union {NoToken},
                        late : 0 .. MaxLate]
          /\ Idle.pc = "idle"
      BY AdmissionAssumption DEF Idle, Places
    <2>2. req' = [r \in Requests |-> Idle] /\ tries' = 0
          /\ authCache' = [t \in Tokens |-> 0]
      BY <1>8 DEF Restart
    <2>3. GateInv'
      BY <1>8, <2>1, <2>2, AdmissionAssumption DEF Restart, GateInv, At
    <2>4. BucketType' /\ BucketInv'
      BY <1>1, <1>8, BucketKept DEF Restart
    <2>5. 0 \in 0 .. CacheExpiration /\ 0 \in 0 .. MaxTries
      BY AdmissionAssumption
    <2> QED
      BY <1>8, <2>1, <2>2, <2>3, <2>4, <2>5 DEF Restart, TypeOK, BucketType
  <1>9. CASE UNCHANGED vars
    <2>1. BucketType' /\ BucketInv'
      BY <1>1, <1>9, BucketKept DEF vars
    <2> QED
      BY <1>9, <2>1 DEF vars, TypeOK, GateInv, At, BucketType
  <1> QED
    BY <1>2, <1>3, <1>4, <1>5, <1>6, <1>7, <1>8, <1>9 DEF Next

LEMMA Invariance == Spec => []IInv
  BY InitInv, Step, PTL DEF Spec

(* Every variable of the gateway keeps its type, and every request is at   *)
(* a place of the chain.                                                   *)
THEOREM TypeCorrect == Spec => []TypeOK
  <1>1. IInv => TypeOK
    BY DEF IInv
  <1> QED
    BY Invariance, <1>1, PTL

(* ratelimit.go:25-61: the bucket never admits more than an ideal one that *)
(* is filled at Rate up to Capacity, whatever the order of the requests,   *)
(* the lateness of their clocks and the expiry of the keys: these live at  *)
(* least as long as an empty bucket takes to fill.                         *)
THEOREM RateIsLimited == Spec => []RateWithinBudget
  <1>1. IInv => RateWithinBudget
    <2> SUFFICES ASSUME TypeOK, BucketInv PROVE budget >= 0
      BY DEF IInv, RateWithinBudget
    <2>1. tokens + age * Rate \in Nat
      BY ProductType DEF TypeOK
    <2>2. Filled(tokens + age * Rate) \in 0 .. Capacity
      BY <2>1, FilledType
    <2> QED
      BY <2>2, AdmissionAssumption DEF BucketInv, TypeOK
  <1> QED
    BY Invariance, <1>1, PTL

(* A request's step that neither gets a positive answer nor writes the     *)
(* cache gives a revoked token nothing.                                    *)
NoNews ==
  \A t \in Tokens \ valid : ~Vouching(t) =>
    /\ ~Vouching(t)'
    /\ authCache'[t] <= authCache[t]
    /\ \A r \in Requests : LetThrough(r) /\ req[r].token = t => Cached(t)

LEMMA CacheKept ==
  ASSUME IInv, NEW r \in Requests, UNCHANGED authCache,
         \A s \in Requests \ {r} : req'[s] = req[s],
         req'[r].pc = "vouched" => req[r].token \in valid /\ req'[r].token = req[r].token,
         LetThrough(r) => Cached(req[r].token)
  PROVE  NoNews
  <1>1. \A t \in Tokens : authCache[t] \in Nat /\ authCache'[t] <= authCache[t]
    BY AdmissionAssumption DEF IInv, TypeOK
  <1>2. ASSUME NEW t \in Tokens \ valid, ~Vouching(t) PROVE ~Vouching(t)'
    BY <1>2 DEF Vouching, At
  <1>3. \A s \in Requests \ {r} : ~LetThrough(s)
    BY DEF LetThrough, At
  <1> QED
    BY <1>1, <1>2, <1>3 DEF NoNews

LEMMA RequestNews ==
  ASSUME IInv, NEW r \in Requests, RequestStep(r)
  PROVE  NoNews
  <1> USE DEF IInv, At
  <1>1. /\ req \in [Requests -> [pc : Places, skip : BOOLEAN,
                                 token : Tokens \union {NoToken}, late : 0 .. MaxLate]]
        /\ Idle.pc = "idle"
    BY DEF TypeOK, Idle
  <1>2. \A q : req' = [req EXCEPT ![r] = q] =>
          req'[r] = q /\ \A s \in Requests \ {r} : req'[s] = req[s]
    BY <1>1
  <1>3. ASSUME NEW p, Goes(r, p)
        PROVE  /\ req'[r].pc = p /\ req'[r].token = req[r].token
               /\ \A s \in Requests \ {r} : req'[s] = req[s]
    BY <1>1, <1>3 DEF Goes
  <1>4. ASSUME Ends(r)
        PROVE  req'[r].pc = "idle" /\ \A s \in Requests \ {r} : req'[s] = req[s]
    BY <1>1, <1>2, <1>4 DEF Ends
  <1>5. ASSUME req[r].pc \in {"mock", "ratelimit", "routing"}
        PROVE  Following(req[r].pc) \in {"auth", "ratelimit", "routing", "forwarded"}
    BY <1>5, Successor
  <1>6. CASE Mock(r) \/ RateLimit(r) \/ Recovered(r) \/ Routing(r) \/ Done(r) \/ Refused(r)
    <2>1. UNCHANGED authCache /\ req[r].pc # "auth"
      BY <1>6 DEF Mock, RateLimit, Recovered, Routing, Done, Refused
    <2>2. \/ Ends(r)
          \/ /\ req[r].pc \in {"mock", "ratelimit", "routing"} /\ Proceed(r)
          \/ Goes(r, "script") \/ Goes(r, "panicked")
      BY <1>6 DEF Mock, RateLimit, Recovered, Routing, Done, Refused
    <2>3. req'[r].pc # "vouched" /\ \A s \in Requests \ {r} : req'[s] = req[s]
      BY <1>3, <1>4, <1>5, <2>2 DEF Proceed
    <2> QED
      BY <2>1, <2>3, CacheKept DEF LetThrough
  <1>7. CASE Auth(r)
    <2>1. /\ UNCHANGED authCache /\ gate = "on" /\ Following(req[r].pc) = "ratelimit"
      BY <1>7, Successor DEF Auth, GateInv
    <2>2. \/ Ends(r) \/ Goes(r, "verify")
          \/ Proceed(r) /\ (req[r].skip \/ Cached(req[r].token))
      BY <1>7 DEF Auth
    <2>3. /\ req'[r].pc # "vouched" /\ \A s \in Requests \ {r} : req'[s] = req[s]
          /\ req'[r].pc = "ratelimit" => req[r].skip \/ Cached(req[r].token)
      BY <1>3, <1>4, <2>1, <2>2 DEF Proceed
    <2> QED
      BY <2>1, <2>3, CacheKept DEF LetThrough
  <1>8. CASE VerifyToken(r)
    <2>1. UNCHANGED authCache /\ req[r].pc # "auth"
      BY <1>8 DEF VerifyToken
    <2>2. (req[r].token \in valid /\ Goes(r, "vouched")) \/ Goes(r, "refused")
      BY <1>8 DEF VerifyToken
    <2>3. /\ req'[r].pc = "vouched" => req[r].token \in valid /\ req'[r].token = req[r].token
          /\ \A s \in Requests \ {r} : req'[s] = req[s]
      BY <1>3, <2>2
    <2> QED
      BY <2>1, <2>3, CacheKept DEF LetThrough
  <1>9. CASE Vouched(r)
    <2>1. /\ req[r].pc = "vouched" /\ gate = "on"
          /\ authCache' = [authCache EXCEPT ![req[r].token] = CacheExpiration]
          /\ Goes(r, "ratelimit")
      BY <1>9, Successor DEF Vouched, GateInv
    <2>2. ASSUME NEW t \in Tokens, ~Vouching(t)
          PROVE  ~Vouching(t)' /\ authCache'[t] <= authCache[t]
      <3>1. t # req[r].token
        BY <2>1, <2>2 DEF Vouching
      <3>2. authCache'[t] = authCache[t] /\ authCache[t] \in Nat
        BY <2>1, <3>1, AdmissionAssumption DEF TypeOK
      <3> QED
        BY <1>3, <2>1, <2>2, <3>2 DEF Vouching
    <2>3. \A s \in Requests : ~LetThrough(s)
      BY <1>3, <2>1 DEF LetThrough
    <2> QED
      BY <2>2, <2>3 DEF NoNews
  <1>10. CASE Script(r) \/ ScriptFails(r)
    <2>1. UNCHANGED authCache /\ req[r].pc = "script"
      BY <1>10 DEF Script, ScriptFails
    <2>2. Ends(r) \/ req' = [req EXCEPT ![r].pc = "routing", ![r].late = 0]
      BY <1>10 DEF Script, ScriptFails
    <2>3. req'[r].pc # "vouched" /\ \A s \in Requests \ {r} : req'[s] = req[s]
      BY <1>1, <1>4, <2>2
    <2> QED
      BY <2>1, <2>3, CacheKept DEF LetThrough
  <1> QED
    BY <1>6, <1>7, <1>8, <1>9, <1>10 DEF RequestStep

LEMMA StepNews == IInv /\ [Next]_vars => NoNews \/ UNCHANGED vars
  <1> SUFFICES ASSUME IInv, Next PROVE NoNews
    OBVIOUS
  <1>1. CASE Connect \/ ConnectFails \/ \E t \in Tokens : Revoke(t)
    <2>1. UNCHANGED <<req, authCache>>
      BY <1>1 DEF Connect, ConnectFails, Revoke
    <2>2. \A t \in Tokens : authCache[t] \in Nat
      BY AdmissionAssumption DEF IInv, TypeOK
    <2> QED
      BY <2>1, <2>2 DEF NoNews, Vouching, LetThrough, At
  <1>2. CASE Restart
    <2>1. \A r \in Requests : req'[r].pc = "idle"
      BY <1>2 DEF Restart, Idle
    <2>2. \A t \in Tokens : authCache'[t] = 0 /\ authCache[t] \in Nat
      BY <1>2, AdmissionAssumption DEF Restart, IInv, TypeOK
    <2> QED
      BY <2>1, <2>2 DEF NoNews, Vouching, LetThrough, At
  <1>3. ASSUME NEW r \in Requests, ServeHTTP(r) PROVE NoNews
    <2>1. PICK skip \in BOOLEAN, t \in Tokens \union {NoToken} :
            req' = [req EXCEPT ![r] = [Idle EXCEPT !.pc = Chain[1], !.skip = skip, !.token = t]]
      BY <1>3 DEF ServeHTTP
    <2>2. req'[r].pc = "mock" /\ \A s \in Requests \ {r} : req'[s] = req[s]
      BY <2>1, Successor DEF Idle, IInv, TypeOK
    <2>3. UNCHANGED authCache
      BY <1>3 DEF ServeHTTP
    <2> QED
      BY <2>2, <2>3, CacheKept DEF LetThrough
  <1>4. ASSUME NEW r \in Requests, RequestStep(r) PROVE NoNews
    BY <1>4, RequestNews
  <1>5. CASE Tick
    <2>1. \A r \in Requests : req'[r].pc = req[r].pc /\ req'[r].token = req[r].token
      BY <1>5 DEF Tick, IInv, TypeOK
    <2>2. \A t \in Tokens : authCache'[t] <= authCache[t]
      BY <1>5, AdmissionAssumption DEF Tick, Cached, IInv, TypeOK
    <2> QED
      BY <2>1, <2>2 DEF NoNews, Vouching, LetThrough, At
  <1> QED
    BY <1>1, <1>2, <1>3, <1>4, <1>5 DEF Next

(* auth.go:88-113: a revoked token gets no further positive answer than    *)
(* those under way, its cache entry only wears off, and no request gets    *)
(* past the plugin without it, for any number of requests and tokens and   *)
(* any time of caching.                                                    *)
THEOREM RevokedTokensAge == Spec => RevokedAgesOut
  <1>1. IInv /\ [Next]_vars => [NoNews]_vars
    BY StepNews
  <1> QED
    BY <1>1, Invariance, PTL DEF Spec, RevokedAgesOut, NoNews
=============================================================================
