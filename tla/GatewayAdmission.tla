-------------------------- MODULE GatewayAdmission --------------------------
(***************************************************************************)
(* The first half of a request's way through the API gateway, up to the    *)
(* circuit breaker: platform/gateway/main connects the authentication      *)
(* plugin, ServeHTTP runs the plugins in their order, AuthPlugin verifies  *)
(* the token with the auth service or from its cache, RateLimitPlugin runs *)
(* the token bucket script on Redis, RoutingPlugin picks an instance.      *)
(* The metrics and tracing plugins wrap the chain and decide nothing.      *)
(*                                                                         *)
(* A tick is the unit of all clocks.  The bucket is one key of the limits; *)
(* Redis runs a script atomically, with the time the gateway read before.  *)
(***************************************************************************)
EXTENDS Integers, Sequences

CONSTANTS
  Requests,         \* goroutines that serve a request each
  Tokens, NoToken,  \* access tokens; a request without one
  CacheExpiration,  \* ticks a verified token is cached
  Rate, Capacity,   \* of the bucket, in tokens per tick and tokens
  MaxLate,          \* bound on the ticks between time.Now and the script
  MaxTries          \* attempts to connect to the auth service

ASSUME AdmissionAssumption ==
  /\ NoToken \notin Tokens
  /\ CacheExpiration \in Nat /\ MaxLate \in Nat
  /\ Rate \in Nat \ {0} /\ Capacity \in Nat \ {0} /\ MaxTries \in Nat \ {0}

VARIABLES
  gate, tries,      \* the auth plugin: still connecting, in the chain or not
  redisClient,      \* a client, or the nil pointer of a failed connection
  req,              \* req[r]: the request and where it is in the chain
  valid,            \* tokens the auth service accepts
  authCache,        \* authCache[t]: ticks its entry has left, 0 if none
  tokens, age, ttl, \* the bucket: level, clock - timestamp, time to live
  budget            \* level of an ideal bucket that admits the same (history)

startVars == <<gate, tries, redisClient>>
bucket == <<tokens, age, ttl, budget>>
vars == <<startVars, req, valid, authCache, bucket>>

AtMost(n, m) == IF n < m THEN n ELSE m

Filled(n) == AtMost(n, Capacity)

(* math.floor(fill_time * 2)                                               *)
Ttl == (2 * Capacity) \div Rate

Idle == [pc |-> "idle", skip |-> FALSE, token |-> NoToken, late |-> 0]

(* What main adds of the plugins that decide something.                    *)
Registered == {"mock", "ratelimit", "routing"} \union (IF gate = "on" THEN {"auth"} ELSE {})

(* AddPlugin sorts them by Order.                                          *)
Chain == IF "auth" \in Registered THEN <<"mock", "auth", "ratelimit", "routing">>
         ELSE <<"mock", "ratelimit", "routing">>

(* ctx.Next: the successor in the chain; the breaker comes after routing.  *)
Following(p) ==
  LET i == CHOOSE j \in DOMAIN Chain : Chain[j] = p IN
  IF i < Len(Chain) THEN Chain[i + 1] ELSE "forwarded"

Init ==
  /\ gate \in {"connecting", "off"} /\ tries = 0
  /\ redisClient \in {"client", "nil"}
  /\ req = [r \in Requests |-> Idle]
  /\ valid = Tokens
  /\ authCache = [t \in Tokens |-> 0]
  /\ tokens = Capacity /\ age = 0 /\ ttl = 0
  /\ budget = Capacity

-----------------------------------------------------------------------------
(* main                                                                    *)

(* The auth service is found and dialled. *)
Connect ==
  /\ gate = "connecting"
  /\ gate' = "on"
  /\ UNCHANGED <<tries, redisClient, req, valid, authCache, bucket>>

(* Not found or not reached; after the last attempt the plugin is left out *)
(* for the life of the process.                                            *)
ConnectFails ==
  /\ gate = "connecting"
  /\ tries' = tries + 1
  /\ gate' = IF tries' = MaxTries THEN "off" ELSE gate
  /\ UNCHANGED <<redisClient, req, valid, authCache, bucket>>

(* startServer returns, and the gateway is started anew: after a signal    *)
(* when its requests are served or half a minute is over, after an error   *)
(* of the server, or because the process dies.  The bucket is in Redis.    *)
Restart ==
  /\ gate # "connecting"
  /\ gate' \in {"connecting", "off"} /\ tries' = 0
  /\ redisClient' \in {"client", "nil"}
  /\ req' = [r \in Requests |-> Idle]
  /\ authCache' = [t \in Tokens |-> 0]
  /\ UNCHANGED <<valid, bucket>>

-----------------------------------------------------------------------------
(* The chain.                                                              *)

At(r, pc) == req[r].pc = pc
Goes(r, pc) == req' = [req EXCEPT ![r].pc = pc]
Proceed(r) == Goes(r, Following(req[r].pc))
Ends(r) == req' = [req EXCEPT ![r] = Idle]
Elsewhere == UNCHANGED <<startVars, valid>>

ServeHTTP(r) ==
  /\ gate # "connecting" /\ At(r, "idle")
  /\ \E skip \in BOOLEAN, t \in Tokens \union {NoToken} :
       req' = [req EXCEPT ![r] = [Idle EXCEPT !.pc = Chain[1], !.skip = skip, !.token = t]]
  /\ Elsewhere /\ UNCHANGED <<authCache, bucket>>

(* MockPlugin answers a request that asks for it. *)
Mock(r) ==
  /\ At(r, "mock")
  /\ Ends(r) \/ Proceed(r)
  /\ Elsewhere /\ UNCHANGED <<authCache, bucket>>

Cached(t) == authCache[t] > 0

(* Mutant: a hit prolongs the entry.                                       *)
AuthSliding(r) ==
  LET t == req[r].token IN
  /\ At(r, "auth")
  /\ \/ req[r].skip /\ Proceed(r) /\ UNCHANGED authCache
     \/ ~req[r].skip /\ t = NoToken /\ Ends(r) /\ UNCHANGED authCache
     \/ /\ ~req[r].skip /\ t # NoToken /\ Cached(t)
        /\ Proceed(r) /\ authCache' = [authCache EXCEPT ![t] = CacheExpiration]
     \/ /\ ~req[r].skip /\ t # NoToken /\ ~Cached(t)
        /\ Goes(r, "verify") /\ UNCHANGED authCache
  /\ Elsewhere /\ UNCHANGED bucket

(* AuthPlugin.Execute up to the call of VerifyToken. *)
Auth(r) ==
  LET t == req[r].token IN
  /\ At(r, "auth")
  /\ \/ req[r].skip /\ Proceed(r)
     \/ ~req[r].skip /\ t = NoToken /\ Ends(r)
     \/ ~req[r].skip /\ t # NoToken /\ Cached(t) /\ Proceed(r)
     \/ ~req[r].skip /\ t # NoToken /\ ~Cached(t) /\ Goes(r, "verify")
  /\ Elsewhere /\ UNCHANGED <<authCache, bucket>>

(* The auth service answers, or the call fails.                            *)
VerifyToken(r) ==
  /\ At(r, "verify")
  /\ \/ req[r].token \in valid /\ Goes(r, "vouched")
     \/ Goes(r, "refused")
  /\ Elsewhere /\ UNCHANGED <<authCache, bucket>>

(* The answer arrives: it is cached from now on, whatever has become of    *)
(* the token since.                                                        *)
Vouched(r) ==
  /\ At(r, "vouched")
  /\ authCache' = [authCache EXCEPT ![req[r].token] = CacheExpiration]
  /\ Goes(r, Following("auth"))
  /\ Elsewhere /\ UNCHANGED bucket

(* Mutant: the answer is cached before it is looked at.                    *)
RefusedCached(r) ==
  /\ At(r, "refused")
  /\ authCache' = [authCache EXCEPT ![req[r].token] = CacheExpiration]
  /\ Ends(r)
  /\ Elsewhere /\ UNCHANGED bucket

Refused(r) ==
  /\ At(r, "refused")
  /\ Ends(r)
  /\ Elsewhere /\ UNCHANGED <<authCache, bucket>>

(* isAllowed: no limit applies, or allowRequest reads the clock.  The nil  *)
(* pointer is no nil interface: RunScript panics, the server recovers.     *)
RateLimit(r) ==
  /\ At(r, "ratelimit")
  /\ \/ Proceed(r)
     \/ redisClient = "client" /\ Goes(r, "script")
     \/ redisClient = "nil" /\ Goes(r, "panicked")
  /\ Elsewhere /\ UNCHANGED <<authCache, bucket>>

Recovered(r) ==
  /\ At(r, "panicked")
  /\ Ends(r)
  /\ Elsewhere /\ UNCHANGED <<authCache, bucket>>

-----------------------------------------------------------------------------
(* tokenBucketScript                                                       *)

(* The level at the time `late` ticks ago; a bucket without keys is full.  *)
Available(late) ==
  IF ttl = 0 THEN Capacity
  ELSE Filled(tokens + (IF age > late THEN age - late ELSE 0) * Rate)

Written(level, late, life) ==
  /\ tokens' = level /\ age' = late /\ ttl' = life

(* Mutant: the keys live half as long as it takes to fill the bucket.      *)
ScriptShortLived(r) ==
  LET late == req[r].late
      filled == Available(late) IN
  /\ At(r, "script") /\ Ttl > 0
  /\ \/ /\ filled >= 1
        /\ Written(filled - 1, late, Capacity \div (2 * Rate))
        /\ budget' = Filled(budget - 1 + late * Rate)
        /\ req' = [req EXCEPT ![r].pc = "routing", ![r].late = 0]
     \/ /\ filled < 1
        /\ Written(filled, late, Capacity \div (2 * Rate))
        /\ budget' = Filled(budget + late * Rate)
        /\ Ends(r)
  /\ Elsewhere /\ UNCHANGED authCache

(* The script takes a token or not, and writes level and time back.  The   *)
(* ideal bucket gives a late reading credit for its lateness.              *)
Script(r) ==
  LET late == req[r].late
      filled == Available(late) IN
  /\ At(r, "script") /\ Ttl > 0
  /\ \/ /\ filled >= 1
        /\ Written(filled - 1, late, Ttl)
        /\ budget' = Filled(budget - 1 + late * Rate)
        /\ req' = [req EXCEPT ![r].pc = "routing", ![r].late = 0]
     \/ /\ filled < 1
        /\ Written(filled, late, Ttl)
        /\ budget' = Filled(budget + late * Rate)
        /\ Ends(r)
  /\ Elsewhere /\ UNCHANGED authCache

(* Redis fails, or refuses a time to live of zero: the request passes.     *)
ScriptFails(r) ==
  /\ At(r, "script")
  /\ req' = [req EXCEPT ![r].pc = "routing", ![r].late = 0]
  /\ Elsewhere /\ UNCHANGED <<authCache, bucket>>

-----------------------------------------------------------------------------
(* No route, no instance, or on to the breaker.                            *)
Routing(r) ==
  /\ At(r, "routing")
  /\ Ends(r) \/ Proceed(r)
  /\ Elsewhere /\ UNCHANGED <<authCache, bucket>>

Done(r) ==
  /\ At(r, "forwarded")
  /\ Ends(r)
  /\ Elsewhere /\ UNCHANGED <<authCache, bucket>>

(* A token expires or is revoked (TokenStore).                             *)
Revoke(t) ==
  /\ t \in valid
  /\ valid' = valid \ {t}
  /\ UNCHANGED <<startVars, req, authCache, bucket>>

Tick ==
  /\ \A r \in Requests : req[r].late < MaxLate
  /\ req' = [r \in Requests |->
       IF At(r, "script") THEN [req[r] EXCEPT !.late = @ + 1] ELSE req[r]]
  /\ authCache' = [t \in Tokens |-> IF Cached(t) THEN authCache[t] - 1 ELSE 0]
  /\ IF ttl > 1 THEN ttl' = ttl - 1 /\ age' = age + 1 /\ UNCHANGED tokens
     ELSE ttl' = 0 /\ age' = 0 /\ tokens' = Capacity
  /\ budget' = Filled(budget + Rate)
  /\ UNCHANGED <<startVars, valid>>

RequestStep(r) ==
  \/ Mock(r) \/ Auth(r) \/ VerifyToken(r) \/ Vouched(r) \/ Refused(r)
  \/ RateLimit(r) \/ Recovered(r) \/ Script(r) \/ ScriptFails(r)
  \/ Routing(r) \/ Done(r)

Next ==
  \/ Connect \/ ConnectFails \/ Restart
  \/ \E r \in Requests : ServeHTTP(r) \/ RequestStep(r)
  \/ \E t \in Tokens : Revoke(t)
  \/ Tick

(* Goroutines run, calls return at last, time passes.                      *)
Fairness ==
  /\ \A r \in Requests : WF_vars(RequestStep(r))
  /\ WF_vars(Tick)

Spec == Init /\ [][Next]_vars /\ Fairness

-----------------------------------------------------------------------------
Places ==
  {"idle", "mock", "auth", "verify", "vouched", "refused", "ratelimit",
   "script", "panicked", "routing", "forwarded"}

(* Every variable has its type.                                            *)
TypeOK ==
  /\ gate \in {"connecting", "on", "off"} /\ tries \in 0 .. MaxTries
  /\ redisClient \in {"client", "nil"}
  /\ req \in [Requests -> [pc : Places, skip : BOOLEAN,
                           token : Tokens \union {NoToken}, late : 0 .. MaxLate]]
  /\ valid \subseteq Tokens
  /\ authCache \in [Tokens -> 0 .. CacheExpiration]
  /\ tokens \in 0 .. Capacity /\ age \in Nat /\ ttl \in 0 .. Ttl
  /\ budget \in Int /\ budget <= Capacity

(* ratelimit.go:25-61, 172-189: whatever the order in which requests run   *)
(* the script, whenever its keys expire and however often the gateway is   *)
(* restarted, they never get more out of it than an ideal bucket gives     *)
(* that is filled at Rate up to Capacity, but for what a clock read too    *)
(* early is worth.  (Requests that Redis fails   *)
(* pass uncounted.)                                                        *)
RateWithinBudget == budget >= 0

Admitted(t) ==
  \E r \in Requests : req[r].pc = "ratelimit" /\ ~req[r].skip /\ req[r].token = t

(* auth.go:89-110: a token that has been revoked ends up not being let     *)
(* through any more, however busily it is used and although an answer that *)
(* was given before the revocation may be cached after it.                 *)
RevocationTakesEffect ==
  \A t \in Tokens :
    <>[](gate = "on" /\ t \notin valid) => <>[]~Admitted(t)

(* auth.go:88-113: from a token's revocation on, once the positive answers *)
(* that were given before it have arrived, there are no more of them, what *)
(* is left of its cache entry never becomes more, and a request gets past  *)
(* the plugin only as long as that lasts: whatever else is verified, and   *)
(* however often, meanwhile.                                               *)
Vouching(t) == \E r \in Requests : At(r, "vouched") /\ req[r].token = t
LetThrough(r) == At(r, "auth") /\ ~req[r].skip /\ req'[r].pc = "ratelimit"

RevokedAgesOut ==
  [][\A t \in Tokens \ valid : ~Vouching(t) =>
       /\ ~Vouching(t)'
       /\ authCache'[t] <= authCache[t]
       /\ \A r \in Requests : LetThrough(r) /\ req[r].token = t => Cached(t)]_vars

(* gateway/main/main.go:100-102, ratelimit.go:141-145: without Redis the   *)
(* limit is disabled and requests are served.  It does not hold: a client  *)
(* that could not be made reaches the plugin as a non-nil interface.       *)
MissingRedisDisablesLimit == \A r \in Requests : ~At(r, "panicked")
=============================================================================
