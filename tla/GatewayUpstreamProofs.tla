----------------------- MODULE GatewayUpstreamProofs -----------------------
(***************************************************************************)
(* One breaker per service and the bound on what reaches the upstream,     *)
(* proved for any finite number of requests and any number of retries.     *)
(***************************************************************************)
EXTENDS GatewayUpstream, FiniteSetTheorems, TLAPS

RequestType ==
  [pc : Places, idempotent : BOOLEAN, cb : Breakers \union {None},
   attempt : 0 .. MaxRetries, sent : 0 .. MaxRetries + 2, gone : BOOLEAN,
   mark : {"open", "closed"}, error : BOOLEAN]

(* A breaker is made once, and then it is in the cache. *)
CacheInv ==
  \/ breakerCache = None /\ made = 0
  \/ breakerCache = 1 /\ made = 1

(* What is known of a request, with breaker b in the cache: it has that    *)
(* breaker; an attempt it has begun may have been sent, the others have;   *)
(* it sleeps only if it may try again.                                     *)
Good(q, b) ==
  /\ q \in RequestType
  /\ q.cb \in {None, b}
  /\ q.pc \notin {"idle", "lock"} => q.cb # None
  /\ q.sent <= q.attempt + 1
  /\ q.pc \in {"idle", "lock", "ready", "send"} => q.sent <= q.attempt
  /\ q.pc = "backoff" => q.idempotent /\ q.attempt < MaxRetries
  /\ ~q.idempotent => q.attempt = 0

ReqInv == \A r \in Requests : Good(req[r], breakerCache)

IInv == TypeOK /\ CacheInv /\ ReqInv

-----------------------------------------------------------------------------
(* There is a breaker for a request to make. *)
LEMMA FirstBreaker == Requests # {} => 1 \in Breakers
  <1>1. Cardinality(Requests) \in Nat /\ (Cardinality(Requests) = 0 <=> Requests = {})
    BY UpstreamAssumption, FS_CardinalityType, FS_EmptySet
  <1> QED
    BY <1>1 DEF Breakers

LEMMA IdleGood == \A b : Good(Idle, b)
  <1>1. 0 \in 0 .. MaxRetries /\ 0 \in 0 .. MaxRetries + 2 /\ "idle" \in Places
    BY UpstreamAssumption DEF Places
  <1>2. Idle \in RequestType
    BY <1>1 DEF Idle, RequestType
  <1> QED
    BY <1>2 DEF Idle, Good

(* A step of one request, which may have put the breaker into the cache. *)
LEMMA Moved ==
  ASSUME TypeOK, ReqInv, NEW r \in Requests, NEW q, Good(q, breakerCache'),
         req' = [req EXCEPT ![r] = q],
         breakerCache = None \/ UNCHANGED breakerCache
  PROVE  /\ req' \in [Requests -> RequestType]
         /\ ReqInv'
  <1>1. \A s \in Requests : req'[s] = IF s = r THEN q ELSE req[s]
    BY DEF TypeOK
  <1>2. \A s \in Requests : Good(req[s], breakerCache')
    BY DEF ReqInv, Good
  <1>3. req' \in [Requests -> RequestType]
    BY DEF TypeOK, Good, RequestType
  <1> QED
    BY <1>1, <1>2, <1>3 DEF ReqInv

(* The fields of a request that has moved. *)
LEMMA PlaceGood ==
  ASSUME NEW q, NEW b, Good(q, b), NEW p \in Places,
         p \notin {"idle", "lock"} => q.cb # None,
         p \in {"idle", "lock", "ready", "send"} => q.sent <= q.attempt,
         p = "backoff" => q.idempotent /\ q.attempt < MaxRetries
  PROVE  Good([q EXCEPT !.pc = p], b)
  BY DEF Good, RequestType

LEMMA LeavesGood ==
  ASSUME NEW q, NEW b, Good(q, b), q.cb # None, NEW error \in BOOLEAN
  PROVE  Good([Idle EXCEPT !.pc = "setState", !.cb = q.cb, !.error = error], b)
  <1>1. Idle \in RequestType /\ "setState" \in Places
    BY IdleGood DEF Good, Places
  <1>2. q.cb \in Breakers \union {None}
    BY DEF Good, RequestType
  <1> DEFINE p == [Idle EXCEPT !.pc = "setState", !.cb = q.cb, !.error = error]
  <1>3. ASSUME NEW i \in RequestType
        PROVE  LET j == [i EXCEPT !.pc = "setState", !.cb = q.cb, !.error = error] IN
               /\ j \in RequestType
               /\ j.pc = "setState" /\ j.cb = q.cb /\ j.sent = i.sent /\ j.attempt = i.attempt
    BY <1>1, <1>2 DEF RequestType
  <1>4. /\ p \in RequestType
        /\ p.pc = "setState" /\ p.cb = q.cb /\ p.sent = 0 /\ p.attempt = 0
    <2>1. Idle.sent = 0 /\ Idle.attempt = 0
      BY DEF Idle
    <2> QED
      BY <1>1, <1>3, <2>1
  <1>5. q.cb \in {None, b}
    BY DEF Good
  <1> HIDE DEF p
  <1>6. Good(p, b)
    BY <1>4, <1>5 DEF Good
  <1> QED
    BY <1>6 DEF p

-----------------------------------------------------------------------------
(* The steps of a request *)
LEMMA ExecuteKeeps ==
  ASSUME TypeOK, CacheInv, ReqInv, NEW r \in Requests, Execute(r)
  PROVE  req' \in [Requests -> RequestType] /\ ReqInv'
  <1>1. PICK p \in {"lock", "ready"} : p = IF breakerCache = None THEN "lock" ELSE "ready"
    OBVIOUS
  <1>2. PICK idempotent \in BOOLEAN :
          req' = [req EXCEPT ![r] =
            [Idle EXCEPT !.pc = p, !.idempotent = idempotent, !.cb = breakerCache]]
    BY <1>1 DEF Execute
  <1> DEFINE q == [Idle EXCEPT !.pc = p, !.idempotent = idempotent, !.cb = breakerCache]
  <1>3. /\ Idle \in RequestType /\ breakerCache \in Breakers \union {None}
        /\ p \in Places
    BY IdleGood DEF Good, TypeOK, Places
  <1>4. ASSUME NEW i \in RequestType
        PROVE  LET j == [i EXCEPT !.pc = p, !.idempotent = idempotent, !.cb = breakerCache] IN
               /\ j \in RequestType
               /\ j.pc = p /\ j.cb = breakerCache /\ j.sent = i.sent /\ j.attempt = i.attempt
    BY <1>3 DEF RequestType
  <1>5. Idle.sent = 0 /\ Idle.attempt = 0
    BY DEF Idle
  <1>6. /\ q \in RequestType /\ q.pc = p /\ q.cb = breakerCache
        /\ q.sent = Idle.sent /\ q.attempt = Idle.attempt
    BY <1>3, <1>4
  <1> HIDE DEF q
  <1>7. Good(q, breakerCache)
    BY <1>1, <1>5, <1>6 DEF Good
  <1>8. req' = [req EXCEPT ![r] = q]
    BY <1>2 DEF q
  <1>9. UNCHANGED breakerCache
    BY DEF Execute, breakers
  <1> QED
    BY <1>7, <1>8, <1>9, Moved

LEMMA MakeBreakerKeeps ==
  ASSUME TypeOK, CacheInv, ReqInv, NEW r \in Requests, MakeBreaker(r)
  PROVE  /\ req' \in [Requests -> RequestType] /\ ReqInv' /\ CacheInv'
         /\ breakerCache' \in Breakers /\ made' \in 0 .. Cardinality(Requests)
  <1>1. 1 \in Breakers /\ breakerCache \in Breakers \union {None}
    BY FirstBreaker DEF TypeOK
  <1>2. /\ breakerCache' = 1 /\ made' = 1
        /\ breakerCache = None \/ UNCHANGED breakerCache
    BY UpstreamAssumption DEF MakeBreaker, CacheInv
  <1> DEFINE q == [req[r] EXCEPT !.pc = "ready", !.cb = 1]
  <1>3. Good(req[r], breakerCache) /\ req[r].pc = "lock"
    BY DEF ReqInv, MakeBreaker, At
  <1>4. "ready" \in Places
    BY DEF Places
  <1>5. /\ q \in RequestType /\ q.pc = "ready" /\ q.cb = 1 /\ q.sent = req[r].sent
        /\ q.attempt = req[r].attempt /\ q.idempotent = req[r].idempotent
    BY <1>1, <1>3, <1>4 DEF Good, RequestType
  <1>6. req' = [req EXCEPT ![r] = q]
    BY <1>2 DEF MakeBreaker, TypeOK
  <1> HIDE DEF q
  <1>7. Good(q, breakerCache')
    BY <1>2, <1>3, <1>5, UpstreamAssumption DEF Good
  <1>8. req' \in [Requests -> RequestType] /\ ReqInv'
    BY <1>2, <1>6, <1>7, Moved
  <1> QED
    BY <1>1, <1>2, <1>8 DEF CacheInv, Breakers

(* The places an attempt leads to. *)
LEMMA AgainPlace ==
  ASSUME NEW r \in Requests, NEW p \in {"passed", "failed", "aborted"}
  PROVE  /\ Again(r, p) \in {"backoff", p}
         /\ Again(r, p) = "backoff" => req[r].idempotent /\ req[r].attempt < MaxRetries
  BY DEF Again, Retrying

(* The steps that leave the cache alone. *)
LEMMA OthersKeep ==
  ASSUME TypeOK, ReqInv, NEW r \in Requests,
         (RequestStep(r) /\ ~MakeBreaker(r)) \/ Cancel(r)
  PROVE  req' \in [Requests -> RequestType] /\ ReqInv' /\ UNCHANGED <<breakerCache, made>>
  <1> DEFINE b == breakerCache
             Goal == req' \in [Requests -> RequestType] /\ ReqInv'
  <1>1. UNCHANGED <<breakerCache, made>>
    BY DEF RequestStep, Cancel, Ready, Attempt, AttemptCancelled, Backoff, Abort, Passed,
           Failed, SetState, SetOpen, SetClosed, Reported, breakers
  <1> SUFFICES Goal
    BY <1>1
  <1>2. Good(req[r], b) /\ req[r] \in RequestType
    BY DEF ReqInv, Good
  <1>3. ASSUME NEW q, Good(q, b), req' = [req EXCEPT ![r] = q]
        PROVE  Goal
    BY <1>1, <1>3, Moved
  <1>4. ASSUME NEW p \in Places, Goes(r, p),
               p \notin {"idle", "lock"} => req[r].cb # None,
               p \in {"idle", "lock", "ready", "send"} => req[r].sent <= req[r].attempt,
               p = "backoff" => req[r].idempotent /\ req[r].attempt < MaxRetries
        PROVE  Goal
    <2>1. Good([req[r] EXCEPT !.pc = p], b)
      BY <1>2, <1>4, PlaceGood
    <2>2. req' = [req EXCEPT ![r] = [req[r] EXCEPT !.pc = p]]
      BY <1>4 DEF Goes, TypeOK
    <2> QED
      BY <1>3, <2>1, <2>2
  <1>5. CASE Ends(r)
    BY <1>3, <1>5, IdleGood DEF Ends
  <1>6. req[r].pc \notin {"idle", "lock"} => req[r].cb # None
    BY <1>2 DEF Good
  <1>7. ASSUME NEW error \in BOOLEAN, Leaves(r, error), req[r].cb # None
        PROVE  Goal
    <2> DEFINE q == [Idle EXCEPT !.pc = "setState", !.cb = req[r].cb, !.error = error]
    <2>1. Good(q, b)
      BY <1>2, <1>7, LeavesGood
    <2>2. req' = [req EXCEPT ![r] = q]
      BY <1>7 DEF Leaves
    <2> HIDE DEF q
    <2> QED
      BY <1>3, <2>1, <2>2
  <1> HIDE DEF Goal
  <1>8. CASE Ready(r)
    <2>1. req[r].pc = "ready" /\ req[r].cb # None /\ req[r].sent <= req[r].attempt
      BY <1>2, <1>8 DEF Ready, At, Good
    <2>2. CASE Open(req[r].cb)
      <3> DEFINE q == [req[r] EXCEPT !.pc = "setState", !.mark = "open", !.error = TRUE]
      <3>1. "setState" \in Places
        BY DEF Places
      <3>2. /\ q \in RequestType /\ q.pc = "setState" /\ q.cb = req[r].cb
            /\ q.sent = req[r].sent /\ q.attempt = req[r].attempt
            /\ q.idempotent = req[r].idempotent
        BY <1>2, <3>1 DEF RequestType
      <3>3. req' = [req EXCEPT ![r] = q]
        BY <1>8, <2>2 DEF Ready, TypeOK
      <3> HIDE DEF q
      <3>4. Good(q, b)
        BY <1>2, <2>1, <3>2 DEF Good
      <3> QED
        BY <1>3, <3>3, <3>4
    <2>3. CASE Goes(r, "send")
      BY <1>4, <2>1, <2>3 DEF Places
    <2> QED
      BY <1>8, <2>2, <2>3 DEF Ready, Goes
  <1>9. CASE Attempt(r)
    <2>1. req[r].pc = "send" /\ req[r].cb # None /\ req[r].sent <= req[r].attempt
      BY <1>2, <1>9 DEF Attempt, At, Good
    <2>2. PICK p : /\ req' = [req EXCEPT ![r].pc = p, ![r].sent = Sent(r)]
                   /\ p \in {"passed", Again(r, "passed"), Again(r, "failed"),
                             Again(r, "aborted")}
      BY <1>9 DEF Attempt
    <2>3. /\ p \in {"passed", "failed", "aborted", "backoff"} /\ p \in Places
          /\ p = "backoff" => req[r].idempotent /\ req[r].attempt < MaxRetries
      BY <2>2, AgainPlace DEF Places
    <2>4. /\ req[r].sent \in Nat /\ req[r].attempt \in 0 .. MaxRetries
          /\ Sent(r) \in 0 .. MaxRetries + 2 /\ Sent(r) <= req[r].attempt + 1
      BY <1>2, <2>1, UpstreamAssumption DEF RequestType, Sent
    <2> DEFINE q == [req[r] EXCEPT !.pc = p, !.sent = Sent(r)]
    <2>5. /\ q \in RequestType /\ q.pc = p /\ q.cb = req[r].cb
          /\ q.sent = Sent(r) /\ q.attempt = req[r].attempt
          /\ q.idempotent = req[r].idempotent
      BY <1>2, <2>3, <2>4 DEF RequestType
    <2>6. req' = [req EXCEPT ![r] = q]
      BY <2>2 DEF TypeOK
    <2> HIDE DEF q
    <2>7. Good(q, b)
      BY <1>2, <2>1, <2>3, <2>4, <2>5 DEF Good
    <2> QED
      BY <1>3, <2>6, <2>7
  <1>10. CASE AttemptCancelled(r)
    BY <1>4, <1>6, <1>10, AgainPlace DEF AttemptCancelled, At, Places
  <1>11. CASE Backoff(r)
    <2>1. /\ req[r].pc = "backoff" /\ req[r].idempotent /\ req[r].attempt < MaxRetries
          /\ req[r].sent <= req[r].attempt + 1
      BY <1>2, <1>11 DEF Backoff, At, Good
    <2>2. CASE Goes(r, "failed")
      BY <1>4, <1>6, <2>1, <2>2 DEF Places
    <2>3. CASE req' = [req EXCEPT ![r].pc = "send", ![r].attempt = @ + 1]
      <3> DEFINE q == [req[r] EXCEPT !.pc = "send", !.attempt = @ + 1]
      <3>1. req[r].attempt + 1 \in 0 .. MaxRetries /\ "send" \in Places
        BY <1>2, <2>1, UpstreamAssumption DEF RequestType, Places
      <3>2. /\ q \in RequestType /\ q.pc = "send" /\ q.cb = req[r].cb
            /\ q.sent = req[r].sent /\ q.attempt = req[r].attempt + 1
            /\ q.idempotent = req[r].idempotent
        BY <1>2, <3>1 DEF RequestType
      <3>3. req' = [req EXCEPT ![r] = q]
        BY <2>3 DEF TypeOK
      <3>4. req[r].sent \in Int /\ req[r].attempt \in Int
        BY <1>2 DEF RequestType
      <3> HIDE DEF q
      <3>5. Good(q, b)
        BY <1>2, <2>1, <3>2, <3>4 DEF Good
      <3> QED
        BY <1>3, <3>3, <3>5
    <2> QED
      BY <1>11, <2>2, <2>3 DEF Backoff
  <1>12. CASE Cancel(r)
    <2> DEFINE q == [req[r] EXCEPT !.gone = TRUE]
    <2>1. /\ q \in RequestType /\ q.pc = req[r].pc /\ q.cb = req[r].cb
          /\ q.sent = req[r].sent /\ q.attempt = req[r].attempt
          /\ q.idempotent = req[r].idempotent
      BY <1>2 DEF RequestType
    <2>2. req' = [req EXCEPT ![r] = q]
      BY <1>12 DEF Cancel, TypeOK
    <2> HIDE DEF q
    <2>3. Good(q, b)
      BY <1>2, <2>1 DEF Good
    <2> QED
      BY <1>3, <2>2, <2>3
  <1>13. CASE Abort(r)
    BY <1>5, <1>13 DEF Abort
  <1>14. CASE Passed(r)
    BY <1>6, <1>7, <1>14 DEF Passed, At
  <1>15. CASE Failed(r)
    BY <1>6, <1>7, <1>15 DEF Failed, At
  <1>16. CASE SetState(r)
    BY <1>4, <1>6, <1>16 DEF SetState, At, Places
  <1>17. CASE SetOpen(r)
    BY <1>4, <1>6, <1>17 DEF SetOpen, At, Places
  <1>18. CASE SetClosed(r)
    BY <1>4, <1>6, <1>18 DEF SetClosed, At, Places
  <1>19. CASE Reported(r)
    BY <1>5, <1>19 DEF Reported
  <1> QED
    BY <1>8, <1>9, <1>10, <1>11, <1>12, <1>13, <1>14, <1>15, <1>16, <1>17, <1>18, <1>19
    DEF RequestStep

-----------------------------------------------------------------------------
(* The breakers and the gauges *)
BreakerType ==
  breaker \in [Breakers -> [state : {"closed", "open", "half-open"},
                           successes : 0 .. HalfOpenMaxSuccesses - 1]]

GaugeType ==
  cbState \in {"unknown", "open", "closed"} /\ gauge \in [open : 0 .. 1, closed : 0 .. 1]

LEMMA BreakerKeeps ==
  ASSUME TypeOK, ReqInv, NEW r \in Requests, RequestStep(r)
  PROVE  BreakerType'
  <1> DEFINE State == [state : {"closed", "open", "half-open"},
                       successes : 0 .. HalfOpenMaxSuccesses - 1]
  <1>1. breaker \in [Breakers -> State]
    BY DEF TypeOK
  <1>2. ASSUME NEW b, NEW s \in State, BreakerIs(b, s)
        PROVE  breaker' \in [Breakers -> State]
    BY <1>1, <1>2 DEF BreakerIs
  <1>3. /\ Closed(0) \in State
        /\ [state |-> "open", successes |-> 0] \in State
    BY UpstreamAssumption DEF Closed
  <1>4. CASE UNCHANGED breaker
    BY <1>1, <1>4 DEF BreakerType
  <1>5. CASE Failed(r)
    <2>1. Fail(req[r].cb) \/ UNCHANGED breaker
      BY <1>5 DEF Failed
    <2> QED
      BY <1>2, <1>3, <1>4, <2>1 DEF Fail, BreakerType
  <1>6. CASE Reported(r) /\ Success(req[r].cb) /\ ~UNCHANGED breaker
    <2> DEFINE b == req[r].cb
               n == breaker[b].successes + 1
    <2>1. b \in Breakers
      <3>1. Good(req[r], breakerCache) /\ req[r].pc = "reported"
        BY <1>6 DEF ReqInv, Reported, At
      <3> QED
        BY <3>1 DEF Good, RequestType
    <2>2. n \in 1 .. HalfOpenMaxSuccesses
      BY <1>1, <2>1, UpstreamAssumption
    <2>3. n # HalfOpenMaxSuccesses => [state |-> "half-open", successes |-> n] \in State
      BY <2>2, UpstreamAssumption
    <2>4. BreakerIs(b, IF n = HalfOpenMaxSuccesses THEN Closed(0)
                       ELSE [state |-> "half-open", successes |-> n])
      BY <1>6 DEF Success
    <2> HIDE DEF b, n
    <2>5. breaker' \in [Breakers -> State]
      BY <1>2, <1>3, <2>3, <2>4
    <2> QED
      BY <2>5 DEF BreakerType
  <1> QED
    BY <1>4, <1>5, <1>6 DEF RequestStep, MakeBreaker, Ready, Attempt, AttemptCancelled,
       Backoff, Abort, Passed, SetState, SetOpen, SetClosed, Reported, breakers

LEMMA GaugesKeep ==
  ASSUME TypeOK, NEW r \in Requests, RequestStep(r)
  PROVE  GaugeType'
  <1>1. req[r].mark \in {"open", "closed"}
    BY DEF TypeOK
  <1>2. CASE UNCHANGED gauges
    BY <1>2 DEF gauges, TypeOK, GaugeType
  <1>3. CASE SetState(r)
    BY <1>1, <1>3 DEF SetState, TypeOK, GaugeType
  <1>4. CASE SetOpen(r)
    BY <1>4 DEF SetOpen, TypeOK, GaugeType
  <1>5. CASE SetClosed(r)
    BY <1>5 DEF SetClosed, TypeOK, GaugeType
  <1> QED
    BY <1>2, <1>3, <1>4, <1>5 DEF RequestStep, MakeBreaker, Ready, Attempt,
       AttemptCancelled, Backoff, Abort, Passed, Failed, Reported

-----------------------------------------------------------------------------
LEMMA InitInv == Init => IInv
  <1> SUFFICES ASSUME Init PROVE IInv
    OBVIOUS
  <1>1. Cardinality(Requests) \in Nat
    BY UpstreamAssumption, FS_CardinalityType
  <1>2. Idle \in RequestType
    BY IdleGood DEF Good
  <1>3. TypeOK
    BY <1>1, <1>2, UpstreamAssumption DEF Init, TypeOK, RequestType, Closed
  <1>4. CacheInv /\ ReqInv
    BY IdleGood DEF Init, CacheInv, ReqInv
  <1> QED
    BY <1>3, <1>4 DEF IInv

LEMMA Step == IInv /\ [Next]_vars => IInv'
  <1> SUFFICES ASSUME TypeOK, CacheInv, ReqInv, [Next]_vars
               PROVE  TypeOK' /\ CacheInv' /\ ReqInv'
    BY DEF IInv
  <1>1. ASSUME NEW r \in Requests, Execute(r)
        PROVE  TypeOK' /\ CacheInv' /\ ReqInv'
    <2>1. req' \in [Requests -> RequestType] /\ ReqInv'
      BY <1>1, ExecuteKeeps
    <2> QED
      BY <1>1, <2>1 DEF Execute, breakers, gauges, TypeOK, CacheInv, RequestType
  <1>2. ASSUME NEW r \in Requests, RequestStep(r)
        PROVE  TypeOK' /\ CacheInv' /\ ReqInv'
    <2>1. BreakerType' /\ GaugeType'
      BY <1>2, BreakerKeeps, GaugesKeep
    <2>2. CASE MakeBreaker(r)
      BY <2>1, <2>2, MakeBreakerKeeps DEF TypeOK, BreakerType, GaugeType, RequestType
    <2>3. CASE ~MakeBreaker(r)
      <3>1. req' \in [Requests -> RequestType] /\ ReqInv' /\ UNCHANGED <<breakerCache, made>>
        BY <1>2, <2>3, OthersKeep
      <3> QED
        BY <2>1, <3>1 DEF TypeOK, BreakerType, GaugeType, RequestType, CacheInv
    <2> QED
      BY <2>2, <2>3
  <1>3. ASSUME NEW r \in Requests, Cancel(r)
        PROVE  TypeOK' /\ CacheInv' /\ ReqInv'
    <2>1. req' \in [Requests -> RequestType] /\ ReqInv' /\ UNCHANGED <<breakerCache, made>>
      BY <1>3, OthersKeep
    <2> QED
      BY <1>3, <2>1 DEF Cancel, breakers, gauges, TypeOK, RequestType, CacheInv
  <1>4. ASSUME NEW b \in Breakers, HalfOpen(b)
        PROVE  TypeOK' /\ CacheInv' /\ ReqInv'
    <2>1. [state |-> "half-open", successes |-> 0] \in
            [state : {"closed", "open", "half-open"}, successes : 0 .. HalfOpenMaxSuccesses - 1]
      BY UpstreamAssumption
    <2>2. BreakerType'
      BY <1>4, <2>1 DEF HalfOpen, BreakerIs, TypeOK, BreakerType
    <2> QED
      BY <1>4, <2>2 DEF HalfOpen, gauges, TypeOK, BreakerType, CacheInv, ReqInv
  <1>5. CASE UNCHANGED vars
    BY <1>5 DEF vars, TypeOK, CacheInv, ReqInv
  <1> QED
    BY <1>1, <1>2, <1>3, <1>4, <1>5 DEF Next

LEMMA Invariance == Spec => []IInv
  BY InitInv, Step, PTL DEF Spec

(* The variables of breaker, proxy and gauges keep their types.            *)
THEOREM TypeCorrect == Spec => []TypeOK
  <1>1. IInv => TypeOK
    BY DEF IInv
  <1> QED
    BY Invariance, <1>1, PTL

(* circuitbreaker.go:149-180: however many requests are the first of their *)
(* service, they share one breaker.                                        *)
THEOREM BreakerIsShared == Spec => []OneBreaker
  <1>1. IInv => OneBreaker
    BY DEF IInv, ReqInv, Good, OneBreaker
  <1> QED
    BY Invariance, <1>1, PTL

(* proxy.go:131-193: a request is sent once, and one that is idempotent at *)
(* most MaxRetries times more.                                             *)
THEOREM SendsAreBounded == Spec => []SendsBounded
  <1>1. IInv => SendsBounded
    <2> SUFFICES ASSUME IInv, NEW r \in Requests
                 PROVE  req[r].sent <= (IF req[r].idempotent THEN 1 + MaxRetries ELSE 1)
      BY DEF SendsBounded
    <2>1. Good(req[r], breakerCache)
      BY DEF IInv, ReqInv
    <2>2. req[r].sent \in Int /\ req[r].attempt \in 0 .. MaxRetries
      BY <2>1 DEF Good, RequestType
    <2> QED
      BY <2>1, <2>2, UpstreamAssumption DEF Good
  <1> QED
    BY Invariance, <1>1, PTL
=============================================================================
