-------------------------- MODULE GatewayUpstream --------------------------
(***************************************************************************)
(* The second half of a request's way through the gateway, for one         *)
(* service: CircuitBreakerPlugin around ProxyPlugin and its retrying       *)
(* transport, and the gauges of the breaker's state.  The breaker itself   *)
(* is the library mercari/go-circuitbreaker: external, with its counters   *)
(* reduced to what they decide.  An attempt to reach the upstream ends in  *)
(* an answer, an answer worth a retry (502, 503, 504) or an error.         *)
(***************************************************************************)
EXTENDS Naturals, FiniteSets

CONSTANTS
  Requests,             \* goroutines that serve a request each
  MaxRetries,           \* of the transport
  HalfOpenMaxSuccesses, \* successes that close a half-open breaker
  None                  \* no breaker

ASSUME UpstreamAssumption ==
  /\ IsFiniteSet(Requests)
  /\ MaxRetries \in Nat /\ HalfOpenMaxSuccesses \in Nat \ {0}
  /\ None \notin Nat

VARIABLES
  req,          \* req[r]: the request and where it is
  breakerCache, \* the service's entry in the LRU cache of breakers
  made,         \* number of breakers made
  breaker,      \* breaker[b]: state of breaker b
  cbState,      \* cbStateByService[service]
  gauge         \* circuitBreakerState by label

vars == <<req, breakerCache, made, breaker, cbState, gauge>>
gauges == <<cbState, gauge>>
breakers == <<breakerCache, made, breaker>>

(* Enough for every request to make one. *)
Breakers == 1 .. Cardinality(Requests)

Closed(n) == [state |-> "closed", successes |-> n]

Idle ==
  [pc |-> "idle", idempotent |-> FALSE, cb |-> None, attempt |-> 0,
   sent |-> 0, gone |-> FALSE, mark |-> "closed", error |-> FALSE]

Init ==
  /\ req = [r \in Requests |-> Idle]
  /\ breakerCache = None /\ made = 0
  /\ breaker = [b \in Breakers |-> Closed(0)]
  /\ cbState = "unknown"
  /\ gauge = [open |-> 0, closed |-> 0]

At(r, pc) == req[r].pc = pc
Goes(r, pc) == req' = [req EXCEPT ![r].pc = pc]
Ends(r) == req' = [req EXCEPT ![r] = Idle]

-----------------------------------------------------------------------------
(* getBreaker                                                              *)

(* CircuitBreakerPlugin.Execute: the first look, without the lock. *)
Execute(r) ==
  /\ At(r, "idle")
  /\ \E idempotent \in BOOLEAN :
       req' = [req EXCEPT ![r] =
         [Idle EXCEPT !.pc = IF breakerCache = None THEN "lock" ELSE "ready",
                      !.idempotent = idempotent, !.cb = breakerCache]]
  /\ UNCHANGED <<breakers, gauges>>

(* Mutant: no second look under the lock.                                  *)
MakeBreakerUnchecked(r) ==
  /\ At(r, "lock")
  /\ breakerCache' = made + 1 /\ made' = made + 1
  /\ req' = [req EXCEPT ![r].pc = "ready", ![r].cb = breakerCache']
  /\ UNCHANGED <<breaker, gauges>>

(* The second look, under the lock; a breaker made there is added to the   *)
(* cache before the lock is given back.                                    *)
MakeBreaker(r) ==
  /\ At(r, "lock")
  /\ IF breakerCache = None THEN breakerCache' = made + 1 /\ made' = made + 1
     ELSE UNCHANGED <<breakerCache, made>>
  /\ req' = [req EXCEPT ![r].pc = "ready", ![r].cb = breakerCache']
  /\ UNCHANGED <<breaker, gauges>>

-----------------------------------------------------------------------------
(* The library: Do asks Ready, runs the operation and reports Done.        *)

Open(b) == breaker[b].state = "open"

Ready(r) ==
  /\ At(r, "ready")
  /\ req' = IF Open(req[r].cb)
            THEN [req EXCEPT ![r].pc = "setState", ![r].mark = "open", ![r].error = TRUE]
            ELSE [req EXCEPT ![r].pc = "send"]
  /\ UNCHANGED <<breakers, gauges>>

BreakerIs(b, s) == breaker' = [breaker EXCEPT ![b] = s]

(* A success counts while the breaker is half-open. *)
Success(b) ==
  LET n == breaker[b].successes + 1 IN
  IF breaker[b].state # "half-open" THEN UNCHANGED breaker
  ELSE BreakerIs(b, IF n = HalfOpenMaxSuccesses THEN Closed(0)
                    ELSE [state |-> "half-open", successes |-> n])

(* A failure opens a half-open breaker, and a closed one when the rate of  *)
(* failures in its window says so.                                         *)
Fail(b) ==
  \/ BreakerIs(b, [state |-> "open", successes |-> 0])
  \/ breaker[b].state = "closed" /\ UNCHANGED breaker

(* The open timeout. *)
HalfOpen(b) ==
  /\ Open(b)
  /\ BreakerIs(b, [state |-> "half-open", successes |-> 0])
  /\ UNCHANGED <<req, breakerCache, made, gauges>>

-----------------------------------------------------------------------------
(* retryTransport.RoundTrip                                                *)

(* Mutant: every method is retried. *)
RetryingAll(r) == MaxRetries > 0

Retrying(r) == MaxRetries > 0 /\ req[r].idempotent

(* Sends are counted up to one more than there may be. *)
Sent(r) == IF req[r].sent > MaxRetries + 1 THEN req[r].sent ELSE req[r].sent + 1

(* What follows an attempt that did not give an answer. *)
Again(r, place) ==
  IF Retrying(r) /\ req[r].attempt < MaxRetries THEN "backoff" ELSE place

(* One attempt.  An answer passes.  A last answer worth a retry has had    *)
(* its body closed: it passes only if it had none, otherwise copying it    *)
(* panics and the server drops the connection.                             *)
Attempt(r) ==
  /\ At(r, "send") /\ ~req[r].gone
  /\ \E place \in {"passed", Again(r, "passed"), Again(r, "failed")}
                   \union (IF Retrying(r) THEN {Again(r, "aborted")} ELSE {}) :
       req' = [req EXCEPT ![r].pc = place, ![r].sent = Sent(r)]
  /\ UNCHANGED <<breakers, gauges>>

(* The transport refuses a request whose client is gone. *)
AttemptCancelled(r) ==
  /\ At(r, "send") /\ req[r].gone
  /\ Goes(r, Again(r, "failed"))
  /\ UNCHANGED <<breakers, gauges>>

(* Mutant: the sleep does not count the attempt.                           *)
BackoffUncounted(r) ==
  /\ At(r, "backoff")
  /\ \/ Goes(r, "send")
     \/ req[r].gone /\ Goes(r, "failed")
  /\ UNCHANGED <<breakers, gauges>>

(* The sleep before the next attempt, which the client may cut short. *)
Backoff(r) ==
  /\ At(r, "backoff")
  /\ \/ req' = [req EXCEPT ![r].pc = "send", ![r].attempt = @ + 1]
     \/ req[r].gone /\ Goes(r, "failed")
  /\ UNCHANGED <<breakers, gauges>>

(* The client closes the connection. *)
Cancel(r) ==
  /\ req[r].pc \in {"send", "backoff"} /\ ~req[r].gone
  /\ req' = [req EXCEPT ![r].gone = TRUE]
  /\ UNCHANGED <<breakers, gauges>>

(* The panic runs through Do, which reports nothing. *)
Abort(r) ==
  /\ At(r, "aborted")
  /\ Ends(r)
  /\ UNCHANGED <<breakers, gauges>>

-----------------------------------------------------------------------------
(* The end of Execute.                                                     *)

Leaves(r, error) ==
  req' = [req EXCEPT ![r] =
    [Idle EXCEPT !.pc = "setState", !.cb = req[r].cb, !.error = error]]

(* No UpstreamErrorKey: the gauges are set within the operation. *)
Passed(r) ==
  /\ At(r, "passed")
  /\ Leaves(r, FALSE)
  /\ UNCHANGED <<breakers, gauges>>

(* The error handler set UpstreamErrorKey: Done is told, but for an error  *)
(* that is the client's cancellation; then the state is said to be closed. *)
Failed(r) ==
  /\ At(r, "failed")
  /\ \/ Fail(req[r].cb)
     \/ req[r].gone /\ UNCHANGED breaker
  /\ Leaves(r, TRUE)
  /\ UNCHANGED <<breakerCache, made, gauges>>

(* setCircuitBreakerState: the map under its lock, then the two gauges.    *)

(* Mutant: the gauges are set only when the map has changed.               *)
SetStateChanged(r) ==
  /\ At(r, "setState")
  /\ cbState' = req[r].mark
  /\ Goes(r, IF cbState = cbState' THEN "reported" ELSE "setOpen")
  /\ UNCHANGED <<breakers, gauge>>

SetState(r) ==
  /\ At(r, "setState")
  /\ cbState' = req[r].mark
  /\ Goes(r, "setOpen")
  /\ UNCHANGED <<breakers, gauge>>

SetOpen(r) ==
  /\ At(r, "setOpen")
  /\ gauge' = [gauge EXCEPT !.open = IF req[r].mark = "open" THEN 1 ELSE 0]
  /\ Goes(r, "setClosed")
  /\ UNCHANGED <<breakers, cbState>>

SetClosed(r) ==
  /\ At(r, "setClosed")
  /\ gauge' = [gauge EXCEPT !.closed = IF req[r].mark = "open" THEN 0 ELSE 1]
  /\ Goes(r, "reported")
  /\ UNCHANGED <<breakers, cbState>>

(* Mutant: Ready and Fail are called without Do, and Success is forgotten. *)
ReportedNothing(r) ==
  /\ At(r, "reported")
  /\ Ends(r)
  /\ UNCHANGED <<breakers, gauges>>

(* Done of a success; the responses 502 and 503 of the others. *)
Reported(r) ==
  /\ At(r, "reported")
  /\ IF req[r].error THEN UNCHANGED breaker ELSE Success(req[r].cb)
  /\ Ends(r)
  /\ UNCHANGED <<breakerCache, made, gauges>>

RequestStep(r) ==
  \/ MakeBreaker(r) \/ Ready(r)
  \/ Attempt(r) \/ AttemptCancelled(r) \/ Backoff(r) \/ Abort(r)
  \/ Passed(r) \/ Failed(r)
  \/ SetState(r) \/ SetOpen(r) \/ SetClosed(r) \/ Reported(r)

Next ==
  \/ \E r \in Requests : Execute(r) \/ RequestStep(r) \/ Cancel(r)
  \/ \E b \in Breakers : HalfOpen(b)

(* Goroutines run, attempts end (the transport has timeouts), the timer of *)
(* the breaker fires.                                                      *)
Fairness ==
  /\ \A r \in Requests : WF_vars(RequestStep(r))
  /\ \A b \in Breakers : WF_vars(HalfOpen(b))

Spec == Init /\ [][Next]_vars /\ Fairness

-----------------------------------------------------------------------------
Places ==
  {"idle", "lock", "ready", "send", "backoff", "passed", "failed", "aborted",
   "setState", "setOpen", "setClosed", "reported"}

(* Every variable has its type.                                            *)
TypeOK ==
  /\ req \in [Requests ->
       [pc : Places, idempotent : BOOLEAN, cb : Breakers \union {None},
        attempt : 0 .. MaxRetries, sent : 0 .. MaxRetries + 2, gone : BOOLEAN,
        mark : {"open", "closed"}, error : BOOLEAN]]
  /\ made \in 0 .. Cardinality(Requests) /\ breakerCache \in Breakers \union {None}
  /\ breaker \in [Breakers -> [state : {"closed", "open", "half-open"},
                              successes : 0 .. HalfOpenMaxSuccesses - 1]]
  /\ cbState \in {"unknown", "open", "closed"}
  /\ gauge \in [open : 0 .. 1, closed : 0 .. 1]

(* circuitbreaker.go:149-180: the requests of a service share one breaker, *)
(* however many of them are the first.                                     *)
OneBreaker ==
  \A r, s \in Requests :
    req[r].cb # None /\ req[s].cb # None => req[r].cb = req[s].cb

(* proxy.go:131-193: a request that is not idempotent reaches the upstream *)
(* at most once, another one at most once per attempt.                     *)
SendsBounded ==
  \A r \in Requests :
    req[r].sent <= (IF req[r].idempotent THEN 1 + MaxRetries ELSE 1)

(* Every request ends, whatever the upstream and the client do.            *)
RequestEnds == \A r \in Requests : req[r].pc # "idle" ~> req[r].pc = "idle"

(* circuitbreaker.go:92-111: once the breaker stays closed and requests    *)
(* keep being answered, the gauges come to say so, although two requests   *)
(* may have set them in turns and left anything there.                     *)
GaugesSettle ==
  /\ <>[](breakerCache # None => ~Open(breakerCache))
  /\ []<>(\E r \in Requests : req[r].pc = "reported")
  => <>[](gauge = [open |-> 0, closed |-> 1])

(* circuitbreaker.go:117-146: once no request fails any more and some keep *)
(* being answered, after a retry or at once, the breaker is closed for     *)
(* good: successes are reported to the breaker they were admitted by.      *)
BreakerRecovers ==
  /\ <>[](\A r \in Requests : req[r].pc \notin {"failed", "aborted"})
  /\ []<>(\E r \in Requests : req[r].pc = "passed")
  => <>[](breakerCache # None /\ breaker[breakerCache].state = "closed")
=============================================================================
