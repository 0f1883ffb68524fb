-------------------------- MODULE ServiceDiscovery --------------------------
(***************************************************************************)
(* shared/discovery/server.go in a process that calls the service, such as *)
(* the gateway: the goroutine of WatchService, the health workers it       *)
(* starts, and callers of GetService.  Consul's index and                   *)
(* the watcher's lastIndex matter only by being equal or not: `news`.      *)
(* serviceDetails is written with services under one lock, `list` is both. *)
(* The round robin index is shared by the services of the process, so that *)
(* any instance may be the next one.                                       *)
(***************************************************************************)
EXTENDS ServiceLifecycle, Sequences, FiniteSets

CONSTANTS
  Callers,    \* goroutines that serve a request each
  Probing     \* is a probing health checker installed (the default is not)

ASSUME DiscoveryAssumption == Probing \in BOOLEAN /\ IsFiniteSet(Instances)

VARIABLES
  alive,      \* the calling process is up
  news,       \* Consul's index differs from lastIndex
  reply,      \* answers of the long poll that are not applied yet
  list,       \* services[name]: addresses in the order of the answer
  known,      \* addresses with a health worker; the weighted balancer's
  health,     \* serviceHealth; "unknown" where there is no entry
  call        \* call[c]: what caller c is doing

memory == <<news, reply, list, known, health, call>>
vars == <<lifecycleVars, alive, memory>>

Members(s) == {s[i] : i \in DOMAIN s}

(* The orders in which Consul may list a set of instances. *)
Orders(S) == {s \in [1..Cardinality(S) -> S] : Members(s) = S}

(* A call: the part of the copied list still to look at, its first         *)
(* address and the ones found healthy.                                     *)
Idle == [pc |-> "idle", todo |-> <<>>, first |-> Nobody, healthy |-> {}, verdict |-> "unknown"]

(* NewServiceDiscovery, and WatchService when the process starts. *)
Fresh(aliveNow) ==
  /\ alive' = aliveNow
  /\ news' = TRUE /\ reply' = <<>> /\ list' = <<>> /\ known' = {}
  /\ health' = [a \in Instances |-> "unknown"]
  /\ call' = [c \in Callers |-> Idle]

Init ==
  /\ LifecycleInit
  /\ alive = TRUE
  /\ news = TRUE /\ reply = <<>> /\ list = <<>> /\ known = {}
  /\ health = [a \in Instances |-> "unknown"]
  /\ call = [c \in Callers |-> Idle]

-----------------------------------------------------------------------------
(* WatchService.                                                           *)

(* Health().Service with WaitIndex returns once the index differs, with    *)
(* the passing instances of that moment; lastIndex becomes that index.  An *)
(* error is retried after five seconds with the same lastIndex.            *)
Poll ==
  /\ alive /\ news /\ reply = <<>>
  /\ reply' = <<Passing>>
  /\ news' = FALSE
  /\ UNCHANGED <<lifecycleVars, alive, list, known, health, call>>

(* Mutant: an empty answer leaves the list as it is.                       *)
ApplyNonEmpty ==
  /\ alive /\ reply # <<>>
  /\ list' \in IF reply[1] = {} THEN {list} ELSE Orders(reply[1])
  /\ known' = known \union reply[1]
  /\ reply' = <<>>
  /\ UNCHANGED <<lifecycleVars, alive, news, health, call>>

(* Mutant: the worker is started "if it is not running yet".               *)
ApplyOneWorker ==
  /\ alive /\ reply # <<>>
  /\ list' \in Orders(reply[1])
  /\ known' = IF known = {} THEN reply[1] ELSE known
  /\ reply' = <<>>
  /\ UNCHANGED <<lifecycleVars, alive, news, health, call>>

(* The lists are replaced under the lock, a worker is started for the new  *)
(* one.  Neither workers nor weighted instances are ever removed.          *)
Apply ==
  /\ alive /\ reply # <<>>
  /\ list' \in Orders(reply[1])
  /\ known' = known \union reply[1]
  /\ reply' = <<>>
  /\ UNCHANGED <<lifecycleVars, alive, news, health, call>>

(* Check: NoopHealthChecker, or an HTTP request to the health endpoint.    *)
Check(a) == IF ~Probing \/ Healthy(a) THEN "up" ELSE "down"

(* IsHealthy checks an unknown address, and writes the map, while it holds *)
(* the read lock: UpdateHealthStatus waits, other readers do not.          *)
Writing(c) == call[c].pc = "probe"

(* A tick of HealthCheckWorker, one address: check and UpdateHealthStatus. *)
HealthCheckWorker(a) ==
  /\ alive /\ a \in known
  /\ ~\E c \in Callers : Writing(c)
  /\ Check(a) # health[a]
  /\ health' = [health EXCEPT ![a] = Check(a)]
  /\ UNCHANGED <<lifecycleVars, alive, news, reply, list, known, call>>

-----------------------------------------------------------------------------
(* GetService, GetServiceWithStrategy, GetWeightedService.                 *)

Stay == UNCHANGED <<lifecycleVars, alive, news, reply, list, known>>

(* The list is copied under the lock and used after it. *)
GetService(c) ==
  /\ alive /\ call[c].pc = "idle"
  /\ call' = [call EXCEPT ![c] =
       IF list = <<>> THEN Idle
       ELSE [Idle EXCEPT !.pc = "filter", !.todo = list, !.first = list[1]]]
  /\ Stay /\ UNCHANGED health

Judged(c, verdict) ==
  [call EXCEPT ![c].pc = "filter", ![c].todo = Tail(@), ![c].verdict = "unknown",
     ![c].healthy = IF verdict = "up" THEN @ \union {Head(call[c].todo)} ELSE @]

IsHealthy(c) ==
  LET q == call[c]
      a == Head(q.todo) IN
  /\ alive /\ q.pc = "filter" /\ q.todo # <<>>
  /\ call' = IF health[a] # "unknown" THEN Judged(c, health[a])
             ELSE [call EXCEPT ![c].pc = "probe", ![c].verdict = Check(a)]
  /\ Stay /\ UNCHANGED health

(* The write of an address seen for the first time. *)
FirstCheck(c) ==
  /\ alive /\ Writing(c)
  /\ health' = [health EXCEPT ![Head(call[c].todo)] = call[c].verdict]
  /\ call' = Judged(c, call[c].verdict)
  /\ Stay

(* A second such write at once, of a caller or of any other request: the   *)
(* Go runtime may detect it and end the process.                           *)
ConcurrentMapWrites ==
  /\ alive
  /\ \E c \in Callers : Writing(c)
  /\ Fresh(FALSE)
  /\ UNCHANGED lifecycleVars

(* What a load balancer may choose among S.  The round robin index is      *)
(* shared; no service has a strategy of its own, and the default is there  *)
(* from the start.                                                         *)
RoundRobin(S) == S
GetLoadBalancer(S) == RoundRobin(S)

(* WatchService adds instances with the weight that an instance has that   *)
(* was not added; a random number below the sum of the weights falls to    *)
(* any instance with a positive one.                                       *)
DefaultWeight == 1
AddedWeight == 1
Weight(a) == IF a \in known THEN AddedWeight ELSE DefaultWeight
Weighted(S) == {a \in S : Weight(a) > 0}

(* What a caller gets: one of the healthy ones that the strategy chooses   *)
(* among, or the first address if none is healthy.                         *)
GetServiceWithStrategy(c, chosen) ==
  IF call[c].healthy = {} THEN {call[c].first} ELSE chosen

Choices(c) == GetServiceWithStrategy(c, GetLoadBalancer(call[c].healthy))
GetWeightedService(c) == GetServiceWithStrategy(c, Weighted(call[c].healthy))

Choosing(c) == call[c].pc = "filter" /\ call[c].todo = <<>>

Select(c) ==
  /\ alive /\ Choosing(c)
  /\ call' = [call EXCEPT ![c] = Idle]
  /\ Stay /\ UNCHANGED health

Restart ==
  /\ ~alive
  /\ Fresh(TRUE)
  /\ UNCHANGED lifecycleVars

-----------------------------------------------------------------------------
Lifecycle ==
  /\ LifecycleNext
  /\ news' = (news \/ catalog' # catalog \/ passing' # passing)
  /\ UNCHANGED <<alive, reply, list, known, health, call>>

CallStep(c) == IsHealthy(c) \/ FirstCheck(c) \/ Select(c)

Next ==
  \/ Lifecycle
  \/ Poll \/ Apply
  \/ \E a \in Instances : HealthCheckWorker(a)
  \/ \E c \in Callers : GetService(c) \/ CallStep(c)
  \/ ConcurrentMapWrites
  \/ Restart

(* Goroutines are scheduled, Consul answers at last, tickers tick.         *)
Fairness ==
  /\ LifecycleFairness
  /\ WF_vars(Poll) /\ WF_vars(Apply)
  /\ \A a \in Instances : WF_vars(HealthCheckWorker(a))
  /\ \A c \in Callers : WF_vars(CallStep(c))

Spec == Init /\ [][Next]_vars /\ Fairness

-----------------------------------------------------------------------------
Calls ==
  [pc : {"idle", "filter", "probe"}, todo : Seq(Instances),
   first : Instances \union {Nobody}, healthy : SUBSET Instances,
   verdict : {"unknown", "up", "down"}]

(* Every variable has its type. *)
TypeOK ==
  /\ LifecycleTypeOK
  /\ alive \in BOOLEAN /\ news \in BOOLEAN
  /\ reply \in Seq(SUBSET Instances) /\ Len(reply) <= 1
  /\ list \in Seq(Instances)
  /\ known \subseteq Instances
  /\ health \in [Instances -> {"unknown", "up", "down"}]
  /\ call \in [Callers -> Calls]

(* server.go:200-255: while the watcher has nothing to fetch and nothing   *)
(* to apply, the list in use is exactly what Consul would answer: no       *)
(* change between two polls is lost, also while instances register and     *)
(* disappear during a poll.                                                *)
QuietListIsCurrent ==
  alive /\ ~news /\ reply = <<>> => Members(list) = Passing

(* server.go:187-262, healthchecker.go:96-125: a caller whose process      *)
(* stays up ends up not being sent to an instance that is down for good;   *)
(* and, with probing checks, once nothing starts or stops any more,        *)
(* choosing among exactly the listed instances that are healthy: a stale   *)
(* verdict, cached by a first look or left by an earlier life of the       *)
(* address, neither shuns an instance nor keeps one for ever.  The weights *)
(* shun nobody either.                                                     *)
ChoicesSettle ==
  <>[]alive =>
    /\ \A a \in Instances : <>[](proc[a] = "down") => <>[](a \notin Members(list))
    /\ <>[](\A c \in Callers :
          Choosing(c) /\ list # <<>> =>
            /\ Choices(c) = {a \in Members(list) : Healthy(a)}
            /\ GetWeightedService(c) = Choices(c))
=============================================================================
