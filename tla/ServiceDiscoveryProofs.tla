----------------------- MODULE ServiceDiscoveryProofs -----------------------
(***************************************************************************)
(* Registration and discovery for any number of instances, agents and      *)
(* callers, any number of starts and outages, with probing health checks   *)
(* and without: a service that has its agent to itself is registered while *)
(* it serves, and a quiet watcher has the list that Consul has.            *)
(***************************************************************************)
EXTENDS ServiceDiscovery, FiniteSetTheorems, SequenceTheorems, TLAPS

(* A process whose health check never failed has the registration from     *)
(* Register until its listeners close, if no other writes to its agent;    *)
(* what failed once is remembered.                                         *)
Alone(a) == \A b \in Instances \ {a} : Agent(b) # Agent(a)

RegistrationInv ==
  /\ sick \subseteq wasSick
  /\ \A a \in Instances :
       proc[a] \in {"registered", "serving"} /\ a \notin wasSick /\ Alone(a)
         => catalog[Agent(a)] = a

(* What the watcher fetched last: an answer that is not applied yet, or    *)
(* the list.  It is what Consul has, unless Consul's index has moved on.   *)
Fetched == IF reply # <<>> THEN reply[1] ELSE Members(list)

FetchedInv == alive /\ ~news => Fetched = Passing

(* A caller that checks an address for the first time still has it.        *)
ProbeInv == \A c \in Callers : Writing(c) => call[c].todo # <<>>

-----------------------------------------------------------------------------
(* Types                                                                   *)

LEMMA AgentType == \A a \in Instances : Agent(a) \in Agents /\ a # Nobody
  BY LifecycleAssumption DEF Agent, Agents

LEMMA LifecycleTypeInit == LifecycleInit => LifecycleTypeOK
  BY LifecycleAssumption DEF LifecycleInit, LifecycleTypeOK

(* One step of a process changes its own place, its own registration at    *)
(* most, and the counters within their bounds.                             *)
LEMMA ProcessTypes ==
  ASSUME LifecycleTypeOK, NEW a \in Instances, ProcessStep(a)
  PROVE  LifecycleTypeOK'
  <1> USE LifecycleAssumption, AgentType DEF LifecycleTypeOK, Goes
  <1>1. CASE Initialize(a)
    BY <1>1 DEF Initialize, Starts
  <1>2. CASE InitializeFails(a)
    BY <1>2 DEF InitializeFails, Starts, DeRegisterName, Unregistered
  <1>3. CASE Register(a)
    BY <1>3 DEF Register, DeRegisterName, Unregistered
  <1>4. CASE Listen(a)
    BY <1>4 DEF Listen
  <1>5. CASE Signal(a)
    BY <1>5 DEF Signal
  <1>6. CASE Drain(a)
    BY <1>6 DEF Drain
  <1>7. CASE DeRegister(a)
    BY <1>7 DEF DeRegister, DeRegisterName, Unregistered
  <1>8. CASE Crash(a)
    BY <1>8 DEF Crash
  <1>9. CASE DatabaseDown(a)
    BY <1>9 DEF DatabaseDown
  <1>10. CASE DatabaseUp(a)
    BY <1>10 DEF DatabaseUp
  <1> QED
    BY <1>1, <1>2, <1>3, <1>4, <1>5, <1>6, <1>7, <1>8, <1>9, <1>10,
       ProcessStep(a) DEF ProcessStep

LEMMA ConsulTypes ==
  ASSUME LifecycleTypeOK, NEW g \in Agents, CheckTurns(g) \/ Reap(g)
  PROVE  LifecycleTypeOK'
  <1>1. CASE CheckTurns(g)
    BY <1>1 DEF LifecycleTypeOK, CheckTurns
  <1>2. CASE Reap(g)
    BY <1>2 DEF LifecycleTypeOK, Reap, Unregistered
  <1> QED
    BY <1>1, <1>2

LEMMA LifecycleTypes ==
  ASSUME LifecycleTypeOK, LifecycleNext \/ UNCHANGED lifecycleVars
  PROVE  LifecycleTypeOK'
  <1>1. CASE LifecycleNext
    BY <1>1, ProcessTypes, ConsulTypes DEF LifecycleNext
  <1>2. CASE UNCHANGED lifecycleVars
    BY <1>2 DEF LifecycleTypeOK, lifecycleVars
  <1> QED
    BY <1>1, <1>2

(* A list of the addresses of a finite set, in any order.                  *)
LEMMA OrdersType ==
  ASSUME NEW S \in SUBSET Instances, NEW s \in Orders(S)
  PROVE  s \in Seq(Instances) /\ Members(s) = S
  <1>1. Cardinality(S) \in Nat
    BY DiscoveryAssumption, FS_Subset, FS_CardinalityType
  <1>2. s \in Seq(S)
    BY <1>1, SeqDef DEF Orders
  <1> QED
    BY <1>2, SeqDef DEF Orders

LEMMA PassingType == LifecycleTypeOK => Passing \subseteq Instances
  BY DEF LifecycleTypeOK, Passing

LEMMA IdleType == Idle \in Calls
  <1>1. <<>> \in Seq(Instances)
    BY EmptySeq
  <1> QED
    BY <1>1 DEF Idle, Calls

(* What a process has that has just started.                               *)
LEMMA FreshType ==
  ASSUME LifecycleTypeOK', NEW aliveNow \in BOOLEAN, Fresh(aliveNow)
  PROVE  TypeOK'
  <1>1. <<>> \in Seq(SUBSET Instances) /\ <<>> \in Seq(Instances) /\ Len(<<>>) <= 1
    BY EmptySeq
  <1> QED
    BY <1>1, IdleType DEF Fresh, TypeOK

LEMMA TypeInit == Init => TypeOK
  <1> SUFFICES ASSUME Init PROVE TypeOK
    OBVIOUS
  <1>1. <<>> \in Seq(SUBSET Instances) /\ <<>> \in Seq(Instances) /\ Len(<<>>) <= 1
    BY EmptySeq
  <1>2. LifecycleTypeOK
    BY LifecycleTypeInit DEF Init
  <1> QED
    BY <1>1, <1>2, IdleType DEF Init, TypeOK

LEMMA WatcherTypes ==
  ASSUME TypeOK, Poll \/ Apply
  PROVE  TypeOK'
  <1>0. LifecycleTypeOK'
    BY LifecycleTypes DEF TypeOK, Poll, Apply
  <1>1. CASE Poll
    <2>1. reply' \in Seq(SUBSET Instances) /\ Len(reply') <= 1
      BY <1>1, PassingType DEF Poll, TypeOK
    <2> QED
      BY <1>0, <1>1, <2>1 DEF Poll, TypeOK
  <1>2. CASE Apply
    <2>1. reply[1] \in SUBSET Instances
      BY <1>2 DEF Apply, TypeOK
    <2>2. list' \in Seq(Instances)
      BY <1>2, <2>1, OrdersType DEF Apply
    <2>3. reply' \in Seq(SUBSET Instances) /\ Len(reply') <= 1
      BY <1>2, EmptySeq DEF Apply
    <2> QED
      BY <1>0, <1>2, <2>1, <2>2, <2>3 DEF Apply, TypeOK
  <1> QED
    BY <1>1, <1>2

LEMMA CheckType == \A a : Check(a) \in {"up", "down"}
  BY DEF Check

(* The call of c after a verdict on the first address of what is left.     *)
LEMMA JudgedType ==
  ASSUME TypeOK, NEW c \in Callers, call[c].todo # <<>>, NEW verdict
  PROVE  Judged(c, verdict) \in [Callers -> Calls]
  <1>1. call[c] \in Calls /\ call \in [Callers -> Calls]
    BY DEF TypeOK
  <1>2. Head(call[c].todo) \in Instances /\ Tail(call[c].todo) \in Seq(Instances)
    BY <1>1, HeadTailProperties DEF Calls
  <1> QED
    BY <1>1, <1>2 DEF Judged, Calls

LEMMA CallTypes ==
  ASSUME TypeOK, ProbeInv, NEW c \in Callers, GetService(c) \/ CallStep(c)
  PROVE  TypeOK'
  <1>0. LifecycleTypeOK'
    BY LifecycleTypes DEF TypeOK, GetService, CallStep, IsHealthy, FirstCheck, Select, Stay
  <1>1. call[c] \in Calls /\ call \in [Callers -> Calls]
    BY DEF TypeOK
  <1>2. CASE GetService(c)
    <2>1. list # <<>> => list[1] \in Instances
      BY DEF TypeOK
    <2>2. call' \in [Callers -> Calls]
      BY <1>1, <1>2, <2>1, IdleType DEF GetService, TypeOK, Idle, Calls
    <2> QED
      BY <1>0, <1>2, <2>2 DEF GetService, Stay, TypeOK
  <1>3. CASE IsHealthy(c)
    <2>1. Judged(c, health[Head(call[c].todo)]) \in [Callers -> Calls]
      BY <1>3, JudgedType DEF IsHealthy
    <2>2. [call EXCEPT ![c].pc = "probe", ![c].verdict = Check(Head(call[c].todo))]
            \in [Callers -> Calls]
      BY <1>1, CheckType DEF Calls
    <2>3. call' \in [Callers -> Calls]
      BY <1>3, <2>1, <2>2 DEF IsHealthy
    <2> QED
      BY <1>0, <1>3, <2>3 DEF IsHealthy, Stay, TypeOK
  <1>4. CASE FirstCheck(c)
    <2>1. call[c].todo # <<>>
      BY <1>4 DEF FirstCheck, ProbeInv
    <2>2. call' \in [Callers -> Calls]
      BY <1>4, <2>1, JudgedType DEF FirstCheck
    <2>3. health' \in [Instances -> {"unknown", "up", "down"}]
      BY <1>1, <1>4 DEF FirstCheck, TypeOK, Calls
    <2> QED
      BY <1>0, <1>4, <2>2, <2>3 DEF FirstCheck, Stay, TypeOK
  <1>5. CASE Select(c)
    BY <1>0, <1>5, IdleType DEF Select, Stay, TypeOK
  <1> QED
    BY <1>2, <1>3, <1>4, <1>5 DEF CallStep

LEMMA TypeStep ==
  ASSUME TypeOK, ProbeInv, [Next]_vars
  PROVE  TypeOK'
  <1>1. CASE Lifecycle
    <2>1. LifecycleTypeOK'
      BY <1>1, LifecycleTypes DEF Lifecycle, TypeOK
    <2> QED
      BY <1>1, <2>1 DEF Lifecycle, TypeOK
  <1>2. CASE Poll \/ Apply
    BY <1>2, WatcherTypes
  <1>3. ASSUME NEW a \in Instances, HealthCheckWorker(a) PROVE TypeOK'
    <2>1. LifecycleTypeOK'
      BY <1>3, LifecycleTypes DEF HealthCheckWorker, TypeOK
    <2> QED
      BY <1>3, <2>1, CheckType DEF HealthCheckWorker, TypeOK
  <1>4. ASSUME NEW c \in Callers, GetService(c) \/ CallStep(c) PROVE TypeOK'
    BY <1>4, CallTypes
  <1>5. CASE ConcurrentMapWrites \/ Restart
    <2>1. LifecycleTypeOK'
      BY <1>5, LifecycleTypes DEF ConcurrentMapWrites, Restart, TypeOK
    <2> QED
      BY <1>5, <2>1, FreshType DEF ConcurrentMapWrites, Restart
  <1>6. CASE UNCHANGED vars
    <2>1. LifecycleTypeOK'
      BY <1>6, LifecycleTypes DEF vars, TypeOK
    <2> QED
      BY <1>6, <2>1 DEF vars, memory, TypeOK
  <1> QED
    BY <1>1, <1>2, <1>3, <1>4, <1>5, <1>6 DEF Next

LEMMA ProbeStep ==
  ASSUME TypeOK, ProbeInv, [Next]_vars
  PROVE  ProbeInv'
  <1> USE DEF ProbeInv, Writing
  <1>0. \A c \in Callers : call[c] \in Calls /\ call \in [Callers -> Calls]
    BY DEF TypeOK
  <1>1. ASSUME NEW c \in Callers, IsHealthy(c) PROVE ProbeInv'
    BY <1>0, <1>1 DEF IsHealthy, Judged, Calls
  <1>2. ASSUME NEW c \in Callers, GetService(c) \/ Select(c) PROVE ProbeInv'
    <2>1. \A d \in Callers \ {c} : call'[d] = call[d]
      BY <1>0, <1>2 DEF GetService, Select
    <2>2. Idle.pc # "probe"
      BY DEF Idle
    <2>3. [Idle EXCEPT !.pc = "filter", !.todo = list, !.first = list[1]].pc # "probe"
      BY DEF Idle
    <2>4. call'[c].pc # "probe"
      BY <1>0, <1>2, <2>2, <2>3 DEF GetService, Select
    <2> QED
      BY <2>1, <2>4
  <1>5. ASSUME NEW c \in Callers, FirstCheck(c) PROVE ProbeInv'
    BY <1>0, <1>5 DEF FirstCheck, Judged, Calls
  <1>3. CASE ConcurrentMapWrites \/ Restart
    BY <1>3 DEF ConcurrentMapWrites, Restart, Fresh, Idle
  <1>4. CASE UNCHANGED call
    BY <1>4
  <1> QED
    BY <1>1, <1>2, <1>3, <1>4, <1>5
    DEF Next, CallStep, Lifecycle, Poll, Apply, HealthCheckWorker, vars, memory

LEMMA DiscoveryTypes == Spec => [](TypeOK /\ ProbeInv)
  <1>1. Init => TypeOK /\ ProbeInv
    BY TypeInit DEF Init, ProbeInv, Writing, Idle
  <1>2. TypeOK /\ ProbeInv /\ [Next]_vars => (TypeOK /\ ProbeInv)'
    BY TypeStep, ProbeStep
  <1> QED
    BY <1>1, <1>2, PTL DEF Spec

(* Processes, registrations, lists and calls keep their types, whoever     *)
(* starts, stops and crashes; a copied list is never read past its end.    *)
THEOREM DiscoveryTypeCorrect == Spec => []TypeOK
  BY DiscoveryTypes, PTL

-----------------------------------------------------------------------------
(* The watcher                                                             *)

(* A step of the service or of Consul either moves Consul's index or       *)
(* leaves its answer as it is.                                             *)
LEMMA FetchedStep ==
  ASSUME TypeOK, FetchedInv, [Next]_vars
  PROVE  FetchedInv'
  <1> USE DEF FetchedInv, Fetched
  <1>1. CASE Lifecycle
    <2>1. UNCHANGED <<catalog, passing>> => Passing' = Passing
      BY DEF Passing
    <2>2. Fetched' = Fetched
      BY <1>1 DEF Lifecycle, Members
    <2>3. CASE UNCHANGED <<catalog, passing>>
      BY <1>1, <2>1, <2>2, <2>3 DEF Lifecycle
    <2>4. CASE ~UNCHANGED <<catalog, passing>>
      BY <1>1, <2>4 DEF Lifecycle
    <2> QED
      BY <2>3, <2>4
  <1>2. CASE Poll
    <2>1. Passing' = Passing
      BY <1>2 DEF Poll, lifecycleVars, Passing
    <2>2. reply' # <<>> /\ reply'[1] = Passing
      BY <1>2 DEF Poll
    <2> QED
      BY <2>1, <2>2
  <1>3. CASE Apply
    <2>1. Passing' = Passing
      BY <1>3 DEF Apply, lifecycleVars, Passing
    <2>2. reply[1] \in SUBSET Instances
      BY <1>3 DEF Apply, TypeOK
    <2>3. Members(list') = reply[1]
      BY <1>3, <2>2, OrdersType DEF Apply
    <2> QED
      BY <1>3, <2>1, <2>3 DEF Apply, Members
  <1>4. CASE ConcurrentMapWrites \/ Restart
    BY <1>4 DEF ConcurrentMapWrites, Restart, Fresh
  <1>5. CASE UNCHANGED <<lifecycleVars, alive, news, reply, list>>
    BY <1>5 DEF lifecycleVars, Passing, Members
  <1> QED
    BY <1>1, <1>2, <1>3, <1>4, <1>5
    DEF Next, HealthCheckWorker, GetService, CallStep, IsHealthy, FirstCheck, Select, Stay,
        vars, memory

(* server.go:200-255: while the watcher has nothing to fetch and nothing   *)
(* to apply, the list in use is what Consul would answer, whatever         *)
(* registers and disappears between or during two polls.                   *)
THEOREM QuietListCurrent == Spec => []QuietListIsCurrent
  <1>1. Init => FetchedInv
    BY DEF Init, FetchedInv
  <1>2. TypeOK /\ FetchedInv /\ [Next]_vars => FetchedInv'
    BY FetchedStep
  <1>3. FetchedInv => QuietListIsCurrent
    BY DEF FetchedInv, Fetched, QuietListIsCurrent
  <1> QED
    BY <1>1, <1>2, <1>3, DiscoveryTypes, PTL DEF Spec

-----------------------------------------------------------------------------
(* The registration                                                        *)

LEMMA AloneStep == UNCHANGED shared => \A a \in Instances : Alone(a)' = Alone(a)
  BY DEF Alone, Agent

(* A step of one process does not touch the agent of another one that has  *)
(* its agent to itself.                                                    *)
LEMMA RegistrationProcess ==
  ASSUME LifecycleTypeOK, RegistrationInv, NEW a \in Instances, ProcessStep(a)
  PROVE  RegistrationInv'
  <1> USE AgentType DEF LifecycleTypeOK, RegistrationInv, Goes
  <1>0. UNCHANGED shared /\ \A b \in Instances : Agent(b)' = Agent(b)
    BY ProcessStep(a) DEF ProcessStep, Initialize, InitializeFails, Register, Listen, Signal,
       Drain, DeRegister, Crash, DatabaseDown, DatabaseUp, Agent
  <1>a. \A b \in Instances : Alone(b)' = Alone(b)
    BY <1>0, AloneStep
  <1>b. \A b \in Instances : Alone(b) /\ b # a => Agent(a) # Agent(b)
    BY DEF Alone
  <1>1. CASE Initialize(a) \/ Listen(a) \/ Signal(a) \/ Drain(a) \/ Crash(a)
    BY <1>0, <1>a, <1>1 DEF Initialize, Starts, Listen, Signal, Drain, Crash
  <1>2. CASE InitializeFails(a) \/ DeRegister(a)
    <2>1. proc[a] \in {"down", "drained"} /\ proc'[a] = "down"
      BY <1>2 DEF InitializeFails, Starts, DeRegister
    <2>2. \A b \in Instances \ {a} : proc'[b] = proc[b]
      BY <1>2 DEF InitializeFails, DeRegister
    <2>3. \A b \in Instances \ {a} : Alone(b) => catalog'[Agent(b)] = catalog[Agent(b)]
      BY <1>2, <1>b DEF InitializeFails, DeRegister, DeRegisterName, Unregistered
    <2> QED
      BY <1>0, <1>a, <1>2, <2>1, <2>2, <2>3 DEF InitializeFails, DeRegister
  <1>3. CASE Register(a)
    <2>1. \A b \in Instances \ {a} : proc'[b] = proc[b]
      BY <1>3 DEF Register
    <2>2. \A b \in Instances \ {a} : Alone(b) => catalog'[Agent(b)] = catalog[Agent(b)]
      BY <1>3, <1>b DEF Register, DeRegisterName, Unregistered
    <2>3. proc'[a] \in {"registered", "serving"} => catalog'[Agent(a)] = a
      BY <1>3 DEF Register
    <2> QED
      BY <1>0, <1>a, <1>3, <2>1, <2>2, <2>3 DEF Register
  <1>4. CASE DatabaseDown(a) \/ DatabaseUp(a)
    BY <1>0, <1>a, <1>4 DEF DatabaseDown, DatabaseUp
  <1> QED
    BY <1>1, <1>2, <1>3, <1>4, ProcessStep(a) DEF ProcessStep

(* Consul reaps only what fails its check, and not within the first minute *)
(* of a registration.                                                      *)
LEMMA RegistrationConsul ==
  ASSUME LifecycleTypeOK, RegistrationInv, NEW g \in Agents, CheckTurns(g) \/ Reap(g)
  PROVE  RegistrationInv'
  <1>0. \A b \in Instances : Agent(b)' = Agent(b) /\ Alone(b)' = Alone(b)
    BY AloneStep DEF CheckTurns, Reap, Agent
  <1>1. CASE CheckTurns(g)
    BY <1>0, <1>1 DEF CheckTurns, RegistrationInv
  <1>2. CASE Reap(g)
    <2>1. ASSUME NEW b \in Instances, proc[b] \in {"registered", "serving"}, b \notin wasSick,
                 Alone(b)
          PROVE  Agent(b) # g
      BY <1>2, <2>1 DEF Reap, RegistrationInv, Healthy, Accepting
    <2> QED
      BY <1>0, <1>2, <2>1, AgentType DEF Reap, Unregistered, RegistrationInv, LifecycleTypeOK
  <1> QED
    BY <1>1, <1>2

LEMMA RegistrationStep ==
  ASSUME TypeOK, RegistrationInv, [Next]_vars
  PROVE  RegistrationInv'
  <1>1. CASE Lifecycle
    BY <1>1, RegistrationProcess, RegistrationConsul DEF Lifecycle, LifecycleNext, TypeOK
  <1>2. CASE UNCHANGED lifecycleVars
    BY <1>2 DEF lifecycleVars, RegistrationInv, Alone, Agent
  <1> QED
    BY <1>1, <1>2
    DEF Next, Poll, Apply, HealthCheckWorker, GetService, CallStep, IsHealthy, FirstCheck, Select,
        Stay, ConcurrentMapWrites, Restart, vars

(* discovery.go:33 and the main functions: an instance that has its agent  *)
(* to itself and never failed its health check is registered whenever it   *)
(* serves, however often it crashed or failed to start before.             *)
THEOREM LoneRegistered == Spec => []LoneInstanceRegistered
  <1>1. Init => RegistrationInv
    BY DEF Init, LifecycleInit, RegistrationInv
  <1>2. TypeOK /\ RegistrationInv /\ [Next]_vars => RegistrationInv'
    BY RegistrationStep
  <1>3. RegistrationInv => LoneInstanceRegistered
    BY DEF RegistrationInv, LoneInstanceRegistered, Alone, Accepting
  <1> QED
    BY <1>1, <1>2, <1>3, DiscoveryTypes, PTL DEF Spec
=============================================================================
