-------------------------- MODULE ServiceLifecycle --------------------------
(***************************************************************************)
(* The processes of one service and their registration in Consul: the main *)
(* functions of the auth, user and order services over                     *)
(* shared/discovery/discovery.go.  A registration is stored on the agent   *)
(* that took it, under the name of the service alone, so that an agent     *)
(* knows one instance of a service at a time and whoever deregisters the   *)
(* name removes whatever is there.  Consul itself is external: it checks   *)
(* every registration, and drops one that stays critical.                  *)
(***************************************************************************)
EXTENDS Naturals

CONSTANTS
  Instances,   \* processes of the service
  Nobody,      \* no registration; the agent all share
  MaxStarts,   \* bound on the attempts to start a process
  MaxFaults    \* bound on the outages of a process's database

ASSUME LifecycleAssumption ==
  /\ Nobody \notin Instances
  /\ MaxStarts \in Nat /\ MaxFaults \in Nat

VARIABLES
  shared,    \* are the instances configured with one agent, or one each
  proc,      \* where each process is between its start and its end
  sick,      \* serving processes whose health endpoint fails
  wasSick,   \* instances that have been sick (history)
  catalog,   \* catalog[g]: the instance registered under the name on agent g
  passing,   \* agents whose registration passes its check
  starts, faults

lifecycleVars == <<shared, proc, sick, wasSick, catalog, passing, starts, faults>>

Agents == Instances \union {Nobody}
Agent(a) == IF shared THEN Nobody ELSE a

Accepting(a) == proc[a] = "serving"
Healthy(a) == Accepting(a) /\ a \notin sick

(* Health().Service(name, "", passingOnly): what a watcher is told.        *)
Passing == {catalog[g] : g \in passing}

LifecycleInit ==
  /\ shared \in BOOLEAN
  /\ proc = [a \in Instances |-> "down"]
  /\ sick = {} /\ wasSick = {}
  /\ catalog = [g \in Agents |-> Nobody]
  /\ passing = {}
  /\ starts = 0 /\ faults = 0

Goes(a, place) == proc' = [proc EXCEPT ![a] = place]

Unregistered(g) ==
  /\ catalog' = [catalog EXCEPT ![g] = Nobody]
  /\ passing' = passing \ {g}

(* DeRegister by name; an error of the call is ignored everywhere.         *)
DeRegisterName(g) ==
  \/ Unregistered(g)
  \/ UNCHANGED <<catalog, passing>>

-----------------------------------------------------------------------------
(* main: a process that cannot initialise its parts exits at once.         *)
Starts(a) == proc[a] = "down" /\ starts < MaxStarts /\ starts' = starts + 1

(* InitializeApp or initDependencies succeeds. *)
Initialize(a) ==
  /\ Starts(a)
  /\ Goes(a, "ready")
  /\ UNCHANGED <<shared, sick, wasSick, catalog, passing, faults>>

(* InitializeApp fails after the client of Consul was made: its cleanup    *)
(* deregisters the name although this process never registered.            *)
InitializeFails(a) ==
  /\ Starts(a)
  /\ DeRegisterName(Agent(a))
  /\ UNCHANGED <<shared, proc, sick, wasSick, faults>>

(* Mutant: the error of Register is ignored.                               *)
RegisterUnchecked(a) ==
  /\ proc[a] = "ready"
  /\ \/ /\ catalog' = [catalog EXCEPT ![Agent(a)] = a]
        /\ passing' = passing \ {Agent(a)}
     \/ UNCHANGED <<catalog, passing>>
  /\ Goes(a, "registered")
  /\ UNCHANGED <<shared, sick, wasSick, starts, faults>>

(* Register: a new registration is critical until its check has run.  An   *)
(* error panics; the deferred cleanup still deregisters the name.          *)
Register(a) ==
  /\ proc[a] = "ready"
  /\ \/ /\ catalog' = [catalog EXCEPT ![Agent(a)] = a]
        /\ passing' = passing \ {Agent(a)}
        /\ Goes(a, "registered")
     \/ /\ DeRegisterName(Agent(a))
        /\ Goes(a, "down")
  /\ UNCHANGED <<shared, sick, wasSick, starts, faults>>

(* The servers listen, or fail to and the process ends.                    *)
Listen(a) ==
  /\ proc[a] = "registered"
  /\ Goes(a, "serving") \/ Goes(a, "drained")
  /\ UNCHANGED <<shared, sick, wasSick, catalog, passing, starts, faults>>

(* SIGTERM: Shutdown closes the listeners first. *)
Signal(a) ==
  /\ proc[a] = "serving"
  /\ Goes(a, "draining")
  /\ sick' = sick \ {a}
  /\ UNCHANGED <<shared, wasSick, catalog, passing, starts, faults>>

(* Shutdown returns when the requests are served or its time is over. *)
Drain(a) ==
  /\ proc[a] = "draining"
  /\ Goes(a, "drained")
  /\ UNCHANGED <<shared, sick, wasSick, catalog, passing, starts, faults>>

(* The deregistration is the last step, after the listeners are closed. *)
DeRegister(a) ==
  /\ proc[a] = "drained"
  /\ DeRegisterName(Agent(a))
  /\ Goes(a, "down")
  /\ UNCHANGED <<shared, sick, wasSick, starts, faults>>

Crash(a) ==
  /\ proc[a] # "down"
  /\ Goes(a, "down")
  /\ sick' = sick \ {a}
  /\ UNCHANGED <<shared, wasSick, catalog, passing, starts, faults>>

(* The health endpoint of the user service fails while its database does.  *)
DatabaseDown(a) ==
  /\ Healthy(a) /\ faults < MaxFaults
  /\ faults' = faults + 1
  /\ sick' = sick \union {a} /\ wasSick' = wasSick \union {a}
  /\ UNCHANGED <<shared, proc, catalog, passing, starts>>

DatabaseUp(a) ==
  /\ a \in sick
  /\ sick' = sick \ {a}
  /\ UNCHANGED <<shared, proc, wasSick, catalog, passing, starts, faults>>

-----------------------------------------------------------------------------
(* Consul's check of a registration. *)
CheckTurns(g) ==
  /\ catalog[g] # Nobody
  /\ (g \in passing) # Healthy(catalog[g])
  /\ passing' = IF g \in passing THEN passing \ {g} ELSE passing \union {g}
  /\ UNCHANGED <<shared, proc, sick, wasSick, catalog, starts, faults>>

(* DeregisterCriticalServiceAfter: one minute critical.  A process listens *)
(* right after it registered, within that minute.                          *)
Reap(g) ==
  /\ catalog[g] # Nobody /\ g \notin passing
  /\ ~Healthy(catalog[g]) /\ proc[catalog[g]] # "registered"
  /\ Unregistered(g)
  /\ UNCHANGED <<shared, proc, sick, wasSick, starts, faults>>

ProcessStep(a) ==
  \/ Initialize(a) \/ InitializeFails(a) \/ Register(a) \/ Listen(a)
  \/ Signal(a) \/ Drain(a) \/ DeRegister(a) \/ Crash(a)
  \/ DatabaseDown(a) \/ DatabaseUp(a)

LifecycleNext ==
  \/ \E a \in Instances : ProcessStep(a)
  \/ \E g \in Agents : CheckTurns(g) \/ Reap(g)

(* A process goes on once it has begun; a check runs every few seconds.    *)
LifecycleFairness ==
  /\ \A a \in Instances :
       WF_lifecycleVars(Register(a) \/ Listen(a) \/ Drain(a) \/ DeRegister(a))
  /\ \A g \in Agents : WF_lifecycleVars(CheckTurns(g))

LifecycleTypeOK ==
  /\ shared \in BOOLEAN
  /\ proc \in [Instances ->
       {"down", "ready", "registered", "serving", "draining", "drained"}]
  /\ sick \subseteq Instances /\ wasSick \subseteq Instances
  /\ catalog \in [Agents -> Instances \union {Nobody}]
  /\ passing \subseteq {g \in Agents : catalog[g] # Nobody}
  /\ starts \in 0..MaxStarts /\ faults \in 0..MaxFaults

(* shared/discovery/discovery.go:33 and the main functions: an instance    *)
(* that has its agent to itself and never failed its health check is       *)
(* registered whenever it serves, however often it crashed or failed to    *)
(* start before.  (With a shared agent, or after a minute of failing       *)
(* checks, it may serve unregistered for ever.)                            *)
LoneInstanceRegistered ==
  \A a \in Instances :
    /\ Accepting(a) /\ a \notin wasSick
    /\ \A b \in Instances \ {a} : Agent(b) # Agent(a)
    => catalog[Agent(a)] = a

=============================================================================
