------------------------------- MODULE Redlock -------------------------------
(***************************************************************************)
(* shared/db/redis_lock.go: one lock key on several Redis instances.       *)
(* Every command goes to one instance after the other; between two         *)
(* commands time passes, keys expire and other clients act.  A command may *)
(* fail without effect, or take effect while its answer is lost.  A time to*)
(* live is positive and belongs to the call; SET takes it to the           *)
(* millisecond, EXPIRE in whole seconds.                                   *)
(***************************************************************************)
EXTENDS Naturals, FiniteSets

CONSTANTS
  N,         \* len(clients), the number of Redis instances
  Clients,   \* goroutines that use the lock
  Lives,     \* the times to live that callers ask for, in ticks
  Second,    \* ticks in a second
  Nobody,    \* the key does not exist
  Stranger   \* value of an Acquire that nobody holds a Lock of any more

ASSUME RedlockAssumption ==
  /\ N \in Nat \ {0}
  /\ Lives \subseteq Nat \ {0} /\ Lives # {}
  /\ Second \in Nat \ {0}
  /\ Nobody \notin Clients
  /\ Stranger \notin Clients
  /\ Nobody # Stranger

VARIABLES
  value,     \* value[n]: whose value the key has on instance n
  ttl,       \* ttl[n]: its remaining time to live
  pc,        \* pc[c]: where c is in Acquire, Release or Extend
  at,        \* at[c]: the instance its loop is at
  won,       \* won[c]: instances counted by acquired or extended
  expires,   \* expires[c]: the time to live of c's lock; 0 for none
  elapsed,   \* elapsed[c]: time since startTime
  since,     \* since[c]: time since the round that gave c its lock began
  round,     \* round[c]: time since the running round or Extend began
  extended   \* clients whose lock Extend has prolonged (history)

keyVars == <<value, ttl>>
timeVars == <<elapsed, since, round>>
vars == <<keyVars, pc, at, won, expires, timeVars, extended>>

Nodes == 1 .. N

Quorum == N \div 2 + 1

(* go-redis writes the time of EXPIRE in seconds: cut off, but not to none. *)
Whole(e) == IF e < Second THEN Second ELSE e - (e % Second)

(* The least that an EXPIRE of any client sets. *)
Shortest ==
  CHOOSE t \in {Whole(e) : e \in Lives} : \A e \in Lives : t <= Whole(e)

Init ==
  /\ value = [n \in Nodes |-> Nobody]
  /\ ttl = [n \in Nodes |-> 0]
  /\ pc = [c \in Clients |-> "idle"]
  /\ at = [c \in Clients |-> 1]
  /\ won = [c \in Clients |-> {}]
  /\ expires = [c \in Clients |-> 0]
  /\ elapsed = [c \in Clients |-> 0]
  /\ since = [c \in Clients |-> 0]
  /\ round = [c \in Clients |-> 0]
  /\ extended = {}

-----------------------------------------------------------------------------
(* Acquire                                                                 *)

(* A fresh random value. *)
Acquire(c) ==
  /\ pc[c] = "idle"
  /\ pc' = [pc EXCEPT ![c] = "try"]
  /\ \E e \in Lives : expires' = [expires EXCEPT ![c] = e]
  /\ UNCHANGED <<keyVars, at, won, timeVars, extended>>

Put(c, n) ==
  /\ value' = [value EXCEPT ![n] = c]
  /\ ttl' = [ttl EXCEPT ![n] = expires[c]]

Step(c) == at' = [at EXCEPT ![c] = @ + 1]

(* Mutant: an instance that holds the key already counts as well.          *)
SetNXCounting(c) ==
  LET n == at[c] IN
  /\ pc[c] = "try" /\ n \in Nodes
  /\ won' = [won EXCEPT ![c] = @ \union {n}]
  /\ IF value[n] = Nobody THEN Put(c, n) ELSE UNCHANGED keyVars
  /\ Step(c)
  /\ UNCHANGED <<pc, expires, timeVars, extended>>

(* acquireInstance at one instance.  A key that exists refuses, the        *)
(* client's own value of an earlier round included.                        *)
SetNX(c) ==
  LET n == at[c] IN
  /\ pc[c] = "try" /\ n \in Nodes
  /\ \/ /\ value[n] = Nobody
        /\ Put(c, n)
        /\ \/ won' = [won EXCEPT ![c] = @ \union {n}]
           \/ UNCHANGED won
     \/ UNCHANGED <<keyVars, won>>
  /\ Step(c)
  /\ UNCHANGED <<pc, expires, timeVars, extended>>

LoopDone(c) == at[c] = N + 1

Acquired(c) ==
  /\ pc[c] = "try" /\ LoopDone(c)
  /\ Cardinality(won[c]) >= Quorum
  /\ pc' = [pc EXCEPT ![c] = "held"]
  /\ at' = [at EXCEPT ![c] = 1]
  /\ won' = [won EXCEPT ![c] = {}]
  /\ since' = [since EXCEPT ![c] = round[c]]
  /\ elapsed' = [elapsed EXCEPT ![c] = 0]
  /\ round' = [round EXCEPT ![c] = 0]
  /\ UNCHANGED <<keyVars, expires, extended>>

(* More time than the key lives has passed: release what was acquired and  *)
(* return redis.Nil. *)
GiveUp(c) ==
  /\ pc[c] = "try" /\ LoopDone(c)
  /\ Cardinality(won[c]) < Quorum
  /\ elapsed[c] > expires[c]
  /\ pc' = [pc EXCEPT ![c] = "release"]
  /\ at' = [at EXCEPT ![c] = 1]
  /\ won' = [won EXCEPT ![c] = {}]
  /\ elapsed' = [elapsed EXCEPT ![c] = 0]
  /\ round' = [round EXCEPT ![c] = 0]
  /\ UNCHANGED <<keyVars, expires, since, extended>>

(* Another round; the instances won so far are not given back. *)
Retry(c) ==
  /\ pc[c] = "try" /\ LoopDone(c)
  /\ Cardinality(won[c]) < Quorum
  /\ elapsed[c] <= expires[c]
  /\ at' = [at EXCEPT ![c] = 1]
  /\ won' = [won EXCEPT ![c] = {}]
  /\ round' = [round EXCEPT ![c] = 0]
  /\ UNCHANGED <<keyVars, pc, expires, elapsed, since, extended>>

-----------------------------------------------------------------------------
(* Release                                                                 *)

Release(c) ==
  /\ pc[c] = "held"
  /\ pc' = [pc EXCEPT ![c] = "release"]
  /\ since' = [since EXCEPT ![c] = 0]
  /\ extended' = extended \ {c}
  /\ UNCHANGED <<keyVars, at, won, expires, elapsed, round>>

Remove(n) ==
  /\ value' = [value EXCEPT ![n] = Nobody]
  /\ ttl' = [ttl EXCEPT ![n] = 0]

(* Mutant: the key is deleted without comparing its value.                 *)
DelAny(c) ==
  LET n == at[c] IN
  /\ pc[c] = "release" /\ n \in Nodes
  /\ Remove(n)
  /\ Step(c)
  /\ UNCHANGED <<pc, won, expires, timeVars, extended>>

(* releaseInstance at one instance: the script compares and deletes in one *)
(* step; its error is ignored.                                             *)
Del(c) ==
  LET n == at[c] IN
  /\ pc[c] = "release" /\ n \in Nodes
  /\ \/ value[n] = c /\ Remove(n)
     \/ UNCHANGED keyVars
  /\ Step(c)
  /\ UNCHANGED <<pc, won, expires, timeVars, extended>>

(* The value is never used again: where it survives it is a stranger's. *)
Released(c) ==
  /\ pc[c] = "release" /\ LoopDone(c)
  /\ pc' = [pc EXCEPT ![c] = "idle"]
  /\ at' = [at EXCEPT ![c] = 1]
  /\ value' = [n \in Nodes |-> IF value[n] = c THEN Stranger ELSE value[n]]
  /\ expires' = [expires EXCEPT ![c] = 0]
  /\ UNCHANGED <<ttl, won, timeVars, extended>>

-----------------------------------------------------------------------------
(* Extend: GET and EXPIRE are two commands.                                *)

Extend(c) ==
  /\ pc[c] = "held"
  /\ pc' = [pc EXCEPT ![c] = "get"]
  /\ UNCHANGED <<keyVars, at, won, expires, timeVars, extended>>

Get(c) ==
  /\ pc[c] = "get" /\ at[c] \in Nodes
  /\ \/ value[at[c]] = c /\ pc' = [pc EXCEPT ![c] = "expire"] /\ UNCHANGED at
     \/ Step(c) /\ UNCHANGED pc
  /\ UNCHANGED <<keyVars, won, expires, timeVars, extended>>

(* EXPIRE gives the key c's time to live whatever its value is by now, even *)
(* when it had more left; on a missing key it answers false without an     *)
(* error, which counts as well.                                            *)
Expire(c) ==
  LET n == at[c] IN
  /\ pc[c] = "expire"
  /\ pc' = [pc EXCEPT ![c] = "get"]
  /\ ttl' = IF value[n] = Nobody THEN ttl ELSE [ttl EXCEPT ![n] = Whole(expires[c])]
  /\ won' = [won EXCEPT ![c] = @ \union {n}]
  /\ Step(c)
  /\ UNCHANGED <<value, expires, timeVars, extended>>

(* EXPIRE fails without effect. *)
ExpireFail(c) ==
  /\ pc[c] = "expire"
  /\ pc' = [pc EXCEPT ![c] = "get"]
  /\ Step(c)
  /\ UNCHANGED <<keyVars, won, expires, timeVars, extended>>

(* Either answer leaves the caller with its Lock. *)
Extended(c) ==
  /\ pc[c] = "get" /\ LoopDone(c)
  /\ pc' = [pc EXCEPT ![c] = "held"]
  /\ at' = [at EXCEPT ![c] = 1]
  /\ round' = [round EXCEPT ![c] = 0]
  /\ IF Cardinality(won[c]) >= Quorum
     THEN since' = [since EXCEPT ![c] = round[c]] /\ extended' = extended \union {c}
     ELSE UNCHANGED <<since, extended>>
  /\ won' = [won EXCEPT ![c] = {}]
  /\ UNCHANGED <<keyVars, expires, elapsed>>

-----------------------------------------------------------------------------
(* The clocks of c run where the code or a property still reads them, and  *)
(* stop when its time to live has passed.                                  *)
Older(age, phases, end) ==
  [c \in Clients |->
     IF pc[c] \in phases /\ age[c] < expires[c] + end THEN age[c] + 1 ELSE age[c]]

AgeClients ==
  /\ elapsed' = Older(elapsed, {"try"}, 1)
  /\ since' = Older(since, {"held", "get", "expire"}, 0)
  /\ round' = Older(round, {"try", "get", "expire"}, 0)
  /\ UNCHANGED <<pc, at, won, expires, extended>>

(* Time passes, at the same pace everywhere. *)
Tick ==
  /\ ttl' = [n \in Nodes |-> IF ttl[n] = 0 THEN 0 ELSE ttl[n] - 1]
  /\ value' = [n \in Nodes |-> IF ttl[n] <= 1 THEN Nobody ELSE value[n]]
  /\ AgeClients

AcquireStep(c) == SetNX(c) \/ Acquired(c) \/ GiveUp(c) \/ Retry(c)

ReleaseStep(c) == Del(c) \/ Released(c)

ExtendStep(c) == Get(c) \/ Expire(c) \/ ExpireFail(c) \/ Extended(c)

Next ==
  \/ \E c \in Clients :
       \/ Acquire(c) \/ Release(c) \/ Extend(c)
       \/ AcquireStep(c) \/ ReleaseStep(c) \/ ExtendStep(c)
  \/ Tick

Spec == Init /\ [][Next]_vars

-----------------------------------------------------------------------------
(* Every variable has its type. *)
TypeOK ==
  /\ value \in [Nodes -> Clients \union {Nobody, Stranger}]
  /\ ttl \in [Nodes -> Nat]
  /\ pc \in [Clients -> {"idle", "try", "held", "release", "get", "expire"}]
  /\ at \in [Clients -> 1 .. N + 1]
  /\ won \in [Clients -> SUBSET Nodes]
  /\ expires \in [Clients -> Lives \union {0}]
  /\ elapsed \in [Clients -> Nat]
  /\ since \in [Clients -> Nat]
  /\ round \in [Clients -> Nat]
  /\ extended \subseteq Clients

Owned(c) == {n \in Nodes : value[n] = c}

(* What a lock is good for: its time to live, or what an EXPIRE of whatever *)
(* client may leave of it.                                                 *)
Sure(c) == IF expires[c] < Shortest THEN expires[c] ELSE Shortest

(* c has a Lock that it has not given back, and what it is good for has    *)
(* not passed since the round that gave it the Lock began.                 *)
Valid(c) == pc[c] \in {"held", "get", "expire"} /\ since[c] < Sure(c)

(* Acquire: who holds a Lock and has not prolonged it owns a majority of   *)
(* the instances for as long as the lock is good for, counted from the     *)
(* beginning of the winning round, whatever other clients acquire, release *)
(* or extend, with whatever times to live, and whichever answers are lost. *)
HeldIsOwned ==
  \A c \in Clients \ extended : Valid(c) => Cardinality(Owned(c)) >= Quorum

(* Hence two clients never both hold the lock within that time.            *)
MutualExclusion ==
  \A c, d \in Clients \ extended : Valid(c) /\ Valid(d) => c = d

(* Seen by its users the lock is a LeaseLock of at most Shortest: what a   *)
(* Lock that was not prolonged is still good for is a lease given while    *)
(* nobody else's runs (so that MutualExclusion holds), and only time or    *)
(* its holder shortens it, whatever happens on the instances.              *)
Lease ==
  [c \in Clients |-> IF c \notin extended /\ Valid(c) THEN Sure(c) - since[c] ELSE 0]

LL == INSTANCE LeaseLock WITH Expires <- Shortest, lease <- Lease

LeaseLockSpec == LL!Spec

(* redis_lock.go:17-22, 48 "Expires": who holds a Lock owns a majority for *)
(* the time to live that Acquire was given.  It does not hold: EXPIRE sent *)
(* after another client's GET gives its key a shorter one.                 *)
WholeLifeIsOwned ==
  \A c \in Clients \ extended :
    pc[c] \in {"held", "get", "expire"} /\ since[c] < expires[c]
      => Cardinality(Owned(c)) >= Quorum

(* redis_lock.go:134 "if the lock was extended on a majority of the        *)
(* instances, this counts as success": a successful Extend leaves its      *)
(* caller the owner of a majority.  It does not hold: EXPIRE of a key that *)
(* is gone is no error.                                                    *)
ExtendedIsOwned ==
  \A c \in extended : Valid(c) => Cardinality(Owned(c)) >= Quorum

=============================================================================
