----------------------------- MODULE RedisProofs ------------------------------
(***************************************************************************)
(* shared/db on Redis.  Redlock for every number of instances, every set of*)
(* clients and all times to live: who holds a lock owns a majority of the  *)
(* instances, hence two clients never hold it at once.  And what a reader of*)
(* the cache gets, for any number of processes, readers, writers and       *)
(* changes.                                                                *)
(***************************************************************************)
EXTENDS Redlock, ProtectedCache, FiniteSetTheorems, WellFoundedInduction, TLAPS

-----------------------------------------------------------------------------
(***************************************************************************)
(* Redlock                                                                 *)
(***************************************************************************)

(* The instances that hold c's value and will go on holding it until life  *)
(* has passed since age was 0.                                             *)
Alive(v, t, age, life, c) == {n \in Nodes : v[n] = c /\ t[n] + age >= life}

(* What an unfinished round has won is c's for what its lock is good for;  *)
(* outside of a round and an Extend nothing counts as won.                 *)
WonInv ==
  \A c \in Clients :
    /\ pc[c] \in {"idle", "release", "held"} => won[c] = {}
    /\ pc[c] = "try" /\ round[c] < Sure(c)
         => \A n \in won[c] : value[n] = c /\ ttl[n] + round[c] >= Sure(c)

(* A lock stands on a majority that outlives it.                           *)
AliveInv ==
  \A c \in Clients \ extended :
    Valid(c) => Cardinality(Alive(value, ttl, since[c], Sure(c), c)) >= Quorum

(* EXPIRE goes to the instance that GET was sent to, and a call has the    *)
(* time to live that it was given.                                         *)
LoopInv ==
  \A c \in Clients :
    /\ pc[c] = "expire" => at[c] \in Nodes
    /\ pc[c] # "idle" => expires[c] \in Lives

IInv == TypeOK /\ LoopInv /\ WonInv /\ AliveInv

-----------------------------------------------------------------------------
(* Sets of instances are finite and counted by naturals.                   *)
LEMMA NodesFinite ==
  /\ IsFiniteSet(Nodes) /\ Cardinality(Nodes) = N
  /\ \A S \in SUBSET Nodes : IsFiniteSet(S) /\ Cardinality(S) \in Nat
<1>1. IsFiniteSet(Nodes) /\ Cardinality(Nodes) = N
  BY FS_Interval, RedlockAssumption DEF Nodes
<1>2. ASSUME NEW S \in SUBSET Nodes
      PROVE  IsFiniteSet(S) /\ Cardinality(S) \in Nat
  BY <1>1, FS_Subset, FS_CardinalityType
<1>. QED BY <1>1, <1>2

(* A superset of a majority is a majority.                                 *)
LEMMA LargerIsMajority ==
  ASSUME NEW S \in SUBSET Nodes, NEW T \in SUBSET Nodes, S \subseteq T,
         Cardinality(S) >= Quorum
  PROVE  Cardinality(T) >= Quorum
<1>1. Cardinality(S) <= Cardinality(T) /\ Cardinality(S) \in Nat /\ Cardinality(T) \in Nat
  BY NodesFinite, FS_Subset
<1>2. Quorum \in Nat BY RedlockAssumption DEF Quorum
<1>. QED BY <1>1, <1>2

(* Two majorities meet.                                                    *)
LEMMA MajoritiesMeet ==
  ASSUME NEW S \in SUBSET Nodes, NEW T \in SUBSET Nodes,
         Cardinality(S) >= Quorum, Cardinality(T) >= Quorum
  PROVE  S \intersect T # {}
<1>. SUFFICES ASSUME S \intersect T = {} PROVE FALSE OBVIOUS
<1>1. /\ IsFiniteSet(S) /\ IsFiniteSet(T)
      /\ Cardinality(S) \in Nat /\ Cardinality(T) \in Nat
  BY NodesFinite
<1>2. Cardinality(S \union T) = Cardinality(S) + Cardinality(T) - Cardinality({})
  BY <1>1, FS_Union
<1>3. Cardinality({}) = 0 BY FS_EmptySet
<1>4. Cardinality(S \union T) <= N
  <2>1. S \union T \subseteq Nodes OBVIOUS
  <2>. QED BY <2>1, NodesFinite, FS_Subset
<1>5. 2 * Quorum > N BY RedlockAssumption DEF Quorum
<1>6. Quorum \in Nat /\ N \in Nat BY RedlockAssumption DEF Quorum
<1>. QED BY <1>1, <1>2, <1>3, <1>4, <1>5, <1>6

-----------------------------------------------------------------------------
(* A set of naturals has a least element.                                  *)
LEMMA LeastOf ==
  ASSUME NEW T, T \subseteq Nat, T # {}
  PROVE  \E x \in T : \A y \in T : x <= y
<1>. DEFINE R == OpToRel(<, Nat)
<1>1. IsWellFoundedOn(R, Nat) BY NatLessThanWellFounded
<1>2. ASSUME NEW x \in Nat, NEW y \in Nat, y < x PROVE <<y, x>> \in R
  BY <1>2 DEF OpToRel
<1>. HIDE DEF R
<1>3. PICK x \in T : \A y \in T : <<y, x>> \notin R BY <1>1, WFMin
<1>4. ASSUME NEW y \in T PROVE x <= y
  <2>1. x \in Nat /\ y \in Nat OBVIOUS
  <2>2. ~(y < x) BY <1>2, <1>3, <2>1
  <2>. QED BY <2>1, <2>2
<1>. QED BY <1>3, <1>4

(* EXPIRE never sets no time, and never less than Shortest.                *)
LEMMA WholeIsPositive == \A e \in Lives : Whole(e) \in Nat \ {0}
<1>. SUFFICES ASSUME NEW e \in Lives PROVE Whole(e) \in Nat \ {0} OBVIOUS
<1>1. e \in Nat \ {0} /\ Second \in Nat \ {0} BY RedlockAssumption
<1>2. e % Second \in 0 .. Second - 1 BY <1>1
<1>. QED BY <1>1, <1>2 DEF Whole

LEMMA ShortestIsLeast ==
  Shortest \in Nat \ {0} /\ \A e \in Lives : Shortest <= Whole(e)
<1>. DEFINE T == {Whole(e) : e \in Lives}
<1>1. T \subseteq Nat /\ T # {} BY WholeIsPositive, RedlockAssumption
<1>2. \A x \in T : (\A y \in T : x <= y) => \A e \in Lives : x <= Whole(e) OBVIOUS
<1>3. \E x \in T : \A e \in Lives : x <= Whole(e)
  <2>. HIDE DEF T
  <2>1. \E x \in T : \A y \in T : x <= y BY <1>1, LeastOf
  <2>. QED BY <1>2, <2>1
<1>4. Shortest \in T /\ \A e \in Lives : Shortest <= Whole(e) BY <1>3 DEF Shortest
<1>5. Shortest \in Nat \ {0} BY <1>4, WholeIsPositive
<1>. QED BY <1>4, <1>5

LEMMA LifeType == \A x \in Lives \union {0} : x \in Nat
  BY RedlockAssumption

LEMMA SureType ==
  ASSUME TypeOK, NEW c \in Clients
  PROVE  Sure(c) \in Nat /\ Sure(c) <= expires[c] /\ Sure(c) <= Shortest /\ expires[c] \in Nat
<1>1. expires[c] \in Lives \union {0} BY DEF TypeOK
<1>2. expires[c] \in Nat BY <1>1, LifeType
<1>. QED BY <1>2, ShortestIsLeast DEF Sure

-----------------------------------------------------------------------------
LEMMA InitInv == Init => IInv
<1>. SUFFICES ASSUME Init PROVE IInv OBVIOUS
<1>1. TypeOK BY RedlockAssumption DEF Init, TypeOK, Nodes
<1>2. WonInv BY DEF Init, WonInv
<1>3. AliveInv BY DEF Init, AliveInv, Valid
<1>4. LoopInv BY DEF Init, LoopInv
<1>. QED BY <1>1, <1>2, <1>3, <1>4 DEF IInv

(* The loop over the instances stays within them.                          *)
LEMMA StepType ==
  ASSUME TypeOK, NEW c \in Clients, at[c] \in Nodes, Step(c)
  PROVE  at' \in [Clients -> 1 .. N + 1]
<1>1. at[c] + 1 \in 1 .. N + 1 BY RedlockAssumption DEF Nodes
<1>2. at \in [Clients -> 1 .. N + 1] BY DEF TypeOK
<1>3. at' = [at EXCEPT ![c] = at[c] + 1] BY DEF Step
<1>. QED BY <1>1, <1>2, <1>3

LEMMA TypeStep == ASSUME TypeOK, LoopInv, [Next]_vars PROVE TypeOK'
<1>. USE RedlockAssumption DEF TypeOK
<1>a. 1 \in 1 .. N + 1 /\ 0 \in Lives \union {0} OBVIOUS
<1>b. \A c \in Clients : expires[c] \in Nat BY SureType
<1>1. ASSUME NEW c \in Clients, Acquire(c) PROVE TypeOK'
  BY <1>1 DEF Acquire, keyVars, timeVars
<1>2. ASSUME NEW c \in Clients, SetNX(c) PROVE TypeOK'
  <2>1. at[c] \in Nodes /\ Step(c) /\ UNCHANGED <<pc, expires, elapsed, since, round, extended>>
    BY <1>2 DEF SetNX, timeVars
  <2>2. value' \in [Nodes -> Clients \union {Nobody, Stranger}] /\ ttl' \in [Nodes -> Nat]
    <3>1. CASE Put(c, at[c])
      <4>1. expires[c] \in Nat BY <1>b
      <4>. QED BY <3>1, <4>1 DEF Put
    <3>2. CASE UNCHANGED keyVars BY <3>2 DEF keyVars
    <3>. QED BY <1>2, <3>1, <3>2 DEF SetNX, keyVars
  <2>3. won' \in [Clients -> SUBSET Nodes]
    <3>1. CASE UNCHANGED won BY <3>1
    <3>2. CASE won' = [won EXCEPT ![c] = @ \union {at[c]}]
      <4>1. won[c] \union {at[c]} \in SUBSET Nodes BY <2>1
      <4>. QED BY <3>2, <4>1
    <3>. QED BY <1>2, <3>1, <3>2 DEF SetNX
  <2>4. at' \in [Clients -> 1 .. N + 1] BY <2>1, StepType
  <2>. QED BY <2>1, <2>2, <2>3, <2>4
<1>3. ASSUME NEW c \in Clients, Acquired(c) PROVE TypeOK'
  BY <1>3, <1>a DEF Acquired, keyVars
<1>4. ASSUME NEW c \in Clients, GiveUp(c) PROVE TypeOK'
  BY <1>4, <1>a DEF GiveUp, keyVars
<1>5. ASSUME NEW c \in Clients, Retry(c) PROVE TypeOK'
  BY <1>5, <1>a DEF Retry, keyVars
<1>6. ASSUME NEW c \in Clients, Release(c) PROVE TypeOK'
  BY <1>6, <1>a DEF Release, keyVars
<1>7. ASSUME NEW c \in Clients, Del(c) PROVE TypeOK'
  <2>1. at[c] \in Nodes /\ Step(c) /\ UNCHANGED <<pc, won, expires, elapsed, since, round, extended>>
    BY <1>7 DEF Del, timeVars
  <2>2. value' \in [Nodes -> Clients \union {Nobody, Stranger}] /\ ttl' \in [Nodes -> Nat]
    <3>1. CASE Remove(at[c])
      <4>. QED BY <3>1 DEF Remove
    <3>2. CASE UNCHANGED keyVars BY <3>2 DEF keyVars
    <3>. QED BY <1>7, <3>1, <3>2 DEF Del
  <2>3. at' \in [Clients -> 1 .. N + 1] BY <2>1, StepType
  <2>. QED BY <2>1, <2>2, <2>3
<1>8. ASSUME NEW c \in Clients, Released(c) PROVE TypeOK'
  BY <1>8, <1>a DEF Released, timeVars
<1>9. ASSUME NEW c \in Clients, Extend(c) PROVE TypeOK'
  BY <1>9, <1>a DEF Extend, keyVars, timeVars
<1>10. ASSUME NEW c \in Clients, Get(c) PROVE TypeOK'
  <2>1. at[c] \in Nodes /\ UNCHANGED <<value, ttl, won, expires, elapsed, since, round, extended>>
    BY <1>10 DEF Get, keyVars, timeVars
  <2>2. at' \in [Clients -> 1 .. N + 1]
    BY <1>10, <2>1, StepType DEF Get
  <2>3. pc' \in [Clients -> {"idle", "try", "held", "release", "get", "expire"}]
    BY <1>10 DEF Get
  <2>. QED BY <2>1, <2>2, <2>3
<1>11. ASSUME NEW c \in Clients, Expire(c), at[c] \in Nodes, expires[c] \in Lives PROVE TypeOK'
  <2>1. Step(c) /\ UNCHANGED <<value, expires, elapsed, since, round, extended>>
        /\ pc' = [pc EXCEPT ![c] = "get"]
        /\ won' = [won EXCEPT ![c] = won[c] \union {at[c]}]
    BY <1>11 DEF Expire, timeVars
  <2>2. at' \in [Clients -> 1 .. N + 1] BY <1>11, <2>1, StepType
  <2>3. ttl' \in [Nodes -> Nat]
    <3>1. Whole(expires[c]) \in Nat BY <1>11, WholeIsPositive
    <3>. QED BY <1>11, <3>1 DEF Expire
  <2>4. won[c] \union {at[c]} \in SUBSET Nodes BY <1>11
  <2>. QED BY <2>1, <2>2, <2>3, <2>4
<1>12. ASSUME NEW c \in Clients, ExpireFail(c), at[c] \in Nodes PROVE TypeOK'
  <2>1. Step(c) /\ UNCHANGED <<value, ttl, won, expires, elapsed, since, round, extended>>
        /\ pc' = [pc EXCEPT ![c] = "get"]
    BY <1>12 DEF ExpireFail, keyVars, timeVars
  <2>2. at' \in [Clients -> 1 .. N + 1] BY <1>12, <2>1, StepType
  <2>. QED BY <2>1, <2>2
<1>13. ASSUME NEW c \in Clients, Extended(c) PROVE TypeOK'
  <2>1. UNCHANGED <<value, ttl, expires, elapsed>> /\ pc' = [pc EXCEPT ![c] = "held"]
        /\ at' = [at EXCEPT ![c] = 1] /\ round' = [round EXCEPT ![c] = 0]
        /\ won' = [won EXCEPT ![c] = {}]
    BY <1>13 DEF Extended, keyVars
  <2>2. since' \in [Clients -> Nat] /\ extended' \subseteq Clients
    BY <1>13 DEF Extended
  <2>. QED BY <2>1, <2>2, <1>a
<1>14. ASSUME Tick PROVE TypeOK'
  <2>1. value' \in [Nodes -> Clients \union {Nobody, Stranger}] /\ ttl' \in [Nodes -> Nat]
    BY <1>14 DEF Tick
  <2>2. ASSUME NEW age \in [Clients -> Nat], NEW P, NEW e \in Nat
        PROVE  Older(age, P, e) \in [Clients -> Nat]
    BY DEF Older
  <2>3. elapsed' \in [Clients -> Nat] /\ since' \in [Clients -> Nat] /\ round' \in [Clients -> Nat]
    BY <1>14, <2>2 DEF Tick, AgeClients
  <2>. QED BY <1>14, <2>1, <2>3 DEF Tick, AgeClients
<1>15. ASSUME UNCHANGED vars PROVE TypeOK'
  BY <1>15 DEF vars, keyVars, timeVars
<1>. QED
  BY <1>1, <1>2, <1>3, <1>4, <1>5, <1>6, <1>7, <1>8, <1>9, <1>10, <1>11, <1>12, <1>13, <1>14, <1>15
     DEF Next, AcquireStep, ReleaseStep, ExtendStep, LoopInv, Expire, ExpireFail

ClientStep(c) ==
  Acquire(c) \/ Release(c) \/ Extend(c) \/ AcquireStep(c) \/ ReleaseStep(c) \/ ExtendStep(c)

LEMMA LoopStep == ASSUME TypeOK, LoopInv, [Next]_vars PROVE LoopInv'
<1>. SUFFICES ASSUME NEW d \in Clients
              PROVE  /\ pc'[d] = "expire" => at'[d] \in Nodes
                     /\ pc'[d] # "idle" => expires'[d] \in Lives
  BY DEF LoopInv
<1>. USE DEF TypeOK
<1>1. ASSUME NEW c \in Clients, pc[d] = "expire", pc'[d] = "expire", c = d,
             AcquireStep(c) \/ ReleaseStep(c) \/ ExtendStep(c) \/ Acquire(c) \/ Release(c) \/ Extend(c)
      PROVE  FALSE
  BY <1>1 DEF AcquireStep, ReleaseStep, ExtendStep, Acquire, Release, Extend, SetNX, Acquired,
     GiveUp, Retry, Del, Released, Get, Expire, ExpireFail, Extended
<1>2. ASSUME NEW c \in Clients, pc[d] # "expire", pc'[d] = "expire",
             AcquireStep(c) \/ ReleaseStep(c) \/ ExtendStep(c) \/ Acquire(c) \/ Release(c) \/ Extend(c)
      PROVE  at'[d] \in Nodes
  BY <1>2 DEF AcquireStep, ReleaseStep, ExtendStep, Acquire, Release, Extend, SetNX, Acquired,
     GiveUp, Retry, Del, Released, Get, Expire, ExpireFail, Extended
<1>3. ASSUME NEW c \in Clients, c # d, pc[d] = "expire",
             AcquireStep(c) \/ ReleaseStep(c) \/ ExtendStep(c) \/ Acquire(c) \/ Release(c) \/ Extend(c)
      PROVE  at'[d] = at[d]
  BY <1>3 DEF AcquireStep, ReleaseStep, ExtendStep, Acquire, Release, Extend, SetNX, Acquired,
     GiveUp, Retry, Del, Released, Get, Expire, ExpireFail, Extended, Step
<1>4. ASSUME Tick \/ UNCHANGED vars PROVE pc' = pc /\ at' = at /\ expires' = expires
  BY <1>4 DEF Tick, AgeClients, vars
<1>5. ASSUME NEW c \in Clients, pc'[d] # "idle",
             AcquireStep(c) \/ ReleaseStep(c) \/ ExtendStep(c) \/ Acquire(c) \/ Release(c) \/ Extend(c)
      PROVE  expires'[d] \in Lives
  <2>1. CASE Acquire(c)
    BY <1>5, <2>1 DEF Acquire, LoopInv
  <2>2. CASE Released(c)
    BY <1>5, <2>2 DEF Released, LoopInv
  <2>3. CASE ~Acquire(c) /\ ~Released(c)
    <3>1. expires' = expires
      BY <1>5, <2>3 DEF AcquireStep, ReleaseStep, ExtendStep, Release, Extend, SetNX, Acquired,
         GiveUp, Retry, Del, Get, Expire, ExpireFail, Extended
    <3>2. pc[d] # "idle"
      BY <1>5, <2>3 DEF AcquireStep, ReleaseStep, ExtendStep, Release, Extend, SetNX, Acquired,
         GiveUp, Retry, Del, Get, Expire, ExpireFail, Extended
    <3>. QED BY <3>1, <3>2 DEF LoopInv
  <2>. QED BY <2>1, <2>2, <2>3
<1>6. CASE \E c \in Clients : ClientStep(c)
  BY <1>1, <1>2, <1>3, <1>5, <1>6 DEF LoopInv, ClientStep
<1>. QED BY <1>4, <1>6 DEF LoopInv, Next, ClientStep

-----------------------------------------------------------------------------
(* What a client does to the keys of another one, or to its own before it  *)
(* gives the lock back, leaves them in place and never makes them shorter  *)
(* than Shortest.                                                          *)
LEMMA KeySafe ==
  ASSUME TypeOK, LoopInv, NEW c \in Clients, ClientStep(c), NEW d \in Clients,
         d # c \/ pc[c] # "release", NEW n \in Nodes, value[n] = d
  PROVE  value'[n] = d /\ (ttl'[n] >= ttl[n] \/ ttl'[n] >= Shortest)
<1>. ttl[n] \in Nat BY DEF TypeOK
<1>. d # Nobody /\ d # Stranger BY RedlockAssumption
<1>1. CASE UNCHANGED keyVars BY <1>1 DEF keyVars
<1>2. CASE SetNX(c)
  <2>1. UNCHANGED keyVars \/ (value[at[c]] = Nobody /\ Put(c, at[c]))
    BY <1>2 DEF SetNX, keyVars
  <2>2. CASE value[at[c]] = Nobody /\ Put(c, at[c])
    <3>1. n # at[c] BY <2>2
    <3>. QED BY <2>2, <3>1 DEF Put, TypeOK
  <2>. QED BY <1>1, <2>1, <2>2
<1>3. CASE Del(c)
  <2>1. UNCHANGED keyVars \/ (value[at[c]] = c /\ Remove(at[c]))
    BY <1>3 DEF Del
  <2>2. CASE value[at[c]] = c /\ Remove(at[c])
    <3>1. d # c BY <1>3 DEF Del
    <3>2. n # at[c] BY <2>2, <3>1
    <3>. QED BY <2>2, <3>2 DEF Remove, TypeOK
  <2>. QED BY <1>1, <2>1, <2>2
<1>4. CASE Released(c)
  <2>1. d # c BY <1>4 DEF Released
  <2>. QED BY <1>4, <2>1 DEF Released, TypeOK
<1>5. CASE Expire(c)
  <2>1. value' = value BY <1>5 DEF Expire
  <2>2. ttl'[n] = ttl[n] \/ ttl'[n] = Whole(expires[c]) BY <1>5 DEF Expire, TypeOK
  <2>3. Whole(expires[c]) >= Shortest
    BY <1>5, ShortestIsLeast, WholeIsPositive DEF Expire, LoopInv
  <2>. QED BY <2>1, <2>2, <2>3
<1>. QED
  BY <1>1, <1>2, <1>3, <1>4, <1>5
  DEF ClientStep, Acquire, Release, Extend, AcquireStep, Acquired, GiveUp, Retry,
      ReleaseStep, ExtendStep, Get, ExpireFail, Extended, keyVars

(* A client's step leaves what the others remember as it is. *)
LEMMA OthersKeep ==
  ASSUME TypeOK, NEW c \in Clients, ClientStep(c), NEW d \in Clients, d # c
  PROVE  /\ pc'[d] = pc[d] /\ won'[d] = won[d] /\ round'[d] = round[d]
         /\ expires'[d] = expires[d] /\ Sure(d)' = Sure(d)
         /\ since'[d] = since[d] /\ (d \in extended' <=> d \in extended)
<1>. USE DEF TypeOK, Sure
<1>1. CASE Acquire(c) BY <1>1 DEF Acquire, timeVars
<1>2. CASE Release(c) BY <1>2 DEF Release
<1>3. CASE Extend(c) BY <1>3 DEF Extend, timeVars
<1>4. CASE AcquireStep(c)
  BY <1>4 DEF AcquireStep, SetNX, Acquired, GiveUp, Retry, timeVars
<1>5. CASE ReleaseStep(c) BY <1>5 DEF ReleaseStep, Del, Released, timeVars
<1>6. CASE ExtendStep(c)
  BY <1>6 DEF ExtendStep, Get, Expire, ExpireFail, Extended, timeVars
<1>. QED BY <1>1, <1>2, <1>3, <1>4, <1>5, <1>6 DEF ClientStep

(* The tick takes one unit from each key and gives it to each clock that   *)
(* runs.                                                                   *)
LEMMA TickKeeps ==
  ASSUME TypeOK, Tick, NEW c \in Clients, NEW n \in Nodes, value[n] = c,
         NEW age \in Nat, NEW life \in Nat, ttl[n] + age >= life, age + 1 < life
  PROVE  value'[n] = c /\ ttl'[n] + age + 1 >= life
<1>1. ttl[n] \in Nat BY DEF TypeOK
<1>2. ttl[n] >= 2 BY <1>1
<1>3. ttl'[n] = ttl[n] - 1 /\ value'[n] = value[n] BY <1>1, <1>2 DEF Tick
<1>. QED BY <1>1, <1>2, <1>3

WonOf(c) ==
  /\ pc[c] \in {"idle", "release", "held"} => won[c] = {}
  /\ pc[c] = "try" /\ round[c] < Sure(c)
       => \A n \in won[c] : value[n] = c /\ ttl[n] + round[c] >= Sure(c)

LEMMA WonStep == ASSUME TypeOK, TypeOK', LoopInv, WonInv, [Next]_vars PROVE WonInv'
<1>. SUFFICES ASSUME NEW d \in Clients PROVE WonOf(d)'
  BY DEF WonInv, WonOf
<1>. WonOf(d) BY DEF WonInv, WonOf
<1>a. /\ won[d] \in SUBSET Nodes /\ round[d] \in Nat
      /\ won'[d] \in SUBSET Nodes
      /\ \A n \in Nodes : ttl[n] \in Nat /\ ttl'[n] \in Nat
  BY DEF TypeOK
<1>b. /\ Sure(d) \in Nat /\ Sure(d) <= expires[d] /\ Sure(d) <= Shortest
      /\ expires[d] \in Nat /\ Shortest \in Nat
  BY SureType, ShortestIsLeast
<1>c. expires'[d] = expires[d] => Sure(d)' = Sure(d) BY DEF Sure
<1>1. ASSUME NEW c \in Clients, ClientStep(c), c # d PROVE WonOf(d)'
  <2>1. pc'[d] = pc[d] /\ won'[d] = won[d] /\ round'[d] = round[d] /\ Sure(d)' = Sure(d)
    BY <1>1, OthersKeep
  <2>2. \A n \in Nodes : value[n] = d
          => value'[n] = d /\ (ttl'[n] >= ttl[n] \/ ttl'[n] >= Shortest)
    BY <1>1, KeySafe
  <2>. QED BY <1>a, <1>b, <2>1, <2>2 DEF WonOf
<1>2. ASSUME Acquire(d) PROVE WonOf(d)'
  BY <1>2 DEF Acquire, WonOf, TypeOK
<1>3. ASSUME SetNX(d) PROVE WonOf(d)'
  <2>1. pc'[d] = "try" /\ round'[d] = round[d] /\ Sure(d)' = Sure(d)
    BY <1>3, <1>c DEF SetNX, timeVars
  <2>2. ASSUME NEW n \in won[d], round[d] < Sure(d)
        PROVE  value'[n] = d /\ ttl'[n] + round[d] >= Sure(d)
    <3>1. n \in Nodes /\ value[n] = d /\ ttl[n] + round[d] >= Sure(d) /\ pc[d] = "try"
      BY <1>3, <1>a, <2>2 DEF WonOf, SetNX
    <3>2. value'[n] = d /\ (ttl'[n] >= ttl[n] \/ ttl'[n] >= Shortest)
      BY <1>3, <3>1, KeySafe DEF ClientStep, AcquireStep
    <3>. QED BY <3>1, <3>2, <1>a, <1>b
  <2>3. CASE won' = won BY <2>1, <2>2, <2>3 DEF WonOf
  <2>4. CASE Put(d, at[d]) /\ won' = [won EXCEPT ![d] = @ \union {at[d]}]
    <3>1. value'[at[d]] = d /\ ttl'[at[d]] = expires[d]
      BY <1>3, <2>4 DEF Put, SetNX, TypeOK
    <3>2. won'[d] = won[d] \union {at[d]} BY <2>4 DEF TypeOK
    <3>3. expires[d] + round[d] >= Sure(d) BY <1>a, <1>b
    <3>. QED BY <2>1, <2>2, <3>1, <3>2, <3>3 DEF WonOf
  <2>. QED BY <1>3, <2>3, <2>4 DEF SetNX
<1>4. ASSUME Extend(d) \/ Get(d) \/ Expire(d) \/ ExpireFail(d) PROVE WonOf(d)'
  <2>1. pc'[d] \notin {"idle", "release", "held", "try"}
    BY <1>4 DEF Extend, Get, Expire, ExpireFail, TypeOK
  <2>. QED BY <2>1 DEF WonOf
<1>5. ASSUME Acquired(d) \/ Extended(d) \/ GiveUp(d) \/ Retry(d) \/ Release(d) PROVE WonOf(d)'
  <2>1. won'[d] = {} BY <1>5 DEF Acquired, Extended, GiveUp, Retry, Release, TypeOK, WonOf
  <2>. QED BY <2>1 DEF WonOf
<1>6. ASSUME ReleaseStep(d) PROVE WonOf(d)'
  <2>1. pc[d] = "release" /\ won' = won /\ pc'[d] # "try"
    BY <1>6 DEF ReleaseStep, Del, Released, TypeOK
  <2>. QED BY <2>1 DEF WonOf
<1>7. ASSUME Tick PROVE WonOf(d)'
  <2>1. pc' = pc /\ won' = won /\ Sure(d)' = Sure(d) BY <1>7, <1>c DEF Tick, AgeClients
  <2>2. CASE pc[d] = "try" /\ round'[d] < Sure(d)
    <3>1. round'[d] = round[d] + 1
      BY <1>7, <1>a, <1>b, <2>2 DEF Tick, AgeClients, Older
    <3>2. \A n \in won[d] : value'[n] = d /\ ttl'[n] + round[d] + 1 >= Sure(d)
      BY <1>7, <1>a, <1>b, <2>2, <3>1, TickKeeps DEF WonOf
    <3>. QED BY <2>1, <2>2, <3>1, <3>2, <1>a, <1>b DEF WonOf
  <2>. QED BY <2>1, <2>2 DEF WonOf
<1>8. ASSUME UNCHANGED vars PROVE WonOf(d)'
  BY <1>8 DEF WonOf, Sure, vars, keyVars, timeVars
<1>. QED BY <1>1, <1>2, <1>3, <1>4, <1>5, <1>6, <1>7, <1>8
         DEF Next, ClientStep, AcquireStep, ExtendStep

AliveOf(d) ==
  d \notin extended /\ Valid(d) => Cardinality(Alive(value, ttl, since[d], Sure(d), d)) >= Quorum

(* A step that leaves the keys of d in place leaves its lock standing.     *)
LEMMA AliveKept ==
  ASSUME NEW d \in Clients, AliveOf(d), d \notin extended, Valid(d),
         Sure(d)' = Sure(d),
         \A n \in Nodes : value[n] = d /\ ttl[n] + since[d] >= Sure(d)
            => value'[n] = d /\ ttl'[n] + since'[d] >= Sure(d)
  PROVE  AliveOf(d)'
<1>. DEFINE S == Alive(value, ttl, since[d], Sure(d), d)
            T == Alive(value', ttl', since'[d], Sure(d)', d)
<1>1. S \in SUBSET Nodes /\ T \in SUBSET Nodes /\ S \subseteq T
  BY DEF Alive
<1>2. Cardinality(S) >= Quorum BY DEF AliveOf
<1>. HIDE DEF S, T
<1>3. Cardinality(T) >= Quorum BY <1>1, <1>2, LargerIsMajority
<1>. QED BY <1>3 DEF AliveOf, Alive, T

LEMMA AliveStep == ASSUME TypeOK, TypeOK', LoopInv, WonInv, AliveInv, [Next]_vars PROVE AliveInv'
<1>. SUFFICES ASSUME NEW d \in Clients, (d \notin extended)', Valid(d)'
              PROVE  AliveOf(d)'
  BY DEF AliveInv, AliveOf
<1>. AliveOf(d) BY DEF AliveInv, AliveOf
<1>a. /\ won[d] \in SUBSET Nodes
      /\ since[d] \in Nat /\ since'[d] \in Nat /\ round[d] \in Nat
      /\ \A n \in Nodes : ttl[n] \in Nat /\ ttl'[n] \in Nat
  BY DEF TypeOK
<1>b. /\ Sure(d) \in Nat /\ Sure(d) <= expires[d] /\ Sure(d) <= Shortest
      /\ expires[d] \in Nat /\ Shortest \in Nat
  BY SureType, ShortestIsLeast
<1>c. expires'[d] = expires[d] => Sure(d)' = Sure(d) BY DEF Sure
<1>1. ASSUME NEW c \in Clients, ClientStep(c),
             d \notin extended, Valid(d), since'[d] = since[d], Sure(d)' = Sure(d),
             c # d \/ pc[d] # "release"
      PROVE  AliveOf(d)'
  <2>1. \A n \in Nodes : value[n] = d
          => value'[n] = d /\ (ttl'[n] >= ttl[n] \/ ttl'[n] >= Shortest)
    BY <1>1, KeySafe
  <2>2. \A n \in Nodes : value[n] = d /\ ttl[n] + since[d] >= Sure(d)
            => value'[n] = d /\ ttl'[n] + since'[d] >= Sure(d)
    BY <1>1, <1>a, <1>b, <2>1
  <2>. QED BY <1>1, <2>2, AliveKept
<1>2. ASSUME NEW c \in Clients, ClientStep(c), c # d PROVE AliveOf(d)'
  <2>1. pc'[d] = pc[d] /\ since'[d] = since[d] /\ d \notin extended /\ Sure(d)' = Sure(d)
    BY <1>2, OthersKeep
  <2>2. Valid(d) BY <2>1 DEF Valid
  <2>. QED BY <1>1, <1>2, <2>1, <2>2
<1>3. ASSUME Acquired(d) PROVE AliveOf(d)'
  <2>1. since'[d] = round[d] /\ value' = value /\ ttl' = ttl /\ pc[d] = "try"
        /\ Cardinality(won[d]) >= Quorum /\ Sure(d)' = Sure(d)
    BY <1>3, <1>c DEF Acquired, keyVars, TypeOK
  <2>2. round[d] < Sure(d) BY <2>1 DEF Valid
  <2>3. \A n \in won[d] : value[n] = d /\ ttl[n] + round[d] >= Sure(d)
    BY <2>1, <2>2 DEF WonInv
  <2>. DEFINE T == Alive(value', ttl', since'[d], Sure(d)', d)
  <2>4. T \in SUBSET Nodes /\ won[d] \subseteq T
    BY <1>a, <2>1, <2>3 DEF Alive
  <2>. HIDE DEF T
  <2>5. Cardinality(T) >= Quorum BY <1>a, <2>1, <2>4, LargerIsMajority
  <2>. QED BY <2>5 DEF AliveOf, Alive, T
<1>4. ASSUME Extend(d) \/ ExtendStep(d) PROVE AliveOf(d)'
  <2>1. /\ pc[d] \in {"held", "get", "expire"} /\ since'[d] = since[d]
        /\ d \notin extended /\ Sure(d)' = Sure(d)
    BY <1>4, <1>c DEF Extend, ExtendStep, Get, Expire, ExpireFail, Extended, timeVars
  <2>2. Valid(d) BY <2>1 DEF Valid
  <2>. QED BY <1>1, <1>4, <2>1, <2>2 DEF ClientStep
<1>5. ASSUME Acquire(d) \/ SetNX(d) \/ GiveUp(d) \/ Retry(d) \/ Release(d) \/ ReleaseStep(d)
      PROVE  FALSE
  BY <1>5 DEF Valid, Acquire, SetNX, GiveUp, Retry, Release, ReleaseStep, Del, Released, TypeOK
<1>6. ASSUME Tick PROVE AliveOf(d)'
  <2>1. pc' = pc /\ extended' = extended /\ Sure(d)' = Sure(d)
    BY <1>6, <1>c DEF Tick, AgeClients
  <2>2. pc[d] \in {"held", "get", "expire"} /\ since'[d] < Sure(d)
    BY <2>1 DEF Valid
  <2>3. since'[d] = since[d] + 1
    BY <1>6, <1>a, <1>b, <2>2 DEF Tick, AgeClients, Older
  <2>4. Valid(d) /\ d \notin extended
    BY <1>a, <1>b, <2>1, <2>2, <2>3 DEF Valid
  <2>5. \A n \in Nodes : value[n] = d /\ ttl[n] + since[d] >= Sure(d)
            => value'[n] = d /\ ttl'[n] + since'[d] >= Sure(d)
    BY <1>6, <1>a, <1>b, <2>2, <2>3, TickKeeps
  <2>. QED BY <2>1, <2>4, <2>5, AliveKept
<1>7. ASSUME UNCHANGED vars PROVE AliveOf(d)'
  BY <1>7 DEF AliveOf, Alive, Valid, Sure, vars, keyVars, timeVars
<1>. QED BY <1>2, <1>3, <1>4, <1>5, <1>6, <1>7
         DEF Next, ClientStep, AcquireStep

(* The invariant is inductive. *)
LEMMA Invariant == Spec => []IInv
<1>1. Init => IInv BY InitInv
<1>2. IInv /\ [Next]_vars => IInv'
  BY TypeStep, LoopStep, WonStep, AliveStep DEF IInv
<1>. QED BY <1>1, <1>2, PTL DEF Spec

-----------------------------------------------------------------------------
(* Every variable keeps its type.                                          *)
THEOREM TypeCorrect == Spec => []TypeOK
<1>1. IInv => TypeOK BY DEF IInv
<1>. QED BY <1>1, Invariant, PTL

LEMMA AliveOwns == ASSUME IInv PROVE HeldIsOwned
<1>. SUFFICES ASSUME NEW c \in Clients \ extended, Valid(c)
              PROVE  Cardinality(Owned(c)) >= Quorum
  BY DEF HeldIsOwned
<1>. DEFINE S == Alive(value, ttl, since[c], Sure(c), c)
<1>1. Cardinality(S) >= Quorum BY DEF IInv, AliveInv
<1>2. S \in SUBSET Nodes /\ Owned(c) \in SUBSET Nodes /\ S \subseteq Owned(c)
  BY DEF Alive, Owned
<1>. HIDE DEF S
<1>. QED BY <1>1, <1>2, LargerIsMajority

(* Acquire hands out a lock only over a majority of the instances, and the *)
(* majority stays its owner's for what the lock is good for: other clients *)
(* cannot take or delete its keys, nor leave them less than Shortest.      *)
THEOREM HolderOwnsMajority == Spec => []HeldIsOwned
<1>1. IInv => HeldIsOwned BY AliveOwns
<1>. QED BY <1>1, Invariant, PTL

(* Two clients never hold the lock at once within what their locks are good*)
(* for, whatever times to live they asked for and for any number of instances: two majorities meet, *)
(* and an instance has one value.                                          *)
THEOREM LockExcludes == Spec => []MutualExclusion
<1>1. ASSUME IInv PROVE MutualExclusion
  <2>. SUFFICES ASSUME NEW c \in Clients \ extended, NEW d \in Clients \ extended,
                       Valid(c), Valid(d), c # d
                PROVE  FALSE
    BY DEF MutualExclusion
  <2>1. Cardinality(Owned(c)) >= Quorum /\ Cardinality(Owned(d)) >= Quorum
    BY <1>1, AliveOwns DEF HeldIsOwned
  <2>2. Owned(c) \in SUBSET Nodes /\ Owned(d) \in SUBSET Nodes
    BY DEF Owned
  <2>3. Owned(c) \intersect Owned(d) # {}
    BY <2>1, <2>2, MajoritiesMeet
  <2>. QED BY <2>3 DEF Owned
<1>. QED BY <1>1, Invariant, PTL

-----------------------------------------------------------------------------
(* What the lease of one client is. *)
LeaseOf(c) == IF c \notin extended /\ Valid(c) THEN Sure(c) - since[c] ELSE 0

LEMMA LeaseFacts ==
  ASSUME TypeOK, NEW c \in Clients
  PROVE  LeaseOf(c) \in 0 .. Shortest /\ (LeaseOf(c) # 0 => c \notin extended /\ Valid(c))
<1>1. since[c] \in Nat /\ Sure(c) \in Nat /\ Sure(c) <= Shortest /\ Shortest \in Nat
  BY SureType, ShortestIsLeast DEF TypeOK
<1>. QED BY <1>1 DEF LeaseOf, Valid

LEMMA LeaseFactsNext ==
  ASSUME TypeOK', NEW c \in Clients
  PROVE  LeaseOf(c)' \in 0 .. Shortest /\ (LeaseOf(c)' # 0 => c \notin extended' /\ Valid(c)')
<1>1. since'[c] \in Nat /\ Sure(c)' \in Nat /\ Sure(c)' <= Shortest /\ Shortest \in Nat
  <2>1. expires'[c] \in Lives \union {0} /\ since'[c] \in Nat BY DEF TypeOK
  <2>2. expires'[c] \in Nat BY <2>1, LifeType
  <2>. QED BY <2>1, <2>2, ShortestIsLeast DEF Sure
<1>. QED BY <1>1 DEF LeaseOf, Valid

(* What a client does to its own lease: end it, leave it, or begin one     *)
(* with a lock that it has just acquired.                                  *)
LEMMA OwnLease ==
  ASSUME TypeOK, NEW c \in Clients, ClientStep(c)
  PROVE  LeaseOf(c)' \in {0, LeaseOf(c)} \/ (Acquired(c) /\ LeaseOf(c) = 0)
<1>. USE DEF TypeOK, LeaseOf, Valid
<1>a. expires' = expires => Sure(c)' = Sure(c) BY DEF Sure
<1>1. CASE Acquire(c) \/ Release(c) \/ SetNX(c) \/ GiveUp(c) \/ Retry(c) \/ ReleaseStep(c)
  <2>1. pc'[c] \in {"try", "release", "idle"}
    BY <1>1 DEF Acquire, Release, SetNX, GiveUp, Retry, ReleaseStep, Del, Released
  <2>. QED BY <2>1
<1>2. CASE Acquired(c) BY <1>2 DEF Acquired
<1>3. CASE Extend(c) BY <1>3, <1>a DEF Extend, timeVars
<1>4. CASE Get(c) \/ Expire(c) \/ ExpireFail(c)
  <2>1. {pc[c], pc'[c]} \subseteq {"get", "expire"} /\ since' = since /\ extended' = extended
        /\ Sure(c)' = Sure(c)
    BY <1>4, <1>a DEF Get, Expire, ExpireFail, timeVars
  <2>. QED BY <2>1
<1>5. CASE Extended(c)
  <2>1. CASE c \in extended' BY <2>1
  <2>2. CASE c \notin extended'
    <3>1. since' = since /\ extended' = extended /\ pc[c] = "get" /\ pc'[c] = "held"
          /\ Sure(c)' = Sure(c)
      BY <1>5, <1>a, <2>2 DEF Extended
    <3>. QED BY <3>1
  <2>. QED BY <2>1, <2>2
<1>. QED BY <1>1, <1>2, <1>3, <1>4, <1>5 DEF ClientStep, AcquireStep, ExtendStep

(* Every step is one of a LeaseLock, or none.  A lease is given while no   *)
(* other runs because afterwards two would be valid.                       *)
LEMMA LeaseStep ==
  ASSUME TypeOK, TypeOK', MutualExclusion', [Next]_vars
  PROVE  [LL!Next]_Lease
<1>a. /\ Lease = [c \in Clients |-> LeaseOf(c)]
      /\ Lease' = [c \in Clients |-> LeaseOf(c)']
      /\ \A c \in Clients :
           /\ LeaseOf(c) \in 0 .. Shortest /\ LeaseOf(c)' \in 0 .. Shortest
           /\ LeaseOf(c)' # 0 => c \notin extended' /\ Valid(c)'
  BY LeaseFacts, LeaseFactsNext DEF Lease, LeaseOf
<1>1. ASSUME NEW c \in Clients, ClientStep(c) PROVE [LL!Next]_Lease
  <2>1. \A d \in Clients : d # c => LeaseOf(d)' = LeaseOf(d)
    BY <1>1, OthersKeep DEF LeaseOf, Valid
  <2>2. Lease' = [Lease EXCEPT ![c] = LeaseOf(c)'] BY <1>a, <2>1
  <2>3. CASE LeaseOf(c)' = 0
    <3>1. LL!Return(c) BY <2>2, <2>3 DEF LL!Return
    <3>. QED BY <3>1 DEF LL!Next
  <2>4. CASE LeaseOf(c)' = LeaseOf(c)
    BY <1>a, <2>2, <2>4
  <2>5. CASE Acquired(c) /\ LeaseOf(c) = 0 /\ LeaseOf(c)' # 0
    <3>1. \A d \in Clients : d # c => LeaseOf(d)' = 0
      BY <1>a, <2>5 DEF MutualExclusion
    <3>2. \A d \in Clients : Lease[d] = 0 BY <1>a, <2>1, <2>5, <3>1
    <3>3. LeaseOf(c)' \in 1 .. Shortest BY <1>a, <2>5
    <3>4. LL!Grant(c) BY <2>2, <3>2, <3>3 DEF LL!Grant
    <3>. QED BY <3>4 DEF LL!Next
  <2>. QED BY <1>1, <2>3, <2>4, <2>5, OwnLease
<1>2. ASSUME Tick PROVE [LL!Next]_Lease
  <2>1. pc' = pc /\ extended' = extended /\ expires' = expires
        /\ since' = Older(since, {"held", "get", "expire"}, 0)
    BY <1>2 DEF Tick, AgeClients
  <2>2. ASSUME NEW c \in Clients
        PROVE  LeaseOf(c)' = IF LeaseOf(c) = 0 THEN 0 ELSE LeaseOf(c) - 1
    <3>1. /\ since[c] \in Nat /\ Sure(c) \in Nat /\ Sure(c)' = Sure(c)
          /\ expires[c] \in Nat /\ Sure(c) <= expires[c]
      BY <2>1, SureType DEF TypeOK, Sure
    <3>2. CASE pc[c] \in {"held", "get", "expire"} /\ c \notin extended
      <4>1. since'[c] = IF since[c] < expires[c] THEN since[c] + 1 ELSE since[c]
        BY <2>1, <3>1, <3>2 DEF Older
      <4>2. LeaseOf(c) = IF since[c] < Sure(c) THEN Sure(c) - since[c] ELSE 0
        BY <3>2 DEF LeaseOf, Valid
      <4>3. LeaseOf(c)' = IF since'[c] < Sure(c)' THEN Sure(c)' - since'[c] ELSE 0
        BY <2>1, <3>2 DEF LeaseOf, Valid
      <4>. QED BY <3>1, <4>1, <4>2, <4>3
    <3>. QED BY <2>1, <3>2 DEF LeaseOf, Valid
  <2>3. LL!Pass BY <1>a, <2>2 DEF LL!Pass
  <2>. QED BY <2>3 DEF LL!Next
<1>3. ASSUME UNCHANGED vars PROVE [LL!Next]_Lease
  BY <1>3 DEF vars, timeVars, Lease, Valid, Sure
<1>. QED BY <1>1, <1>2, <1>3 DEF Next, ClientStep

(* The instances, their keys and the three operations implement LeaseLock. *)
THEOREM LockIsLease == Spec => LeaseLockSpec
<1>1. Init => LL!Init BY DEF Init, LL!Init, Lease, Valid
<1>. QED BY <1>1, LeaseStep, TypeCorrect, LockExcludes, PTL DEF Spec, LeaseLockSpec, LL!Spec

-----------------------------------------------------------------------------
(***************************************************************************)
(* ProtectedCache                                                          *)
(***************************************************************************)

(* A value is somewhere on its way to a reader: in the key, in a flight    *)
(* that has asked the data source, or with a writer that may set it.       *)
Around(seen) ==
  /\ Value(version) \in seen
  /\ cache.set => \E v \in seen : cache.val = Cached(v)
  /\ \A p \in Processes : flight[p].pc = "fill" => flight[p].val \in seen
  /\ \A w \in Writers : writer[w] # Nothing => Value(writer[w]) \in seen

(* Whatever a waiting reader could be given, the row has had since the     *)
(* call, and so has what an answered one was given.                        *)
RecentInv ==
  \A r \in Readers :
    /\ reader[r].pc = "waits" /\ reader[r].settled => Around(reader[r].seen)
    /\ reader[r].pc = "answered" /\ reader[r].settled => reader[r].got \in reader[r].seen

CacheInv == CacheTypeOK /\ RecentInv

-----------------------------------------------------------------------------
(* What the cache holds for a value, and what is read back. *)
LEMMA ValueType == \A v \in Versions : Value(v) \in Values
  BY DEF Value, Values

LEMMA CachedType == \A v \in Values : Cached(v) \in CachedValues
  BY DEF Cached, Values, CachedValues

LEMMA KeyType ==
  ASSUME NEW v \in CachedValues, NEW by \in {"fill", "SetCache"},
         NEW own \in BOOLEAN
  PROVE  Key(v, by, own) \in
           [set : BOOLEAN, val : CachedValues,
            by : {"fill", "SetCache"}, expires : BOOLEAN]
  BY DEF Key

LEMMA ReadBack ==
  ASSUME NEW v \in Values, Cached(v) # Empty
  PROVE  (IF Cached(v) = Placeholder THEN Nothing ELSE Cached(v)) = v
  BY CacheAssumption DEF Cached, Values, Versions

LEMMA CacheInitInv == CacheInit => CacheInv
  <1> SUFFICES ASSUME CacheInit PROVE CacheInv
    OBVIOUS
  <1>1. CacheTypeOK
    BY CacheAssumption
    DEF CacheInit, CacheTypeOK, NoKey, NoFlight, Returned, Versions, Values, CachedValues
  <1>2. RecentInv
    BY DEF CacheInit, RecentInv, Returned
  <1> QED
    BY <1>1, <1>2 DEF CacheInv

-----------------------------------------------------------------------------
(* Types *)
LEMMA AnswerType ==
  ASSUME CacheTypeOK, NEW p \in Processes, NEW v \in Values, Answer(p, v)
  PROVE  /\ flight' \in [Processes -> [pc : {"none", "get", "fallback", "fill"}, val : Values]]
         /\ reader' \in [Readers ->
              [pc : {"idle", "waits", "answered"}, at : Processes \union {Nothing},
               got : Values, seen : SUBSET Values, settled : BOOLEAN]]
  BY DEF Answer, CacheTypeOK, NoFlight, Values

LEMMA NoAnswerType ==
  ASSUME CacheTypeOK, NEW p \in Processes, NoAnswer(p)
  PROVE  /\ flight' \in [Processes -> [pc : {"none", "get", "fallback", "fill"}, val : Values]]
         /\ reader' \in [Readers ->
              [pc : {"idle", "waits", "answered"}, at : Processes \union {Nothing},
               got : Values, seen : SUBSET Values, settled : BOOLEAN]]
  BY DEF NoAnswer, CacheTypeOK, NoFlight, Returned, Values

LEMMA CacheTypeStep == CacheTypeOK /\ [CacheNext]_cacheVars => CacheTypeOK'
  <1> SUFFICES ASSUME CacheTypeOK, [CacheNext]_cacheVars PROVE CacheTypeOK'
    OBVIOUS
  <1> USE CacheAssumption DEF CacheTypeOK
  <1>1. ASSUME NEW r \in Readers, NEW p \in Processes, Call(r, p) PROVE CacheTypeOK'
    <2>1. Value(version) \in Values /\ Settled \in BOOLEAN /\ Nothing \in Values
      BY ValueType DEF Values, Settled
    <2>2. [pc |-> "waits", at |-> p, got |-> Nothing, seen |-> {Value(version)},
           settled |-> Settled] \in
            [pc : {"idle", "waits", "answered"}, at : Processes \union {Nothing},
             got : Values, seen : SUBSET Values, settled : BOOLEAN]
      BY <2>1
    <2>3. reader' \in [Readers -> [pc : {"idle", "waits", "answered"},
             at : Processes \union {Nothing}, got : Values, seen : SUBSET Values,
             settled : BOOLEAN]]
      BY <1>1, <2>2 DEF Call
    <2>4. flight' \in [Processes -> [pc : {"none", "get", "fallback", "fill"}, val : Values]]
      BY <1>1, <2>1 DEF Call
    <2> QED
      BY <1>1, <2>3, <2>4 DEF Call
  <1>2. ASSUME NEW p \in Processes, GetCache(p) PROVE CacheTypeOK'
    <2>1. ASSUME flight' \in [Processes -> [pc : {"none", "get", "fallback", "fill"}, val : Values]],
                 reader' \in [Readers ->
                   [pc : {"idle", "waits", "answered"}, at : Processes \union {Nothing},
                    got : Values, seen : SUBSET Values, settled : BOOLEAN]]
          PROVE  CacheTypeOK'
      BY <1>2, <2>1 DEF GetCache
    <2>2. CacheTypeOK
      OBVIOUS
    <2>3. CASE cache.val = Empty /\ NoAnswer(p)
      <3> HIDE DEF CacheTypeOK
      <3> QED
        BY <2>1, <2>2, <2>3, NoAnswerType
    <2>4. CASE cache.val # Empty /\ Answer(p, IF cache.val = Placeholder THEN Nothing ELSE cache.val)
      <3>1. (IF cache.val = Placeholder THEN Nothing ELSE cache.val) \in Values
        BY <2>4 DEF Values, CachedValues
      <3> HIDE DEF CacheTypeOK
      <3> QED
        BY <2>1, <2>2, <2>4, <3>1, AnswerType
    <2>5. CASE flight' = [flight EXCEPT ![p].pc = "fallback"] /\ UNCHANGED reader
      BY <1>2, <2>5 DEF GetCache
    <2> QED
      BY <1>2, <2>3, <2>4, <2>5 DEF GetCache
  <1>3. ASSUME NEW p \in Processes, Fallback(p) PROVE CacheTypeOK'
    BY <1>3, ValueType DEF Fallback
  <1>4. ASSUME NEW p \in Processes, Fill(p) PROVE CacheTypeOK'
    <2>1. flight[p].val \in Values
      OBVIOUS
    <2>2. cache' \in [set : BOOLEAN, val : CachedValues,
             by : {"fill", "SetCache"}, expires : BOOLEAN]
      <3>1. \A own \in BOOLEAN :
              Key(Cached(flight[p].val), "fill", own) \in
                [set : BOOLEAN, val : CachedValues,
                 by : {"fill", "SetCache"}, expires : BOOLEAN]
        BY <2>1, CachedType, KeyType
      <3> QED
        BY <1>4, <3>1 DEF Fill
    <2>3. CacheTypeOK /\ Answer(p, flight[p].val)
      BY <1>4 DEF Fill
    <2> HIDE DEF CacheTypeOK
    <2>4. /\ flight' \in [Processes -> [pc : {"none", "get", "fallback", "fill"}, val : Values]]
          /\ reader' \in [Readers ->
               [pc : {"idle", "waits", "answered"}, at : Processes \union {Nothing},
                got : Values, seen : SUBSET Values, settled : BOOLEAN]]
      BY <2>1, <2>3, AnswerType
    <2> QED
      BY <1>4, <2>2, <2>3, <2>4 DEF Fill, CacheTypeOK
  <1>5. ASSUME NEW p \in Processes, Fails(p) PROVE CacheTypeOK'
    <2>1. CacheTypeOK /\ NoAnswer(p)
      BY <1>5 DEF Fails
    <2> HIDE DEF CacheTypeOK
    <2> QED
      BY <1>5, <2>1, NoAnswerType DEF Fails, CacheTypeOK
  <1>6. ASSUME NEW w \in Writers, Write(w) PROVE CacheTypeOK'
    <2>1. version + 1 \in Versions
      BY <1>6 DEF Write, Versions
    <2>2. Value(version + 1) \in Values
      BY <2>1, ValueType
    <2>3. UNCHANGED <<cache, flight>>
      BY <1>6 DEF Write
    <2>4. version' \in Versions /\ writer' \in [Writers -> Versions \union {Nothing}]
      BY <1>6, <2>1 DEF Write
    <2>5. reader' \in [Readers ->
            [pc : {"idle", "waits", "answered"}, at : Processes \union {Nothing},
             got : Values, seen : SUBSET Values, settled : BOOLEAN]]
      <3>1. PICK new \in Values :
              reader' = [r \in Readers |->
                IF reader[r].pc = "waits"
                THEN [reader[r] EXCEPT !.seen = @ \union {new}] ELSE reader[r]]
        BY <1>6, <2>2 DEF Write
      <3>2. ASSUME NEW r \in Readers
            PROVE  [reader[r] EXCEPT !.seen = @ \union {new}] \in
                     [pc : {"idle", "waits", "answered"}, at : Processes \union {Nothing},
                      got : Values, seen : SUBSET Values, settled : BOOLEAN]
        <4>1. reader[r] \in [pc : {"idle", "waits", "answered"},
                at : Processes \union {Nothing}, got : Values, seen : SUBSET Values,
                settled : BOOLEAN]
          OBVIOUS
        <4>2. reader[r].seen \union {new} \in SUBSET Values
          BY <4>1
        <4> HIDE DEF CacheTypeOK
        <4> QED
          BY <4>1, <4>2
      <3> QED
        BY <3>1, <3>2
    <2> QED
      BY <2>3, <2>4, <2>5
  <1>7. ASSUME NEW w \in Writers, RemoveKeyCache(w) PROVE CacheTypeOK'
    <2>1. NoKey \in [set : BOOLEAN, val : CachedValues,
             by : {"fill", "SetCache"}, expires : BOOLEAN]
      BY DEF NoKey, CachedValues
    <2> QED
      BY <1>7, <2>1 DEF RemoveKeyCache, Done
  <1>8. ASSUME NEW w \in Writers, SetCache(w) PROVE CacheTypeOK'
    <2>1. Value(writer[w]) \in CachedValues
      BY <1>8 DEF SetCache, Value, CachedValues
    <2>2. cache' \in [set : BOOLEAN, val : CachedValues,
             by : {"fill", "SetCache"}, expires : BOOLEAN]
      BY <1>8, <2>1, KeyType DEF SetCache
    <2> QED
      BY <1>8, <2>2 DEF SetCache, Done
  <1>9. CASE KeyExpires
    <2>1. NoKey \in [set : BOOLEAN, val : CachedValues,
             by : {"fill", "SetCache"}, expires : BOOLEAN]
      BY DEF NoKey, CachedValues
    <2> QED
      BY <1>9, <2>1 DEF KeyExpires
  <1>10. CASE UNCHANGED cacheVars
    BY <1>10 DEF cacheVars
  <1> QED
    BY <1>1, <1>2, <1>3, <1>4, <1>5, <1>6, <1>7, <1>8, <1>9, <1>10 DEF CacheNext, Flight

-----------------------------------------------------------------------------
(* When nobody holds an outdated value, the current one is all there is.   *)
LEMMA SettledAround == CacheTypeOK /\ Settled => Around({Value(version)})
  BY DEF Settled, Around, CacheTypeOK

(* A flight that ends gives its readers what was around for them.          *)
LEMMA AnswerRecent ==
  ASSUME CacheTypeOK, RecentInv, NEW p \in Processes, NEW v, Answer(p, v),
         \A r \in Readers, s \in SUBSET Values :
           reader[r].pc = "waits" /\ reader[r].settled /\ reader[r].seen = s
             => v \in s /\ Around(s)'
  PROVE  RecentInv'
  <1> SUFFICES ASSUME NEW r \in Readers
               PROVE  /\ reader'[r].pc = "waits" /\ reader'[r].settled
                         => Around(reader[r].seen)'
                      /\ reader'[r].pc = "answered" /\ reader'[r].settled
                         => reader'[r].got \in reader'[r].seen
    BY DEF RecentInv
  <1>1. reader[r].seen \in SUBSET Values
    BY DEF CacheTypeOK
  <1>2. CASE reader[r].pc = "waits" /\ reader[r].at = p
    BY <1>1, <1>2 DEF Answer, CacheTypeOK
  <1>3. CASE ~(reader[r].pc = "waits" /\ reader[r].at = p)
    <2>1. reader'[r] = reader[r]
      BY <1>3 DEF Answer
    <2> QED
      BY <1>1, <2>1 DEF RecentInv
  <1> QED
    BY <1>2, <1>3

LEMMA NoAnswerRecent ==
  ASSUME CacheTypeOK, RecentInv, NEW p \in Processes, NoAnswer(p),
         \A s \in SUBSET Values : Around(s) => Around(s)'
  PROVE  RecentInv'
  BY DEF NoAnswer, Returned, RecentInv, CacheTypeOK

LEMMA RecentStep == CacheTypeOK /\ RecentInv /\ [CacheNext]_cacheVars => RecentInv'
  <1> SUFFICES ASSUME CacheTypeOK, RecentInv, [CacheNext]_cacheVars PROVE RecentInv'
    OBVIOUS
  <1>1. ASSUME NEW r \in Readers, NEW p \in Processes, Call(r, p) PROVE RecentInv'
    <2>1. \A s \in SUBSET Values : Around(s) => Around(s)'
      BY <1>1 DEF Call, Around, CacheTypeOK
    <2>2. ASSUME NEW q \in Readers, q # r
          PROVE  reader'[q] = reader[q]
      BY <1>1, <2>2 DEF Call, CacheTypeOK
    <2>3. reader'[r].pc = "waits" /\ reader'[r].seen = {Value(version)}
          /\ reader'[r].settled = Settled
      BY <1>1 DEF Call, CacheTypeOK
    <2>4. {Value(version)} \in SUBSET Values
      BY ValueType DEF CacheTypeOK
    <2>5. Settled => Around({Value(version)})'
      BY <1>1, SettledAround DEF Call, Around, CacheTypeOK
    <2>6. ASSUME NEW q \in Readers
          PROVE  /\ reader'[q].pc = "waits" /\ reader'[q].settled => Around(reader[q].seen)'
                 /\ reader'[q].pc = "answered" /\ reader'[q].settled
                    => reader'[q].got \in reader'[q].seen
      <3>1. CASE q = r
        BY <1>1, <2>3, <2>5, <3>1 DEF Around, Call
      <3>2. CASE q # r
        <4>1. reader'[q] = reader[q] /\ reader[q].seen \in SUBSET Values
          BY <2>2, <3>2 DEF CacheTypeOK
        <4>2. ASSUME NEW s \in SUBSET Values, s = reader[q].seen, Around(s)
              PROVE  Around(reader[q].seen)'
          BY <2>1, <4>1, <4>2
        <4> QED
          BY <4>1, <4>2 DEF RecentInv
      <3> QED
        BY <3>1, <3>2
    <2> QED
      BY <2>6 DEF RecentInv
  <1>2. ASSUME NEW p \in Processes, GetCache(p) PROVE RecentInv'
    <2>1. \A s \in SUBSET Values : Around(s) => Around(s)'
      <3>1. \A q \in Processes : flight'[q].pc = "fill" => flight'[q] = flight[q]
        <4>1. CASE cache.set /\ cache.val # Empty /\ Answer(p, IF cache.val = Placeholder THEN Nothing ELSE cache.val)
          BY <4>1 DEF Answer, CacheTypeOK, NoFlight
        <4>2. CASE flight' = [flight EXCEPT ![p].pc = "fallback"]
          BY <4>2 DEF CacheTypeOK
        <4>3. CASE NoAnswer(p)
          BY <4>3 DEF NoAnswer, CacheTypeOK, NoFlight
        <4> QED
          BY <1>2, <4>1, <4>2, <4>3 DEF GetCache
      <3>2. UNCHANGED <<version, cache, writer>>
        BY <1>2 DEF GetCache
      <3> QED
        BY <3>1, <3>2 DEF Around, Value, Cached
    <2>2. CASE cache.set /\ cache.val # Empty /\ Answer(p, IF cache.val = Placeholder THEN Nothing ELSE cache.val)
      <3> DEFINE v == IF cache.val = Placeholder THEN Nothing ELSE cache.val
      <3>1. ASSUME NEW r \in Readers, reader[r].pc = "waits", reader[r].settled
            PROVE  v \in reader[r].seen
        <4>1. PICK u \in reader[r].seen : cache.val = Cached(u)
          BY <2>2, <3>1 DEF RecentInv, Around
        <4>2. u \in Values
          BY DEF CacheTypeOK
        <4> QED
          BY <2>2, <4>1, <4>2, ReadBack
      <3>2. Answer(p, v)
        BY <2>2
      <3> HIDE DEF v
      <3>3. ASSUME NEW r \in Readers, NEW s \in SUBSET Values,
                   reader[r].pc = "waits", reader[r].settled, reader[r].seen = s
            PROVE  v \in s /\ Around(s)'
        BY <2>1, <3>1, <3>3 DEF RecentInv
      <3> QED
        BY <3>2, <3>3, AnswerRecent
    <2>3. CASE flight' = [flight EXCEPT ![p].pc = "fallback"] /\ UNCHANGED reader
      BY <2>1, <2>3 DEF RecentInv, CacheTypeOK
    <2>4. CASE NoAnswer(p)
      BY <2>1, <2>4, NoAnswerRecent
    <2> QED
      BY <1>2, <2>2, <2>3, <2>4 DEF GetCache
  <1>3. ASSUME NEW p \in Processes, Fallback(p) PROVE RecentInv'
    <2>1. \A s \in SUBSET Values : Around(s) => Around(s)'
      BY <1>3 DEF Fallback, Around, CacheTypeOK
    <2> QED
      BY <1>3, <2>1 DEF Fallback, RecentInv, CacheTypeOK
  <1>4. ASSUME NEW p \in Processes, Fill(p) PROVE RecentInv'
    <2> DEFINE v == flight[p].val
    <2>1. ASSUME NEW r \in Readers, NEW s \in SUBSET Values,
                 reader[r].pc = "waits", reader[r].settled, reader[r].seen = s
          PROVE  v \in s /\ Around(s)'
      <3>1. v \in s /\ Around(s)
        BY <1>4, <2>1 DEF Fill, RecentInv, Around
      <3>2. cache'.set => \E u \in s : cache'.val = Cached(u)
        <4>1. PICK k : /\ cache' = k
                       /\ k = cache \/ \E own \in BOOLEAN : k = Key(Cached(v), "fill", own)
          BY <1>4 DEF Fill
        <4>2. CASE k = cache
          BY <3>1, <4>1, <4>2 DEF Around
        <4>3. ASSUME NEW own \in BOOLEAN, k = Key(Cached(v), "fill", own)
              PROVE  cache'.val = Cached(v)
          BY <4>1, <4>3 DEF Key
        <4> QED
          BY <3>1, <4>1, <4>2, <4>3
      <3>3. \A q \in Processes : flight'[q].pc = "fill" => flight'[q] = flight[q]
        BY <1>4 DEF Fill, Answer, CacheTypeOK, NoFlight
      <3> QED
        BY <1>4, <3>1, <3>2, <3>3 DEF Fill, Around
    <2>2. Answer(p, v)
      BY <1>4 DEF Fill
    <2> QED
      BY <2>1, <2>2, AnswerRecent
  <1>5. ASSUME NEW p \in Processes, Fails(p) PROVE RecentInv'
    <2>1. \A s \in SUBSET Values : Around(s) => Around(s)'
      BY <1>5 DEF Fails, NoAnswer, Around, CacheTypeOK, NoFlight
    <2> QED
      BY <1>5, <2>1, NoAnswerRecent DEF Fails
  <1>6. ASSUME NEW w \in Writers, Write(w) PROVE RecentInv'
    <2>1. \A s, t \in SUBSET Values :
            Around(s) /\ t = s \union {Value(version + 1)} => Around(t)'
      <3> SUFFICES ASSUME NEW s \in SUBSET Values, NEW t \in SUBSET Values, Around(s),
                          t = s \union {Value(version + 1)}
                   PROVE  Around(t)'
        OBVIOUS
      <3>1. \A z \in Writers : writer'[z] # Nothing => Value(writer'[z]) \in t
        BY <1>6 DEF Write, Around, CacheTypeOK
      <3> QED
        BY <1>6, <3>1 DEF Write, Around, Value, Cached
    <2>2. ASSUME NEW r \in Readers
          PROVE  /\ reader[r].pc = "waits" => reader'[r] =
                      [reader[r] EXCEPT !.seen = @ \union {Value(version + 1)}]
                 /\ reader[r].pc # "waits" => reader'[r] = reader[r]
      BY <1>6 DEF Write
    <2>3. ASSUME NEW r \in Readers, reader[r].pc = "waits"
          PROVE  /\ reader'[r].pc = "waits" /\ reader'[r].settled = reader[r].settled
                 /\ reader'[r].seen = reader[r].seen \union {Value(version + 1)}
      BY <2>2, <2>3 DEF CacheTypeOK
    <2>4. ASSUME NEW r \in Readers
          PROVE  reader[r].seen \in SUBSET Values /\ reader'[r].seen \in SUBSET Values
      BY CacheTypeStep DEF CacheTypeOK
    <2>5. ASSUME NEW r \in Readers, reader[r].pc = "waits", reader[r].settled
          PROVE  Around(reader[r].seen)'
      <3>1. Around(reader[r].seen)
        BY <2>5 DEF RecentInv
      <3> QED
        BY <2>1, <2>3, <2>4, <2>5, <3>1 DEF Around
    <2>6. SUFFICES ASSUME NEW r \in Readers
                   PROVE  /\ reader'[r].pc = "waits" /\ reader'[r].settled
                             => Around(reader[r].seen)'
                          /\ reader'[r].pc = "answered" /\ reader'[r].settled
                             => reader'[r].got \in reader'[r].seen
      BY DEF RecentInv
    <2>7. CASE reader[r].pc = "waits"
      BY <2>3, <2>5, <2>7
    <2>8. CASE reader[r].pc # "waits"
      BY <2>2, <2>8 DEF RecentInv
    <2> QED
      BY <2>7, <2>8
  <1>7. ASSUME NEW w \in Writers, RemoveKeyCache(w) PROVE RecentInv'
    <2>1. \A s \in SUBSET Values : Around(s) => Around(s)'
      BY <1>7 DEF RemoveKeyCache, Done, NoKey, Around, CacheTypeOK
    <2> QED
      BY <1>7, <2>1 DEF RemoveKeyCache, RecentInv, CacheTypeOK
  <1>8. ASSUME NEW w \in Writers, SetCache(w) PROVE RecentInv'
    <2>1. \A s \in SUBSET Values : Around(s) => Around(s)'
      <3> SUFFICES ASSUME NEW s \in SUBSET Values, Around(s) PROVE Around(s)'
        OBVIOUS
      <3>1. Value(writer[w]) \in s /\ cache'.val = Cached(Value(writer[w]))
        BY <1>8 DEF SetCache, Around, Key, Cached
      <3> QED
        BY <1>8, <3>1 DEF SetCache, Done, Around, CacheTypeOK
    <2> QED
      BY <1>8, <2>1 DEF SetCache, RecentInv, CacheTypeOK
  <1>9. CASE KeyExpires
    <2>1. \A s \in SUBSET Values : Around(s) => Around(s)'
      BY <1>9 DEF KeyExpires, NoKey, Around, CacheTypeOK
    <2> QED
      BY <1>9, <2>1 DEF KeyExpires, RecentInv, CacheTypeOK
  <1>10. CASE UNCHANGED cacheVars
    BY <1>10 DEF cacheVars, RecentInv, Around
  <1> QED
    BY <1>1, <1>2, <1>3, <1>4, <1>5, <1>6, <1>7, <1>8, <1>9, <1>10 DEF CacheNext, Flight

-----------------------------------------------------------------------------
LEMMA CacheInvariance == CacheSpec => []CacheInv
  <1>1. CacheInv /\ [CacheNext]_cacheVars => CacheInv'
    BY CacheTypeStep, RecentStep DEF CacheInv
  <1> QED
    BY CacheInitInv, <1>1, PTL DEF CacheSpec

(* The variables of the cache keep their types. *)
THEOREM CacheTypeCorrect == CacheSpec => []CacheTypeOK
  <1>1. CacheInv => CacheTypeOK
    BY DEF CacheInv
  <1> QED
    BY CacheInvariance, <1>1, PTL

(* redis.go:275-343: a call that begins when nobody holds an outdated      *)
(* value gets one that the row has while the call lasts, however many      *)
(* writers change the row meanwhile and whoever fills the key.             *)
THEOREM RecentAnswers == CacheSpec => []AnswerIsRecent
  <1>1. CacheInv => AnswerIsRecent
    BY DEF CacheInv, RecentInv, AnswerIsRecent
  <1> QED
    BY CacheInvariance, <1>1, PTL
=============================================================================
