--------------------------- MODULE MessagingProofs ---------------------------
(***************************************************************************)
(* The way of an event: what the outbox relay, the broker and the consumer *)
(* keep and deliver, for any orders, relays and batch size; and what the   *)
(* RabbitMQ client promises its callers, for any number of publishers,     *)
(* retries and connections.                                                *)
(***************************************************************************)
EXTENDS OutboxRelay, RabbitMQClient, FiniteSetTheorems, TLAPS

-----------------------------------------------------------------------------
(***************************************************************************)
(* The outbox                                                              *)
(***************************************************************************)

(* Type correctness.                                                       *)

(* The consumer's goroutine holds a delivery exactly while it works on it, *)
(* and acks only what the handler has accepted.                            *)
ConsumerOK ==
  /\ consumer \in {"handling", "acking"} <=> msg # NoMsg
  /\ consumer = "acking" => msg \in handled

TypeInv == TypeOK /\ ConsumerOK

(* TypeInv holds initially: no table, batch or queue has a row yet. *)
LEMMA TypeInit == Init => TypeInv
BY OutboxAssumption DEF Init, TypeInv, TypeOK, ConsumerOK, TxState

(* TypeInv is preserved by every action of OutboxRelay. *)
LEMMA TypeStep == TypeInv /\ [Next]_vars => TypeInv'
<1> SUFFICES ASSUME TypeInv, [Next]_vars PROVE TypeInv'
  OBVIOUS
<1> USE OutboxAssumption DEF TypeInv, TypeOK, ConsumerOK, TxState,
        dbVars, relayVars, brokerVars, consumerVars
<1>1. CASE OrderNext
  BY <1>1 DEF OrderNext, InsertOrder, StoreEvent, CommitOrder, RollbackOrder
<1>2. CASE PublishNext
  <2>1. PICK r \in Relays, e \in Orders : PublishOk(r, e) \/ PublishLost(r, e) \/ PublishFail(r, e)
    BY <1>2 DEF PublishNext
  <2>2. CASE PublishOk(r, e)
    BY <2>2 DEF PublishOk
  <2>3. CASE PublishLost(r, e)
    BY <2>3 DEF PublishLost
  <2>4. CASE PublishFail(r, e)
    BY <2>4 DEF PublishFail
  <2> QED
    BY <2>1, <2>2, <2>3, <2>4
<1>3. CASE RelayNext
  <2>1. ASSUME NEW r \in Relays, SelectBatch(r) PROVE TypeInv'
    BY <2>1 DEF SelectBatch
  <2>2. ASSUME NEW r \in Relays, CommitBatch(r) \/ RollbackBatch(r) PROVE TypeInv'
    BY <2>2 DEF CommitBatch, RollbackBatch
  <2>3. ASSUME NEW r \in Relays, Stop(r) \/ ClosePublisher(r) \/ ExitLoop(r) PROVE TypeInv'
    BY <2>3 DEF Stop, ClosePublisher, ExitLoop
  <2>4. ASSUME NEW r \in Relays, Crash(r) PROVE TypeInv'
    BY <2>4 DEF Crash
  <2>5. ASSUME NEW r \in Relays, Restart(r) PROVE TypeInv'
    BY <2>5 DEF Restart
  <2> QED
    BY <1>3, <2>1, <2>2, <2>3, <2>4, <2>5 DEF RelayNext
<1>4. CASE ConsumerNext
  <2>1. CASE \E o \in Orders : Receive(o)
    BY <2>1 DEF Receive
  <2>2. CASE StartConsumer \/ HandleOk \/ Ack
    BY <2>2 DEF StartConsumer, HandleOk, Ack
  <2>3. CASE HandleFail
    BY <2>3 DEF HandleFail
  <2>4. CASE StopConsumer
    BY <2>4 DEF StopConsumer
  <2>5. CASE RestartBroker
    BY <2>5 DEF RestartBroker
  <2> QED
    BY <1>4, <2>1, <2>2, <2>3, <2>4, <2>5 DEF ConsumerNext
<1>5. CASE UNCHANGED vars
  BY <1>5 DEF vars
<1> QED
  BY <1>1, <1>2, <1>3, <1>4, <1>5 DEF Next

(* Every reachable state is well typed. *)
THEOREM TypeCorrect == Spec => []TypeOK
<1>1. TypeInv => TypeOK
  BY DEF TypeInv
<1> QED
  BY <1>1, TypeInit, TypeStep, PTL DEF Spec

-----------------------------------------------------------------------------
(* Safety: no phantom event, and no event deleted before it was published. *)

(* Only committed orders have outbox rows, and an order is committed once, *)
(* at the end of its CreateOrder.                                          *)
TablesOK ==
  /\ outbox \subseteq orders
  /\ \A o \in orders : tx[o] \in {"ok", "failed"}

(* Batches hold events of committed orders; the successIDs were published; *)
(* a relay outside processOutbox holds no batch.                           *)
BatchesOK ==
  \A r \in Relays :
    /\ todo[r] \subseteq orders
    /\ done[r] \subseteq orders
    /\ todo[r] \cap done[r] = {}
    /\ \A e \in done[r] : pubs[e] > 0
    /\ pc[r] # "publishing" => todo[r] = {} /\ done[r] = {}

SafetyInv == TypeInv /\ TablesOK /\ BatchesOK /\ NoPhantomEvent /\ KeptUntilPublished

(* SafetyInv holds initially: nothing is committed, selected or published. *)
LEMMA SafetyInit == Init => SafetyInv
BY TypeInit, OutboxAssumption
   DEF Init, SafetyInv, TablesOK, BatchesOK, NoPhantomEvent, KeptUntilPublished

(* SafetyInv is preserved by every action of OutboxRelay. *)
LEMMA SafetyStep == SafetyInv /\ [Next]_vars => SafetyInv'
<1> SUFFICES ASSUME SafetyInv, [Next]_vars PROVE SafetyInv'
  OBVIOUS
<1> USE OutboxAssumption DEF SafetyInv, TypeInv, TypeOK, ConsumerOK, TxState,
        TablesOK, BatchesOK, NoPhantomEvent, KeptUntilPublished,
        dbVars, relayVars, brokerVars, consumerVars
<1>t. TypeInv'
  BY TypeStep
<1>1. ASSUME NEW o \in Orders, InsertOrder(o) PROVE SafetyInv'
  BY <1>t, <1>1 DEF InsertOrder
<1>2. ASSUME NEW o \in Orders, StoreEvent(o) PROVE SafetyInv'
  BY <1>t, <1>2 DEF StoreEvent
<1>3. ASSUME NEW o \in Orders, CommitOrder(o) PROVE SafetyInv'
  BY <1>t, <1>3 DEF CommitOrder
<1>4. ASSUME NEW o \in Orders, RollbackOrder(o) PROVE SafetyInv'
  BY <1>t, <1>4 DEF RollbackOrder
<1>5. ASSUME NEW r \in Relays, NEW e \in Orders, PublishOk(r, e) PROVE SafetyInv'
  BY <1>t, <1>5 DEF PublishOk, IsNext
<1>6. ASSUME NEW r \in Relays, NEW e \in Orders, PublishLost(r, e) PROVE SafetyInv'
  BY <1>t, <1>6 DEF PublishLost, IsNext
<1>7. ASSUME NEW r \in Relays, NEW e \in Orders, PublishFail(r, e) PROVE SafetyInv'
  BY <1>t, <1>7 DEF PublishFail, IsNext
<1>8. ASSUME NEW r \in Relays, SelectBatch(r) PROVE SafetyInv'
  BY <1>t, <1>8 DEF SelectBatch
<1>9. ASSUME NEW r \in Relays, CommitBatch(r) PROVE SafetyInv'
  BY <1>t, <1>9 DEF CommitBatch
<1>10. ASSUME NEW r \in Relays, RollbackBatch(r) PROVE SafetyInv'
  BY <1>t, <1>10 DEF RollbackBatch
<1>11. ASSUME NEW r \in Relays, Stop(r) \/ ClosePublisher(r) PROVE SafetyInv'
  BY <1>t, <1>11 DEF Stop, ClosePublisher
<1>12. ASSUME NEW r \in Relays, ExitLoop(r) \/ Restart(r) PROVE SafetyInv'
  BY <1>t, <1>12 DEF ExitLoop, Restart
<1>13. ASSUME NEW r \in Relays, Crash(r) PROVE SafetyInv'
  BY <1>t, <1>13 DEF Crash
<1>14. ASSUME NEW o \in Orders, Receive(o) PROVE SafetyInv'
  BY <1>t, <1>14 DEF Receive
<1>15. CASE StartConsumer \/ HandleOk \/ Ack
  BY <1>t, <1>15 DEF StartConsumer, HandleOk, Ack
<1>16. CASE HandleFail
  BY <1>t, <1>16 DEF HandleFail
<1>17. CASE StopConsumer
  BY <1>t, <1>17 DEF StopConsumer
<1>18. CASE RestartBroker
  BY <1>t, <1>18 DEF RestartBroker
<1>19. CASE UNCHANGED vars
  BY <1>t, <1>19 DEF vars
<1> QED
  BY <1>1, <1>2, <1>3, <1>4, <1>5, <1>6, <1>7, <1>8, <1>9, <1>10, <1>11, <1>12,
     <1>13, <1>14, <1>15, <1>16, <1>17, <1>18, <1>19
     DEF Next, OrderNext, PublishNext, RelayNext, ConsumerNext

(* SafetyInv holds in every reachable state. *)
LEMMA SafetyAlways == Spec => []SafetyInv
BY SafetyInit, SafetyStep, PTL DEF Spec

(* No event of an order that did not commit is ever published or handled. *)
THEOREM NoPhantoms == Spec => []NoPhantomEvent
<1>1. SafetyInv => NoPhantomEvent
  BY DEF SafetyInv
<1> QED
  BY <1>1, SafetyAlways, PTL

(* A committed event leaves the outbox only after a Publish returned nil. *)
THEOREM Kept == Spec => []KeptUntilPublished
<1>1. SafetyInv => KeptUntilPublished
  BY DEF SafetyInv
<1> QED
  BY <1>1, SafetyAlways, PTL

-----------------------------------------------------------------------------
(* At least once, where the broker loses nothing.                          *)

(* The broker's side has o's message, or the handler has had it. *)
Taken(o) == queue[o] > 0 \/ msg = o \/ o \in handled

(* What was published is on the broker's side, also while its batch could  *)
(* still roll back; hence the delete loses nothing.                        *)
LosslessInv ==
  ~Lossy =>
    /\ bound
    /\ \A r \in Relays : \A e \in done[r] : Taken(e)
    /\ \A o \in orders : o \in outbox \/ Taken(o)

(* LosslessInv holds initially: without losses the queue exists. *)
LEMMA LosslessInit == Init => LosslessInv
BY OutboxAssumption DEF Init, LosslessInv

(* LosslessInv is preserved by every action of OutboxRelay. *)
LEMMA LosslessStep == SafetyInv /\ LosslessInv /\ [Next]_vars => LosslessInv'
<1> SUFFICES ASSUME SafetyInv, LosslessInv, [Next]_vars, ~Lossy PROVE LosslessInv'
  BY DEF LosslessInv
<1> USE OutboxAssumption DEF SafetyInv, TypeInv, TypeOK, ConsumerOK, BatchesOK, Taken, LosslessInv,
        dbVars, relayVars, brokerVars, consumerVars
<1>1. ASSUME NEW o \in Orders, InsertOrder(o) \/ StoreEvent(o) \/ CommitOrder(o) \/ RollbackOrder(o)
      PROVE  LosslessInv'
  <2>1. CASE InsertOrder(o) \/ StoreEvent(o)
    BY <2>1 DEF InsertOrder, StoreEvent
  <2>2. CASE CommitOrder(o)
    BY <2>2 DEF CommitOrder
  <2>3. CASE RollbackOrder(o)
    BY <2>3 DEF RollbackOrder
  <2> QED
    BY <1>1, <2>1, <2>2, <2>3
<1>2. ASSUME NEW r \in Relays, NEW e \in Orders, PublishOk(r, e) PROVE LosslessInv'
  BY <1>2 DEF PublishOk, IsNext
<1>3. ASSUME NEW r \in Relays, NEW e \in Orders, PublishFail(r, e) PROVE LosslessInv'
  BY <1>3 DEF PublishFail, IsNext
<1>4. ASSUME NEW r \in Relays, SelectBatch(r) PROVE LosslessInv'
  BY <1>4 DEF SelectBatch
<1>5. ASSUME NEW r \in Relays, CommitBatch(r) PROVE LosslessInv'
  BY <1>5 DEF CommitBatch
<1>6. ASSUME NEW r \in Relays, RollbackBatch(r) \/ Crash(r) PROVE LosslessInv'
  BY <1>6 DEF RollbackBatch, Crash
<1>7. ASSUME NEW r \in Relays, Stop(r) \/ ClosePublisher(r) \/ ExitLoop(r) \/ Restart(r)
      PROVE LosslessInv'
  BY <1>7 DEF Stop, ClosePublisher, ExitLoop, Restart
<1>8. ASSUME NEW o \in Orders, Receive(o) PROVE LosslessInv'
  BY <1>8 DEF Receive
<1>9. CASE StartConsumer \/ HandleOk \/ Ack
  <2>1. CASE StartConsumer
    BY <2>1 DEF StartConsumer
  <2>2. CASE HandleOk
    BY <2>2 DEF HandleOk
  <2>3. CASE Ack
    BY <2>3 DEF Ack
  <2> QED
    BY <1>9, <2>1, <2>2, <2>3
<1>10. CASE HandleFail
  BY <1>10 DEF HandleFail
<1>11. CASE StopConsumer
  BY <1>11 DEF StopConsumer
<1>12. CASE UNCHANGED vars
  BY <1>12 DEF vars
<1> QED
  BY <1>1, <1>2, <1>3, <1>4, <1>5, <1>6, <1>7, <1>8, <1>9, <1>10, <1>11, <1>12
     DEF Next, OrderNext, PublishNext, RelayNext, ConsumerNext, PublishLost, RestartBroker

(* LosslessInv holds in every reachable state. *)
LEMMA LosslessAlways == Spec => [](SafetyInv /\ LosslessInv)
BY SafetyInit, SafetyStep, LosslessInit, LosslessStep, PTL DEF Spec

(* Where the broker loses nothing, every committed order's notification is *)
(* handled or still held somewhere, through all rollbacks and restarts.    *)
THEOREM LosslessDelivery == Spec => []AtLeastOnceIfLossless
<1>1. SafetyInv /\ LosslessInv => AtLeastOnceIfLossless
  BY DEF LosslessInv, AtLeastOnceIfLossless, AtLeastOnce, Held, Taken,
         SafetyInv, TypeInv, TypeOK
<1> QED
  BY <1>1, LosslessAlways, PTL

-----------------------------------------------------------------------------
(* OutboxRelay implements EventDelivery.                                   *)

(* EventDelivery's pending under the refinement mapping. *)
Owed == (orders \cap Held) \ handled

(* Nothing but the commit of an order makes something hold its event anew. *)
HeldStep == Held' \subseteq Held

(* A step that changes neither orders nor handled, and by which nothing    *)
(* comes to be held anew, is a step of EventDelivery: it loses what is no  *)
(* longer held, which without losses is nothing.                           *)
LEMMA LosingStep ==
  ASSUME SafetyInv, LosslessInv, SafetyInv', LosslessInv',
         orders' = orders, handled' = handled, HeldStep
  PROVE  [ED!Next]_(ED!vars)
<1> USE DEF SafetyInv, TypeInv, TypeOK
<1>1. Owed' \subseteq Owed
  BY DEF Owed, HeldStep
<1>2. CASE Lossy
  <2> DEFINE S == Owed \ Owed'
  <2>1. S \in SUBSET Owed /\ Owed' = Owed \ S
    BY <1>1
  <2>2. ED!Lose(S)
    BY <1>2, <2>1 DEF ED!Lose, Owed
  <2> QED
    BY <2>1, <2>2 DEF ED!Next, Owed
<1>3. CASE ~Lossy
  <2>1. Owed = orders \ handled /\ Owed' = orders \ handled
    BY <1>3 DEF Owed, Held, LosslessInv, Taken
  <2> QED
    BY <2>1 DEF ED!vars, Owed
<1> QED
  BY <1>2, <1>3, OutboxAssumption

(* Every step of OutboxRelay is a step of EventDelivery or changes nothing *)
(* that EventDelivery sees.                                                *)
LEMMA RefinementStep ==
  SafetyInv /\ LosslessInv /\ SafetyInv' /\ LosslessInv' /\ [Next]_vars
    => [ED!Next]_(ED!vars)
<1> SUFFICES ASSUME SafetyInv, LosslessInv, SafetyInv', LosslessInv', [Next]_vars
             PROVE  [ED!Next]_(ED!vars)
  OBVIOUS
<1> USE OutboxAssumption DEF SafetyInv, TypeInv, TypeOK, ConsumerOK,
        dbVars, relayVars, brokerVars, consumerVars
<1>1. ASSUME NEW o \in Orders, CommitOrder(o) PROVE [ED!Next]_(ED!vars)
  <2>1. o \notin orders /\ o \notin handled
    BY <1>1 DEF CommitOrder, TablesOK, NoPhantomEvent
  <2>2. Held' = Held \cup {o}
    BY <1>1 DEF CommitOrder, Held
  <2>4. Owed' = Owed \cup {o}
    BY <1>1, <2>1, <2>2 DEF CommitOrder, Owed
  <2>5. ED!Accept(o)
    BY <1>1, <2>1, <2>4 DEF ED!Accept, CommitOrder, Owed
  <2> QED
    BY <2>5 DEF ED!Next
<1>2. CASE HandleOk
  <2>1. Held' = Held
    BY <1>2 DEF HandleOk, Held
  <2>2. msg \in orders /\ msg \in Held
    BY <1>2 DEF HandleOk, NoPhantomEvent, Held
  <2>3. Owed' = Owed \ {msg} /\ handled' = handled \cup {msg} /\ orders' = orders
    BY <1>2, <2>1 DEF HandleOk, Owed
  <2>4. CASE msg \in handled
    BY <2>3, <2>4 DEF ED!vars, Owed
  <2>5. CASE msg \notin handled
    <3>1. ED!Notify(msg)
      BY <2>2, <2>3, <2>5 DEF ED!Notify, Owed
    <3> QED
      BY <2>2, <3>1 DEF ED!Next
  <2> QED
    BY <2>4, <2>5
<1>3. ASSUME orders' = orders, handled' = handled, HeldStep PROVE [ED!Next]_(ED!vars)
  BY <1>3, LosingStep
<1>4. ASSUME NEW o \in Orders, InsertOrder(o) \/ StoreEvent(o) \/ RollbackOrder(o)
      PROVE  orders' = orders /\ handled' = handled /\ HeldStep
  BY <1>4 DEF InsertOrder, StoreEvent, RollbackOrder, HeldStep, Held
<1>5. ASSUME NEW r \in Relays, NEW e \in Orders, PublishOk(r, e)
      PROVE  orders' = orders /\ handled' = handled /\ HeldStep
  BY <1>5 DEF PublishOk, IsNext, HeldStep, Held
<1>6. ASSUME NEW r \in Relays, NEW e \in Orders, PublishLost(r, e) \/ PublishFail(r, e)
      PROVE  orders' = orders /\ handled' = handled /\ HeldStep
  BY <1>6 DEF PublishLost, PublishFail, HeldStep, Held
<1>7. ASSUME NEW r \in Relays, SelectBatch(r)
      PROVE  orders' = orders /\ handled' = handled /\ HeldStep
  BY <1>7 DEF SelectBatch, HeldStep, Held
<1>8. ASSUME NEW r \in Relays, CommitBatch(r) \/ RollbackBatch(r) \/ Crash(r)
      PROVE  orders' = orders /\ handled' = handled /\ HeldStep
  BY <1>8 DEF CommitBatch, RollbackBatch, Crash, HeldStep, Held
<1>9. ASSUME NEW r \in Relays, Stop(r) \/ ClosePublisher(r) \/ ExitLoop(r) \/ Restart(r)
      PROVE  orders' = orders /\ handled' = handled /\ HeldStep
  BY <1>9 DEF Stop, ClosePublisher, ExitLoop, Restart, HeldStep, Held
<1>10. ASSUME NEW o \in Orders, Receive(o)
       PROVE  orders' = orders /\ handled' = handled /\ HeldStep
  BY <1>10 DEF Receive, HeldStep, Held
<1>11. CASE StartConsumer \/ Ack
  <2>1. orders' = orders /\ handled' = handled /\ HeldStep
    BY <1>11 DEF StartConsumer, Ack, HeldStep, Held
  <2> QED
    BY <1>3, <2>1
<1>12. CASE HandleFail \/ StopConsumer \/ RestartBroker
  <2>1. orders' = orders /\ handled' = handled /\ HeldStep
    BY <1>12 DEF HandleFail, StopConsumer, RestartBroker, HeldStep, Held
  <2> QED
    BY <1>3, <2>1
<1>13. CASE UNCHANGED vars
  BY <1>13 DEF vars, ED!vars, Held
<1> QED
  BY <1>1, <1>2, <1>3, <1>4, <1>5, <1>6, <1>7, <1>8, <1>9, <1>10, <1>11, <1>12, <1>13
     DEF Next, OrderNext, PublishNext, RelayNext, ConsumerNext

(* The outbox, its relays, the broker and the consumer implement           *)
(* EventDelivery.                                                          *)
THEOREM Refinement == Spec => EventDeliverySpec
<1>1. Init => ED!Init
  BY DEF Init, ED!Init
<1> QED
  BY <1>1, RefinementStep, LosslessAlways, PTL DEF Spec, EventDeliverySpec, ED!Spec

-----------------------------------------------------------------------------
(* Duplicates: how often one event can be published.                       *)

(* The relays that still have o in their batch, and those whose successIDs *)
(* hold it.                                                                *)
Trying(o) == {r \in Relays : o \in todo[r]}
Published(o) == {r \in Relays : o \in done[r]}

(* While o is in the outbox no batch with it has committed, so each of its *)
(* publications belongs to a running or an aborted batch.  After its       *)
(* delete no relay can select it again, and only those still trying can    *)
(* publish it once more.                                                   *)
DuplicateInv ==
  \A o \in Orders :
    /\ o \in outbox => pubs[o] <= aborts + Cardinality(Published(o))
    /\ o \notin outbox => pubs[o] + Cardinality(Trying(o)) <= aborts + Cardinality(Relays)

(* Sizes of the two sets, and how they change by one relay. *)
LEMMA RelayCounts ==
  ASSUME SafetyInv, NEW o \in Orders
  PROVE  /\ IsFiniteSet(Trying(o)) /\ IsFiniteSet(Published(o))
         /\ Cardinality(Relays) \in Nat
         /\ Cardinality(Trying(o)) \in Nat
         /\ Cardinality(Published(o)) \in Nat
         /\ Cardinality(Trying(o)) + Cardinality(Published(o)) <= Cardinality(Relays)
<1> USE DEF SafetyInv, BatchesOK
<1>1. /\ Trying(o) \in SUBSET Relays /\ Published(o) \in SUBSET Relays
      /\ Trying(o) \cup Published(o) \in SUBSET Relays
      /\ Trying(o) \cap Published(o) = {}
  BY DEF Trying, Published
<1>2. IsFiniteSet(Relays) /\ IsFiniteSet(Trying(o)) /\ IsFiniteSet(Published(o))
  BY <1>1, FS_Subset, OutboxAssumption
<1>3. Cardinality(Trying(o) \cup Published(o))
        = Cardinality(Trying(o)) + Cardinality(Published(o)) - Cardinality({})
  BY <1>1, <1>2, FS_Union
<1>4. Cardinality(Trying(o) \cup Published(o)) <= Cardinality(Relays)
  BY <1>1, <1>2, FS_Subset
<1>5. Cardinality(Relays) \in Nat /\ Cardinality(Trying(o)) \in Nat /\ Cardinality(Published(o)) \in Nat
  BY <1>2, FS_CardinalityType
<1> QED
  BY <1>2, <1>3, <1>4, <1>5, FS_EmptySet

(* DuplicateInv holds initially: nothing has been published. *)
LEMMA DuplicateInit == Init => DuplicateInv
<1> SUFFICES ASSUME Init, NEW o \in Orders
             PROVE  /\ o \notin outbox
                    /\ pubs[o] + Cardinality(Trying(o)) <= aborts + Cardinality(Relays)
  BY DEF DuplicateInv
<1>1. Trying(o) = {}
  BY DEF Init, Trying
<1>2. Cardinality(Relays) \in Nat
  BY FS_CardinalityType, OutboxAssumption
<1> QED
  BY <1>1, <1>2, FS_EmptySet DEF Init

(* A step of relay r that publishes e, with the batches as PublishOk and   *)
(* PublishLost leave them.                                                 *)
LEMMA DuplicatePublish ==
  ASSUME SafetyInv, DuplicateInv, NEW r \in Relays, NEW e \in Orders,
         e \in todo[r],
         todo' = [todo EXCEPT ![r] = @ \ {e}],
         done' = [done EXCEPT ![r] = @ \cup {e}],
         pubs' = [pubs EXCEPT ![e] = @ + 1],
         aborts' = aborts, outbox' = outbox
  PROVE  DuplicateInv'
<1> SUFFICES ASSUME NEW o \in Orders
             PROVE  /\ o \in outbox => pubs'[o] <= aborts + Cardinality(Published(o)')
                    /\ o \notin outbox => pubs'[o] + Cardinality(Trying(o)') <= aborts + Cardinality(Relays)
  BY DEF DuplicateInv
<1> USE DEF SafetyInv, TypeInv, TypeOK
<1>1. CASE o # e
  <2>1. Trying(o)' = Trying(o) /\ Published(o)' = Published(o) /\ pubs'[o] = pubs[o]
    BY <1>1 DEF Trying, Published
  <2> QED
    BY <2>1 DEF DuplicateInv
<1>2. CASE o = e
  <2>1. Trying(o)' = Trying(o) \ {r} /\ Published(o)' = Published(o) \cup {r} /\ pubs'[o] = pubs[o] + 1
    BY <1>2 DEF Trying, Published
  <2>2. r \in Trying(o) /\ r \notin Published(o)
    BY <1>2 DEF Trying, Published, BatchesOK
  <2>3. /\ Cardinality(Trying(o)') = Cardinality(Trying(o)) - 1
        /\ Cardinality(Published(o)') = Cardinality(Published(o)) + 1
    <3>1. IsFiniteSet(Trying(o)) /\ IsFiniteSet(Published(o))
      BY RelayCounts
    <3>2. Cardinality(Trying(o) \ {r}) = Cardinality(Trying(o)) - 1
      BY <2>2, <3>1, FS_RemoveElement
    <3>3. Cardinality(Published(o) \cup {r}) = Cardinality(Published(o)) + 1
      BY <2>2, <3>1, FS_AddElement
    <3> QED
      BY <2>1, <3>2, <3>3
  <2>4. /\ o \in outbox => pubs[o] <= aborts + Cardinality(Published(o))
        /\ o \notin outbox => pubs[o] + Cardinality(Trying(o)) <= aborts + Cardinality(Relays)
    BY DEF DuplicateInv
  <2>5. pubs[o] \in Nat /\ aborts \in Nat
    BY OutboxAssumption
  <2> QED
    BY <2>1, <2>3, <2>4, <2>5, RelayCounts
<1> QED
  BY <1>1, <1>2

(* A step of relay r that ends its batch, committed, rolled back or by a   *)
(* crash: the batch is gone, and either it counts as aborted or its        *)
(* published events have left the outbox.                                  *)
LEMMA DuplicateEndBatch ==
  ASSUME SafetyInv, DuplicateInv, NEW r \in Relays,
         todo' = [todo EXCEPT ![r] = {}],
         done' = [done EXCEPT ![r] = {}],
         pubs' = pubs,
         \/ /\ todo[r] = {}
            /\ outbox' = outbox \ done[r]
            /\ aborts' = aborts
         \/ /\ outbox' = outbox
            /\ aborts' = IF done[r] = {} THEN aborts ELSE aborts + 1
  PROVE  DuplicateInv'
<1> SUFFICES ASSUME NEW o \in Orders
             PROVE  /\ o \in outbox' => pubs[o] <= aborts' + Cardinality(Published(o)')
                    /\ o \notin outbox' => pubs[o] + Cardinality(Trying(o)') <= aborts' + Cardinality(Relays)
  BY DEF DuplicateInv
<1> USE DEF SafetyInv, TypeInv, TypeOK
<1>1. Trying(o)' = Trying(o) \ {r} /\ Published(o)' = Published(o) \ {r}
  BY DEF Trying, Published
<1>2. /\ Cardinality(Trying(o)') <= Cardinality(Trying(o))
      /\ Cardinality(Trying(o)') \in Nat /\ Cardinality(Published(o)') \in Nat
      /\ Cardinality(Published(o)') =
           IF o \in done[r] THEN Cardinality(Published(o)) - 1 ELSE Cardinality(Published(o))
  <2>1. r \in Published(o) <=> o \in done[r]
    BY DEF Published
  <2>2. /\ Cardinality(Trying(o) \ {r}) =
             IF r \in Trying(o) THEN Cardinality(Trying(o)) - 1 ELSE Cardinality(Trying(o))
        /\ Cardinality(Published(o) \ {r}) =
             IF r \in Published(o) THEN Cardinality(Published(o)) - 1 ELSE Cardinality(Published(o))
        /\ IsFiniteSet(Trying(o) \ {r}) /\ IsFiniteSet(Published(o) \ {r})
    BY RelayCounts, FS_RemoveElement
  <2>3. Cardinality(Trying(o) \ {r}) \in Nat /\ Cardinality(Published(o) \ {r}) \in Nat
    BY <2>2, FS_CardinalityType
  <2> QED
    BY <1>1, <2>1, <2>2, <2>3, RelayCounts
<1>3. /\ o \in outbox => pubs[o] <= aborts + Cardinality(Published(o))
      /\ o \notin outbox => pubs[o] + Cardinality(Trying(o)) <= aborts + Cardinality(Relays)
  BY DEF DuplicateInv
<1>4. CASE outbox' = outbox \ done[r] /\ aborts' = aborts
  BY <1>2, <1>3, <1>4, RelayCounts, OutboxAssumption
<1>5. CASE outbox' = outbox /\ aborts' = IF done[r] = {} THEN aborts ELSE aborts + 1
  BY <1>2, <1>3, <1>5, RelayCounts, OutboxAssumption
<1> QED
  BY <1>4, <1>5

(* DuplicateInv is preserved by every action of OutboxRelay. *)
LEMMA DuplicateStep == SafetyInv /\ DuplicateInv /\ [Next]_vars => DuplicateInv'
<1> SUFFICES ASSUME SafetyInv, DuplicateInv, [Next]_vars PROVE DuplicateInv'
  OBVIOUS
<1> USE DEF SafetyInv, TypeInv, TypeOK, dbVars, relayVars, brokerVars, consumerVars
<1>1. ASSUME todo' = todo, done' = done, pubs' = pubs, aborts' = aborts, outbox' = outbox
      PROVE  DuplicateInv'
  BY <1>1 DEF DuplicateInv, Trying, Published
<1>2. ASSUME NEW o \in Orders, CommitOrder(o) PROVE DuplicateInv'
  <2>1. o \notin orders /\ pubs[o] = 0
    BY <1>2 DEF CommitOrder, TablesOK, NoPhantomEvent
  <2>2. \A p \in Orders : Trying(p)' = Trying(p) /\ Published(p)' = Published(p)
    BY <1>2 DEF CommitOrder, Trying, Published
  <2>3. pubs' = pubs /\ aborts' = aborts /\ outbox' = outbox \cup {o}
    BY <1>2 DEF CommitOrder
  <2>4. Cardinality(Published(o)) \in Nat
    BY RelayCounts
  <2> QED
    BY <2>1, <2>2, <2>3, <2>4, OutboxAssumption DEF DuplicateInv
<1>3. ASSUME NEW r \in Relays, NEW e \in Orders, PublishOk(r, e) \/ PublishLost(r, e)
      PROVE  DuplicateInv'
  BY <1>3, DuplicatePublish DEF PublishOk, PublishLost, IsNext
<1>4. ASSUME NEW r \in Relays, NEW e \in Orders, PublishFail(r, e) PROVE DuplicateInv'
  <2>1. \A o \in Orders : Trying(o)' \in SUBSET Trying(o) /\ Published(o)' = Published(o)
    BY <1>4 DEF PublishFail, Trying, Published
  <2>2. \A o \in Orders : /\ Cardinality(Trying(o)') <= Cardinality(Trying(o))
                          /\ Cardinality(Trying(o)') \in Nat
    <3> TAKE o \in Orders
    <3>1. IsFiniteSet(Trying(o)') /\ Cardinality(Trying(o)') <= Cardinality(Trying(o))
      BY <2>1, RelayCounts, FS_Subset
    <3> QED
      BY <3>1, FS_CardinalityType
  <2>3. pubs' = pubs /\ aborts' = aborts /\ outbox' = outbox
    BY <1>4 DEF PublishFail
  <2>4. \A o \in Orders : Cardinality(Trying(o)) \in Nat /\ Cardinality(Relays) \in Nat
    BY RelayCounts
  <2> QED
    BY <2>1, <2>2, <2>3, <2>4, OutboxAssumption DEF DuplicateInv
<1>5. ASSUME NEW r \in Relays, SelectBatch(r) PROVE DuplicateInv'
  <2>1. todo[r] = {} /\ todo'[r] \subseteq outbox
    BY <1>5 DEF SelectBatch, BatchesOK
  <2>2. \A o \in Orders : /\ Published(o)' = Published(o)
                          /\ o \notin outbox => Trying(o)' = Trying(o)
    BY <1>5, <2>1 DEF SelectBatch, Trying, Published
  <2> QED
    BY <1>5, <2>2 DEF SelectBatch, DuplicateInv
<1>6. ASSUME NEW r \in Relays, CommitBatch(r) \/ RollbackBatch(r) PROVE DuplicateInv'
  <2>1. todo[r] = {} /\ todo' = [todo EXCEPT ![r] = {}] /\ pubs' = pubs
    BY <1>6 DEF CommitBatch, RollbackBatch
  <2>2. done' = [done EXCEPT ![r] = {}]
    BY <1>6 DEF CommitBatch, RollbackBatch
  <2>3. \/ outbox' = outbox \ done[r] /\ aborts' = aborts
        \/ outbox' = outbox /\ done[r] # {} /\ aborts' = aborts + 1
    BY <1>6 DEF CommitBatch, RollbackBatch
  <2> QED
    BY <2>1, <2>2, <2>3, DuplicateEndBatch
<1>7. ASSUME NEW r \in Relays, Crash(r) PROVE DuplicateInv'
  BY <1>7, DuplicateEndBatch DEF Crash
<1>8. ASSUME NEW o \in Orders, InsertOrder(o) \/ StoreEvent(o) \/ RollbackOrder(o) \/ Receive(o)
      PROVE  DuplicateInv'
  BY <1>1, <1>8 DEF InsertOrder, StoreEvent, RollbackOrder, Receive
<1>9. ASSUME NEW r \in Relays, Stop(r) \/ ClosePublisher(r) \/ ExitLoop(r) \/ Restart(r)
      PROVE  DuplicateInv'
  BY <1>1, <1>9 DEF Stop, ClosePublisher, ExitLoop, Restart
<1>10. CASE StartConsumer \/ HandleOk \/ Ack \/ HandleFail \/ StopConsumer \/ RestartBroker
  BY <1>1, <1>10 DEF StartConsumer, HandleOk, Ack, HandleFail, StopConsumer, RestartBroker
<1>11. CASE UNCHANGED vars
  BY <1>1, <1>11 DEF vars
<1> QED
  BY <1>2, <1>3, <1>4, <1>5, <1>6, <1>7, <1>8, <1>9, <1>10, <1>11
     DEF Next, OrderNext, PublishNext, RelayNext, ConsumerNext

(* An event is published at most once per relay and once more for every    *)
(* batch that did not commit, although no row is locked.                   *)
THEOREM BoundedDuplicates == Spec => []DuplicatesBounded
<1>1. SafetyInv /\ DuplicateInv => DuplicatesBounded
  <2> SUFFICES ASSUME SafetyInv, DuplicateInv, NEW o \in Orders
               PROVE  pubs[o] <= Cardinality(Relays) + aborts
    BY DEF DuplicatesBounded
  <2>1. pubs[o] \in Nat /\ aborts \in Nat
    BY OutboxAssumption DEF SafetyInv, TypeInv, TypeOK
  <2> QED
    BY <2>1, RelayCounts DEF DuplicateInv
<1>2. Init => SafetyInv /\ DuplicateInv
  BY SafetyInit, DuplicateInit
<1>3. SafetyInv /\ DuplicateInv /\ [Next]_vars => (SafetyInv /\ DuplicateInv)'
  BY SafetyStep, DuplicateStep
<1> QED
  BY <1>1, <1>2, <1>3, PTL DEF Spec

-----------------------------------------------------------------------------
(***************************************************************************)
(* The RabbitMQ client                                                     *)
(***************************************************************************)

(* At most the connection in the field is open, and then the field channel *)
(* belongs to it; while the watcher dials, or is about to, none is.        *)
LinkInv ==
  /\ \A k \in Links : chans[k] = "open" => conns[k] = "open"
  /\ \A k \in Links : conns[k] = "open" => k = connection /\ k = channel
  /\ watcher = "dial" \/ notify = "err" => \A k \in Links : conns[k] # "open"
  /\ notify = "err" => watcher = "wait"
  /\ watcher # "dial" => connection # 0
  /\ channel # 0 => conns[channel] # "unused"

(* A publisher's channel belongs to a connection that was dialled, so that *)
(* it cannot open again; each call has written as its result says.         *)
CallInv ==
  \A p \in Publishers :
    /\ captured[p] # 0 => captured[p] \in Links /\ conns[captured[p]] # "unused"
    /\ call[p] = "send" => captured[p] # 0
    /\ attempt[p] > 1 /\ call[p] = "send" => ~IsOpen(captured[p])
    /\ call[p] = "ok" => written[p] = 1
    /\ call[p] # "ok" => written[p] = 0

ClientInv == ClientTypeOK /\ LinkInv /\ CallInv

-----------------------------------------------------------------------------
LEMMA ClientInitInv == ClientInit => ClientInv
  <1> SUFFICES ASSUME ClientInit PROVE ClientInv
    OBVIOUS
  <1>0. 1 \in Links
    BY ClientAssumption DEF Links
  <1>1. ClientTypeOK
    <2>1. 0 \in 0 .. MaxConns /\ 1 \in 0 .. MaxConns /\ 0 \in 0 .. MaxRetries
      BY ClientAssumption
    <2> QED
      BY <1>0, <2>1 DEF ClientInit, ClientTypeOK, LinkState
  <1>2. LinkInv
    BY <1>0 DEF ClientInit, LinkInv
  <1>3. CallInv
    BY DEF ClientInit, CallInv
  <1> QED
    BY <1>1, <1>2, <1>3 DEF ClientInv

(* Types *)
LEMMA ClientTypeStep == ClientTypeOK /\ [ClientNext]_clientVars => ClientTypeOK'
  <1> SUFFICES ASSUME ClientTypeOK, [ClientNext]_clientVars PROVE ClientTypeOK'
    OBVIOUS
  <1> USE ClientAssumption DEF ClientTypeOK, linkVars, fieldVars, watchVars, publishVars, consumeVars
  <1>l. Links \subseteq 0 .. MaxConns
    BY DEF Links
  <1>1. ASSUME NEW k \in Links, LoseConnection(k) \/ LoseChannel(k) PROVE ClientTypeOK'
    BY <1>1 DEF LoseConnection, LoseChannel, LinkState
  <1>2. CASE CheckClosed \/ RegisterNotify \/ ReceiveNotify \/ DialFail
    BY <1>2 DEF CheckClosed, RegisterNotify, ReceiveNotify, DialFail
  <1>3. ASSUME NEW k \in Links, ConnectOk(k) \/ ChannelFail(k) PROVE ClientTypeOK'
    BY <1>3, <1>l DEF ConnectOk, ChannelFail, LinkState
  <1>4. CASE Close
    BY <1>4 DEF Close, LinkState
  <1>5. ASSUME NEW p \in Publishers, BeginPublish(p) PROVE ClientTypeOK'
    BY <1>5, <1>l DEF BeginPublish
  <1>6. ASSUME NEW p \in Publishers, DeclareExchange(p) PROVE ClientTypeOK'
    BY <1>6 DEF DeclareExchange
  <1>7. ASSUME NEW p \in Publishers, SendOk(p) PROVE ClientTypeOK'
    BY <1>7 DEF SendOk
  <1>8. ASSUME NEW p \in Publishers, SendFail(p) PROVE ClientTypeOK'
    BY <1>8 DEF SendFail
  <1>9. CASE StartConsume \/ EndConsume
    BY <1>9 DEF StartConsume, EndConsume
  <1>10. CASE UNCHANGED clientVars
    BY <1>10 DEF clientVars
  <1> QED
    BY <1>1, <1>2, <1>3, <1>4, <1>5, <1>6, <1>7, <1>8, <1>9, <1>10
    DEF ClientNext, Watch, Connect, Redial, PublishStep

(* Connections *)
LEMMA LinkStep == ClientTypeOK /\ LinkInv /\ [ClientNext]_clientVars => LinkInv'
  <1> SUFFICES ASSUME ClientTypeOK, LinkInv, [ClientNext]_clientVars PROVE LinkInv'
    OBVIOUS
  <1> USE DEF ClientTypeOK, LinkInv, LinkState
  <1>1. ASSUME NEW k \in Links, LoseConnection(k) PROVE LinkInv'
    BY <1>1 DEF LoseConnection, fieldVars
  <1>2. ASSUME NEW k \in Links, LoseChannel(k) PROVE LinkInv'
    BY <1>2 DEF LoseChannel, fieldVars, watchVars
  <1>3. CASE CheckClosed
    BY <1>3 DEF CheckClosed, linkVars, fieldVars
  <1>4. CASE RegisterNotify
    BY <1>4 DEF RegisterNotify, linkVars, fieldVars
  <1>5. CASE ReceiveNotify
    BY <1>5 DEF ReceiveNotify, linkVars, fieldVars
  <1>6. CASE DialFail
    BY <1>6 DEF DialFail, linkVars, watchVars
  <1>7. ASSUME NEW k \in Links, ConnectOk(k) PROVE LinkInv'
    <2>1. k # 0 /\ k \in Nat
      BY DEF Links
    <2> QED
      BY <1>7, <2>1 DEF ConnectOk
  <1>8. ASSUME NEW k \in Links, ChannelFail(k) PROVE LinkInv'
    BY <1>8 DEF ChannelFail, NextLink, watchVars
  <1>9. CASE Close
    BY <1>9 DEF Close
  <1>10. CASE UNCHANGED <<linkVars, fieldVars, watchVars>>
    BY <1>10 DEF linkVars, fieldVars, watchVars
  <1>11. ASSUME NEW p \in Publishers, BeginPublish(p) \/ PublishStep(p) PROVE LinkInv'
    BY <1>10, <1>11 DEF BeginPublish, PublishStep, DeclareExchange, SendOk, SendFail
  <1>12. CASE StartConsume \/ EndConsume \/ UNCHANGED clientVars
    BY <1>10, <1>12 DEF StartConsume, EndConsume, clientVars
  <1> QED
    BY <1>1, <1>2, <1>3, <1>4, <1>5, <1>6, <1>7, <1>8, <1>9, <1>11, <1>12
    DEF ClientNext, Watch, Connect, Redial, PublishStep

(* Calls of Publish *)

(* No step of the broker or of the watcher reopens a channel that a        *)
(* publisher may hold.                                                     *)
LEMMA CallsUndisturbed ==
  ASSUME ClientTypeOK, CallInv, UNCHANGED publishVars,
         \A k \in Links : conns[k] # "unused" =>
            conns'[k] # "unused" /\ (chans'[k] = "open" => chans[k] = "open")
  PROVE  CallInv'
  BY DEF CallInv, publishVars, IsOpen

LEMMA CallStep == ClientTypeOK /\ LinkInv /\ CallInv /\ [ClientNext]_clientVars => CallInv'
  <1> SUFFICES ASSUME ClientTypeOK, LinkInv, CallInv, [ClientNext]_clientVars PROVE CallInv'
    OBVIOUS
  <1> USE DEF ClientTypeOK
  <1>1. ASSUME NEW k \in Links, LoseConnection(k) PROVE CallInv'
    BY <1>1, CallsUndisturbed DEF LoseConnection
  <1>2. ASSUME NEW k \in Links, LoseChannel(k) PROVE CallInv'
    BY <1>2, CallsUndisturbed DEF LoseChannel
  <1>3. CASE UNCHANGED <<linkVars, publishVars>>
    BY <1>3, CallsUndisturbed DEF linkVars
  <1>4. CASE CheckClosed \/ RegisterNotify \/ ReceiveNotify \/ DialFail
    BY <1>3, <1>4 DEF CheckClosed, RegisterNotify, ReceiveNotify, DialFail
  <1>5. ASSUME NEW k \in Links, ConnectOk(k) PROVE CallInv'
    BY <1>5, CallsUndisturbed DEF ConnectOk, NextLink
  <1>6. ASSUME NEW k \in Links, ChannelFail(k) PROVE CallInv'
    BY <1>6, CallsUndisturbed DEF ChannelFail, NextLink
  <1>7. CASE Close
    BY <1>7, CallsUndisturbed DEF Close
  <1>8. ASSUME NEW p \in Publishers, BeginPublish(p) PROVE CallInv'
    <2>1. channel # 0 => channel \in Links
      BY DEF Links
    <2>2. /\ call' = [call EXCEPT ![p] = "declare"] /\ captured' = [captured EXCEPT ![p] = channel]
          /\ attempt' = [attempt EXCEPT ![p] = 0] /\ written' = [written EXCEPT ![p] = 0]
          /\ conns' = conns /\ chans' = chans
      BY <1>8 DEF BeginPublish, linkVars
    <2> QED
      BY <2>1, <2>2 DEF CallInv, LinkInv, IsOpen
  <1>9. ASSUME NEW p \in Publishers, DeclareExchange(p) PROVE CallInv'
    <2>1. /\ captured' = captured /\ written' = written /\ UNCHANGED linkVars
          /\ call[p] = "declare" /\ written[p] = 0
      BY <1>9 DEF DeclareExchange, CallInv
    <2>2. CASE IsOpen(captured[p])
      <3>1. call' = [call EXCEPT ![p] = "send"] /\ attempt' = [attempt EXCEPT ![p] = 1]
            /\ captured[p] # 0
        BY <1>9, <2>2 DEF DeclareExchange, IsOpen, Links
      <3> QED
        BY <2>1, <3>1 DEF CallInv, linkVars, IsOpen
    <2>3. CASE ~IsOpen(captured[p])
      <3>1. PICK end \in {"panicked", "error"} : call' = [call EXCEPT ![p] = end] /\ attempt' = attempt
        BY <1>9, <2>3 DEF DeclareExchange
      <3> QED
        BY <2>1, <3>1 DEF CallInv, linkVars, IsOpen
    <2> QED
      BY <2>2, <2>3
  <1>10. ASSUME NEW p \in Publishers, SendOk(p) PROVE CallInv'
    BY <1>10 DEF SendOk, CallInv, linkVars, IsOpen
  <1>11. ASSUME NEW p \in Publishers, SendFail(p) PROVE CallInv'
    BY <1>11 DEF SendFail, CallInv, linkVars, IsOpen
  <1>12. CASE StartConsume \/ EndConsume \/ UNCHANGED clientVars
    BY <1>3, <1>12 DEF StartConsume, EndConsume, clientVars
  <1> QED
    BY <1>1, <1>2, <1>4, <1>5, <1>6, <1>7, <1>8, <1>9, <1>10, <1>11, <1>12
    DEF ClientNext, Watch, Connect, Redial, PublishStep

-----------------------------------------------------------------------------
(* Results *)

LEMMA ClientInvariance == ClientSpec => []ClientInv
  <1>1. ClientInv /\ [ClientNext]_clientVars => ClientInv'
    BY ClientTypeStep, LinkStep, CallStep DEF ClientInv
  <1> QED
    BY ClientInitInv, <1>1, PTL DEF ClientSpec

(* Every variable of RabbitMQClient keeps its type; in particular Publish  *)
(* makes at most maxRetries attempts.                                      *)
THEOREM ClientTypeCorrect == ClientSpec => []ClientTypeOK
  <1>1. ClientInv => ClientTypeOK
    BY DEF ClientInv
  <1> QED
    BY ClientInvariance, <1>1, PTL

(* Reconnecting leaves no open connection behind (connect, the loop of     *)
(* handleReconnect).                                                       *)
THEOREM NoOrphan == ClientSpec => []NoOrphanConnection
  <1>1. ClientInv => NoOrphanConnection
    BY DEF ClientInv, LinkInv, NoOrphanConnection
  <1> QED
    BY ClientInvariance, <1>1, PTL

(* While the connection is up, the channel that Publish and Consume take   *)
(* is its own (connect sets both fields).                                  *)
THEOREM ChannelIsFresh == ClientSpec => []FreshChannel
  <1>1. ClientInv => FreshChannel
    BY DEF ClientInv, ClientTypeOK, LinkInv, FreshChannel, ConnectionIs, Links
  <1> QED
    BY ClientInvariance, <1>1, PTL

(* Publish writes its message once exactly when it returns nil.            *)
THEOREM WritesOnce == ClientSpec => []PublishWritesOnce
  <1>1. ClientInv => PublishWritesOnce
    BY DEF ClientInv, CallInv, PublishWritesOnce
  <1> QED
    BY ClientInvariance, <1>1, PTL

(* Publish's second and later attempts cannot succeed.                     *)
THEOREM ResendsFail == ClientSpec => []RetriesAreFutile
  <1>1. ClientInv => RetriesAreFutile
    BY DEF ClientInv, CallInv, RetriesAreFutile
  <1> QED
    BY ClientInvariance, <1>1, PTL
=============================================================================
