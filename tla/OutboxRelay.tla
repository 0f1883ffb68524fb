----------------------------- MODULE OutboxRelay -----------------------------
(***************************************************************************)
(* The transactional outbox of the order service: CreateOrder writes the   *)
(* order and its event in one database transaction; in every instance of   *)
(* the service a RelayService goroutine reads a batch of events, publishes *)
(* them one by one and deletes those whose Publish returned nil; RabbitMQ  *)
(* routes them to the notification service's queue, whose consumer acks or *)
(* requeues.                                                               *)
(*                                                                         *)
(* The relay's SELECT asks for row locks with a GORM v1 setting that the   *)
(* GORM v2 of go.mod ignores, so the batches of two relays may overlap.    *)
(***************************************************************************)
EXTENDS Naturals, FiniteSets

CONSTANTS
  Orders,      \* the orders clients ask for; an order also names its event
  Relays,      \* instances of the order service, each with its relay
  Times,       \* values of created_at (instances' clocks are not aligned)
  BatchSize,   \* config.BatchSize
  Poison,      \* events whose Publish can never succeed
  Lossy,       \* may the broker lose a message whose Publish returned nil?
  NoMsg,       \* no message is being handled
  MaxAborts    \* bound on batches that publish and then roll back or crash

ASSUME OutboxAssumption ==
  /\ IsFiniteSet(Relays)
  /\ IsFiniteSet(Orders)
  /\ Times \subseteq Nat
  /\ BatchSize \in Nat \ {0}
  /\ Poison \subseteq Orders
  /\ Lossy \in BOOLEAN
  /\ NoMsg \notin Orders
  /\ MaxAborts \in Nat

VARIABLES
  tx,         \* tx[o]: how far CreateOrder has got for order o
  createdAt,  \* createdAt[o]: the created_at of o's event
  orders,     \* committed rows of the order table
  outbox,     \* committed rows of the outbox table
  pc,         \* pc[r]: where relay r's goroutine is
  todo,       \* todo[r]: selected events relay r has not tried yet
  done,       \* done[r]: successIDs of relay r's batch
  stopReq,    \* relays whose stopChan is closed
  pubClosed,  \* relays whose publisher is closed
  aborts,     \* batches that published and did not commit (bounded)
  pubs,       \* pubs[o]: how often Publish returned nil for o (history)
  bound,      \* is the consumer's queue declared and bound?
  queue,      \* queue[o]: copies of o's event in the queue
  consumer,   \* the consumer's goroutine
  msg,        \* the delivery it is working on
  handled     \* orders the handler has succeeded for (history)

dbVars == <<tx, createdAt, orders>>
relayVars == <<pc, todo, done, stopReq, pubClosed, aborts>>
brokerVars == <<bound, queue>>
consumerVars == <<consumer, msg, handled>>
vars == <<dbVars, outbox, relayVars, pubs, brokerVars, consumerVars>>

Init ==
  /\ tx = [o \in Orders |-> "none"]
  /\ createdAt = [o \in Orders |-> 0]
  /\ orders = {}
  /\ outbox = {}
  /\ pc = [r \in Relays |-> "waiting"]
  /\ todo = [r \in Relays |-> {}]
  /\ done = [r \in Relays |-> {}]
  /\ stopReq = {}
  /\ pubClosed = {}
  /\ aborts = 0
  /\ pubs = [o \in Orders |-> 0]
  /\ bound = ~Lossy       \* without losses the queue exists from the start
  /\ queue = [o \in Orders |-> 0]
  /\ consumer = "down"
  /\ msg = NoMsg
  /\ handled = {}

-----------------------------------------------------------------------------
(* CreateOrder: one transaction that inserts the order and its event.      *)

InsertOrder(o) ==
  /\ tx[o] = "none"
  /\ tx' = [tx EXCEPT ![o] = "inserted"]
  /\ UNCHANGED <<createdAt, orders, outbox, relayVars, pubs, brokerVars, consumerVars>>

(* Mutant: the event is inserted through the database and not through tx.  *)
StoreEventOutsideTx(o) ==
  /\ tx[o] = "inserted"
  /\ tx' = [tx EXCEPT ![o] = "stored"]
  /\ \E t \in Times : createdAt' = [createdAt EXCEPT ![o] = t]
  /\ outbox' = outbox \cup {o}
  /\ UNCHANGED <<orders, relayVars, pubs, brokerVars, consumerVars>>

(* CreateAndStoreEvent takes created_at from this instance's clock, before *)
(* the commit and in no fixed relation to other instances' clocks.         *)
StoreEvent(o) ==
  /\ tx[o] = "inserted"
  /\ tx' = [tx EXCEPT ![o] = "stored"]
  /\ \E t \in Times : createdAt' = [createdAt EXCEPT ![o] = t]
  /\ UNCHANGED <<orders, outbox, relayVars, pubs, brokerVars, consumerVars>>

(* The commit makes both rows visible at once.  The client hears of it, or *)
(* the connection breaks after the commit and CreateOrder returns an error.*)
CommitOrder(o) ==
  /\ tx[o] = "stored"
  /\ \E answer \in {"ok", "failed"} : tx' = [tx EXCEPT ![o] = answer]
  /\ orders' = orders \cup {o}
  /\ outbox' = outbox \cup {o}
  /\ UNCHANGED <<createdAt, relayVars, pubs, brokerVars, consumerVars>>

(* An insert, the payload's marshalling or the commit fails, or the        *)
(* process dies: the transaction rolls back.                               *)
RollbackOrder(o) ==
  /\ tx[o] \in {"none", "inserted", "stored"}
  /\ tx' = [tx EXCEPT ![o] = "failed"]
  /\ UNCHANGED <<createdAt, orders, outbox, relayVars, pubs, brokerVars, consumerVars>>

-----------------------------------------------------------------------------
(* RelayService: the loop of Start and one run of processOutbox.           *)

MinOf(m, n) == IF m <= n THEN m ELSE n

(* Order("created_at asc").Limit(BatchSize): the oldest committed events;  *)
(* ties are the database's choice.                                         *)
IsBatch(S) ==
  /\ S \subseteq outbox
  /\ Cardinality(S) = MinOf(BatchSize, Cardinality(outbox))
  /\ \A e \in S, f \in outbox \ S : createdAt[e] <= createdAt[f]

(* The ticker fires.  An empty outbox and a failing SELECT end the         *)
(* transaction with nothing changed.                                       *)
SelectBatch(r) ==
  /\ pc[r] = "waiting"
  /\ outbox # {}
  /\ \E S \in SUBSET outbox : IsBatch(S) /\ todo' = [todo EXCEPT ![r] = S]
  /\ pc' = [pc EXCEPT ![r] = "publishing"]
  /\ UNCHANGED <<dbVars, outbox, done, stopReq, pubClosed, aborts, pubs, brokerVars, consumerVars>>

(* The loop goes through the batch in created_at order. *)
IsNext(r, e) ==
  /\ pc[r] = "publishing"
  /\ e \in todo[r]
  /\ \A f \in todo[r] : createdAt[e] <= createdAt[f]

(* Publish returned nil: the message reached the exchange and, if a queue  *)
(* is bound, the queue; mandatory is false, so an unroutable message is    *)
(* dropped in silence.                                                     *)
PublishOk(r, e) ==
  /\ IsNext(r, e)
  /\ e \notin Poison
  /\ r \notin pubClosed
  /\ todo' = [todo EXCEPT ![r] = @ \ {e}]
  /\ done' = [done EXCEPT ![r] = @ \cup {e}]
  /\ pubs' = [pubs EXCEPT ![e] = @ + 1]
  /\ queue' = IF bound THEN [queue EXCEPT ![e] = @ + 1] ELSE queue
  /\ UNCHANGED <<dbVars, outbox, pc, stopReq, pubClosed, aborts, bound, consumerVars>>

(* Publish returned nil, which only means that the frames were handed to   *)
(* the socket: there are no publisher confirms, and the connection breaks. *)
PublishLost(r, e) ==
  /\ Lossy
  /\ IsNext(r, e)
  /\ e \notin Poison
  /\ r \notin pubClosed
  /\ todo' = [todo EXCEPT ![r] = @ \ {e}]
  /\ done' = [done EXCEPT ![r] = @ \cup {e}]
  /\ pubs' = [pubs EXCEPT ![e] = @ + 1]
  /\ UNCHANGED <<dbVars, outbox, pc, stopReq, pubClosed, aborts, brokerVars, consumerVars>>

(* Mutant: without the continue, a failed event counts as successful.      *)
PublishFailCounted(r, e) ==
  /\ IsNext(r, e)
  /\ todo' = [todo EXCEPT ![r] = @ \ {e}]
  /\ done' = [done EXCEPT ![r] = @ \cup {e}]
  /\ UNCHANGED <<dbVars, outbox, pc, stopReq, pubClosed, aborts, pubs, brokerVars, consumerVars>>

(* Mutant: the first failure ends the batch.                               *)
PublishFailBreaks(r, e) ==
  /\ IsNext(r, e)
  /\ todo' = [todo EXCEPT ![r] = {}]
  /\ UNCHANGED <<dbVars, outbox, pc, done, stopReq, pubClosed, aborts, pubs, brokerVars, consumerVars>>

(* Publish returned an error: the event is not among the successIDs and    *)
(* the loop goes on with the next one.                                     *)
PublishFail(r, e) ==
  /\ IsNext(r, e)
  /\ todo' = [todo EXCEPT ![r] = @ \ {e}]
  /\ UNCHANGED <<dbVars, outbox, pc, done, stopReq, pubClosed, aborts, pubs, brokerVars, consumerVars>>

(* Mutant: the delete's condition matches no row.                          *)
CommitBatchKeeping(r) ==
  /\ pc[r] = "publishing"
  /\ todo[r] = {}
  /\ done' = [done EXCEPT ![r] = {}]
  /\ pc' = [pc EXCEPT ![r] = "waiting"]
  /\ UNCHANGED <<dbVars, outbox, todo, stopReq, pubClosed, aborts, pubs, brokerVars, consumerVars>>

(* The whole batch was tried: delete the successIDs and commit.  Rows that *)
(* another relay has deleted meanwhile are no error.                       *)
CommitBatch(r) ==
  /\ pc[r] = "publishing"
  /\ todo[r] = {}
  /\ outbox' = outbox \ done[r]
  /\ done' = [done EXCEPT ![r] = {}]
  /\ pc' = [pc EXCEPT ![r] = "waiting"]
  /\ UNCHANGED <<dbVars, todo, stopReq, pubClosed, aborts, pubs, brokerVars, consumerVars>>

(* The delete or the commit fails: published events stay in the outbox.    *)
RollbackBatch(r) ==
  /\ pc[r] = "publishing"
  /\ todo[r] = {}
  /\ done[r] # {}
  /\ aborts < MaxAborts
  /\ aborts' = aborts + 1
  /\ done' = [done EXCEPT ![r] = {}]
  /\ pc' = [pc EXCEPT ![r] = "waiting"]
  /\ UNCHANGED <<dbVars, outbox, todo, stopReq, pubClosed, pubs, brokerVars, consumerVars>>

-----------------------------------------------------------------------------
(* Shutdown, crash and restart of an instance of the order service.        *)

(* cleanup() closes stopChan ... *)
Stop(r) ==
  /\ pc[r] # "stopped"
  /\ r \notin stopReq
  /\ stopReq' = stopReq \cup {r}
  /\ UNCHANGED <<dbVars, outbox, pc, todo, done, pubClosed, aborts, pubs, brokerVars, consumerVars>>

(* ... and then the publisher, without waiting for a running batch: from   *)
(* here on every Publish of that batch fails.                              *)
ClosePublisher(r) ==
  /\ r \in stopReq \ pubClosed
  /\ pubClosed' = pubClosed \cup {r}
  /\ UNCHANGED <<dbVars, outbox, pc, todo, done, stopReq, aborts, pubs, brokerVars, consumerVars>>

(* Mutant: the loop leaves only when the outbox has been drained.          *)
ExitLoopDrained(r) ==
  /\ pc[r] = "waiting"
  /\ r \in stopReq
  /\ outbox = {}
  /\ pc' = [pc EXCEPT ![r] = "stopped"]
  /\ UNCHANGED <<dbVars, outbox, todo, done, stopReq, pubClosed, aborts, pubs, brokerVars, consumerVars>>

(* The loop's select sees stopChan, only between two batches; when a tick  *)
(* is ready as well, the select may still pick the tick.                   *)
ExitLoop(r) ==
  /\ pc[r] = "waiting"
  /\ r \in stopReq
  /\ pc' = [pc EXCEPT ![r] = "stopped"]
  /\ UNCHANGED <<dbVars, outbox, todo, done, stopReq, pubClosed, aborts, pubs, brokerVars, consumerVars>>

(* The process ends (crash, or main returning during a batch): the         *)
(* database rolls the open transaction back.                               *)
Crash(r) ==
  /\ pc[r] # "stopped"
  /\ done[r] # {} => aborts < MaxAborts
  /\ aborts' = IF done[r] = {} THEN aborts ELSE aborts + 1
  /\ pc' = [pc EXCEPT ![r] = "stopped"]
  /\ todo' = [todo EXCEPT ![r] = {}]
  /\ done' = [done EXCEPT ![r] = {}]
  /\ UNCHANGED <<dbVars, outbox, stopReq, pubClosed, pubs, brokerVars, consumerVars>>

(* A new process: NewRelayService, a new publisher, Start. *)
Restart(r) ==
  /\ pc[r] = "stopped"
  /\ pc' = [pc EXCEPT ![r] = "waiting"]
  /\ stopReq' = stopReq \ {r}
  /\ pubClosed' = pubClosed \ {r}
  /\ UNCHANGED <<dbVars, outbox, todo, done, aborts, pubs, brokerVars, consumerVars>>

-----------------------------------------------------------------------------
(* The broker's queue and the notification service's consumer.             *)

(* Consume declares the durable queue, binds it and starts the goroutine.  *)
StartConsumer ==
  /\ consumer = "down"
  /\ bound' = TRUE
  /\ consumer' = "idle"
  /\ UNCHANGED <<dbVars, outbox, relayVars, pubs, queue, msg, handled>>

(* The goroutine takes the next delivery; it leaves the queue on the ack.  *)
Receive(o) ==
  /\ consumer = "idle"
  /\ queue[o] > 0
  /\ queue' = [queue EXCEPT ![o] = @ - 1]
  /\ consumer' = "handling"
  /\ msg' = o
  /\ UNCHANGED <<dbVars, outbox, relayVars, pubs, bound, handled>>

HandleOk ==
  /\ consumer = "handling"
  /\ consumer' = "acking"
  /\ handled' = handled \cup {msg}
  /\ UNCHANGED <<dbVars, outbox, relayVars, pubs, brokerVars, msg>>

Ack ==
  /\ consumer = "acking"
  /\ consumer' = "idle"
  /\ msg' = NoMsg
  /\ UNCHANGED <<dbVars, outbox, relayVars, pubs, brokerVars, handled>>

(* The handler failed: Nack with requeue. *)
HandleFail ==
  /\ consumer = "handling"
  /\ consumer' = "idle"
  /\ queue' = [queue EXCEPT ![msg] = @ + 1]
  /\ msg' = NoMsg
  /\ UNCHANGED <<dbVars, outbox, relayVars, pubs, bound, handled>>

(* Mutant: with auto-ack the delivery in progress is gone.                 *)
StopConsumerAutoAck ==
  /\ consumer # "down"
  /\ consumer' = "down"
  /\ msg' = NoMsg
  /\ UNCHANGED <<dbVars, outbox, relayVars, pubs, brokerVars, handled>>

(* The consumer's process or connection ends: the broker requeues what was *)
(* not acked, the delivery that was handled but not yet acked included.    *)
StopConsumer ==
  /\ consumer # "down"
  /\ consumer' = "down"
  /\ queue' = IF msg = NoMsg THEN queue ELSE [queue EXCEPT ![msg] = @ + 1]
  /\ msg' = NoMsg
  /\ UNCHANGED <<dbVars, outbox, relayVars, pubs, bound, handled>>

(* The broker restarts: the queue is durable, the messages are not (the    *)
(* publishing sets no delivery mode), and all connections are gone.        *)
RestartBroker ==
  /\ Lossy
  /\ queue' = [o \in Orders |-> 0]
  /\ consumer' = "down"
  /\ msg' = NoMsg
  /\ UNCHANGED <<dbVars, outbox, relayVars, pubs, bound, handled>>

-----------------------------------------------------------------------------
OrderNext ==
  \E o \in Orders : InsertOrder(o) \/ StoreEvent(o) \/ CommitOrder(o) \/ RollbackOrder(o)

PublishNext ==
  \E r \in Relays, e \in Orders : PublishOk(r, e) \/ PublishLost(r, e) \/ PublishFail(r, e)

RelayNext ==
  \E r \in Relays :
    \/ SelectBatch(r) \/ CommitBatch(r) \/ RollbackBatch(r)
    \/ Stop(r) \/ ClosePublisher(r) \/ ExitLoop(r) \/ Crash(r) \/ Restart(r)

ConsumerNext ==
  \/ StartConsumer \/ HandleOk \/ Ack \/ HandleFail \/ StopConsumer \/ RestartBroker
  \/ \E o \in Orders : Receive(o)

Next == OrderNext \/ PublishNext \/ RelayNext \/ ConsumerNext

Spec == Init /\ [][Next]_vars

(* Fairness.  The ticker keeps firing, and a batch that was begun goes on  *)
(* to its end.  Publishing an event that can be published does not fail    *)
(* for ever, and Go's select does not prefer the ticker for ever.          *)
RelayFairness(r) ==
  /\ WF_vars(SelectBatch(r))
  /\ WF_vars(\E e \in Orders : PublishOk(r, e) \/ PublishLost(r, e) \/ PublishFail(r, e))
  /\ WF_vars(CommitBatch(r) \/ RollbackBatch(r))
  /\ SF_vars(ExitLoop(r))
  /\ \A e \in Orders : SF_vars(PublishOk(r, e))

(* The broker delivers the queue in order, so that no message is passed    *)
(* over for ever; the handler does not fail for ever.                      *)
ConsumerFairness ==
  /\ \A o \in Orders : SF_vars(Receive(o))
  /\ SF_vars(HandleOk)
  /\ WF_vars(Ack)

FairSpec == Spec /\ (\A r \in Relays : RelayFairness(r)) /\ ConsumerFairness

-----------------------------------------------------------------------------
TxState == {"none", "inserted", "stored", "ok", "failed"}

(* Every variable has its type.  A copy of a message is taken from the     *)
(* queue only where there is one, so that no count becomes negative.       *)
TypeOK ==
  /\ tx \in [Orders -> TxState]
  /\ createdAt \in [Orders -> Nat]
  /\ orders \subseteq Orders
  /\ outbox \subseteq Orders
  /\ pc \in [Relays -> {"waiting", "publishing", "stopped"}]
  /\ todo \in [Relays -> SUBSET Orders]
  /\ done \in [Relays -> SUBSET Orders]
  /\ stopReq \subseteq Relays
  /\ pubClosed \subseteq Relays
  /\ aborts \in 0 .. MaxAborts
  /\ pubs \in [Orders -> Nat]
  /\ bound \in BOOLEAN
  /\ queue \in [Orders -> Nat]
  /\ consumer \in {"down", "idle", "handling", "acking"}
  /\ msg \in Orders \cup {NoMsg}
  /\ handled \subseteq Orders

(* Atomicity of CreateOrder as the rest of the system sees it: whatever    *)
(* has been published, queued or handled belongs to a committed order,     *)
(* also when an order's transaction rolls back after its event was stored. *)
NoPhantomEvent ==
  \A o \in Orders :
    pubs[o] > 0 \/ queue[o] > 0 \/ msg = o \/ o \in handled => o \in orders

(* The relay never deletes what it did not publish: the event of a         *)
(* committed order is in the outbox until some Publish of it returned nil, *)
(* whatever fails, crashes, stops or runs at the same time.                *)
KeptUntilPublished ==
  \A o \in orders : o \in outbox \/ pubs[o] > 0

(* The orders that a notification can still come from somewhere for.       *)
Held ==
  {o \in Orders :
    \/ o \in outbox
    \/ \E r \in Relays : o \in todo[r]
    \/ queue[o] > 0
    \/ msg = o}

(* At least once: a committed order's notification has been handled or     *)
(* there is still something it will come from (relay_service.go:141-143    *)
(* "at least once ... data is not lost").  It does not hold: the broker    *)
(* may lose a transient message after Publish returned nil.                *)
AtLeastOnce == orders \subseteq Held \cup handled

(* The same where the broker and its connections lose nothing: all that    *)
(* processOutbox, its rollbacks, the shutdown and the consumer's requeues  *)
(* do never loses a notification.                                          *)
AtLeastOnceIfLossless == ~Lossy => AtLeastOnce

(* The price of the missing row locks, and its limit: an event is          *)
(* published once, once more for every other relay that may have selected  *)
(* it before the delete, and once more for every batch that did not        *)
(* commit.  A committed delete ends the republishing for good.             *)
DuplicatesBounded ==
  \A o \in Orders : pubs[o] <= Cardinality(Relays) + aborts

(* relay_service.go:103-104: different relay instances process different   *)
(* batches at the same time.  It does not hold: the option that would lock *)
(* the rows has no effect.                                                 *)
DisjointBatches ==
  \A r, s \in Relays : r # s => (todo[r] \cup done[r]) \cap (todo[s] \cup done[s]) = {}

(* What the outbox promises: EventDelivery, where an order's notification  *)
(* is owed as long as something holds it and it was never handled.         *)
ED == INSTANCE EventDelivery
      WITH accepted <- orders,
           pending <- (orders \cap Held) \ handled,
           notified <- handled

EventDeliverySpec == ED!Spec

SomeRelayStaysUp == \E r \in Relays : <>[](pc[r] # "stopped")
ConsumerStaysUp == <>[](consumer # "down")

(* No starvation behind failing events, end to end: while fewer events     *)
(* than a batch holds fail for ever, each other committed event is         *)
(* published, provided some relay stays up from some time on, and handled, *)
(* provided the consumer does too and the broker loses nothing.            *)
EventuallyHandled ==
  SomeRelayStaysUp =>
    \A o \in Orders \ Poison :
      /\ o \in orders ~> pubs[o] > 0
      /\ ~Lossy /\ ConsumerStaysUp => (o \in orders ~> o \in handled)

(* Stop ends the relay's goroutine: a batch in progress, failing Publish   *)
(* calls on the closed publisher and ticks that keep coming delay it but   *)
(* cannot prevent it.                                                      *)
StopEndsLoop == \A r \in Relays : r \in stopReq ~> (pc[r] = "stopped" \/ r \notin stopReq)
=============================================================================
