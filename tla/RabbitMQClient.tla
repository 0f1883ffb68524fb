--------------------------- MODULE RabbitMQClient ---------------------------
(***************************************************************************)
(* internal/shared/mq/rabbitmq.go: one RabbitMQClient with the goroutine   *)
(* that watches its connection (handleReconnect), the callers of Publish,  *)
(* the goroutine that Consume starts, and Close.  A connection and the     *)
(* channel opened on it are named by the number of the Dial that made      *)
(* them.  connect and Close run under mu and are single steps; between any *)
(* two steps of a goroutine the broker may end the connection or the       *)
(* channel.                                                                *)
(***************************************************************************)
EXTENDS Naturals

CONSTANTS
  Publishers,  \* goroutines that call Publish
  MaxRetries,  \* maxRetries
  MaxConns     \* bound on successful Dials

ASSUME ClientAssumption == MaxRetries \in Nat \ {0} /\ MaxConns \in Nat \ {0}

VARIABLES
  conns,       \* conns[k]: the k-th connection
  chans,       \* chans[k]: the channel opened on it
  connection,  \* field connection; 0 is nil
  channel,     \* field channel; 0 is nil
  isClosed,    \* field isClosed
  watcher,          \* where handleReconnect is
  notify,      \* what its notifyClose channel delivers
  call,        \* call[p]: where p's Publish is
  captured,    \* captured[p]: the channel it took from the client
  attempt,     \* attempt[p]: number of the current send
  written,     \* written[p]: sends of this call that an open channel took (history)
  consuming,    \* the goroutine started by Consume
  tap          \* the channel it reads from

linkVars == <<conns, chans>>
fieldVars == <<connection, channel, isClosed>>
watchVars == <<watcher, notify>>
publishVars == <<call, captured, attempt, written>>
consumeVars == <<consuming, tap>>
clientVars == <<linkVars, fieldVars, watchVars, publishVars, consumeVars>>

Links == 1 .. MaxConns

(* NewRabbitMQClient has connected once and started handleReconnect. *)
ClientInit ==
  /\ conns = [k \in Links |-> IF k = 1 THEN "open" ELSE "unused"]
  /\ chans = [k \in Links |-> IF k = 1 THEN "open" ELSE "unused"]
  /\ connection = 1
  /\ channel = 1
  /\ isClosed = FALSE
  /\ watcher = "check"
  /\ notify = "nothing"
  /\ call = [p \in Publishers |-> "idle"]
  /\ captured = [p \in Publishers |-> 0]
  /\ attempt = [p \in Publishers |-> 0]
  /\ written = [p \in Publishers |-> 0]
  /\ consuming = "none"
  /\ tap = 0

-----------------------------------------------------------------------------
(* The broker and the network.                                             *)

(* The connection breaks.  Its shutdown sends the error to the registered  *)
(* notifyClose channel, if there is one.  (The guard on unused links keeps *)
(* one Dial in reserve within the bound.)                                  *)
LoseConnection(k) ==
  /\ conns[k] = "open"
  /\ \E l \in Links : conns[l] = "unused"
  /\ conns' = [conns EXCEPT ![k] = "closed"]
  /\ chans' = [chans EXCEPT ![k] = "closed"]
  /\ notify' = IF watcher = "wait" /\ connection = k /\ notify = "nothing" THEN "err" ELSE notify
  /\ UNCHANGED <<fieldVars, watcher, publishVars, consumeVars>>

(* The broker closes the channel alone (a channel exception); nothing is   *)
(* registered for that.                                                    *)
LoseChannel(k) ==
  /\ chans[k] = "open"
  /\ chans' = [chans EXCEPT ![k] = "closed"]
  /\ UNCHANGED <<conns, fieldVars, watchVars, publishVars, consumeVars>>

-----------------------------------------------------------------------------
(* handleReconnect.                                                        *)

(* Mutant: the flag is not looked at.                                      *)
CheckNothing ==
  /\ watcher = "check"
  /\ watcher' = "register"
  /\ UNCHANGED <<linkVars, fieldVars, notify, publishVars, consumeVars>>

CheckClosed ==
  /\ watcher = "check"
  /\ watcher' = IF isClosed THEN "done" ELSE "register"
  /\ UNCHANGED <<linkVars, fieldVars, notify, publishVars, consumeVars>>

(* NotifyClose on a connection that is closed already closes the Go        *)
(* channel, so that the receive yields nil.                                *)
RegisterNotify ==
  /\ watcher = "register"
  /\ watcher' = "wait"
  /\ notify' = IF conns[connection] = "open" THEN "nothing" ELSE "nil"
  /\ UNCHANGED <<linkVars, fieldVars, publishVars, consumeVars>>

(* An error leads to the reconnect loop, nil back to the check. *)
ReceiveNotify ==
  /\ watcher = "wait"
  /\ notify # "nothing"
  /\ watcher' = IF notify = "err" THEN "dial" ELSE "check"
  /\ notify' = "nothing"
  /\ UNCHANGED <<linkVars, fieldVars, publishVars, consumeVars>>

NextLink(k) == conns[k] = "unused" /\ \A l \in Links : l < k => conns[l] # "unused"

(* Mutant: connect keeps the first channel.                                *)
ConnectKeepingChannel(k) ==
  /\ watcher = "dial"
  /\ NextLink(k)
  /\ conns' = [conns EXCEPT ![k] = "open"]
  /\ chans' = [chans EXCEPT ![k] = "open"]
  /\ connection' = k
  /\ watcher' = "check"
  /\ UNCHANGED <<channel, isClosed, notify, publishVars, consumeVars>>

(* connect succeeds; it does not look at isClosed. *)
ConnectOk(k) ==
  /\ watcher = "dial"
  /\ NextLink(k)
  /\ conns' = [conns EXCEPT ![k] = "open"]
  /\ chans' = [chans EXCEPT ![k] = "open"]
  /\ connection' = k
  /\ channel' = k
  /\ watcher' = "check"
  /\ UNCHANGED <<isClosed, notify, publishVars, consumeVars>>

(* Mutant: a failed Dial leaves the reconnect loop.                        *)
DialFailGivesUp ==
  /\ watcher = "dial"
  /\ connection' = 0
  /\ watcher' = "check"
  /\ UNCHANGED <<linkVars, channel, isClosed, notify, publishVars, consumeVars>>

(* Dial fails: the connection field becomes nil, the channel stays. *)
DialFail ==
  /\ watcher = "dial"
  /\ connection' = 0
  /\ UNCHANGED <<linkVars, channel, isClosed, watchVars, publishVars, consumeVars>>

(* Dial succeeds, Channel fails: the new connection is closed again, and   *)
(* the channel field has become nil.                                       *)
ChannelFail(k) ==
  /\ watcher = "dial"
  /\ NextLink(k)
  /\ \E l \in Links : l # k /\ conns[l] = "unused"
  /\ conns' = [conns EXCEPT ![k] = "closed"]
  /\ connection' = k
  /\ channel' = 0
  /\ UNCHANGED <<chans, isClosed, watchVars, publishVars, consumeVars>>

(* Close ends the current channel and connection; the shutdown without an  *)
(* error closes the registered notifyClose channel.                        *)
Close ==
  /\ ~isClosed
  /\ isClosed' = TRUE
  /\ chans' = [k \in Links |-> IF k \in {channel, connection} /\ chans[k] = "open" THEN "closed" ELSE chans[k]]
  /\ conns' = [k \in Links |-> IF k = connection /\ conns[k] = "open" THEN "closed" ELSE conns[k]]
  /\ notify' = IF watcher = "wait" /\ notify = "nothing" THEN "nil" ELSE notify
  /\ UNCHANGED <<connection, channel, watcher, publishVars, consumeVars>>

-----------------------------------------------------------------------------
(* Publish: the channel is taken once; the declaration and every attempt   *)
(* use that one.                                                           *)

IsOpen(k) == k \in Links /\ chans[k] = "open"

BeginPublish(p) ==
  /\ call[p] \in {"idle", "ok", "error"}
  /\ call' = [call EXCEPT ![p] = "declare"]
  /\ captured' = [captured EXCEPT ![p] = channel]
  /\ attempt' = [attempt EXCEPT ![p] = 0]
  /\ written' = [written EXCEPT ![p] = 0]
  /\ UNCHANGED <<linkVars, fieldVars, watchVars, consumeVars>>

(* The declaration fails on a closed channel and panics on a nil one. *)
DeclareExchange(p) ==
  /\ call[p] = "declare"
  /\ IF IsOpen(captured[p])
     THEN /\ call' = [call EXCEPT ![p] = "send"]
          /\ attempt' = [attempt EXCEPT ![p] = 1]
     ELSE /\ call' = [call EXCEPT ![p] = IF captured[p] = 0 THEN "panicked" ELSE "error"]
          /\ UNCHANGED attempt
  /\ UNCHANGED <<linkVars, fieldVars, watchVars, captured, written, consumeVars>>

(* Mutant: a success does not leave the loop.                              *)
SendOkNoReturn(p) ==
  /\ call[p] = "send"
  /\ IsOpen(captured[p])
  /\ written' = [written EXCEPT ![p] = @ + 1]
  /\ IF attempt[p] < MaxRetries
     THEN attempt' = [attempt EXCEPT ![p] = @ + 1] /\ UNCHANGED call
     ELSE call' = [call EXCEPT ![p] = "ok"] /\ UNCHANGED attempt
  /\ UNCHANGED <<linkVars, fieldVars, watchVars, captured, consumeVars>>

SendOk(p) ==
  /\ call[p] = "send"
  /\ IsOpen(captured[p])
  /\ call' = [call EXCEPT ![p] = "ok"]
  /\ written' = [written EXCEPT ![p] = @ + 1]
  /\ UNCHANGED <<linkVars, fieldVars, watchVars, captured, attempt, consumeVars>>

(* Mutant: every attempt takes the client's current channel.               *)
SendFailReload(p) ==
  /\ call[p] = "send"
  /\ ~IsOpen(captured[p])
  /\ IF attempt[p] < MaxRetries
     THEN attempt' = [attempt EXCEPT ![p] = @ + 1] /\ UNCHANGED call
     ELSE call' = [call EXCEPT ![p] = "error"] /\ UNCHANGED attempt
  /\ captured' = [captured EXCEPT ![p] = channel]
  /\ UNCHANGED <<linkVars, fieldVars, watchVars, written, consumeVars>>

(* A closed channel refuses the message; after the delay the next attempt  *)
(* goes to the same channel.                                               *)
SendFail(p) ==
  /\ call[p] = "send"
  /\ ~IsOpen(captured[p])
  /\ IF attempt[p] < MaxRetries
     THEN attempt' = [attempt EXCEPT ![p] = @ + 1] /\ UNCHANGED call
     ELSE call' = [call EXCEPT ![p] = "error"] /\ UNCHANGED attempt
  /\ UNCHANGED <<linkVars, fieldVars, watchVars, captured, written, consumeVars>>

-----------------------------------------------------------------------------
(* Consume and its goroutine.                                              *)

(* On a closed channel Consume returns an error, and its caller gives up;  *)
(* on a nil one it panics.                                                 *)
StartConsume ==
  /\ consuming = "none"
  /\ tap' = channel
  /\ consuming' = CASE IsOpen(channel) -> "reading"
                   [] channel = 0     -> "panicked"
                   [] OTHER           -> "failed"
  /\ UNCHANGED <<linkVars, fieldVars, watchVars, publishVars>>

(* The deliveries' Go channel is closed with the AMQP channel: the range   *)
(* loop ends, and nothing starts it again.                                 *)
EndConsume ==
  /\ consuming = "reading"
  /\ ~IsOpen(tap)
  /\ consuming' = "ended"
  /\ UNCHANGED <<linkVars, fieldVars, watchVars, publishVars, tap>>

-----------------------------------------------------------------------------
(* A panic in a goroutine ends the process. *)
Running == consuming # "panicked" /\ \A p \in Publishers : call[p] # "panicked"

Watch == Running /\ (CheckClosed \/ RegisterNotify \/ ReceiveNotify)

Connect == Running /\ \E k \in Links : ConnectOk(k)

Redial == Running /\ (DialFail \/ \E k \in Links : ChannelFail(k))

PublishStep(p) == Running /\ (DeclareExchange(p) \/ SendOk(p) \/ SendFail(p))

ClientNext ==
  \/ Watch \/ Connect \/ Redial
  \/ \E p \in Publishers : PublishStep(p)
  \/ /\ Running
     /\ \/ \E k \in Links : LoseConnection(k) \/ LoseChannel(k)
        \/ \E p \in Publishers : BeginPublish(p)
        \/ Close \/ StartConsume \/ EndConsume

ClientSpec == ClientInit /\ [][ClientNext]_clientVars

(* Goroutines are scheduled; Publish's calls return; and the broker does   *)
(* not refuse new connections for ever.                                    *)
ClientFairSpec ==
  /\ ClientSpec
  /\ WF_clientVars(Watch)
  /\ SF_clientVars(Connect)
  /\ \A p \in Publishers : WF_clientVars(PublishStep(p))
  /\ WF_clientVars(Running /\ EndConsume)

-----------------------------------------------------------------------------
LinkState == {"unused", "open", "closed"}

ConnectionIs(state) == connection # 0 /\ conns[connection] = state

(* Every variable has its type. *)
ClientTypeOK ==
  /\ conns \in [Links -> LinkState]
  /\ chans \in [Links -> LinkState]
  /\ connection \in 0 .. MaxConns
  /\ channel \in 0 .. MaxConns
  /\ isClosed \in BOOLEAN
  /\ watcher \in {"check", "register", "wait", "dial", "done"}
  /\ notify \in {"nothing", "err", "nil"}
  /\ call \in [Publishers -> {"idle", "declare", "send", "ok", "error", "panicked"}]
  /\ captured \in [Publishers -> 0 .. MaxConns]
  /\ attempt \in [Publishers -> 0 .. MaxRetries]
  /\ written \in [Publishers -> Nat]
  /\ consuming \in {"none", "reading", "ended", "failed", "panicked"}
  /\ tap \in 0 .. MaxConns

(* A reconnect never leaves an open connection behind that the client has  *)
(* no reference to and could not close: only the one in the field is open, *)
(* and outside connect the field is never nil (NotifyClose dereferences    *)
(* it).                                                                    *)
NoOrphanConnection ==
  /\ \A k \in Links : conns[k] = "open" => k = connection
  /\ watcher # "dial" => connection # 0

(* Whoever calls Publish or Consume while the connection is up gets that   *)
(* connection's channel and none of an earlier connection.                 *)
FreshChannel ==
  ConnectionIs("open") => channel = connection

(* A Publish call puts its message on the wire exactly once when it        *)
(* returns nil and not at all when it returns an error, however many       *)
(* attempts it makes and however the connection is replaced meanwhile:     *)
(* the relay may trust an error and keep the event.                        *)
PublishWritesOnce ==
  \A p \in Publishers :
    /\ call[p] = "ok" => written[p] = 1
    /\ call[p] # "ok" => written[p] = 0

(* Every attempt of a Publish call after the first goes to a channel that  *)
(* is closed for good, whether or not the client has reconnected: the      *)
(* resends of maxRetries and resendDelay can only fail.                    *)
RetriesAreFutile ==
  \A p \in Publishers : attempt[p] > 1 /\ call[p] = "send" => ~IsOpen(captured[p])

Up == IsOpen(channel) /\ connection = channel

(* The loss of a connection that handleReconnect was waiting on is         *)
(* repaired, unless the client is closed or a caller has panicked.         *)
WatchedLossHealed == (watcher = "wait" /\ notify = "err") ~> (Up \/ isClosed \/ ~Running)

(* Close ends the watching goroutine, at whichever point it is, provided   *)
(* the broker accepts connections again.                                   *)
CloseEndsWatch == isClosed ~> (watcher = "done" \/ ~Running)

(* rabbitmq.go:54, :98: the client reconnects by itself; any lost          *)
(* connection is repaired unless the client is closed.  It does not hold:  *)
(* one that is lost before NotifyClose is called is not noticed.           *)
EveryLossHealed ==
  ConnectionIs("closed") ~> (ConnectionIs("open") \/ isClosed \/ ~Running)

(* mq.go:35: the goroutine that Consume starts keeps receiving: while the  *)
(* client stays connected, a started consumer is reading again and again.  *)
(* It does not hold: the goroutine ends with the channel it was given.     *)
ConsumerKeepsReading ==
  <>[](Up /\ ~isClosed /\ Running)
    => [](consuming = "reading" => []<>(consuming = "reading" /\ IsOpen(tap)))

(* rabbitmq.go:128: Close closes the connection: when it has been called   *)
(* and the watching goroutine is gone, none is open.  It does not hold:    *)
(* the loop that redials does not look at isClosed.                        *)
CloseLeavesNothing ==
  isClosed /\ watcher = "done" => \A k \in Links : conns[k] # "open"

(* rabbitmq.go:98: handleReconnect reconnects in the background, under the *)
(* callers' feet: a Publish meanwhile returns, with an error at worst.  It *)
(* does not hold: the channel is nil while a failed reconnect waits.       *)
PublishReturns == \A p \in Publishers : call[p] # "panicked"
=============================================================================
