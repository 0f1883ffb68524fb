------------------------------- MODULE Logger -------------------------------
(***************************************************************************)
(* shared/logger: goroutines submit entries from a pool to a bounded       *)
(* channel; one goroutine collects them in batches and hands these to the  *)
(* backend: a file, the standard output or Loki.  A message carries one    *)
(* field of its own, named as the message.  The pool is the fields its     *)
(* entries still hold: what a fresh entry holds, nothing, need not be      *)
(* stored.                                                                 *)
(***************************************************************************)
EXTENDS Naturals, Sequences, FiniteSets, SequencesExt

CONSTANTS
  Goroutines,  \* that log
  PerGoroutine,\* messages each logs, one after the other
  ChanSize,    \* capacity of logChan
  BatchSize,   \* entries that make a batch
  MaxRetries,  \* attempts to reach Loki
  Odd          \* messages whose field json.Marshal refuses

Messages == Goroutines \X (1 .. PerGoroutine)

ASSUME LoggerAssumption ==
  /\ PerGoroutine \in Nat /\ ChanSize \in Nat \ {0}
  /\ BatchSize \in Nat \ {0} /\ MaxRetries \in Nat \ {0}
  /\ Odd \subseteq Messages

VARIABLES
  backend,   \* where batches go
  logged,    \* logged[g]: messages g has submitted
  hand,      \* hand[g]: the entry g is about to send, if any
  pool,      \* fields left in the entries of logPool
  logChan, logs,         \* entries in the channel, in the batch
  proc, attempt,         \* logProcessor; its attempt to reach Loki
  closed,    \* closeChan is closed
  written,   \* written[m]: how often the backend took m
  carried,   \* carried[m]: the fields m was written with
  sampled, dropped,          \* messages that were not written, and counted
  skipped, failed            \* not sent to Loki, sent in vain: both reported

sinks == <<written, carried, sampled, dropped, skipped, failed>>
loggerVars == <<backend, logged, hand, pool, logChan, logs, proc, attempt, closed, sinks>>

Backends == {"file", "stdout", "loki"}
Entries == [msg : Messages, fields : SUBSET Messages]

LoggerInit ==
  /\ backend \in Backends
  /\ logged = [g \in Goroutines |-> 0]
  /\ hand = [g \in Goroutines |-> <<>>]
  /\ pool = {}
  /\ logChan = <<>> /\ logs = <<>>
  /\ proc = "select" /\ attempt = 0
  /\ closed = FALSE
  /\ written = [m \in Messages |-> 0] /\ carried = [m \in Messages |-> {}]
  /\ sampled = {} /\ dropped = {} /\ skipped = {} /\ failed = {}

-----------------------------------------------------------------------------
(* submit                                                                  *)

(* An entry from the pool, or a new one, gets the message's fields on top  *)
(* of those it has.                                                        *)
Submit(g) ==
  LET m == <<g, logged[g] + 1>> IN
  /\ hand[g] = <<>> /\ logged[g] < PerGoroutine
  /\ logged' = [logged EXCEPT ![g] = @ + 1]
  /\ \E left \in pool \union {{}} :
       /\ pool' = pool \ {left}
       /\ hand' = [hand EXCEPT ![g] = <<[msg |-> m, fields |-> left \union {m}]>>]
  /\ UNCHANGED <<backend, logChan, logs, proc, attempt, closed, sinks>>

(* The select: into the channel, or back into the pool if it is full.      *)
Send(g) ==
  LET e == hand[g][1] IN
  /\ hand[g] # <<>>
  /\ hand' = [hand EXCEPT ![g] = <<>>]
  /\ \/ /\ Len(logChan) < ChanSize
        /\ logChan' = Append(logChan, e)
        /\ UNCHANGED <<pool, dropped>>
     \/ /\ Len(logChan) = ChanSize
        /\ pool' = pool \union {e.fields}
        /\ dropped' = dropped \union {e.msg}
        /\ UNCHANGED logChan
  /\ UNCHANGED <<backend, logged, logs, proc, attempt, closed, written, carried,
                 sampled, skipped, failed>>

-----------------------------------------------------------------------------
(* logProcessor                                                            *)

(* One entry: sampled out, or added to the batch. *)
Receive ==
  LET e == Head(logChan) IN
  /\ proc = "select" /\ logChan # <<>>
  /\ logChan' = Tail(logChan)
  /\ \/ /\ pool' = pool \union {e.fields}
        /\ sampled' = sampled \union {e.msg}
        /\ UNCHANGED <<logs, proc>>
     \/ /\ logs' = Append(logs, e)
        /\ proc' = IF Len(logs') >= BatchSize THEN "flush" ELSE proc
        /\ UNCHANGED <<pool, sampled>>
  /\ UNCHANGED <<backend, logged, hand, attempt, closed, written, carried, dropped,
                 skipped, failed>>

(* Mutant: only a full batch is worth a flush. *)
TickFull ==
  /\ proc = "select" /\ Len(logs) >= BatchSize
  /\ proc' = "flush"
  /\ UNCHANGED <<backend, logged, hand, pool, logChan, logs, attempt, closed, sinks>>

Tick ==
  /\ proc = "select" /\ logs # <<>>
  /\ proc' = "flush"
  /\ UNCHANGED <<backend, logged, hand, pool, logChan, logs, attempt, closed, sinks>>

(* closeChan is chosen, though the channel may have entries. *)
Close ==
  /\ proc = "select" /\ closed
  /\ proc' = IF logs = <<>> THEN "returned" ELSE "last flush"
  /\ UNCHANGED <<backend, logged, hand, pool, logChan, logs, attempt, closed, sinks>>

Flushing == proc \in {"flush", "last flush"}

(* The backend takes some of the batch. *)
Taken(I) ==
  /\ written' = [m \in Messages |->
       written[m] + Cardinality({i \in I : logs[i].msg = m})]
  /\ carried' = [m \in Messages |->
       carried[m] \union UNION {logs[i].fields : i \in {k \in I : logs[k].msg = m}}]

(* Mutant: the entries keep their fields.                                  *)
FlushedUncleared ==
  /\ logs' = <<>>
  /\ pool' = pool \union {e.fields : e \in ToSet(logs)}
  /\ attempt' = 0
  /\ proc' = IF proc = "flush" THEN "select" ELSE "returned"

(* Mutant: the batch is not reset.                                         *)
FlushedKept ==
  /\ UNCHANGED <<logs, pool>>
  /\ attempt' = 0
  /\ proc' = IF proc = "flush" THEN "select" ELSE "returned"

(* flushLogs empties the entries before they go back to the pool. *)
Flushed ==
  /\ logs' = <<>>
  /\ UNCHANGED pool
  /\ attempt' = 0
  /\ proc' = IF proc = "flush" THEN "select" ELSE "returned"

(* ZerologLogger.Log *)
WriteFile ==
  /\ backend = "file" /\ Flushing
  /\ Taken(DOMAIN logs) /\ Flushed
  /\ UNCHANGED <<backend, logged, hand, logChan, closed, sampled, dropped, skipped, failed>>

(* ZerologStdoutLogger.Log *)
WriteStdout ==
  /\ backend = "stdout" /\ Flushing
  /\ Taken(DOMAIN logs) /\ Flushed
  /\ UNCHANGED <<backend, logged, hand, logChan, closed, sampled, dropped, skipped, failed>>

(* buildStreams leaves out, and reports, what does not marshal: with its   *)
(* own field or with one its entry had left over.                          *)
Marshals(e) == e.fields \intersect Odd = {}
Streams == {i \in DOMAIN logs : Marshals(logs[i])}

(* LokiLogger.Log: of what is left, if anything is, Loki takes all and     *)
(* says so, or takes it and does not get to say so, or does not take it;   *)
(* or no request can be made, which is not tried again.  The last failure  *)
(* is reported to the fallback logger alone.                               *)
SendToLoki ==
  LET gaveUp == Flushed /\ failed' = failed \union {logs[i].msg : i \in Streams} IN
  /\ backend = "loki" /\ Flushing
  /\ skipped' = skipped \union {logs[i].msg : i \in DOMAIN logs \ Streams}
  /\ \/ Taken(Streams) /\ Flushed /\ UNCHANGED failed
     \/ /\ Streams # {}
        /\ Taken(Streams) \/ UNCHANGED <<written, carried>>
        /\ IF attempt + 1 < MaxRetries
           THEN attempt' = attempt + 1 /\ UNCHANGED <<logs, pool, proc, failed>>
           ELSE gaveUp
     \/ /\ Streams # {} /\ attempt = 0
        /\ UNCHANGED <<written, carried>> /\ gaveUp
  /\ UNCHANGED <<backend, logged, hand, logChan, closed, sampled, dropped>>

(* Shutdown closes closeChan and waits for logProcessor to return. *)
Shutdown ==
  /\ ~closed
  /\ closed' = TRUE
  /\ UNCHANGED <<backend, logged, hand, pool, logChan, logs, proc, attempt, sinks>>

Processor == Receive \/ Tick \/ Close \/ WriteFile \/ WriteStdout \/ SendToLoki

LoggerNext ==
  \/ \E g \in Goroutines : Submit(g) \/ Send(g)
  \/ Processor
  \/ Shutdown

(* Goroutines run; select is fair to its cases, so that the ticker and     *)
(* closeChan get their turns.                                              *)
LoggerFairness ==
  /\ \A g \in Goroutines : WF_loggerVars(Send(g))
  /\ WF_loggerVars(Processor) /\ SF_loggerVars(Tick) /\ SF_loggerVars(Close)

LoggerSpec == LoggerInit /\ [][LoggerNext]_loggerVars /\ LoggerFairness

-----------------------------------------------------------------------------
Queued == {e.msg : e \in ToSet(logChan) \union ToSet(logs)}
Logged == {m \in Messages : m[2] <= logged[m[1]]}

(* Every variable has its type.                                            *)
LoggerTypeOK ==
  /\ backend \in Backends
  /\ logged \in [Goroutines -> 0 .. PerGoroutine]
  /\ hand \in [Goroutines -> Seq(Entries)] /\ \A g \in Goroutines : Len(hand[g]) <= 1
  /\ pool \subseteq SUBSET Messages
  /\ logChan \in Seq(Entries) /\ Len(logChan) <= ChanSize
  /\ logs \in Seq(Entries) /\ Len(logs) <= BatchSize
  /\ proc \in {"select", "flush", "last flush", "returned"}
  /\ attempt \in 0 .. MaxRetries - 1
  /\ closed \in BOOLEAN
  /\ written \in [Messages -> 0 .. MaxRetries]
  /\ carried \in [Messages -> SUBSET Messages]
  /\ sampled \subseteq Messages /\ dropped \subseteq Messages
  /\ skipped \subseteq Messages /\ failed \subseteq Messages

(* logger.go:242, 279-299, 321, 356: a message is written with its own     *)
(* fields, and at most with those of messages that were dropped or sampled *)
(* out, whose entries go back to the pool as they are: never with those of *)
(* a message that was itself written, however the pool reuses the entries. *)
FieldsOwnOrDiscarded ==
  \A m \in Messages :
    written[m] > 0 => m \in carried[m] /\ carried[m] \ {m} \subseteq dropped \union sampled

(* logger.go:218-299, 346-357, loki_logger.go:40-107: every message is in  *)
(* exactly one place from its submission on: with the goroutine that logs  *)
(* it, in the channel, in the batch, written once, or counted as dropped   *)
(* or as sampled out.  With Loki it is in one of them at least, or was     *)
(* reported: as skipped, and then not sent with any other, or as sent in   *)
(* vain, however often Loki fails.                                         *)
FateIsUnique ==
  \A m \in Logged :
    LET holders == {g \in Goroutines : hand[g] # <<>> /\ hand[g][1].msg = m} IN
    /\ backend # "loki" =>
         Cardinality(holders)
         + Cardinality({i \in DOMAIN logChan : logChan[i].msg = m})
         + Cardinality({i \in DOMAIN logs : logs[i].msg = m})
         + written[m]
         + (IF m \in sampled THEN 1 ELSE 0) + (IF m \in dropped THEN 1 ELSE 0) = 1
    /\ \/ holders # {} \/ m \in Queued \/ written[m] > 0
       \/ m \in sampled \union dropped \union skipped \union failed
    /\ m \in skipped => written[m] = 0 /\ m \notin failed

(* logger.go:226-275: as long as nobody shuts the logger down, whatever is *)
(* in the channel or the batch leaves it, and is then written, sampled out *)
(* or reported, with a batch that never fills as well.                     *)
QueueIsFlushed ==
  \A m \in Messages :
    m \in Queued ~> closed \/ written[m] > 0 \/ m \in sampled \union skipped \union failed

(* logger.go:308-312: Shutdown waits until the logs have been processed.   *)
(* It does not hold: entries still in the channel stay there.              *)
ShutdownDrains ==
  proc = "returned" => logChan = <<>>
=============================================================================
