---------------------------- MODULE EventDelivery ----------------------------
(***************************************************************************)
(* What the outbox pattern promises to the rest of the system, without any *)
(* table, relay or broker: every committed order owes one notification,    *)
(* the debt is settled by a successful run of the consumer's handler, and  *)
(* a debt is written off only where messages may be lost (Lossy).          *)
(***************************************************************************)
CONSTANTS Orders,   \* order identifiers, one event each
          Lossy     \* may a message accepted for publication disappear?

VARIABLES accepted,   \* orders that are committed
          pending,    \* orders whose notification is still owed
          notified    \* orders whose handler has succeeded at least once

vars == <<accepted, pending, notified>>

Init == accepted = {} /\ pending = {} /\ notified = {}

(* An order is committed; from this very step on its notification is owed. *)
Accept(o) ==
  /\ o \notin accepted
  /\ accepted' = accepted \cup {o}
  /\ pending' = pending \cup {o}
  /\ UNCHANGED notified

(* The consumer's handler succeeds for an owed notification.  A repeated   *)
(* delivery of one that was already settled changes nothing here.          *)
Notify(o) ==
  /\ o \in pending
  /\ pending' = pending \ {o}
  /\ notified' = notified \cup {o}
  /\ UNCHANGED accepted

(* Owed notifications vanish. *)
Lose(S) ==
  /\ Lossy
  /\ pending' = pending \ S
  /\ UNCHANGED <<accepted, notified>>

Next ==
  \/ \E o \in Orders : Accept(o) \/ Notify(o)
  \/ \E S \in SUBSET pending : Lose(S)

Spec == Init /\ [][Next]_vars
=============================================================================
