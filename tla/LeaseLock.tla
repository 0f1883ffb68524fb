------------------------------ MODULE LeaseLock ------------------------------
(***************************************************************************)
(* What a lock that expires promises to its users, without any Redis: a    *)
(* lease that is given while nobody else's runs, for at most Expires; it   *)
(* runs out at the pace of time, and it is never made longer.              *)
(***************************************************************************)
EXTENDS Naturals

CONSTANTS Clients,  \* who may hold the lock
          Expires   \* the longest lease

VARIABLE lease      \* lease[c]: what is left of c's lease; 0 for none

Init == lease = [c \in Clients |-> 0]

(* Some of the lease may have passed before its holder learns of it. *)
Grant(c) ==
  /\ \A d \in Clients : lease[d] = 0
  /\ \E t \in 1 .. Expires : lease' = [lease EXCEPT ![c] = t]

(* The lease is given back, or exchanged for one of which nothing is       *)
(* promised.                                                               *)
Return(c) == lease' = [lease EXCEPT ![c] = 0]

Pass == lease' = [c \in Clients |-> IF lease[c] = 0 THEN 0 ELSE lease[c] - 1]

Next == Pass \/ \E c \in Clients : Grant(c) \/ Return(c)

Spec == Init /\ [][Next]_lease
=============================================================================
