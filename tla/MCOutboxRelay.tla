---------------------------- MODULE MCOutboxRelay ----------------------------
(* Small instances of OutboxRelay for TLC. *)
EXTENDS OutboxRelay, TLC

Symmetry == Permutations(Relays)
OrderSymmetry == Permutations(Relays) \cup Permutations(Orders)
=============================================================================
