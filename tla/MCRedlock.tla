------------------------------ MODULE MCRedlock ------------------------------
(* Small instances of Redlock for TLC. *)
EXTENDS Redlock, TLC

Symmetry == Permutations(Clients)
=============================================================================
