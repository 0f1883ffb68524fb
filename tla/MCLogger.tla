------------------------------ MODULE MCLogger ------------------------------
(* Small instances of Logger for TLC. *)
EXTENDS Logger

CONSTANTS g1, g2

(* One goroutine's first message has a field that does not marshal. *)
OneOdd == {<<g1, 1>>}
=============================================================================
