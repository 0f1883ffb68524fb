------------------------- MODULE MCServiceDiscovery -------------------------
(* Small instances of ServiceDiscovery for TLC. *)
EXTENDS ServiceDiscovery
=============================================================================
