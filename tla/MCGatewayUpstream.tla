-------------------------- MODULE MCGatewayUpstream --------------------------
(* Small instances of GatewayUpstream for TLC. *)
EXTENDS GatewayUpstream
=============================================================================
