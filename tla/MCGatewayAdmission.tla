------------------------- MODULE MCGatewayAdmission -------------------------
(* Small instances of GatewayAdmission for TLC. *)
EXTENDS GatewayAdmission
=============================================================================
