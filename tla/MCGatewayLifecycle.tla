------------------------ MODULE MCGatewayLifecycle --------------------------
(***************************************************************************)
(* Instances of GatewayLifecycle for TLC.                                  *)
(***************************************************************************)
EXTENDS GatewayLifecycle

CONSTANTS u1, u2

MCUpload == {u1, u2}
=============================================================================
