------------------------------ MODULE MCHealth ------------------------------
(* An instance of GatewayHealth for TLC. *)
EXTENDS GatewayHealth, TLC

CONSTANTS r1, r2, v1

Pipelines == Permutations(Recorders)
=============================================================================
