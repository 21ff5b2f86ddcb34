------------------------------ MODULE MCGateway ------------------------------
(* The gateway on small instances. *)
EXTENDS Gateway
=============================================================================
