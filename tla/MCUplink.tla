------------------------------ MODULE MCUplink ------------------------------
(* Small instances of Uplink for TLC. *)
EXTENDS Uplink
=============================================================================
