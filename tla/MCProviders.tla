---------------------------- MODULE MCProviders ----------------------------
(* The defaults of m1_service/config.py and ws_server.py. *)
EXTENDS Providers

DefaultRetries == [stt |-> 2, agent |-> 1]
DefaultTimeout == [stt |-> 30, agent |-> 30]
=============================================================================
