---------------------------- MODULE MCM1Service ----------------------------
(* Small instances of M1Service for TLC. *)
EXTENDS M1Service

Symmetry == Permutations(Recordings)
=============================================================================
