------------------------------ MODULE MCCanary ------------------------------
(* Small instances of Canary for TLC. *)
EXTENDS Canary

Symmetry == Permutations(Recordings)
=============================================================================
