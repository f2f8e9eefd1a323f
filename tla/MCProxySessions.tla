---------------------------- MODULE MCProxySessions ----------------------------
(* ProxySessions for TLC. *)
EXTENDS ProxySessions, TLC

Symmetry == Permutations(Clients)
===============================================================================
