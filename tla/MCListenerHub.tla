----------------------------- MODULE MCListenerHub -----------------------------
(* ListenerHub for TLC. *)
EXTENDS ListenerHub, TLC

NoSurrogates == {}

Symmetry == Permutations(Listeners)
===============================================================================
