---------------------------- MODULE MCSourceSession ----------------------------
(* SourceSession for TLC: a handful of HTTP broadcasters, no pipes. *)
EXTENDS SourceSession, TLC

NoPipes == {}
===============================================================================
