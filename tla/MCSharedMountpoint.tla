-------------------------- MODULE MCSharedMountpoint --------------------------
(* SharedMountpoint for TLC: one connection next to the pipes. *)
EXTENDS SharedMountpoint, TLC

CONSTANT connection

Pipes == Streams \X (0 .. MaxRetries - 1)
PipesAndOne == Pipes \cup {connection}
NoRequests == {}
===============================================================================
