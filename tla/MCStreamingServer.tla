-------------------------- MODULE MCStreamingServer --------------------------
(* StreamingServer for TLC: the stream may be for either path. *)
EXTENDS StreamingServer, TLC

CONSTANTS p1, p2, c1, s1, l1
KnowsAll == c1 :> {p1} @@ s1 :> {p1, p2} @@ l1 :> {p1}
=============================================================================
