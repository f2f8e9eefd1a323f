--------------------------- MODULE MCExternalStreams ---------------------------
(* ExternalStreams for TLC. *)
EXTENDS ExternalStreams

Pipes == Streams \X (0 .. MaxRetries - 1)
NoRequests == {}
===============================================================================
