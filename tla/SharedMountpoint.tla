--------------------------- MODULE SharedMountpoint ---------------------------
(***************************************************************************)
(* A station with an external stream URL whose mountpoint source clients   *)
(* use as well: nothing in HandleSource keeps them away.  The streams of   *)
(* ExternalStreams and the connections of SourceSession meet at the slot   *)
(* and in the column stations.status.                                      *)
(*                                                                         *)
(* The owner of such a station never runs DisconnectSource, for that is    *)
(* what StopBroadcast does for a station without an external URL.          *)
(***************************************************************************)
EXTENDS ExternalStreams

VARIABLE handler  \* [Broadcasters -> where HandleSource is]

sharedVars == <<vars, handler>>

Session == INSTANCE SourceSession WITH Stoppers <- {}, stopper <- <<>>

SharedTypeOK == TypeOK /\ Session!SessionTypeOK

SharedInit == Init /\ Session!SessionInit

\* What HandleSource does, its two UPDATEs when the connection pool is free.
ConnectionMoves(s) ==
  /\ \/ Session!Release(s)
     \/ DbFree /\ (Session!MarkOnline(s) \/ Session!MarkOffline(s))
  /\ missed' = (missed /\ status' = "online")
  /\ UNCHANGED <<streamVars, requestVars>>

ConnectionStep(s) ==
  \/ /\ Session!Claim(s) \/ Session!Refuse(s) \/ Session!HangUp(s)
     /\ UNCHANGED <<streamVars, requestVars, missed>>
  \/ ConnectionMoves(s)

\* A reader gets a chunk from a connection.
ConnectionChunk(r) ==
  /\ reading[r] \in Session!Broadcasters
  /\ ReaderChunk(r)
  /\ UNCHANGED <<streamVars, requestVars, statusVars, handler>>

SharedNext ==
  \/ Next /\ UNCHANGED handler
  \/ \E t \in Streams : WriteFails(t) /\ UNCHANGED handler
  \/ \E s \in Session!Broadcasters : ConnectionStep(s)
  \/ \E r \in Sources : ConnectionChunk(r)

SharedSpec == SharedInit /\ [][SharedNext]_sharedVars

(***************************************************************************)
(* Properties that hold.                                                   *)
(***************************************************************************)

\* "online" is still owed an "offline" by somebody when connections and streams
\* drive each other off the slot, or somebody has tried and failed.
SharedOnlineIsOwed ==
  status = "online" =>
    \/ missed
    \/ \E t \in Streams : OwesOffline(t)
    \/ \E s \in Session!Broadcasters :
         handler[s] \in {"streaming", "released", "failed"}

\* A stream that writes either finds its pipe closed, or still has the slot,
\* and then the mountpoint reads its pipe for as long as it is online: a
\* stream never hangs on a mountpoint that somebody is broadcasting to.
WriterLearns ==
  \A t \in Streams : stream[t] \in {"online", "stream", "fetch", "write"} =>
    \/ Pipe(t) \in closed
    \/ /\ source = Pipe(t)
       /\ active => reader[Pipe(t)] \in {"loop", "read", "send"}
===============================================================================
