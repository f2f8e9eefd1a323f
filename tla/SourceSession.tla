----------------------------- MODULE SourceSession -----------------------------
(***************************************************************************)
(* Broadcasters on one mountpoint: the HandleSource goroutine of every     *)
(* source connection, the owner's DisconnectSource (POST .../stop), the    *)
(* five-minute cleanup task, and the stations.status column they all       *)
(* write.  The slot itself is SourceSlot.                                  *)
(*                                                                         *)
(* Every call of UpdateStationStatus is a step of its own: nothing orders  *)
(* it with the TrySetSource or RemoveSource next to it.                    *)
(***************************************************************************)
EXTENDS SourceSlot

CONSTANTS
  Stoppers,  \* requests that may run DisconnectSource at the same time
  DbFails    \* whether UpdateStationStatus may fail (it is logged, no more)

ASSUME SessionAssumption == DbFails \in BOOLEAN

\* The connections served by HandleSource; the other sources are pipes.
Broadcasters == Sources \ Closable

VARIABLES
  handler,   \* [Broadcasters -> where HandleSource is]
  stopper,   \* [Stoppers -> where DisconnectSource is]
  cleanup,   \* where cleanupStaleConnections is
  status     \* stations.status of this mountpoint

sessionVars == <<handler, stopper, cleanup, status>>
vars == <<slotVars, sessionVars>>

\* "failed" is a handler that has returned after its last UPDATE had failed.
HandlerState ==
  {"new", "refused", "claimed", "streaming", "released", "done", "failed"}
StopperState == {"idle", "remove", "mark"}
CleanupState == {"sleep", "mark"}
Status == {"online", "offline"}

SessionTypeOK ==
  /\ handler \in [Broadcasters -> HandlerState]
  /\ stopper \in [Stoppers -> StopperState]
  /\ cleanup \in CleanupState
  /\ status \in Status

TypeOK == SlotTypeOK /\ SessionTypeOK

SessionInit ==
  /\ handler = [s \in Broadcasters |-> "new"]
  /\ stopper = [d \in Stoppers |-> "idle"]
  /\ cleanup = "sleep"
  /\ status = "offline"

Init == SlotInit /\ SessionInit

\* One UPDATE of the column; a failure leaves the old value.
SetStatus(v) == status' = v \/ (DbFails /\ UNCHANGED status)

HandlerGoes(s, from, to) ==
  /\ handler[s] = from
  /\ handler' = [handler EXCEPT ![s] = to]

StopperGoes(d, from, to) ==
  /\ stopper[d] = from
  /\ stopper' = [stopper EXCEPT ![d] = to]

(***************************************************************************)
(* HandleSource, from the call of TrySetSource on.                         *)
(***************************************************************************)
Claim(s) ==
  /\ HandlerGoes(s, "new", "claimed")
  /\ TrySetSource(s)
  /\ UNCHANGED <<stopper, cleanup, status>>

Refuse(s) ==
  /\ HandlerGoes(s, "new", "refused")
  /\ SlotBusy
  /\ UNCHANGED <<stopper, cleanup, status>>

MarkOnline(s) ==
  /\ HandlerGoes(s, "claimed", "streaming")
  /\ SetStatus("online")
  /\ UNCHANGED <<slotVars, stopper, cleanup>>

\* The client leaves: its body ends and its request context is cancelled.
HangUp(s) ==
  /\ handler[s] \in {"claimed", "streaming"}
  /\ PeerGone(s)
  /\ UNCHANGED sessionVars

\* r.Context().Done() fires, then RemoveSource.
Release(s) ==
  /\ s \in ended
  /\ HandlerGoes(s, "streaming", "released")
  /\ RemoveSource
  /\ UNCHANGED <<stopper, cleanup, status>>

\* Mutant of MarkOffline: step 16 of HandleSource is left out.
LeaveOnline(s) ==
  /\ HandlerGoes(s, "released", "done")
  /\ UNCHANGED <<slotVars, stopper, cleanup, status>>

MarkOffline(s) ==
  /\ \/ HandlerGoes(s, "released", "done") /\ status' = "offline"
     \/ DbFails /\ HandlerGoes(s, "released", "failed") /\ UNCHANGED status
  /\ UNCHANGED <<slotVars, stopper, cleanup>>

(***************************************************************************)
(* DisconnectSource: IsOnline, RemoveSource and the status update each     *)
(* take and drop their lock.                                               *)
(***************************************************************************)
StopCheck(d) ==
  /\ active
  /\ StopperGoes(d, "idle", "remove")
  /\ UNCHANGED <<slotVars, handler, cleanup, status>>

StopRemove(d) ==
  /\ StopperGoes(d, "remove", "mark")
  /\ RemoveSource
  /\ UNCHANGED <<handler, cleanup, status>>

StopMark(d) ==
  /\ StopperGoes(d, "mark", "idle")
  /\ SetStatus("offline")
  /\ UNCHANGED <<slotVars, handler, cleanup>>

(***************************************************************************)
(* cleanupStaleConnections for this mountpoint.                            *)
(***************************************************************************)

\* Mutant of CleanupCheck: the condition is the wrong way round.
CleanupOnline ==
  /\ cleanup = "sleep"
  /\ active
  /\ cleanup' = "mark"
  /\ UNCHANGED <<slotVars, handler, stopper, status>>

CleanupCheck ==
  /\ cleanup = "sleep"
  /\ ~active
  /\ cleanup' = "mark"
  /\ UNCHANGED <<slotVars, handler, stopper, status>>

CleanupMark ==
  /\ cleanup = "mark"
  /\ cleanup' = "sleep"
  /\ SetStatus("offline")
  /\ UNCHANGED <<slotVars, handler, stopper>>

HandlerStep(s) ==
  \/ Claim(s)
  \/ Refuse(s)
  \/ MarkOnline(s)
  \/ Release(s)
  \/ MarkOffline(s)

StopperStep(d) ==
  \/ StopCheck(d)
  \/ StopRemove(d)
  \/ StopMark(d)

SessionReaderStep(r) == ReaderStep(r) /\ UNCHANGED sessionVars

Next ==
  \/ \E s \in Broadcasters : HandlerStep(s)
  \/ \E s \in Broadcasters : HangUp(s)
  \/ \E r \in Sources : SessionReaderStep(r)
  \/ \E d \in Stoppers : StopperStep(d)
  \/ CleanupCheck
  \/ CleanupMark

Spec == Init /\ [][Next]_vars

(***************************************************************************)
(* Fairness: a goroutine that can run does run.  Nothing is assumed of the *)
(* clients, which need not connect, hang up or send (ReaderChunk is not    *)
(* fair), nor of the owners; a request that is inside DisconnectSource     *)
(* finishes it.                                                            *)
(* With DbFails the cleanup task's UPDATE does not fail for ever.          *)
(***************************************************************************)
CleanupWrites == CleanupMark /\ status' = "offline"

HandlerMoves(s) == MarkOnline(s) \/ Release(s) \/ MarkOffline(s)

ReaderMoves(r) == SessionReaderStep(r) /\ ~ReaderChunk(r)

Fairness ==
  /\ \A s \in Broadcasters : WF_vars(HandlerMoves(s))
  /\ \A r \in Sources : WF_vars(ReaderMoves(r))
  /\ \A d \in Stoppers : WF_vars(StopRemove(d) \/ StopMark(d))
  /\ WF_vars(CleanupCheck)
  /\ WF_vars(CleanupMark)
  /\ SF_vars(CleanupWrites)

FairSpec == Spec /\ Fairness

(***************************************************************************)
(* Properties that hold.                                                   *)
(***************************************************************************)

\* A station is never left online behind everybody's back: while the row
\* says "online" some HandleSource still has its own "offline" to write
\* (source.go, steps 13 and 16), or has tried and failed, whoever else wrote
\* in between.
OnlineIsOwed ==
  status = "online" =>
    \E s \in Broadcasters : handler[s] \in {"streaming", "released", "failed"}

\* The slot never keeps a source whose HandleSource has returned, so no
\* finished request's body is ever read or closed by the mountpoint.
SlotIsOwned ==
  source \in Broadcasters => handler[source] \in {"claimed", "streaming"}

\* An online mountpoint is being read: the reader started for the current
\* source is still in its loop, on that source, so "online" is never a
\* flag that outlives the goroutine which feeds the listeners.
ActiveIsRead ==
  active => /\ source # None
            /\ reader[source] \in {"loop", "read", "send", "exit"}
            /\ reading[source] \in {None, source}

\* The mountpoint implements the exclusive slot, with the broadcaster whose
\* source is active as its holder.
onAir == IF active THEN source ELSE None
Slot == INSTANCE ExclusiveSlot WITH
          holder <- onAir,
          served <- {s \in Sources : reader[s] # "none"}
ImplementsSlot == Slot!Spec

\* Once every broadcaster has hung up, the slot empties, every reader stops
\* and the row says "offline" for good, even when single updates fail.
AllGone ==
  \A s \in Broadcasters : s \in ended \/ handler[s] = "refused"
Idle ==
  /\ source = None /\ ~active /\ status = "offline"
  /\ \A r \in Sources : reader[r] \in {"none", "done"}
Drains == AllGone ~> []Idle

===============================================================================
