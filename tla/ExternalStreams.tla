---------------------------- MODULE ExternalStreams ----------------------------
(***************************************************************************)
(* One station with an external stream URL: the registry activeStreams of  *)
(* ExternalStreamManager, the goroutine of every StartHLSStream and        *)
(* StartDirectStream with its pipe into the mountpoint (SourceSlot), the   *)
(* monitor, the owner's StartBroadcast and StopBroadcast, the five-minute  *)
(* cleanup task, and the columns stations.status and stations.auto_start.  *)
(* Every UPDATE may fail; that is logged, no more.                         *)
(*                                                                         *)
(* The pipe of stream t in its attempt k is the source <<t, k>>; an HLS    *)
(* stream has one attempt.  A segment is one chunk: one Write meets one    *)
(* Read.  Here nobody else uses the mountpoint; SharedMountpoint adds the  *)
(* source connections.                                                     *)
(***************************************************************************)
EXTENDS SourceSlot

CONSTANTS
  Streams,    \* one per call of StartHLSStream or StartDirectStream
  Hls,        \* those started by StartHLSStream
  MaxRetries, \* attempts of a direct stream (3)
  Owners,     \* requests that may run StartBroadcast
  Monitor,    \* the goroutine of StartExternalStreamMonitor
  Stoppers,   \* requests that may run StopBroadcast
  DbFails     \* whether an UPDATE may fail

ASSUME StreamsAssumption ==
  /\ Hls \subseteq Streams
  /\ MaxRetries \in Nat \ {0}
  /\ Closable = Streams \X (0 .. MaxRetries - 1)
  /\ None \notin Streams
  /\ Monitor \notin Owners
  /\ DbFails \in BOOLEAN

Starters == Owners \cup {Monitor}

VARIABLES
  stream,      \* [Streams -> where the goroutine is]
  retry,       \* [Streams -> its local variable retry]
  cancelled,   \* the streams whose context is cancelled
  registered,  \* activeStreams[mountpoint]: the stream whose cancel it holds
  starter,     \* [Starters -> where the caller of a Start method is]
  stopper,     \* [Stoppers -> where StopBroadcast is]
  cleanup,     \* where cleanupStaleConnections is
  status,      \* stations.status
  missed,      \* history: the row is left online by a stream's failed UPDATE
  autoStart    \* stations.auto_start

streamVars == <<stream, retry, cancelled, registered>>
requestVars == <<starter, stopper, cleanup, autoStart>>
statusVars == <<status, missed>>
vars == <<slotVars, streamVars, requestVars, statusVars>>

StreamState == {"unused", "check", "dial", "online", "stream", "fetch", "write",
                "close", "offline", "delete", "done"}
StarterState == {"idle", "row", "down", "start", "sleep", "auto"}
StopperState == {"idle", "offline", "auto"}

TypeOK ==
  /\ SlotTypeOK
  /\ stream \in [Streams -> StreamState]
  /\ retry \in [Streams -> 0 .. MaxRetries - 1]
  /\ cancelled \subseteq Streams
  /\ registered \in Streams \cup {None}
  /\ starter \in [Starters -> StarterState]
  /\ stopper \in [Stoppers -> StopperState]
  /\ cleanup \in {"sleep", "mark"}
  /\ status \in {"online", "offline"}
  /\ missed \in BOOLEAN
  /\ autoStart \in BOOLEAN

Init ==
  /\ SlotInit
  /\ stream = [t \in Streams |-> "unused"]
  /\ retry = [t \in Streams |-> 0]
  /\ cancelled = {}
  /\ registered = None
  /\ starter = [r \in Starters |-> "idle"]
  /\ stopper = [d \in Stoppers |-> "idle"]
  /\ cleanup = "sleep"
  /\ status = "offline"
  /\ missed = FALSE
  /\ autoStart = TRUE

Pipe(t) == <<t, retry[t]>>

StreamGoes(t, from, to) ==
  /\ stream[t] = from
  /\ stream' = [stream EXCEPT ![t] = to]

StarterGoes(r, from, to) ==
  /\ starter[r] = from
  /\ starter' = [starter EXCEPT ![r] = to]

StopperGoes(d, from, to) ==
  /\ stopper[d] = from
  /\ stopper' = [stopper EXCEPT ![d] = to]

\* The pool has one connection, and the rows of a pass of the monitor keep it
\* until the pass is over: every UPDATE waits for that.
DbFree == starter[Monitor] = "idle"

\* One UPDATE of a column; a failure leaves the old value.
SetStatus(v) ==
  /\ DbFree
  /\ status' = v \/ (DbFails /\ UNCHANGED status)
  /\ missed' = (missed /\ status' = "online")

SetAutoStart(b) ==
  /\ DbFree
  /\ autoStart' = b \/ (DbFails /\ UNCHANGED autoStart)

\* Bound: a start is not begun unless a stream is left for it.
Starting == {r \in Starters : starter[r] \in {"row", "down", "start", "sleep"}}
StreamLeft ==
  Cardinality(Starting) < Cardinality({t \in Streams : stream[t] = "unused"})

(***************************************************************************)
(* The goroutine of a stream.  A direct stream looks at its context first  *)
(* and dials; an HLS stream goes for the slot at once.                     *)
(***************************************************************************)
FirstStep(t) == IF t \in Hls THEN "dial" ELSE "check"

\* Mutant of TryAgain: the loop runs once too often.
TryOnceMore(t, from) ==
  /\ stream[t] = from
  /\ IF t \notin Hls /\ retry[t] < MaxRetries
       THEN /\ stream' = [stream EXCEPT ![t] = "check"]
            /\ retry' = [retry EXCEPT ![t] = @ + 1]
       ELSE /\ stream' = [stream EXCEPT ![t] = "delete"]
            /\ UNCHANGED retry

\* What follows an attempt that failed.
TryAgain(t, from) ==
  /\ stream[t] = from
  /\ IF t \notin Hls /\ retry[t] + 1 < MaxRetries
       THEN /\ stream' = [stream EXCEPT ![t] = "check"]
            /\ retry' = [retry EXCEPT ![t] = @ + 1]
       ELSE /\ stream' = [stream EXCEPT ![t] = "delete"]
            /\ UNCHANGED retry

CheckContext(t) ==
  /\ StreamGoes(t, "check", IF t \in cancelled THEN "delete" ELSE "dial")
  /\ UNCHANGED <<slotVars, retry, cancelled, registered, requestVars, statusVars>>

\* The request fails or is answered with an error.
DialFails(t) ==
  /\ t \notin Hls
  /\ TryAgain(t, "dial")
  /\ UNCHANGED <<slotVars, cancelled, registered, requestVars, statusVars>>

\* Mutant of ClaimSlot: the outcome of TrySetSource is ignored.
ClaimAnyway(t) ==
  /\ StreamGoes(t, "dial", "online")
  /\ TrySetSource(Pipe(t)) \/ SlotBusy
  /\ UNCHANGED <<retry, cancelled, registered, requestVars, statusVars>>

ClaimSlot(t) ==
  /\ StreamGoes(t, "dial", "online")
  /\ TrySetSource(Pipe(t))
  /\ UNCHANGED <<retry, cancelled, registered, requestVars, statusVars>>

SlotRefused(t) ==
  /\ SlotBusy
  /\ TryAgain(t, "dial")
  /\ UNCHANGED <<cancelled, registered, requestVars, statusVars>>

MarkOnline(t) ==
  /\ StreamGoes(t, "online", "stream")
  /\ SetStatus("online")
  /\ UNCHANGED <<slotVars, retry, cancelled, registered, requestVars>>

\* Fetch the playlist and the next segment, or read the response body.
Fetch(t) ==
  /\ t \notin cancelled
  /\ StreamGoes(t, "stream", "fetch")
  /\ UNCHANGED <<slotVars, retry, cancelled, registered, requestVars, statusVars>>

FetchDone(t) ==
  /\ StreamGoes(t, "fetch", "write")
  /\ UNCHANGED <<slotVars, retry, cancelled, registered, requestVars, statusVars>>

FetchFails(t) ==
  /\ StreamGoes(t, "fetch", IF t \in Hls THEN "stream" ELSE "close")
  /\ UNCHANGED <<slotVars, retry, cancelled, registered, requestVars, statusVars>>

\* pw.Write ends with an error because the mountpoint has closed the pipe.
\* Streams alone never close the pipe of one that writes; connections do, so
\* this is a step of SharedMountpoint.
WriteFails(t) ==
  /\ Pipe(t) \in closed
  /\ StreamGoes(t, "write", "close")
  /\ UNCHANGED <<slotVars, retry, cancelled, registered, requestVars, statusVars>>

\* Mutant of Finish: the loop does not look at its context.
FinishUncancelled(t) ==
  /\ t \notin cancelled
  /\ StreamGoes(t, "stream", "close")
  /\ UNCHANGED <<slotVars, retry, cancelled, registered, requestVars, statusVars>>

\* The context is cancelled, the playlist has an end or the body is over.
Finish(t) ==
  /\ StreamGoes(t, "stream", "close")
  /\ UNCHANGED <<slotVars, retry, cancelled, registered, requestVars, statusVars>>

\* Mutant of ClosePipe: pw.Close() is left out.
KeepPipe(t) ==
  /\ UNCHANGED slotVars
  /\ \/ /\ t \in Hls
        /\ StreamGoes(t, "close", "offline")
        /\ UNCHANGED retry
     \/ /\ t \notin Hls
        /\ StreamGoes(t, "close", "delete")
        /\ UNCHANGED retry
     \/ /\ t \notin Hls \cup cancelled
        /\ TryAgain(t, "close")
  /\ UNCHANGED <<cancelled, registered, requestVars, statusVars>>

\* pw.Close(), and for a direct stream the decision to try again.
ClosePipe(t) ==
  /\ PeerGone(Pipe(t))
  /\ \/ /\ t \in Hls
        /\ StreamGoes(t, "close", "offline")
        /\ UNCHANGED retry
     \/ /\ t \notin Hls
        /\ StreamGoes(t, "close", "delete")
        /\ UNCHANGED retry
     \/ /\ t \notin Hls \cup cancelled
        /\ TryAgain(t, "close")
  /\ UNCHANGED <<cancelled, registered, requestVars, statusVars>>

(***************************************************************************)
(* The deferred functions: an HLS stream that had the slot writes the      *)
(* status first and leaves the registry last, a direct stream the other    *)
(* way round.  Both delete whatever the registry holds for the mountpoint. *)
(***************************************************************************)

\* Mutant of MarkOffline: the deferred UPDATE is left out.
StayOnline(t) ==
  /\ StreamGoes(t, "offline", IF t \in Hls THEN "delete" ELSE "done")
  /\ UNCHANGED <<slotVars, retry, cancelled, registered, requestVars, statusVars>>

MarkOffline(t) ==
  /\ DbFree
  /\ StreamGoes(t, "offline", IF t \in Hls THEN "delete" ELSE "done")
  /\ status' = "offline" \/ (DbFails /\ UNCHANGED status)
  /\ missed' = (status' = "online")
  /\ UNCHANGED <<slotVars, retry, cancelled, registered, requestVars>>

\* Mutant of Unregister: the deferred delete is left out.
StayRegistered(t) ==
  /\ StreamGoes(t, "delete", IF t \in Hls THEN "done" ELSE "offline")
  /\ UNCHANGED <<slotVars, retry, cancelled, registered, requestVars, statusVars>>

Unregister(t) ==
  /\ StreamGoes(t, "delete", IF t \in Hls THEN "done" ELSE "offline")
  /\ registered' = None
  /\ UNCHANGED <<slotVars, retry, cancelled, requestVars, statusVars>>

StreamStep(t) ==
  \/ CheckContext(t)
  \/ DialFails(t)
  \/ ClaimSlot(t)
  \/ SlotRefused(t)
  \/ MarkOnline(t)
  \/ Fetch(t)
  \/ FetchDone(t)
  \/ FetchFails(t)
  \/ Finish(t)
  \/ ClosePipe(t)
  \/ MarkOffline(t)
  \/ Unregister(t)

\* The reader of the mountpoint; a Read gets what a Write is offering.
PipeReaderStep(r) ==
  /\ \/ /\ reading[r] \in Closable
        /\ ReaderChunk(r)
        /\ StreamGoes(reading[r][1], "write", "stream")
     \/ /\ ReaderCheck(r) \/ ReaderSend(r) \/ ReaderError(r) \/ ReaderExit(r)
        /\ UNCHANGED stream
  /\ UNCHANGED <<retry, cancelled, registered, requestVars, statusVars>>

(***************************************************************************)
(* StartHLSStream and StartDirectStream up to the "go": an entry is taken  *)
(* for a running stream, which is cancelled and given 100 ms; the new      *)
(* entry then replaces whatever is there.                                  *)
(***************************************************************************)
Register(r, t) ==
  /\ stream[t] = "unused"
  /\ \/ starter[r] = "sleep"
     \/ starter[r] = "start" /\ registered = None
  /\ starter' = [starter EXCEPT ![r] = IF r = Monitor THEN "idle" ELSE "auto"]
  /\ registered' = t
  /\ stream' = [stream EXCEPT ![t] = FirstStep(t)]
  /\ UNCHANGED <<slotVars, retry, cancelled, stopper, cleanup, autoStart, statusVars>>

CancelOld(r) ==
  /\ registered # None
  /\ StarterGoes(r, "start", "sleep")
  /\ cancelled' = cancelled \cup {registered}
  /\ UNCHANGED <<slotVars, stream, retry, registered, stopper, cleanup, autoStart,
                 statusVars>>

(***************************************************************************)
(* checkAndStartExternalStreams for this station: the row, IsOnline and    *)
(* IsStreamActive are looked at one after the other, while the rows stay   *)
(* open.                                                                   *)
(***************************************************************************)
MonitorFrame == UNCHANGED <<slotVars, streamVars, stopper, cleanup, autoStart, statusVars>>

MonitorRow ==
  /\ autoStart
  /\ StreamLeft
  /\ StarterGoes(Monitor, "idle", "row")
  /\ MonitorFrame

MonitorOnline ==
  /\ StarterGoes(Monitor, "row", IF active THEN "idle" ELSE "down")
  /\ MonitorFrame

MonitorActive ==
  /\ StarterGoes(Monitor, "down", IF registered # None THEN "idle" ELSE "start")
  /\ MonitorFrame

(***************************************************************************)
(* StartBroadcast: IsStreamActive, the Start method, then auto_start = 1.  *)
(***************************************************************************)
OwnerStarts(o) ==
  /\ registered = None
  /\ StreamLeft
  /\ StarterGoes(o, "idle", "start")
  /\ MonitorFrame

OwnerAuto(o) ==
  /\ StarterGoes(o, "auto", "idle")
  /\ SetAutoStart(TRUE)
  /\ UNCHANGED <<slotVars, streamVars, stopper, cleanup, statusVars>>

StarterStep(r) ==
  \/ \E t \in Streams : Register(r, t)
  \/ CancelOld(r)

(***************************************************************************)
(* StopBroadcast: StopStream, the status, then auto_start = 0.             *)
(***************************************************************************)
StopStream(d) ==
  /\ StopperGoes(d, "idle", "offline")
  /\ cancelled' = cancelled \cup ({registered} \ {None})
  /\ registered' = None
  /\ UNCHANGED <<slotVars, stream, retry, starter, cleanup, autoStart, statusVars>>

StopStatus(d) ==
  /\ StopperGoes(d, "offline", "auto")
  /\ SetStatus("offline")
  /\ UNCHANGED <<slotVars, streamVars, starter, cleanup, autoStart>>

\* Mutant of StopAuto: the pool has a second connection.
StopAutoAtOnce(d) ==
  /\ StopperGoes(d, "auto", "idle")
  /\ autoStart' = FALSE
  /\ UNCHANGED <<slotVars, streamVars, starter, cleanup, statusVars>>

StopAuto(d) ==
  /\ StopperGoes(d, "auto", "idle")
  /\ SetAutoStart(FALSE)
  /\ UNCHANGED <<slotVars, streamVars, starter, cleanup, statusVars>>

StopperStep(d) == StopStream(d) \/ StopStatus(d) \/ StopAuto(d)

(***************************************************************************)
(* cleanupStaleConnections for this mountpoint.                            *)
(***************************************************************************)
CleanupFrame == UNCHANGED <<slotVars, streamVars, starter, stopper, autoStart>>

CleanupCheck ==
  /\ cleanup = "sleep"
  /\ ~active
  /\ cleanup' = "mark"
  /\ CleanupFrame
  /\ UNCHANGED statusVars

CleanupMark ==
  /\ cleanup = "mark"
  /\ cleanup' = "sleep"
  /\ SetStatus("offline")
  /\ CleanupFrame

Next ==
  \/ \E t \in Streams : StreamStep(t)
  \/ \E r \in Sources : PipeReaderStep(r)
  \/ \E r \in Starters : StarterStep(r)
  \/ MonitorRow
  \/ MonitorOnline
  \/ MonitorActive
  \/ \E o \in Owners : OwnerStarts(o) \/ OwnerAuto(o)
  \/ \E d \in Stoppers : StopperStep(d)
  \/ CleanupCheck
  \/ CleanupMark

Spec == Init /\ [][Next]_vars

(***************************************************************************)
(* Fairness: goroutines run, the monitor ends a pass it has begun, a       *)
(* request of a cancelled context ends, and an UPDATE that waits for the   *)
(* connection gets it some time (between two passes the pool hands it to a *)
(* waiting request); the UPDATEs of the cleanup task do not fail for ever. *)
(* Nothing is assumed of the upstream server before a cancellation (an HLS *)
(* playlist need not end, a response body neither), nor of the owners.     *)
(***************************************************************************)
Progress(t) == StreamStep(t) /\ (Finish(t) => t \in cancelled)

CleanupWrites == CleanupMark /\ status' = "offline"

MonitorMoves == MonitorOnline \/ MonitorActive \/ StarterStep(Monitor)

Fairness ==
  /\ \A t \in Streams : WF_vars(Progress(t))
  /\ \A t \in Streams : SF_vars(MarkOnline(t) \/ MarkOffline(t))
  /\ WF_vars(MonitorMoves)
  /\ \A r \in Sources : WF_vars(PipeReaderStep(r))
  /\ WF_vars(CleanupCheck)
  /\ SF_vars(CleanupWrites)

FairSpec == Spec /\ Fairness

(***************************************************************************)
(* Properties that hold.                                                   *)
(***************************************************************************)

\* An entry of the registry belongs to a goroutine that has still to remove
\* it: the monitor never skips a station because of a stream that is over.
NoDeadEntry ==
  registered # None =>
    stream[registered] \notin
      {"unused", "done"} \cup (IF registered \in Hls THEN {} ELSE {"offline"})

\* "online" is never left behind silently: some goroutine that has not returned
\* will still write "offline", however starts, stops and retries overlap, or one
\* has tried, has failed, and nobody's write has got through since.
OwesOffline(t) ==
  IF t \in Hls THEN stream[t] \in {"stream", "fetch", "write", "close", "offline"}
               ELSE stream[t] \notin {"unused", "done"}
OnlineIsOwed ==
  status = "online" => missed \/ \E t \in Streams : OwesOffline(t)

\* A stream that writes into its pipe has the slot and a reader on it, so
\* pw.Write does not block for ever.
WriterIsRead ==
  \A t \in Streams :
    stream[t] \in {"online", "stream", "fetch", "write"} =>
      /\ active /\ source = Pipe(t)
      /\ reader[Pipe(t)] \in {"loop", "read", "send"}

\* The monitor never acts on a flag that StopBroadcast has cleared since: from
\* the row it reads to the stream it starts auto_start stays set.
MonitorObeys == starter[Monitor] # "idle" => autoStart

\* A stream that is cancelled ends, wherever it is.
CancelledEnds == \A t \in Streams : t \in cancelled ~> stream[t] = "done"

\* When the last goroutine is gone for good the slot is free again and the
\* row says "offline", even when single UPDATEs fail and the cleanup's is stale.
Settles ==
  <>[](\A t \in Streams : stream[t] \in {"unused", "done"}) =>
    <>[](~active /\ status = "offline")

(***************************************************************************)
(* A claim of the comments that the code does not keep.                    *)
(***************************************************************************)
Alive(t) == stream[t] \notin {"unused", "done"} /\ t \notin cancelled

\* external_stream.go:21, "Track active streams to prevent duplicates".
NoDuplicates == \A t, u \in Streams : Alive(t) /\ Alive(u) => t = u
===============================================================================
