-------------------------- MODULE ExternalStreamsProofs --------------------------
(***************************************************************************)
(* Theorems about ExternalStreams and SharedMountpoint for any number of   *)
(* streams, of retries, of owners, of requests to stop and of source       *)
(* connections.                                                            *)
(***************************************************************************)
EXTENDS SharedMountpoint, TLAPS

USE DEF statusVars, CleanupFrame

\* The pipe of a stream's current attempt is a source.
LEMMA PipeIsSource ==
  ASSUME TypeOK, NEW t \in Streams
  PROVE  Pipe(t) \in Sources
  BY SourcesAssumption, StreamsAssumption DEF TypeOK, Pipe

(***************************************************************************)
(* Types.                                                                  *)
(***************************************************************************)
LEMMA InitType == Init => TypeOK
<1> SUFFICES ASSUME Init PROVE TypeOK
  OBVIOUS
<1>1. SlotTypeOK
  BY DEF Init, SlotInit, SlotTypeOK, ReaderState
<1>2. /\ stream \in [Streams -> StreamState]
      /\ starter \in [Starters -> StarterState]
      /\ stopper \in [Stoppers -> StopperState]
  BY DEF Init, StreamState, StarterState, StopperState
<1>3. retry \in [Streams -> 0 .. MaxRetries - 1]
  BY StreamsAssumption DEF Init
<1> QED
  BY <1>1, <1>2, <1>3 DEF Init, TypeOK

\* The steps of the slot keep its types.
LEMMA SlotType ==
  ASSUME SlotTypeOK,
         \/ \E s \in Sources : TrySetSource(s) \/ PeerGone(s) \/ ReaderStep(s)
         \/ UNCHANGED slotVars
  PROVE  SlotTypeOK'
<1> USE SourcesAssumption DEF SlotTypeOK, ReaderState
<1>1. ASSUME NEW s \in Sources, TrySetSource(s) PROVE SlotTypeOK'
  BY <1>1 DEF TrySetSource, CloseHeld
<1>2. ASSUME NEW s \in Sources, PeerGone(s) PROVE SlotTypeOK'
  BY <1>2 DEF PeerGone
<1>3. ASSUME NEW s \in Sources, ReaderStep(s) PROVE SlotTypeOK'
  BY <1>3 DEF ReaderStep, ReaderCheck, ReaderChunk, ReaderSend, ReaderError,
    ReaderExit
<1>4. CASE UNCHANGED slotVars
  BY <1>4 DEF slotVars
<1> QED
  BY <1>1, <1>2, <1>3, <1>4

\* A stream that goes elsewhere is still a stream.
LEMMA GoesType ==
  ASSUME TypeOK, NEW t \in Streams, NEW from, NEW to \in StreamState,
         StreamGoes(t, from, to)
  PROVE  stream' \in [Streams -> StreamState]
  BY DEF StreamGoes, TypeOK

LEMMA TryAgainType ==
  ASSUME TypeOK, NEW t \in Streams, NEW from, TryAgain(t, from)
  PROVE  /\ stream' \in [Streams -> StreamState]
         /\ retry' \in [Streams -> 0 .. MaxRetries - 1]
  BY StreamsAssumption DEF TryAgain, TypeOK, StreamState

LEMMA StreamType ==
  ASSUME TypeOK, NEW t \in Streams, StreamStep(t)
  PROVE  TypeOK'
<1>1. SlotTypeOK'
  BY SlotType, PipeIsSource DEF TypeOK, StreamStep, CheckContext, DialFails, ClaimSlot,
    SlotRefused, SlotBusy, MarkOnline, SetStatus, Fetch, FetchDone, FetchFails, Finish,
    ClosePipe, MarkOffline, Unregister
<1>2. /\ stream' \in [Streams -> StreamState]
      /\ retry' \in [Streams -> 0 .. MaxRetries - 1]
  <2>1. CASE DialFails(t) \/ SlotRefused(t)
    BY <2>1, TryAgainType DEF DialFails, SlotRefused
  <2>2. CASE ClosePipe(t)
    BY <2>2, TryAgainType, GoesType DEF ClosePipe, StreamState, TypeOK
  <2>3. CASE ~(DialFails(t) \/ SlotRefused(t) \/ ClosePipe(t))
    <3>1. \E from, to \in StreamState : StreamGoes(t, from, to)
      BY <2>3 DEF StreamStep, CheckContext, ClaimSlot, MarkOnline, SetStatus, Fetch,
        FetchDone, FetchFails, Finish, MarkOffline, Unregister, StreamState
    <3>2. retry' = retry
      BY <2>3 DEF StreamStep, CheckContext, ClaimSlot, MarkOnline, SetStatus, Fetch,
        FetchDone, FetchFails, Finish, MarkOffline, Unregister
    <3> QED
      BY <3>1, <3>2, GoesType DEF TypeOK
  <2> QED
    BY <2>1, <2>2, <2>3
<1>3. /\ UNCHANGED <<cancelled, starter, stopper, cleanup, autoStart>>
      /\ registered' \in Streams \cup {None}
      /\ status' \in {"online", "offline"}
      /\ missed' \in BOOLEAN
  BY DEF TypeOK, StreamStep, CheckContext, DialFails, ClaimSlot, SlotRefused,
    MarkOnline, SetStatus, Fetch, FetchDone, FetchFails, Finish, ClosePipe, MarkOffline,
    Unregister, requestVars
<1> QED
  BY <1>1, <1>2, <1>3 DEF TypeOK

LEMMA ReaderType ==
  ASSUME TypeOK, NEW r \in Sources, PipeReaderStep(r)
  PROVE  TypeOK'
<1>1. SlotTypeOK'
  BY SlotType DEF TypeOK, PipeReaderStep, ReaderStep
<1>2. stream' \in [Streams -> StreamState]
  BY DEF PipeReaderStep, StreamGoes, TypeOK, StreamState
<1> QED
  BY <1>1, <1>2 DEF TypeOK, PipeReaderStep, requestVars

LEMMA RequestType ==
  ASSUME TypeOK,
         \/ \E r \in Starters : StarterStep(r)
         \/ MonitorRow \/ MonitorOnline \/ MonitorActive
         \/ \E o \in Owners : OwnerStarts(o) \/ OwnerAuto(o)
         \/ \E d \in Stoppers : StopperStep(d)
         \/ CleanupCheck \/ CleanupMark
  PROVE  TypeOK'
<1>1. SlotTypeOK'
  BY SlotType DEF TypeOK, StarterStep, Register, CancelOld, MonitorRow, MonitorOnline,
    MonitorActive, MonitorFrame, OwnerStarts, OwnerAuto, StopperStep, StopStream,
    StopStatus, StopAuto, CleanupCheck, CleanupMark, SetStatus, SetAutoStart
<1> USE <1>1 DEF TypeOK, StarterState, StopperState, StarterGoes, StopperGoes,
    streamVars, requestVars, MonitorFrame, Starters
<1>2. ASSUME NEW r \in Starters, NEW t \in Streams, Register(r, t)
      PROVE  TypeOK'
  <2>1. FirstStep(t) \in StreamState
    BY DEF FirstStep, StreamState
  <2> QED
    BY <1>2, <2>1 DEF Register
<1>3. ASSUME NEW r \in Starters, CancelOld(r) PROVE TypeOK'
  BY <1>3 DEF CancelOld
<1>4. CASE MonitorRow \/ MonitorOnline \/ MonitorActive
  BY <1>4 DEF MonitorRow, MonitorOnline, MonitorActive
<1>5. ASSUME NEW o \in Owners, OwnerStarts(o) \/ OwnerAuto(o) PROVE TypeOK'
  BY <1>5 DEF OwnerStarts, OwnerAuto, SetAutoStart
<1>6. ASSUME NEW d \in Stoppers, StopperStep(d) PROVE TypeOK'
  BY <1>6 DEF StopperStep, StopStream, StopStatus, StopAuto, SetStatus, SetAutoStart
<1>7. CASE CleanupCheck \/ CleanupMark
  BY <1>7 DEF CleanupCheck, CleanupMark, SetStatus
<1> QED
  BY <1>2, <1>3, <1>4, <1>5, <1>6, <1>7 DEF StarterStep

LEMMA NextType == TypeOK /\ [Next]_vars => TypeOK'
<1>1. ASSUME TypeOK, UNCHANGED vars PROVE TypeOK'
  BY <1>1 DEF vars, slotVars, streamVars, requestVars, TypeOK, SlotTypeOK
<1> QED
  BY <1>1, StreamType, ReaderType, RequestType DEF Next

\* Types are right in every reachable state.
THEOREM TypeCorrect == Spec => []TypeOK
  BY InitType, NextType, PTL DEF Spec

(***************************************************************************)
(* The registry.  An entry is made together with its goroutine, and the    *)
(* goroutine passes Unregister on the way out.                             *)
(***************************************************************************)
LEMMA NextEntry ==
  ASSUME TypeOK, NoDeadEntry, [Next]_vars
  PROVE  NoDeadEntry'
<1> USE DEF TypeOK, NoDeadEntry
<1>1. ASSUME NEW t \in Streams, StreamStep(t) PROVE NoDeadEntry'
  <2>1. CASE Unregister(t)
    BY <2>1 DEF Unregister
  <2>2. CASE ~Unregister(t)
    <3>1. registered' = registered
      BY <1>1, <2>2 DEF StreamStep, CheckContext, DialFails, ClaimSlot, SlotRefused,
        MarkOnline, SetStatus, Fetch, FetchDone, FetchFails, Finish, ClosePipe,
        MarkOffline
    <3>2. \A u \in Streams : u # t => stream'[u] = stream[u]
      BY <1>1 DEF StreamStep, CheckContext, DialFails, ClaimSlot, SlotRefused,
        MarkOnline, SetStatus, Fetch, FetchDone, FetchFails, Finish, ClosePipe,
        MarkOffline, Unregister, StreamGoes, TryAgain
    <3>3. stream[t] # "offline" \/ t \in Hls =>
            stream'[t] \notin {"unused", "done"} \cup
                                (IF t \in Hls THEN {} ELSE {"offline"})
      BY <1>1, <2>2 DEF StreamStep, CheckContext, DialFails, ClaimSlot, SlotRefused,
        MarkOnline, SetStatus, Fetch, FetchDone, FetchFails, Finish, ClosePipe,
        MarkOffline, StreamGoes, TryAgain
    <3> QED
      BY <3>1, <3>2, <3>3
  <2> QED
    BY <2>1, <2>2
<1>2. ASSUME NEW r \in Sources, PipeReaderStep(r) PROVE NoDeadEntry'
  BY <1>2 DEF PipeReaderStep, StreamGoes
<1>3. ASSUME NEW r \in Starters, NEW t \in Streams, Register(r, t)
      PROVE  NoDeadEntry'
  BY <1>3 DEF Register, FirstStep
<1>4. CASE UNCHANGED <<stream, registered>>
  BY <1>4
<1>5. ASSUME \/ \E r \in Starters : CancelOld(r)
             \/ MonitorRow \/ MonitorOnline \/ MonitorActive
             \/ \E o \in Owners : OwnerStarts(o) \/ OwnerAuto(o)
             \/ \E d \in Stoppers : StopStatus(d) \/ StopAuto(d)
             \/ CleanupCheck \/ CleanupMark
             \/ UNCHANGED vars
      PROVE  NoDeadEntry'
  BY <1>4, <1>5 DEF CancelOld, MonitorRow, MonitorOnline, MonitorActive, MonitorFrame,
    OwnerStarts, OwnerAuto, StopStatus, StopAuto, CleanupCheck, CleanupMark, SetStatus,
    SetAutoStart, vars, streamVars
<1>6. ASSUME NEW d \in Stoppers, StopStream(d) PROVE NoDeadEntry'
  BY <1>6 DEF StopStream
<1> QED
  BY <1>1, <1>2, <1>3, <1>5, <1>6 DEF Next, StarterStep, StopperStep

\* The monitor never skips a station for a stream that is over.
THEOREM EntryIsAlive == Spec => []NoDeadEntry
<1>1. Init => NoDeadEntry
  BY DEF Init, NoDeadEntry
<1> QED
  BY <1>1, TypeCorrect, NextEntry, PTL DEF Spec

(***************************************************************************)
(* The status column.  Only MarkOnline writes "online", and from there a   *)
(* stream gets to the end of its goroutine through MarkOffline alone,      *)
(* which leaves missed behind when its UPDATE fails.                       *)
(***************************************************************************)
LEMMA NextOwed ==
  ASSUME TypeOK, OnlineIsOwed, [Next]_vars
  PROVE  OnlineIsOwed'
<1> USE DEF TypeOK, OnlineIsOwed, OwesOffline
<1>1. ASSUME NEW t \in Streams, StreamStep(t) PROVE OnlineIsOwed'
  <2>1. CASE MarkOffline(t)
    BY <2>1 DEF MarkOffline
  <2>2. CASE MarkOnline(t)
    BY <2>2 DEF MarkOnline, SetStatus, StreamGoes
  <2>3. CASE ~(MarkOnline(t) \/ MarkOffline(t))
    <3>1. UNCHANGED <<status, missed>>
      BY <1>1, <2>3 DEF StreamStep, CheckContext, DialFails, ClaimSlot,
        SlotRefused, Fetch, FetchDone, FetchFails, Finish,
        ClosePipe, Unregister
    <3>2. \A u \in Streams : u # t => stream'[u] = stream[u]
      BY <1>1 DEF StreamStep, CheckContext, DialFails, ClaimSlot, SlotRefused,
        MarkOnline, SetStatus, Fetch, FetchDone, FetchFails, Finish, ClosePipe,
        MarkOffline, Unregister, StreamGoes, TryAgain
    <3>3. OwesOffline(t) => OwesOffline(t)'
      BY <1>1, <2>3 DEF StreamStep, CheckContext, DialFails, ClaimSlot,
        SlotRefused, Fetch, FetchDone, FetchFails, Finish,
        ClosePipe, Unregister, StreamGoes, TryAgain
    <3> QED
      BY <3>1, <3>2, <3>3
  <2> QED
    BY <2>1, <2>2, <2>3
<1>2. ASSUME NEW r \in Sources, PipeReaderStep(r) PROVE OnlineIsOwed'
  BY <1>2 DEF PipeReaderStep, StreamGoes
<1>3. ASSUME NEW r \in Starters, NEW t \in Streams, Register(r, t)
      PROVE  OnlineIsOwed'
  BY <1>3 DEF Register, FirstStep
<1>4. ASSUME stream' = stream,
             \/ UNCHANGED <<status, missed>>
             \/ status' = "offline"
             \/ status' = status /\ missed' = (missed /\ status' = "online")
      PROVE  OnlineIsOwed'
  BY <1>4
<1>5. ASSUME \/ \E r \in Starters : CancelOld(r)
             \/ MonitorRow \/ MonitorOnline \/ MonitorActive
             \/ \E o \in Owners : OwnerStarts(o) \/ OwnerAuto(o)
             \/ \E d \in Stoppers : StopperStep(d)
             \/ CleanupCheck \/ CleanupMark
             \/ UNCHANGED vars
      PROVE  OnlineIsOwed'
  BY <1>4, <1>5 DEF CancelOld, MonitorRow, MonitorOnline, MonitorActive, MonitorFrame,
    OwnerStarts, OwnerAuto, StopperStep, StopStream, StopStatus, StopAuto, CleanupCheck,
    CleanupMark, SetStatus, SetAutoStart, vars, streamVars
<1> QED
  BY <1>1, <1>2, <1>3, <1>5 DEF Next, StarterStep

\* A row that says "online" will be set to "offline" by a running stream, or a
\* stream has tried to, its UPDATE has failed and nobody's has got through since.
THEOREM OnlineOwed == Spec => []OnlineIsOwed
<1>1. Init => OnlineIsOwed
  BY DEF Init, OnlineIsOwed
<1> QED
  BY <1>1, TypeCorrect, NextOwed, PTL DEF Spec

(***************************************************************************)
(* The monitor and auto_start.  From the row to the end of the pass the    *)
(* monitor is not idle, so DbFree fails and StopAuto waits.                *)
(***************************************************************************)
LEMMA NextObeys ==
  ASSUME TypeOK, MonitorObeys, [Next]_vars
  PROVE  MonitorObeys'
<1> USE DEF TypeOK, MonitorObeys
<1>0. Monitor \in Starters
  BY DEF Starters
<1>1. ASSUME NEW t \in Streams, StreamStep(t) PROVE MonitorObeys'
  BY <1>1 DEF StreamStep, CheckContext, DialFails, ClaimSlot, SlotRefused, MarkOnline,
    SetStatus, Fetch, FetchDone, FetchFails, Finish, ClosePipe, MarkOffline, Unregister,
    requestVars
<1>2. ASSUME NEW r \in Sources, PipeReaderStep(r) PROVE MonitorObeys'
  BY <1>2 DEF PipeReaderStep, requestVars
<1>3. ASSUME NEW r \in Starters, StarterStep(r) PROVE MonitorObeys'
  BY <1>0, <1>3 DEF StarterStep, Register, CancelOld, StarterGoes
<1>4. CASE MonitorRow
  BY <1>4 DEF MonitorRow, MonitorFrame
<1>5. CASE MonitorOnline \/ MonitorActive
  BY <1>0, <1>5 DEF MonitorOnline, MonitorActive, MonitorFrame, StarterGoes
<1>6. ASSUME NEW o \in Owners, OwnerStarts(o) \/ OwnerAuto(o)
      PROVE  MonitorObeys'
  BY <1>0, <1>6, StreamsAssumption DEF OwnerStarts, OwnerAuto, SetAutoStart,
    MonitorFrame, StarterGoes, Starters
<1>7. ASSUME NEW d \in Stoppers, StopperStep(d) PROVE MonitorObeys'
  BY <1>7 DEF StopperStep, StopStream, StopStatus, StopAuto, SetAutoStart, DbFree
<1>8. CASE CleanupCheck \/ CleanupMark \/ UNCHANGED vars
  BY <1>8 DEF CleanupCheck, CleanupMark, vars, requestVars
<1> QED
  BY <1>1, <1>2, <1>3, <1>4, <1>5, <1>6, <1>7, <1>8 DEF Next

\* The monitor starts no stream for a station whose auto_start was cleared
\* after it read the row.
THEOREM MonitorObeyed == Spec => []MonitorObeys
<1>1. Init => MonitorObeys
  BY DEF Init, MonitorObeys, Starters
<1> QED
  BY <1>1, TypeCorrect, NextObeys, PTL DEF Spec

(***************************************************************************)
(* The writer and its reader.  A reader that runs has the slot and reads   *)
(* what is in it; a pipe that no attempt has used is nowhere yet; and the  *)
(* pipe of a stream that writes is neither ended nor closed, so that its   *)
(* reader meets no error and does not leave.                               *)
(***************************************************************************)
Writes(t) == stream[t] \in {"online", "stream", "fetch", "write"}

\* The pipe of attempt k of stream t is still to be made.
Unmade(t, k) ==
  \/ k > retry[t]
  \/ k = retry[t] /\ stream[t] \in {"unused", "check", "dial"}

ReadersOwn ==
  \A r \in Sources : reader[r] \notin {"none", "done"} =>
    /\ active /\ source = r
    /\ reader[r] \in {"read", "send"} => reading[r] = r

UnmadeAbsent ==
  \A t \in Streams, k \in 0 .. MaxRetries - 1 : Unmade(t, k) =>
    source # <<t, k>> /\ <<t, k>> \notin ended \cup closed

WritersRead ==
  \A t \in Streams : Writes(t) =>
    /\ active /\ source = Pipe(t)
    /\ reader[Pipe(t)] \in {"loop", "read", "send"}
    /\ Pipe(t) \notin ended \cup closed

PipeInv == ReadersOwn /\ UnmadeAbsent /\ WritersRead

\* A step that leaves the slot alone, makes no pipe disappear and lets no
\* stream begin to write.
LEMMA SlotAlone ==
  ASSUME PipeInv, UNCHANGED slotVars,
         \A t \in Streams, k \in 0 .. MaxRetries - 1 : Unmade(t, k)' => Unmade(t, k),
         \A t \in Streams : Writes(t)' => Writes(t) /\ retry'[t] = retry[t]
  PROVE  PipeInv'
<1>1. ReadersOwn'
  BY DEF PipeInv, ReadersOwn, slotVars
<1>2. UnmadeAbsent'
  BY DEF PipeInv, UnmadeAbsent, slotVars
<1>3. WritersRead'
  BY DEF PipeInv, WritersRead, slotVars, Pipe
<1> QED
  BY <1>1, <1>2, <1>3 DEF PipeInv

\* What a failed attempt leaves behind it.
LEMMA NextAttempt ==
  ASSUME TypeOK, NEW t \in Streams, NEW from, TryAgain(t, from)
  PROVE  /\ \A u \in Streams, k \in 0 .. MaxRetries - 1 : Unmade(u, k)' => Unmade(u, k)
         /\ \A u \in Streams : Writes(u)' => Writes(u) /\ retry'[u] = retry[u]
<1>1. retry[t] \in Nat /\ retry'[t] \in {retry[t], retry[t] + 1}
  BY StreamsAssumption DEF TryAgain, TypeOK
<1>2. stream'[t] \in {"check", "delete"} /\ (stream'[t] = "check" => retry'[t] = retry[t] + 1)
  BY DEF TryAgain, TypeOK
<1>3. \A u \in Streams : u # t => stream'[u] = stream[u] /\ retry'[u] = retry[u]
  BY DEF TryAgain, TypeOK
<1>4. ASSUME NEW k \in 0 .. MaxRetries - 1, Unmade(t, k)' PROVE Unmade(t, k)
  BY <1>1, <1>2, <1>4 DEF Unmade
<1> QED
  BY <1>2, <1>3, <1>4 DEF Unmade, Writes

LEMMA StreamWrites ==
  ASSUME TypeOK, PipeInv, NEW t \in Streams, StreamStep(t)
  PROVE  PipeInv'
<1> USE DEF TypeOK
<1>1. CASE DialFails(t) \/ SlotRefused(t)
  <2>1. TryAgain(t, "dial") /\ UNCHANGED slotVars
    BY <1>1 DEF DialFails, SlotRefused, SlotBusy
  <2> QED
    BY <2>1, NextAttempt, SlotAlone
<1>2. CASE \/ CheckContext(t) \/ MarkOnline(t) \/ Fetch(t) \/ FetchDone(t)
           \/ FetchFails(t) \/ Finish(t) \/ MarkOffline(t) \/ Unregister(t)
  <2>1. /\ UNCHANGED <<slotVars, retry>>
        /\ \A u \in Streams : Writes(u)' => Writes(u)
        /\ \A u \in Streams : stream'[u] \in {"unused", "check", "dial"} =>
                                stream[u] \in {"unused", "check", "dial"}
    BY <1>2 DEF CheckContext, MarkOnline, SetStatus, Fetch, FetchDone, FetchFails,
      Finish, MarkOffline, Unregister, StreamGoes, Writes
  <2> QED
    BY <2>1, SlotAlone DEF Unmade
<1>3. CASE ClaimSlot(t)
  <2> DEFINE p == Pipe(t)
  <2>1. /\ p \in Sources /\ p \in Closable /\ p = <<t, retry[t]>>
        /\ retry[t] \in 0 .. MaxRetries - 1 /\ Unmade(t, retry[t])
    BY <1>3, PipeIsSource, StreamsAssumption DEF Pipe, ClaimSlot, StreamGoes, Unmade
  <2>2. /\ ~active /\ active' /\ source' = p /\ retry' = retry /\ ended' = ended
        /\ closed' = closed \cup ({source} \cap Closable)
        /\ reader' = [reader EXCEPT ![p] = "loop"] /\ reading' = reading
        /\ stream' = [stream EXCEPT ![t] = "online"] /\ stream[t] = "dial"
    BY <1>3 DEF ClaimSlot, TrySetSource, CloseHeld, StreamGoes
  <2>3. source # p /\ p \notin ended \cup closed
    BY <2>1 DEF PipeInv, UnmadeAbsent
  <2>4. ReadersOwn'
    BY <2>1, <2>2 DEF PipeInv, ReadersOwn, SlotTypeOK
  <2>5. UnmadeAbsent'
    <3> SUFFICES ASSUME NEW u \in Streams, NEW k \in 0 .. MaxRetries - 1, Unmade(u, k)'
                 PROVE  p # <<u, k>> /\ <<u, k>> \notin ended' \cup closed'
      BY <2>2 DEF UnmadeAbsent
    <3>1. Unmade(u, k) /\ <<u, k>> # <<t, retry[t]>>
      BY <2>1, <2>2 DEF Unmade
    <3> QED
      BY <2>1, <2>2, <3>1 DEF PipeInv, UnmadeAbsent
  <2>6. WritersRead'
    <3>1. \A u \in Streams : Writes(u)' => u = t
      BY <2>2 DEF PipeInv, WritersRead, Writes
    <3>2. /\ Pipe(t)' = p /\ reader'[p] = "loop" /\ p \notin ended' \cup closed'
      BY <2>1, <2>2, <2>3 DEF Pipe, SlotTypeOK
    <3> QED
      BY <2>2, <3>1, <3>2 DEF WritersRead
  <2> QED
    BY <2>4, <2>5, <2>6 DEF PipeInv
<1>4. CASE ClosePipe(t)
  <2>1. /\ UNCHANGED <<source, active, reader, reading, closed>>
        /\ ended' = ended \cup {Pipe(t)} /\ stream[t] = "close"
    BY <1>4 DEF ClosePipe, PeerGone, StreamGoes, TryAgain
  <2>2. /\ \A u \in Streams, k \in 0 .. MaxRetries - 1 : Unmade(u, k)' => Unmade(u, k)
        /\ \A u \in Streams : Writes(u)' => Writes(u) /\ retry'[u] = retry[u]
    <3>1. CASE TryAgain(t, "close")
      BY <3>1, NextAttempt
    <3>2. CASE /\ retry' = retry
               /\ StreamGoes(t, "close", "offline") \/ StreamGoes(t, "close", "delete")
      BY <3>2 DEF StreamGoes, Unmade, Writes
    <3> QED
      BY <1>4, <3>1, <3>2 DEF ClosePipe
  <2>3. ReadersOwn'
    BY <2>1 DEF PipeInv, ReadersOwn
  <2>4. UnmadeAbsent'
    <3>1. \A u \in Streams, k \in 0 .. MaxRetries - 1 : Unmade(u, k) => <<u, k>> # Pipe(t)
      BY <2>1 DEF Unmade, Pipe
    <3> QED
      BY <2>1, <2>2, <3>1 DEF PipeInv, UnmadeAbsent
  <2>5. WritersRead'
    <3>1. \A u \in Streams : Writes(u) => Pipe(u) # Pipe(t)
      BY <2>1 DEF Writes, Pipe
    <3> QED
      BY <2>1, <2>2, <3>1 DEF PipeInv, WritersRead, Pipe
  <2> QED
    BY <2>3, <2>4, <2>5 DEF PipeInv
<1> QED
  BY <1>1, <1>2, <1>3, <1>4 DEF StreamStep

LEMMA ReaderWrites ==
  ASSUME TypeOK, PipeInv, NEW r \in Sources, PipeReaderStep(r)
  PROVE  PipeInv'
<1>1. /\ retry' = retry
      /\ \A u \in Streams : Writes(u)' => Writes(u)
      /\ \A u \in Streams : stream'[u] \in {"unused", "check", "dial"} =>
                              stream[u] \in {"unused", "check", "dial"}
  BY DEF PipeReaderStep, StreamGoes, Writes, TypeOK
<1>2. /\ UNCHANGED <<source, ended, closed>>
      /\ \/ ReaderCheck(r) \/ ReaderSend(r) \/ ReaderError(r) \/ ReaderExit(r) \/ ReaderChunk(r)
  BY DEF PipeReaderStep, ReaderCheck, ReaderSend, ReaderError, ReaderExit, ReaderChunk
<1>3. /\ reader[r] \notin {"none", "done"} /\ active /\ source = r
      /\ reader[r] \in {"read", "send"} => reading[r] = r
      /\ \A s \in Sources \ {r} : reader[s] \in {"none", "done"}
  BY <1>2 DEF PipeInv, ReadersOwn, ReaderCheck, ReaderSend, ReaderError, ReaderExit, ReaderChunk
<1>4. UnmadeAbsent'
  BY <1>1, <1>2 DEF PipeInv, UnmadeAbsent, Unmade
<1>5. ReadersOwn'
  BY <1>2, <1>3 DEF ReadersOwn, ReaderCheck, ReaderSend, ReaderError, ReaderExit,
    ReaderChunk, TypeOK, SlotTypeOK
<1>6. WritersRead'
  <2> SUFFICES ASSUME NEW u \in Streams, Writes(u)
               PROVE  active' /\ reader'[Pipe(u)] \in {"loop", "read", "send"}
    BY <1>1, <1>2 DEF PipeInv, WritersRead, Pipe
  <2>1. Pipe(u) = r /\ reader[r] \in {"loop", "read", "send"} /\ r \notin ended \cup closed
    BY <1>3 DEF PipeInv, WritersRead
  <2>2. r # None
    BY SourcesAssumption
  <2> QED
    BY <1>2, <1>3, <2>1, <2>2 DEF ReaderCheck, ReaderSend, ReaderError, ReaderExit,
      ReaderChunk, TypeOK, SlotTypeOK
<1> QED
  BY <1>4, <1>5, <1>6 DEF PipeInv

LEMMA RequestWrites ==
  ASSUME TypeOK, PipeInv,
         \/ \E r \in Starters : StarterStep(r)
         \/ MonitorRow \/ MonitorOnline \/ MonitorActive
         \/ \E o \in Owners : OwnerStarts(o) \/ OwnerAuto(o)
         \/ \E d \in Stoppers : StopperStep(d)
         \/ CleanupCheck \/ CleanupMark
         \/ UNCHANGED vars
  PROVE  PipeInv'
<1>1. /\ UNCHANGED <<slotVars, retry>>
      /\ \A u \in Streams : Writes(u)' => Writes(u)
      /\ \A u \in Streams : stream'[u] \in {"unused", "check", "dial"} =>
                              stream[u] \in {"unused", "check", "dial"}
  <2>1. CASE \E r \in Starters, t \in Streams : Register(r, t)
    BY <2>1 DEF Register, FirstStep, Writes, TypeOK
  <2>2. CASE ~(\E r \in Starters, t \in Streams : Register(r, t))
    <3>1. UNCHANGED <<slotVars, retry, stream>>
      BY <2>2 DEF StarterStep, CancelOld, MonitorRow, MonitorOnline, MonitorActive,
        MonitorFrame, OwnerStarts, OwnerAuto, StopperStep, StopStream, StopStatus,
        StopAuto, CleanupCheck, CleanupMark, SetStatus, SetAutoStart, vars, streamVars
    <3> QED
      BY <3>1 DEF Writes
  <2> QED
    BY <2>1, <2>2
<1> QED
  BY <1>1, SlotAlone DEF Unmade

\* A stream that writes has the slot and a reader, so that its Write ends.
THEOREM WriterRead == Spec => []WriterIsRead
<1>1. Init => PipeInv
  BY StreamsAssumption, SourcesAssumption
  DEF Init, SlotInit, PipeInv, ReadersOwn, UnmadeAbsent, WritersRead, Writes
<1>2. TypeOK /\ PipeInv /\ [Next]_vars => PipeInv'
  BY StreamWrites, ReaderWrites, RequestWrites DEF Next
<1>3. PipeInv => WriterIsRead
  BY DEF PipeInv, WritersRead, WriterIsRead, Writes
<1> QED
  BY <1>1, <1>2, <1>3, TypeCorrect, PTL DEF Spec

(***************************************************************************)
(* With source connections next to the streams (SharedMountpoint) anybody  *)
(* may empty the slot, so neither ReadersOwn nor WritersRead survives.     *)
(* What does: a pipe has no reader before its attempt, and whoever takes   *)
(* the slot from a stream that writes closes its pipe.                     *)
(***************************************************************************)
Broadcasters == Session!Broadcasters

UnmadeIdle ==
  \A t \in Streams, k \in 0 .. MaxRetries - 1 : Unmade(t, k) =>
    /\ <<t, k>> \notin ended
    /\ reader[<<t, k>>] = "none" /\ reading[<<t, k>>] = None

Learns(t) ==
  /\ Pipe(t) \notin ended
  /\ \/ Pipe(t) \in closed
     \/ /\ source = Pipe(t)
        /\ active => /\ reader[Pipe(t)] \in {"loop", "read", "send"}
                     /\ reading[Pipe(t)] \in {None, Pipe(t)}

LearnInv ==
  /\ UnmadeIdle
  /\ \A t \in Streams : Writes(t) => Learns(t)

SharedInv == SharedTypeOK /\ SharedOnlineIsOwed /\ LearnInv

(***************************************************************************)
(* The steps of the slot.                                                  *)
(***************************************************************************)

\* A connection is not the pipe of a stream.
LEMMA PipesApart ==
  ASSUME TypeOK
  PROVE  /\ \A t \in Streams, k \in 0 .. MaxRetries - 1 : <<t, k>> \in Closable /\ <<t, k>> \in Sources
         /\ \A t \in Streams : Pipe(t) \in Closable /\ Pipe(t) \in Sources
         /\ \A s \in Broadcasters : s \in Sources \ Closable
  BY SourcesAssumption, StreamsAssumption DEF TypeOK, Pipe, Broadcasters, Session!Broadcasters

\* What a step may do to the slot and still keep LearnInv, when no stream
\* begins to write.
LEMMA SlotStepLearns ==
  ASSUME TypeOK, LearnInv,
         \A t \in Streams, k \in 0 .. MaxRetries - 1 : Unmade(t, k)' => Unmade(t, k),
         \A t \in Streams : Writes(t)' => Writes(t) /\ retry'[t] = retry[t],
         \/ UNCHANGED slotVars
         \/ \E r \in Sources : ReaderStep(r)
         \/ \E s \in Broadcasters : TrySetSource(s) \/ PeerGone(s)
         \/ RemoveSource
  PROVE  LearnInv'
<1> USE DEF TypeOK, SlotTypeOK
<1>1. CASE UNCHANGED slotVars
  BY <1>1 DEF LearnInv, UnmadeIdle, Learns, Pipe, slotVars
<1>2. ASSUME NEW r \in Sources, ReaderStep(r) PROVE LearnInv'
  <2>1. /\ UNCHANGED <<source, ended, closed>> /\ reader[r] # "none" /\ reader'[r] # "none"
        /\ \A s \in Sources \ {r} : reader'[s] = reader[s] /\ reading'[s] = reading[s]
        /\ active' \in {active, FALSE}
        /\ reader[r] = "exit" => active' = FALSE
    BY <1>2 DEF ReaderStep, ReaderCheck, ReaderChunk, ReaderSend, ReaderError, ReaderExit
  <2>2. UnmadeIdle'
    BY <2>1, PipesApart DEF LearnInv, UnmadeIdle
  <2>3. ASSUME NEW t \in Streams, Writes(t)' PROVE Learns(t)'
    <3>1. Learns(t) /\ Pipe(t)' = Pipe(t)
      BY <2>3 DEF LearnInv, Pipe
    <3>2. ASSUME r = Pipe(t), source = r, active', r \notin closed
          PROVE  reader'[r] \in {"loop", "read", "send"} /\ reading'[r] \in {None, r}
      <4>1. /\ active /\ reader[r] \in {"loop", "read", "send"} /\ reading[r] \in {None, r}
            /\ reading[r] \notin ended \cup closed /\ source # None
        BY <2>1, <3>1, <3>2, SourcesAssumption DEF Learns
      <4> QED
        BY <1>2, <3>2, <4>1 DEF ReaderStep, ReaderCheck, ReaderChunk, ReaderSend, ReaderError,
          ReaderExit
    <3>3. ASSUME r # Pipe(t), source = Pipe(t), active'
          PROVE  /\ reader'[Pipe(t)] \in {"loop", "read", "send"} \/ Pipe(t) \in closed
                 /\ reading'[Pipe(t)] \in {None, Pipe(t)} \/ Pipe(t) \in closed
      BY <2>1, <3>1, <3>3, PipesApart DEF Learns
    <3>4. Pipe(t) \notin ended' /\ (Pipe(t) \in closed' \/ source' = Pipe(t))
      BY <2>1, <3>1 DEF Learns
    <3> QED
      BY <2>1, <3>1, <3>2, <3>3, <3>4 DEF Learns
  <2> QED
    BY <2>1, <2>2, <2>3 DEF LearnInv
<1>3. ASSUME NEW s \in Broadcasters, TrySetSource(s) PROVE LearnInv'
  <2>1. /\ s \in Sources \ Closable /\ ~active /\ ended' = ended /\ reading' = reading
        /\ closed' = closed \cup ({source} \cap Closable)
        /\ reader' = [reader EXCEPT ![s] = "loop"]
    BY <1>3, PipesApart DEF TrySetSource, CloseHeld
  <2>2. UnmadeIdle'
    BY <2>1, PipesApart DEF LearnInv, UnmadeIdle
  <2>3. \A t \in Streams : Writes(t)' => Learns(t)'
    BY <2>1, PipesApart DEF LearnInv, Learns, Pipe
  <2> QED
    BY <2>1, <2>2, <2>3 DEF LearnInv
<1>4. CASE RemoveSource
  <2>1. UNCHANGED <<ended, reader, reading>> /\ closed' = closed \cup ({source} \cap Closable)
    BY <1>4 DEF RemoveSource, CloseHeld
  <2>2. \A t \in Streams : Writes(t)' => Learns(t)'
    BY <2>1, PipesApart DEF LearnInv, Learns, Pipe
  <2> QED
    BY <2>1, <2>2 DEF LearnInv, UnmadeIdle
<1>5. ASSUME NEW s \in Broadcasters, PeerGone(s) PROVE LearnInv'
  <2>1. s \in Sources \ Closable /\ UNCHANGED <<source, active, reader, reading, closed>>
        /\ ended' = ended \cup {s}
    BY <1>5, PipesApart DEF PeerGone
  <2>2. UnmadeIdle'
    BY <2>1, PipesApart DEF LearnInv, UnmadeIdle
  <2>3. \A t \in Streams : Writes(t)' => Learns(t)'
    BY <2>1, PipesApart DEF LearnInv, Learns, Pipe
  <2> QED
    BY <2>1, <2>2, <2>3 DEF LearnInv
<1> QED
  BY <1>1, <1>2, <1>3, <1>4, <1>5

(***************************************************************************)
(* The steps of ExternalStreams.                                           *)
(***************************************************************************)

\* No step but ClaimSlot lets a stream begin to write, and none unmakes a pipe.
LEMMA StreamsGoOn ==
  ASSUME TypeOK, [Next]_vars, ~(\E t \in Streams : ClaimSlot(t))
  PROVE  /\ \A t \in Streams, k \in 0 .. MaxRetries - 1 : Unmade(t, k)' => Unmade(t, k)
         /\ \A t \in Streams : Writes(t)' => Writes(t) /\ retry'[t] = retry[t]
<1>1. CASE \E t \in Streams : DialFails(t) \/ SlotRefused(t)
  BY <1>1, NextAttempt DEF DialFails, SlotRefused
<1>2. CASE \E t \in Streams : ClosePipe(t)
  <2> PICK t \in Streams : ClosePipe(t)
    BY <1>2
  <2>1. CASE TryAgain(t, "close")
    BY <2>1, NextAttempt
  <2>2. CASE /\ retry' = retry
             /\ StreamGoes(t, "close", "offline") \/ StreamGoes(t, "close", "delete")
    BY <2>2 DEF StreamGoes, Unmade, Writes, TypeOK
  <2> QED
    BY <2>1, <2>2 DEF ClosePipe
<1>3. CASE ~(\E t \in Streams : DialFails(t) \/ SlotRefused(t) \/ ClosePipe(t))
  <2>1. /\ retry' = retry
        /\ \A u \in Streams : Writes(u)' => Writes(u)
        /\ \A u \in Streams : stream'[u] \in {"unused", "check", "dial"} =>
                                stream[u] \in {"unused", "check", "dial"}
    <3>1. CASE \E t \in Streams : StreamStep(t)
      BY <1>3, <3>1 DEF StreamStep, CheckContext, MarkOnline, SetStatus, Fetch,
        FetchDone, FetchFails, Finish, MarkOffline, Unregister, StreamGoes, Writes,
        TypeOK
    <3>2. CASE \E r \in Sources : PipeReaderStep(r)
      BY <3>2 DEF PipeReaderStep, StreamGoes, Writes, TypeOK
    <3>3. CASE \E r \in Starters, t \in Streams : Register(r, t)
      BY <3>3 DEF Register, FirstStep, Writes, TypeOK
    <3>4. CASE \/ \E r \in Starters : CancelOld(r)
               \/ MonitorRow \/ MonitorOnline \/ MonitorActive
               \/ \E o \in Owners : OwnerStarts(o) \/ OwnerAuto(o)
               \/ \E d \in Stoppers : StopperStep(d)
               \/ CleanupCheck \/ CleanupMark
               \/ UNCHANGED vars
      BY <3>4 DEF CancelOld, MonitorRow, MonitorOnline, MonitorActive, MonitorFrame,
        OwnerStarts, OwnerAuto, StopperStep, StopStream, StopStatus, StopAuto,
        CleanupCheck, CleanupMark, SetStatus, SetAutoStart, vars, streamVars, Writes
    <3> QED
      BY <3>1, <3>2, <3>3, <3>4 DEF Next, StarterStep
  <2> QED
    BY <2>1 DEF Unmade
<1> QED
  BY <1>1, <1>2, <1>3

LEMMA ClaimLearns ==
  ASSUME TypeOK, LearnInv, NEW t \in Streams, ClaimSlot(t)
  PROVE  LearnInv'
<1> DEFINE p == Pipe(t)
<1> USE DEF TypeOK, SlotTypeOK
<1>1. /\ p \in Sources /\ p \in Closable /\ p = <<t, retry[t]>>
      /\ retry[t] \in 0 .. MaxRetries - 1 /\ Unmade(t, retry[t])
  BY PipesApart DEF Pipe, ClaimSlot, StreamGoes, Unmade
<1>2. /\ ~active /\ source' = p /\ retry' = retry /\ ended' = ended
      /\ closed' = closed \cup ({source} \cap Closable)
      /\ reader' = [reader EXCEPT ![p] = "loop"] /\ reading' = reading
      /\ stream' = [stream EXCEPT ![t] = "online"] /\ stream[t] = "dial"
  BY DEF ClaimSlot, TrySetSource, CloseHeld, StreamGoes
<1>3. p \notin ended /\ reading[p] = None
  BY <1>1 DEF LearnInv, UnmadeIdle
<1>4. UnmadeIdle'
  <2> SUFFICES ASSUME NEW u \in Streams, NEW k \in 0 .. MaxRetries - 1, Unmade(u, k)'
               PROVE  /\ <<u, k>> \notin ended
                      /\ reader'[<<u, k>>] = "none" /\ reading[<<u, k>>] = None
    BY <1>2 DEF UnmadeIdle
  <2>1. Unmade(u, k) /\ <<u, k>> # p
    BY <1>1, <1>2 DEF Unmade
  <2> QED
    BY <1>1, <1>2, <2>1, PipesApart DEF LearnInv, UnmadeIdle
<1>5. ASSUME NEW u \in Streams, Writes(u)' PROVE Learns(u)'
  <2>1. CASE u = t
    <3>1. Pipe(u)' = p /\ reader'[p] = "loop" /\ reading'[p] = None
      BY <1>1, <1>2, <1>3, <2>1 DEF Pipe
    <3> QED
      BY <1>2, <1>3, <3>1 DEF Learns
  <2>2. CASE u # t
    <3>1. Writes(u) /\ Pipe(u)' = Pipe(u) /\ Pipe(u) \in Closable
      BY <1>2, <1>5, <2>2, PipesApart DEF Writes, Pipe
    <3> QED
      BY <1>2, <3>1 DEF LearnInv, Learns
  <2> QED
    BY <2>1, <2>2
<1> QED
  BY <1>1, <1>2, <1>4, <1>5 DEF LearnInv

LEMMA StreamsLearn ==
  ASSUME TypeOK, LearnInv, [Next]_vars
  PROVE  LearnInv'
<1>1. CASE \E t \in Streams : ClaimSlot(t)
  BY <1>1, ClaimLearns
<1>2. CASE \E t \in Streams : ClosePipe(t)
  <2> PICK t \in Streams : ClosePipe(t)
    BY <1>2
  <2>1. /\ UNCHANGED <<source, active, reader, reading, closed>>
        /\ ended' = ended \cup {Pipe(t)} /\ stream[t] = "close"
    BY DEF ClosePipe, PeerGone, StreamGoes, TryAgain
  <2>2. /\ \A u \in Streams, k \in 0 .. MaxRetries - 1 : Unmade(u, k)' => Unmade(u, k)
        /\ \A u \in Streams : Writes(u)' => Writes(u) /\ retry'[u] = retry[u]
    <3>1. ~(\E u \in Streams : ClaimSlot(u))
      BY <2>1, StreamsAssumption, PipesApart DEF ClaimSlot, TrySetSource, ClosePipe, PeerGone
    <3> QED
      BY <3>1, StreamsGoOn
  <2>3. UnmadeIdle'
    <3>1. \A u \in Streams, k \in 0 .. MaxRetries - 1 : Unmade(u, k) => <<u, k>> # Pipe(t)
      BY <2>1 DEF Unmade, Pipe
    <3> QED
      BY <2>1, <2>2, <3>1 DEF LearnInv, UnmadeIdle
  <2>4. \A u \in Streams : Writes(u)' => Learns(u)'
    <3>1. \A u \in Streams : Writes(u) => Pipe(u) # Pipe(t)
      BY <2>1 DEF Writes, Pipe
    <3> QED
      BY <2>1, <2>2, <3>1 DEF LearnInv, Learns, Pipe
  <2> QED
    BY <2>1, <2>3, <2>4 DEF LearnInv
<1>3. CASE ~(\E t \in Streams : ClaimSlot(t) \/ ClosePipe(t))
  <2>1. UNCHANGED slotVars \/ \E r \in Sources : ReaderStep(r)
    <3>1. CASE \E t \in Streams : StreamStep(t)
      BY <1>3, <3>1 DEF StreamStep, CheckContext, DialFails, SlotRefused, SlotBusy, MarkOnline,
        Fetch, FetchDone, FetchFails, Finish, MarkOffline, Unregister
    <3>2. CASE \E r \in Sources : PipeReaderStep(r)
      BY <3>2 DEF PipeReaderStep, ReaderStep
    <3>3. CASE \/ \E r \in Starters : StarterStep(r)
               \/ MonitorRow \/ MonitorOnline \/ MonitorActive
               \/ \E o \in Owners : OwnerStarts(o) \/ OwnerAuto(o)
               \/ \E d \in Stoppers : StopperStep(d)
               \/ CleanupCheck \/ CleanupMark
               \/ UNCHANGED vars
      BY <3>3 DEF StarterStep, Register, CancelOld, MonitorRow, MonitorOnline,
        MonitorActive, MonitorFrame, OwnerStarts, OwnerAuto, StopperStep, StopStream,
        StopStatus, StopAuto, CleanupCheck, CleanupMark, SetStatus, SetAutoStart, vars
    <3> QED
      BY <3>1, <3>2, <3>3 DEF Next
  <2>2. ~(\E t \in Streams : ClaimSlot(t))
    BY <1>3
  <2> QED
    BY <2>1, <2>2, StreamsGoOn, SlotStepLearns
<1> QED
  BY <1>1, <1>2, <1>3

(***************************************************************************)
(* The steps of the connections.                                           *)
(***************************************************************************)
ConnectionsStep ==
  \/ \E s \in Broadcasters : ConnectionStep(s)
  \/ \E r \in Sources : ConnectionChunk(r)

LEMMA ConnectionLearns ==
  ASSUME TypeOK, LearnInv,
         ConnectionsStep \/ \E t \in Streams : WriteFails(t)
  PROVE  LearnInv'
<1>1. /\ \A t \in Streams, k \in 0 .. MaxRetries - 1 : Unmade(t, k)' => Unmade(t, k)
      /\ \A t \in Streams : Writes(t)' => Writes(t) /\ retry'[t] = retry[t]
  <2>1. CASE ConnectionsStep
    BY <2>1 DEF ConnectionsStep, ConnectionStep, ConnectionMoves, ConnectionChunk,
      streamVars, Unmade, Writes
  <2>2. CASE \E t \in Streams : WriteFails(t)
    BY <2>2 DEF WriteFails, StreamGoes, Unmade, Writes, TypeOK
  <2> QED
    BY <2>1, <2>2
<1>2. \/ UNCHANGED slotVars
      \/ \E r \in Sources : ReaderStep(r)
      \/ \E s \in Broadcasters : TrySetSource(s) \/ PeerGone(s)
      \/ RemoveSource
  BY DEF ConnectionsStep, ConnectionStep, ConnectionMoves, ConnectionChunk, WriteFails,
    ReaderStep, Session!Claim, Session!Refuse, Session!HangUp, Session!Release,
    Session!MarkOnline, Session!MarkOffline, 
    Session!TrySetSource, TrySetSource, Session!CloseHeld, CloseHeld, Session!PeerGone, PeerGone,
    Session!RemoveSource, RemoveSource, Session!SlotBusy, SlotBusy, Session!slotVars, slotVars
<1> QED
  BY <1>1, <1>2, SlotStepLearns

(***************************************************************************)
(* Types, who owes an "offline", and the theorems.                         *)
(***************************************************************************)
LEMMA ConnectionSlot ==
  ASSUME ConnectionsStep
  PROVE  /\ UNCHANGED <<streamVars, requestVars>>
         /\ \/ UNCHANGED slotVars
            \/ \E s \in Sources : TrySetSource(s) \/ PeerGone(s) \/ ReaderStep(s)
            \/ RemoveSource
  BY DEF ConnectionsStep, ConnectionStep, ConnectionMoves, ConnectionChunk, ReaderStep,
    Broadcasters, Session!Broadcasters, Session!Claim, Session!Refuse, Session!HangUp,
    Session!Release, Session!MarkOnline, Session!MarkOffline, Session!TrySetSource, TrySetSource, Session!CloseHeld, CloseHeld,
    Session!PeerGone, PeerGone, Session!RemoveSource, RemoveSource, Session!SlotBusy, SlotBusy,
    Session!slotVars, slotVars

LEMMA ConnectionType ==
  ASSUME SharedTypeOK, ConnectionsStep
  PROVE  SharedTypeOK'
<1>1. SlotTypeOK'
  <2>1. CASE RemoveSource
    BY <2>1 DEF RemoveSource, CloseHeld, SharedTypeOK, TypeOK, SlotTypeOK
  <2> QED
    BY <2>1, ConnectionSlot, SlotType DEF SharedTypeOK, TypeOK
<1>2. /\ handler' \in [Broadcasters -> Session!HandlerState]
      /\ status' \in {"online", "offline"}
      /\ missed' \in BOOLEAN
  BY DEF ConnectionsStep, ConnectionStep, ConnectionMoves, ConnectionChunk,
    Broadcasters, Session!Broadcasters, Session!Claim, Session!Refuse, Session!HangUp,
    Session!Release, Session!MarkOnline, Session!MarkOffline, Session!HandlerGoes,
    Session!SetStatus, Session!sessionVars, Session!HandlerState, SharedTypeOK, TypeOK,
    Session!SessionTypeOK
<1> QED
  BY <1>1, <1>2, ConnectionSlot
  DEF SharedTypeOK, TypeOK, Session!SessionTypeOK, Session!Status, Session!CleanupState,
    Broadcasters, streamVars, requestVars

LEMMA WriteFailsType ==
  ASSUME SharedTypeOK, NEW t \in Streams, WriteFails(t), UNCHANGED handler
  PROVE  SharedTypeOK'
<1>1. TypeOK'
  <2>1. stream' \in [Streams -> StreamState]
    BY GoesType DEF WriteFails, SharedTypeOK, StreamState
  <2> QED
    BY <2>1 DEF WriteFails, SharedTypeOK, TypeOK, SlotTypeOK, slotVars, requestVars
<1> QED
  BY <1>1
  DEF SharedTypeOK, TypeOK, Session!SessionTypeOK, Session!Status, Session!CleanupState

LEMMA SharedTypeNext == SharedTypeOK /\ [SharedNext]_sharedVars => SharedTypeOK'
<1> SUFFICES ASSUME SharedTypeOK, [SharedNext]_sharedVars PROVE SharedTypeOK'
  OBVIOUS
<1>1. CASE [Next]_vars /\ UNCHANGED handler
  <2>1. TypeOK'
    BY <1>1, NextType DEF SharedTypeOK
  <2> QED
    BY <1>1, <2>1
    DEF SharedTypeOK, TypeOK, Session!SessionTypeOK, Session!Status, Session!CleanupState
<1> QED
  BY <1>1, WriteFailsType, ConnectionType
  DEF SharedNext, ConnectionsStep, Broadcasters, sharedVars

LEMMA SharedOwedNext ==
  ASSUME SharedTypeOK, SharedOnlineIsOwed, [SharedNext]_sharedVars
  PROVE  SharedOnlineIsOwed'
<1>1. CASE UNCHANGED <<stream, status, missed, handler>>
  BY <1>1 DEF SharedOnlineIsOwed, OwesOffline
<1>2. CASE [Next]_vars /\ UNCHANGED handler
  <2>1. CASE OnlineIsOwed
    BY <1>2, <2>1, NextOwed DEF SharedTypeOK, OnlineIsOwed, SharedOnlineIsOwed
  <2>2. ASSUME NEW s \in Broadcasters, handler[s] \in {"streaming", "released", "failed"}
        PROVE  SharedOnlineIsOwed'
    BY <1>2, <2>2 DEF SharedOnlineIsOwed, Broadcasters
  <2>3. CASE status # "online"
    BY <2>1, <2>3 DEF OnlineIsOwed
  <2> QED
    BY <2>1, <2>2, <2>3 DEF SharedOnlineIsOwed, OnlineIsOwed, Broadcasters
<1>3. CASE \E t \in Streams : WriteFails(t) /\ UNCHANGED handler
  BY <1>3 DEF WriteFails, StreamGoes, SharedOnlineIsOwed, OwesOffline,
    SharedTypeOK, TypeOK
<1>4. ASSUME NEW s \in Broadcasters, ConnectionStep(s) PROVE SharedOnlineIsOwed'
  <2>1. stream' = stream /\ handler \in [Broadcasters -> Session!HandlerState]
    BY <1>4 DEF ConnectionStep, ConnectionMoves, streamVars, SharedTypeOK, Session!SessionTypeOK,
      Broadcasters
  <2>2. CASE Session!MarkOffline(s) \/ Session!MarkOnline(s)
    BY <2>1, <2>2 DEF Session!MarkOffline, Session!MarkOnline, Session!HandlerGoes,
      Session!SetStatus, SharedOnlineIsOwed, OwesOffline, Broadcasters
  <2>3. CASE Session!Claim(s) \/ Session!Refuse(s) \/ Session!HangUp(s) \/ Session!Release(s)
    <3>1. status' = status
      BY <2>3 DEF Session!Claim, Session!Refuse, Session!HangUp, Session!Release,
        Session!sessionVars
    <3>2. status = "online" /\ missed => missed'
      BY <1>4, <3>1 DEF ConnectionStep, ConnectionMoves
    <3>3. \A u \in Broadcasters : handler[u] \in {"streaming", "released", "failed"} =>
                                    handler'[u] \in {"streaming", "released", "failed"}
      BY <2>1, <2>3 DEF Session!Claim, Session!Refuse, Session!HangUp, Session!Release,
        Session!sessionVars, Session!HandlerGoes
    <3> QED
      BY <2>1, <3>1, <3>2, <3>3 DEF SharedOnlineIsOwed, OwesOffline, Broadcasters
  <2> QED
    BY <1>4, <2>2, <2>3 DEF ConnectionStep, ConnectionMoves
<1>5. CASE \E r \in Sources : ConnectionChunk(r)
  BY <1>1, <1>5 DEF ConnectionChunk, 
    Session!SetStatus, streamVars, SharedOnlineIsOwed, OwesOffline
<1> QED
  BY <1>2, <1>3, <1>4, <1>5 DEF SharedNext, sharedVars, Broadcasters

LEMMA SharedLearnNext ==
  ASSUME SharedTypeOK, LearnInv, [SharedNext]_sharedVars
  PROVE  LearnInv'
<1>1. TypeOK
  BY DEF SharedTypeOK
<1>2. [Next]_vars \/ ConnectionsStep \/ \E t \in Streams : WriteFails(t)
  BY DEF SharedNext, sharedVars, ConnectionsStep, Broadcasters
<1> QED
  BY <1>1, <1>2, StreamsLearn, ConnectionLearns

LEMMA SharedInitInv == SharedInit => SharedInv
<1> SUFFICES ASSUME SharedInit PROVE SharedInv
  OBVIOUS
<1>1. SharedTypeOK
  BY InitType
  DEF SharedInit, Session!SessionInit, SharedTypeOK, Session!SessionTypeOK, Session!HandlerState,
    Session!StopperState, Session!CleanupState, Session!Status
<1>2. SharedOnlineIsOwed
  BY DEF SharedInit, Session!SessionInit, SharedOnlineIsOwed
<1>3. LearnInv
  BY StreamsAssumption, SourcesAssumption
  DEF SharedInit, Init, SlotInit, LearnInv, UnmadeIdle, Writes
<1> QED
  BY <1>1, <1>2, <1>3 DEF SharedInv

LEMMA SharedInvariant == SharedSpec => []SharedInv
<1>1. SharedInv /\ [SharedNext]_sharedVars => SharedInv'
  BY SharedTypeNext, SharedOwedNext, SharedLearnNext DEF SharedInv
<1> QED
  BY <1>1, SharedInitInv, PTL DEF SharedSpec

\* Types are right next to source connections too.
THEOREM SharedTypeCorrect == SharedSpec => []SharedTypeOK
<1>1. SharedInv => SharedTypeOK
  BY DEF SharedInv
<1> QED
  BY <1>1, SharedInvariant, PTL

\* A row that says "online" will be set to "offline" by a running stream or by
\* the HandleSource of a connection, however they drive each other off, or one
\* of them has tried and its UPDATE has failed.
THEOREM SharedOnlineOwed == SharedSpec => []SharedOnlineIsOwed
<1>1. SharedInv => SharedOnlineIsOwed
  BY DEF SharedInv
<1> QED
  BY <1>1, SharedInvariant, PTL

\* A stream that writes finds its pipe closed, or has the slot and a reader for
\* as long as the mountpoint is online.
THEOREM WriterLearned == SharedSpec => []WriterLearns
<1>1. SharedInv => WriterLearns
  BY DEF SharedInv, LearnInv, Learns, WriterLearns, Writes
<1> QED
  BY <1>1, SharedInvariant, PTL

(***************************************************************************)
(* The slot that streams and connections share is still exclusive.  What   *)
(* SourceSession promises of it (ActiveIsRead and the refinement of        *)
(* ExclusiveSlot) needs only that nobody who asks for the slot has had it  *)
(* before.                                                                 *)
(***************************************************************************)
HoldInv ==
  /\ \A s \in Broadcasters : handler[s] = "new" => reader[s] = "none"
  /\ \A r \in Sources : reader[r] = "none" => reading[r] = None /\ source # r
  /\ Session!ActiveIsRead

\* Every step takes the slot for a source that is new, or is one of the others.
LEMMA SharedSteps ==
  ASSUME SharedTypeOK, LearnInv, HoldInv, [SharedNext]_sharedVars
  PROVE  \/ /\ \A s \in Broadcasters : handler'[s] = "new" => handler[s] = "new"
            /\ \/ UNCHANGED slotVars
               \/ \E r \in Sources : ReaderStep(r)
               \/ RemoveSource
               \/ \E s \in Sources : PeerGone(s)
         \/ \E s \in Sources :
              /\ reader[s] = "none" /\ TrySetSource(s)
              /\ \A b \in Broadcasters : handler'[b] = "new" => handler[b] = "new" /\ b # s
<1> USE DEF SharedTypeOK
<1>1. ASSUME NEW t \in Streams, ClaimSlot(t), UNCHANGED handler
      PROVE  \E s \in Sources :
               /\ reader[s] = "none" /\ TrySetSource(s)
               /\ \A b \in Broadcasters : handler'[b] = "new" => handler[b] = "new" /\ b # s
  <2>1. Unmade(t, retry[t]) /\ Pipe(t) = <<t, retry[t]>> /\ retry[t] \in 0 .. MaxRetries - 1
    BY <1>1 DEF ClaimSlot, StreamGoes, Unmade, Pipe, TypeOK
  <2>2. reader[Pipe(t)] = "none"
    BY <2>1 DEF LearnInv, UnmadeIdle
  <2> QED
    BY <1>1, <2>2, PipesApart DEF ClaimSlot
<1>2. ASSUME [Next]_vars, ~(\E t \in Streams : ClaimSlot(t))
      PROVE  \/ UNCHANGED slotVars
             \/ \E r \in Sources : ReaderStep(r)
             \/ \E s \in Sources : PeerGone(s)
  <2>1. CASE \E t \in Streams : StreamStep(t)
    BY <1>2, <2>1, PipesApart DEF StreamStep, CheckContext, DialFails, SlotRefused,
      SlotBusy, MarkOnline, SetStatus, Fetch, FetchDone, FetchFails, Finish, ClosePipe,
      MarkOffline, Unregister
  <2>2. CASE \E r \in Sources : PipeReaderStep(r)
    BY <2>2 DEF PipeReaderStep, ReaderStep
  <2>3. CASE \/ \E r \in Starters : StarterStep(r)
             \/ MonitorRow \/ MonitorOnline \/ MonitorActive
             \/ \E o \in Owners : OwnerStarts(o) \/ OwnerAuto(o)
             \/ \E d \in Stoppers : StopperStep(d)
             \/ CleanupCheck \/ CleanupMark
             \/ UNCHANGED vars
    BY <2>3 DEF StarterStep, Register, CancelOld, MonitorRow, MonitorOnline,
      MonitorActive, MonitorFrame, OwnerStarts, OwnerAuto, StopperStep, StopStream,
      StopStatus, StopAuto, CleanupCheck, CleanupMark, SetStatus, SetAutoStart, vars
  <2> QED
    BY <1>2, <2>1, <2>2, <2>3 DEF Next
<1>3. CASE [Next]_vars /\ UNCHANGED handler
  BY <1>1, <1>2, <1>3
<1>4. CASE \E t \in Streams : WriteFails(t) /\ UNCHANGED handler
  BY <1>4 DEF WriteFails
<1>5. ASSUME NEW s \in Broadcasters, Session!Claim(s)
      PROVE  /\ s \in Sources /\ reader[s] = "none" /\ TrySetSource(s)
             /\ \A b \in Broadcasters : handler'[b] = "new" => handler[b] = "new" /\ b # s
  BY <1>5 DEF Session!Claim, Session!HandlerGoes, Session!TrySetSource, Session!CloseHeld,
    TrySetSource, CloseHeld, HoldInv, Session!SessionTypeOK, Broadcasters, Session!Broadcasters
<1>6. ASSUME ConnectionsStep, ~(\E s \in Broadcasters : Session!Claim(s))
      PROVE  \A s \in Broadcasters : handler'[s] = "new" => handler[s] = "new"
  BY <1>6 DEF ConnectionsStep, ConnectionStep, ConnectionMoves, ConnectionChunk,
    Session!sessionVars, Broadcasters, Session!SessionTypeOK,
    Session!Refuse, Session!HangUp, Session!Release, Session!MarkOnline, Session!MarkOffline,
     Session!HandlerGoes
<1>7. ASSUME ConnectionsStep, ~(\E s \in Broadcasters : Session!Claim(s))
      PROVE  \/ UNCHANGED slotVars
             \/ \E r \in Sources : ReaderStep(r)
             \/ RemoveSource
             \/ \E s \in Sources : PeerGone(s)
  BY <1>7 DEF ConnectionsStep, ConnectionStep, ConnectionMoves, ConnectionChunk, ReaderStep,
    Broadcasters, Session!Broadcasters, Session!Refuse, Session!HangUp,
    Session!Release, Session!MarkOnline, Session!MarkOffline, Session!CloseHeld, CloseHeld,
    Session!PeerGone, PeerGone, Session!RemoveSource, RemoveSource, Session!SlotBusy, SlotBusy,
    Session!slotVars, slotVars
<1>8. CASE ConnectionsStep
  BY <1>5, <1>6, <1>7, <1>8
<1> QED
  BY <1>3, <1>4, <1>8 DEF SharedNext, sharedVars, ConnectionsStep, Broadcasters

LEMMA SharedHoldNext ==
  ASSUME SharedTypeOK, LearnInv, HoldInv, [SharedNext]_sharedVars
  PROVE  HoldInv'
<1> USE SourcesAssumption DEF HoldInv, Session!ActiveIsRead
<1>0. SlotTypeOK
  BY DEF SharedTypeOK, TypeOK
<1>1. ASSUME NEW s \in Sources, reader[s] = "none", TrySetSource(s),
             \A b \in Broadcasters : handler'[b] = "new" => handler[b] = "new" /\ b # s
      PROVE  HoldInv'
  BY <1>0, <1>1 DEF TrySetSource, SlotTypeOK, Broadcasters, Session!Broadcasters
<1>2. ASSUME \A s \in Broadcasters : handler'[s] = "new" => handler[s] = "new",
             NEW r \in Sources, ReaderStep(r)
      PROVE  HoldInv'
  BY <1>0, <1>2 DEF ReaderStep, ReaderCheck, ReaderChunk, ReaderSend, ReaderError, ReaderExit,
    SlotTypeOK, Broadcasters, Session!Broadcasters
<1>3. ASSUME \A s \in Broadcasters : handler'[s] = "new" => handler[s] = "new",
             UNCHANGED slotVars \/ RemoveSource \/ \E s \in Sources : PeerGone(s)
      PROVE  HoldInv'
  BY <1>0, <1>3 DEF slotVars, RemoveSource, PeerGone, SlotTypeOK
<1> QED
  BY <1>1, <1>2, <1>3, SharedSteps

LEMMA HoldInvariant == SharedSpec => [](SharedInv /\ HoldInv)
<1>1. SharedInit => HoldInv
  BY SourcesAssumption DEF SharedInit, Init, SlotInit, Session!SessionInit, HoldInv,
    Session!ActiveIsRead, Broadcasters, Session!Broadcasters
<1>2. SharedInv /\ HoldInv /\ [SharedNext]_sharedVars => HoldInv'
  BY SharedHoldNext DEF SharedInv
<1> QED
  BY <1>1, <1>2, SharedInvariant, PTL DEF SharedSpec

\* A mountpoint that is online is read by the reader of its own source, stream
\* or connection.
THEOREM SharedActiveRead == SharedSpec => []Session!ActiveIsRead
<1>1. HoldInv => Session!ActiveIsRead
  BY DEF HoldInv
<1> QED
  BY <1>1, HoldInvariant, PTL

\* The slot that streams and connections share implements the exclusive slot:
\* nobody takes over from a source that is on the air, and nobody has it twice.
THEOREM SharedRefinement == SharedSpec => Session!ImplementsSlot
<1> USE SourcesAssumption DEF Session!onAir, Session!Slot!slot
<1>1. SharedInit => Session!Slot!Init
  BY DEF SharedInit, Init, SlotInit, Session!Slot!Init
<1>2. ASSUME SharedInv, HoldInv, [SharedNext]_sharedVars
      PROVE  [Session!Slot!Next]_(Session!Slot!slot)
  <2>0. SlotTypeOK
    BY <1>2 DEF SharedInv, SharedTypeOK, TypeOK
  <2>1. ASSUME NEW s \in Sources, reader[s] = "none", TrySetSource(s)
        PROVE  Session!Slot!Acquire(s)
    <3>1. {r \in Sources : reader'[r] # "none"} = {r \in Sources : reader[r] # "none"} \cup {s}
      BY <2>0, <2>1 DEF TrySetSource, SlotTypeOK
    <3> QED
      BY <2>0, <2>1, <3>1 DEF Session!Slot!Acquire, TrySetSource
  <2>2. ASSUME \/ UNCHANGED slotVars
               \/ \E r \in Sources : ReaderStep(r)
               \/ RemoveSource
               \/ \E s \in Sources : PeerGone(s)
        PROVE  Session!Slot!Release \/ UNCHANGED Session!Slot!slot
    <3>1. \A r \in Sources : reader'[r] # "none" <=> reader[r] # "none"
      BY <2>0, <2>2 DEF slotVars, ReaderStep, ReaderCheck, ReaderChunk, ReaderSend, ReaderError,
        ReaderExit, RemoveSource, PeerGone, SlotTypeOK
    <3>2. {r \in Sources : reader'[r] # "none"} = {r \in Sources : reader[r] # "none"}
      BY <3>1
    <3>3. active' = FALSE \/ UNCHANGED <<active, source>>
      BY <2>2 DEF slotVars, ReaderStep, ReaderCheck, ReaderChunk, ReaderSend, ReaderError,
        ReaderExit, RemoveSource, PeerGone
    <3> QED
      BY <2>0, <3>2, <3>3 DEF Session!Slot!Release, SlotTypeOK
  <2> QED
    BY <1>2, <2>1, <2>2, SharedSteps DEF SharedInv, Session!Slot!Next
<1> QED
  BY <1>1, <1>2, HoldInvariant, PTL
  DEF SharedSpec, Session!ImplementsSlot, Session!Slot!Spec
===============================================================================
