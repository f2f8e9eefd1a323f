------------------------------ MODULE SourceSlot ------------------------------
(***************************************************************************)
(* The source half of a streaming.Mountpoint: the fields m.source and      *)
(* m.sourceActive behind sourceMu, and the readFromSource goroutine that   *)
(* every successful TrySetSource starts.                                   *)
(*                                                                         *)
(* sourceMu is held for the whole of TrySetSource, RemoveSource, the       *)
(* reader's check and the reader's deferred exit, so each of these is one  *)
(* action.  source.Read runs outside the lock and is a step of its own: a  *)
(* reader can stay in it while the slot is emptied and handed to somebody  *)
(* else.                                                                   *)
(***************************************************************************)
EXTENDS FiniteSets, Naturals

CONSTANTS
  Sources,   \* the connections and pipes that ever ask for the slot
  Closable,  \* those whose Close() ends a pending Read (an io.Pipe); the
             \* bufio.Reader around a request body has no Close at all
  None       \* a nil io.ReadCloser

ASSUME SourcesAssumption ==
  /\ Closable \subseteq Sources
  /\ None \notin Sources

VARIABLES
  source,    \* m.source
  active,    \* m.sourceActive
  reader,    \* where the goroutine started by TrySetSource(s) is
  reading,   \* the local variable "source" of that goroutine
  ended,     \* sources whose peer is gone: Read returns an error
  closed     \* sources whose Close() took effect: Read returns an error

slotVars == <<source, active, reader, reading, ended, closed>>

ReaderState == {"none", "loop", "read", "send", "exit", "done"}

SlotTypeOK ==
  /\ source \in Sources \cup {None}
  /\ active \in BOOLEAN
  /\ reader \in [Sources -> ReaderState]
  /\ reading \in [Sources -> Sources \cup {None}]
  /\ ended \subseteq Sources
  /\ closed \subseteq Closable

SlotInit ==
  /\ source = None
  /\ active = FALSE
  /\ reader = [s \in Sources |-> "none"]
  /\ reading = [s \in Sources |-> None]
  /\ ended = {}
  /\ closed = {}

\* Mutant of CloseHeld: closes whatever the slot holds, nil or no Closer.
CloseAnything == closed' = closed \cup {source}

\* Mutant of CloseHeld: the old source is dropped without a Close.
CloseNothing == UNCHANGED closed

\* m.source.Close() on whatever the slot holds.
CloseHeld == closed' = closed \cup ({source} \cap Closable)

(***************************************************************************)
(* TrySetSource: refuses while sourceActive is set; otherwise closes what  *)
(* an earlier broadcaster left in m.source, installs s and starts reader s.*)
(***************************************************************************)

\* Mutant of TrySetSource: SetSource, which does not look at sourceActive.
SetSourceUnchecked(s) ==
  /\ CloseHeld
  /\ source' = s
  /\ active' = TRUE
  /\ reader' = [reader EXCEPT ![s] = "loop"]
  /\ UNCHANGED <<reading, ended>>

TrySetSource(s) ==
  /\ ~active
  /\ CloseHeld
  /\ source' = s
  /\ active' = TRUE
  /\ reader' = [reader EXCEPT ![s] = "loop"]
  /\ UNCHANGED <<reading, ended>>

\* The "false" outcome of TrySetSource: nothing is touched.
SlotBusy ==
  /\ active
  /\ UNCHANGED slotVars

\* Mutant of RemoveSource: m.source is closed but not set to nil.
RemoveKeepsSource ==
  /\ CloseHeld
  /\ active' = FALSE
  /\ UNCHANGED <<source, reader, reading, ended>>

\* RemoveSource: whoever calls it, whatever the slot holds.
RemoveSource ==
  /\ CloseHeld
  /\ source' = None
  /\ active' = FALSE
  /\ UNCHANGED <<reader, reading, ended>>

(***************************************************************************)
(* readFromSource.  Each iteration takes source and sourceActive again, so *)
(* a reader goes on with whatever the slot holds now.                      *)
(***************************************************************************)
ReaderCheck(r) ==
  /\ reader[r] = "loop"
  /\ IF active /\ source # None
       THEN /\ reader' = [reader EXCEPT ![r] = "read"]
            /\ reading' = [reading EXCEPT ![r] = source]
       ELSE /\ reader' = [reader EXCEPT ![r] = "exit"]
            /\ UNCHANGED reading
  /\ UNCHANGED <<source, active, ended, closed>>

\* Read returned n > 0; the chunk is on its way to distributeToListeners.
ReaderChunk(r) ==
  /\ reader[r] = "read"
  /\ reading[r] \notin ended \cup closed
  /\ reader' = [reader EXCEPT ![r] = "send"]
  /\ UNCHANGED <<source, active, reading, ended, closed>>

\* distributeToListeners returned (its effect is in ListenerHub).
ReaderSend(r) ==
  /\ reader[r] = "send"
  /\ reader' = [reader EXCEPT ![r] = "loop"]
  /\ UNCHANGED <<source, active, reading, ended, closed>>

\* Read returned an error.
ReaderError(r) ==
  /\ reader[r] = "read"
  /\ reading[r] \in ended \cup closed
  /\ reader' = [reader EXCEPT ![r] = "exit"]
  /\ UNCHANGED <<source, active, reading, ended, closed>>

\* Mutant of ReaderExit: the deferred function forgets sourceActive.
ReaderExitStaysActive(r) ==
  /\ reader[r] = "exit"
  /\ reader' = [reader EXCEPT ![r] = "done"]
  /\ UNCHANGED <<source, active, reading, ended, closed>>

\* The deferred function: sourceActive = false, m.source stays.
ReaderExit(r) ==
  /\ reader[r] = "exit"
  /\ reader' = [reader EXCEPT ![r] = "done"]
  /\ active' = FALSE
  /\ UNCHANGED <<source, reading, ended, closed>>

ReaderStep(r) ==
  \/ ReaderCheck(r)
  \/ ReaderChunk(r)
  \/ ReaderSend(r)
  \/ ReaderError(r)
  \/ ReaderExit(r)

\* The peer of s hangs up (a closed connection, a pipe writer that closes).
PeerGone(s) ==
  /\ s \notin ended
  /\ ended' = ended \cup {s}
  /\ UNCHANGED <<source, active, reader, reading, closed>>
===============================================================================
