-------------------------- MODULE SourceSessionProofs --------------------------
(***************************************************************************)
(* Theorems about SourceSession for any set of broadcasters and stoppers.  *)
(***************************************************************************)
EXTENDS SourceSession, TLAPS

(***************************************************************************)
(* The inductive invariant.  Ownership of the slot is only kept because a  *)
(* reader exists exactly from the Claim of its own handler on, and because *)
(* a reader that has not been started has not looked at any source.        *)
(***************************************************************************)
OnlyBroadcasters == source \in Broadcasters \cup {None}

ReaderIffClaimed ==
  \A s \in Broadcasters :
    reader[s] = "none" <=> handler[s] \in {"new", "refused"}

UnstartedReadsNothing ==
  \A s \in Sources : reader[s] = "none" => reading[s] = None

SessionInv ==
  /\ TypeOK
  /\ OnlyBroadcasters
  /\ ReaderIffClaimed
  /\ UnstartedReadsNothing
  /\ SlotIsOwned
  /\ ActiveIsRead
  /\ OnlineIsOwed

\* The initial state satisfies the inductive invariant.
LEMMA InitInv == Init => SessionInv
  BY SourcesAssumption
  DEF Init, SlotInit, SessionInit, SessionInv, TypeOK, SlotTypeOK,
    SessionTypeOK, OnlyBroadcasters, ReaderIffClaimed, UnstartedReadsNothing,
    SlotIsOwned, ActiveIsRead, OnlineIsOwed, Broadcasters, ReaderState,
    HandlerState, StopperState, CleanupState, Status

\* A step of HandleSource, of DisconnectSource or of the cleanup task keeps
\* the inductive invariant.
LEMMA SessionStepInv ==
  ASSUME SessionInv,
         \/ \E s \in Broadcasters : HandlerStep(s) \/ HangUp(s)
         \/ \E d \in Stoppers : StopperStep(d)
         \/ CleanupCheck
         \/ CleanupMark
  PROVE  SessionInv'
<1> USE SourcesAssumption, SessionAssumption
    DEF SessionInv, TypeOK, SlotTypeOK, SessionTypeOK, OnlyBroadcasters,
    ReaderIffClaimed, UnstartedReadsNothing, SlotIsOwned, ActiveIsRead,
    OnlineIsOwed, Broadcasters, ReaderState, HandlerState, StopperState,
    CleanupState, Status, slotVars, sessionVars, HandlerGoes, StopperGoes,
    SetStatus, CloseHeld
<1>1. ASSUME NEW s \in Broadcasters, Claim(s) PROVE SessionInv'
  BY <1>1 DEF Claim, TrySetSource
<1>2. ASSUME NEW s \in Broadcasters, Refuse(s) PROVE SessionInv'
  BY <1>2 DEF Refuse, SlotBusy
<1>3. ASSUME NEW s \in Broadcasters, MarkOnline(s) PROVE SessionInv'
  BY <1>3 DEF MarkOnline
<1>4. ASSUME NEW s \in Broadcasters, HangUp(s) PROVE SessionInv'
  BY <1>4 DEF HangUp, PeerGone
<1>5. ASSUME NEW s \in Broadcasters, Release(s) PROVE SessionInv'
  BY <1>5 DEF Release, RemoveSource
<1>6. ASSUME NEW s \in Broadcasters, MarkOffline(s) PROVE SessionInv'
  BY <1>6 DEF MarkOffline
<1>7. ASSUME NEW d \in Stoppers, StopCheck(d) PROVE SessionInv'
  BY <1>7 DEF StopCheck
<1>8. ASSUME NEW d \in Stoppers, StopRemove(d) PROVE SessionInv'
  BY <1>8 DEF StopRemove, RemoveSource
<1>9. ASSUME NEW d \in Stoppers, StopMark(d) PROVE SessionInv'
  BY <1>9 DEF StopMark
<1>10. ASSUME CleanupCheck PROVE SessionInv'
  BY <1>10 DEF CleanupCheck
<1>11. ASSUME CleanupMark PROVE SessionInv'
  BY <1>11 DEF CleanupMark
<1> QED
  BY <1>1, <1>2, <1>3, <1>4, <1>5, <1>6, <1>7, <1>8, <1>9, <1>10, <1>11
  DEF HandlerStep, StopperStep

\* A step of a reader goroutine keeps the inductive invariant.
LEMMA ReaderStepInv ==
  ASSUME SessionInv, NEW r \in Sources, SessionReaderStep(r)
  PROVE  SessionInv'
<1> USE SourcesAssumption, SessionAssumption
    DEF SessionInv, TypeOK, SlotTypeOK, SessionTypeOK, OnlyBroadcasters,
    ReaderIffClaimed, UnstartedReadsNothing, SlotIsOwned, ActiveIsRead,
    OnlineIsOwed, Broadcasters, ReaderState, sessionVars
<1>1. CASE ReaderCheck(r) /\ UNCHANGED sessionVars
  BY <1>1 DEF ReaderCheck
<1>2. CASE ReaderChunk(r) /\ UNCHANGED sessionVars
  BY <1>2 DEF ReaderChunk
<1>3. CASE ReaderSend(r) /\ UNCHANGED sessionVars
  BY <1>3 DEF ReaderSend
<1>4. CASE ReaderError(r) /\ UNCHANGED sessionVars
  BY <1>4 DEF ReaderError
<1>5. CASE ReaderExit(r) /\ UNCHANGED sessionVars
  BY <1>5 DEF ReaderExit
<1> QED
  BY <1>1, <1>2, <1>3, <1>4, <1>5 DEF SessionReaderStep, ReaderStep

\* Every step keeps the inductive invariant.
LEMMA NextInv == SessionInv /\ [Next]_vars => SessionInv'
<1> SUFFICES ASSUME SessionInv, [Next]_vars PROVE SessionInv'
  OBVIOUS
<1>1. CASE UNCHANGED vars
  BY <1>1 DEF vars, slotVars, sessionVars, SessionInv, TypeOK, SlotTypeOK,
    SessionTypeOK, OnlyBroadcasters, ReaderIffClaimed, UnstartedReadsNothing,
    SlotIsOwned, ActiveIsRead, OnlineIsOwed
<1>2. CASE Next
  BY <1>2, SessionStepInv, ReaderStepInv DEF Next
<1> QED
  BY <1>1, <1>2

LEMMA SessionInvariant == Spec => []SessionInv
  BY InitInv, NextInv, PTL DEF Spec

\* Types are right in every reachable state.
THEOREM TypeCorrect == Spec => []TypeOK
<1>1. SessionInv => TypeOK
  BY DEF SessionInv
<1> QED
  BY <1>1, SessionInvariant, PTL

\* For any number of broadcasters, stop requests and cleanups: while the row
\* says "online", somebody still has the "offline" write to make.
THEOREM OnlineOwed == Spec => []OnlineIsOwed
<1>1. SessionInv => OnlineIsOwed
  BY DEF SessionInv
<1> QED
  BY <1>1, SessionInvariant, PTL

\* The slot never holds the source of a HandleSource that has returned.
THEOREM SlotOwned == Spec => []SlotIsOwned
<1>1. SessionInv => SlotIsOwned
  BY DEF SessionInv
<1> QED
  BY <1>1, SessionInvariant, PTL

\* An online mountpoint always has its own reader running.
THEOREM ActiveRead == Spec => []ActiveIsRead
<1>1. SessionInv => ActiveIsRead
  BY DEF SessionInv
<1> QED
  BY <1>1, SessionInvariant, PTL

(***************************************************************************)
(* Refinement of ExclusiveSlot: TrySetSource is Acquire, whatever clears   *)
(* sourceActive (RemoveSource or a reader's exit, in time or late) is      *)
(* Release, everything else stutters.                                      *)
(***************************************************************************)
LEMMA InitRefines == Init => Slot!Init
  BY SourcesAssumption DEF Init, SlotInit, Slot!Init, onAir

LEMMA StepRefines ==
  ASSUME SessionInv, [Next]_vars
  PROVE  [Slot!Next]_(Slot!slot)
<1> DEFINE started == {s \in Sources : reader[s] # "none"}
<1> USE SourcesAssumption
    DEF SessionInv, TypeOK, SlotTypeOK, ActiveIsRead, onAir,
    Slot!slot, Slot!Next, Slot!Acquire, Slot!Release
<1>1. ASSUME NEW s \in Broadcasters, Claim(s)
      PROVE  Slot!Acquire(s)
  <2>1. reader[s] = "none"
    BY <1>1 DEF Claim, HandlerGoes, ReaderIffClaimed
  <2>2. started' = started \cup {s}
    BY <1>1 DEF Claim, TrySetSource, Broadcasters
  <2> QED
    BY <1>1, <2>1, <2>2 DEF Claim, TrySetSource, Broadcasters
<1>2. ASSUME UNCHANGED reader, source' = None, active' = FALSE
      PROVE  [Slot!Next]_(Slot!slot)
  BY <1>2
<1>3. ASSUME UNCHANGED <<reader, source, active>>
      PROVE  [Slot!Next]_(Slot!slot)
  BY <1>3
<1>4. ASSUME NEW r \in Sources, SessionReaderStep(r)
      PROVE  [Slot!Next]_(Slot!slot)
  <2>1. reader[r] # "none" /\ reader'[r] # "none"
    BY <1>4 DEF SessionReaderStep, ReaderStep, ReaderCheck, ReaderChunk,
      ReaderSend, ReaderError, ReaderExit
  <2>2. \A s \in Sources \ {r} : reader'[s] = reader[s]
    BY <1>4 DEF SessionReaderStep, ReaderStep, ReaderCheck, ReaderChunk,
      ReaderSend, ReaderError, ReaderExit
  <2>3. started' = started
    BY <2>1, <2>2
  <2>4. UNCHANGED source /\ (active' = active \/ active' = FALSE)
    BY <1>4 DEF SessionReaderStep, ReaderStep, ReaderCheck, ReaderChunk,
      ReaderSend, ReaderError, ReaderExit
  <2> QED
    BY <2>3, <2>4
<1>5. CASE UNCHANGED vars
  BY <1>5, <1>3 DEF vars, slotVars
<1>6. ASSUME NEW s \in Broadcasters, HandlerStep(s) \/ HangUp(s)
      PROVE  [Slot!Next]_(Slot!slot)
  <2>1. CASE Claim(s)
    BY <2>1, <1>1 DEF Broadcasters
  <2>2. CASE Release(s)
    BY <2>2, <1>2 DEF Release, RemoveSource
  <2>3. CASE Refuse(s) \/ MarkOnline(s) \/ MarkOffline(s) \/ HangUp(s)
    BY <2>3, <1>3 DEF Refuse, SlotBusy, MarkOnline, MarkOffline, HangUp,
      PeerGone, slotVars
  <2> QED
    BY <1>6, <2>1, <2>2, <2>3 DEF HandlerStep
<1>7. ASSUME NEW d \in Stoppers, StopperStep(d)
      PROVE  [Slot!Next]_(Slot!slot)
  <2>1. CASE StopRemove(d)
    BY <2>1, <1>2 DEF StopRemove, RemoveSource
  <2>2. CASE StopCheck(d) \/ StopMark(d)
    BY <2>2, <1>3 DEF StopCheck, StopMark, slotVars
  <2> QED
    BY <1>7, <2>1, <2>2 DEF StopperStep
<1>8. CASE CleanupCheck \/ CleanupMark
  BY <1>8, <1>3 DEF CleanupCheck, CleanupMark, slotVars
<1> QED
  BY <1>4, <1>5, <1>6, <1>7, <1>8 DEF Next

\* The mountpoint implements the exclusive slot: two broadcasters are never
\* on the air together and none takes over directly from another.
THEOREM Refinement == Spec => ImplementsSlot
  BY InitRefines, StepRefines, SessionInvariant, PTL
  DEF Spec, ImplementsSlot, Slot!Spec
===============================================================================
