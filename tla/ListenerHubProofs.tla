--------------------------- MODULE ListenerHubProofs ---------------------------
(***************************************************************************)
(* Theorems about ListenerHub for any number of listeners and readers, any *)
(* ring, burst and channel size and any length of the stream.              *)
(***************************************************************************)
EXTENDS ListenerHub, Integers, FiniteSetTheorems, TLAPS

\* A remainder is an index of the ring.
LEMMA ModRange ==
  ASSUME NEW a \in Nat, NEW n \in Nat \ {0}
  PROVE  a % n \in 0 .. n - 1
  OBVIOUS

(***************************************************************************)
(* Types.                                                                  *)
(***************************************************************************)
LEMMA InitType == Init => TypeOK
<1> SUFFICES ASSUME Init PROVE TypeOK
  OBVIOUS
<1> USE HubAssumption DEF Init
<1>1. <<>> \in Seq(Items)
  OBVIOUS
<1>2. sent \in [Listeners -> Seq(Items)]
  BY <1>1
<1>3. ring \in [0 .. RingSize - 1 -> 0 .. MaxChunks]
  OBVIOUS
<1>4. /\ step \in [Listeners -> 0 .. RingSize]
      /\ count \in [Listeners -> 0 .. Burst]
      /\ ringPos \in 0 .. RingSize - 1
  OBVIOUS
<1>5. /\ at \in [Readers -> {"read", "write", "fan", "send"}]
      /\ hand \in [Readers -> 0 .. MaxChunks] /\ num \in [Readers -> 0 .. MaxChunks]
      /\ todo \in [Readers -> SUBSET Listeners]
      /\ beside \in [1 .. MaxChunks -> SUBSET (1 .. MaxChunks)]
      /\ readAs \in [1 .. MaxChunks -> 0 .. MaxChunks]
      /\ joined \in [Listeners -> 0 .. MaxChunks]
  OBVIOUS
<1> QED
  BY <1>2, <1>3, <1>4, <1>5 DEF TypeOK, HandlerState

LEMMA ReaderType ==
  ASSUME TypeOK, NEW r \in Readers, Read(r) \/ ReaderStep(r)
  PROVE  TypeOK'
<1> USE HubAssumption DEF TypeOK, mapVars, chanVars, outVars, burstVars, ringVars, readerVars,
    ReaderGoes
<1>1. CASE Read(r)
  <2>1. InHand \subseteq 1 .. MaxChunks
    BY DEF InHand
  <2>2. /\ taken' \in 0 .. MaxChunks
        /\ at' \in [Readers -> {"read", "write", "fan", "send"}]
        /\ hand' \in [Readers -> 0 .. MaxChunks]
        /\ beside' \in [1 .. MaxChunks -> SUBSET (1 .. MaxChunks)]
    BY <1>1, <2>1 DEF Read
  <2> QED
    BY <1>1, <2>2 DEF Read
<1>2. CASE RingWrite(r)
  <2>1. ringPos' \in 0 .. RingSize - 1
    BY <1>2, ModRange DEF RingWrite
  <2>2. chunk + 1 \in 1 .. MaxChunks
    BY <1>2 DEF RingWrite
  <2>3. /\ ring' \in [0 .. RingSize - 1 -> 0 .. MaxChunks] /\ chunk' \in 0 .. MaxChunks
        /\ at' \in [Readers -> {"read", "write", "fan", "send"}]
        /\ num' \in [Readers -> 0 .. MaxChunks]
        /\ readAs' \in [1 .. MaxChunks -> 0 .. MaxChunks]
    BY <1>2, <2>2 DEF RingWrite
  <2> QED
    BY <1>2, <2>1, <2>3 DEF RingWrite
<1>3. CASE FanBegin(r)
  BY <1>3 DEF FanBegin
<1>4. ASSUME NEW l \in Listeners, FanOut(r, l) PROVE TypeOK'
  <2>1. <<"live", num[r]>> \in Items
    BY DEF Items
  <2>2. Append(sent[l], <<"live", num[r]>>) \in Seq(Items)
    BY <2>1
  <2>3. sent' \in [Listeners -> Seq(Items)] /\ missed' \subseteq Listeners
    BY <1>4, <2>2 DEF FanOut
  <2>4. todo' \in [Readers -> SUBSET Listeners]
    BY <1>4 DEF FanOut
  <2>5. panicked' \in {"no", "send", "close"}
    BY <1>4 DEF FanOut
  <2> QED
    BY <1>4, <2>3, <2>4, <2>5 DEF FanOut, FanFrame
<1>5. CASE FanEnd(r)
  BY <1>5 DEF FanEnd
<1> QED
  BY <1>1, <1>2, <1>3, <1>4, <1>5 DEF ReaderStep

LEMMA InitSegmentType ==
  ASSUME TypeOK, SetInitSegment PROVE TypeOK'
  BY DEF TypeOK, SetInitSegment, mapVars, chanVars, outVars, burstVars, ringVars, readerVars

LEMMA OfferType ==
  ASSUME TypeOK, NEW l \in Listeners, NEW item \in Items,
         NEW full \in {"done"}, NEW next \in {"lock", "send"},
         Offer(l, item, full, next)
  PROVE  /\ sent' \in [Listeners -> Seq(Items)]
         /\ missed' \subseteq Listeners
         /\ burst' \in [Listeners -> {"none", "init", "lock", "send", "done"}]
         /\ panicked' \in {"no", "send", "close"}
<1>1. /\ Append(sent[l], item) \in Seq(Items)
      /\ sent \in [Listeners -> Seq(Items)] /\ missed \subseteq Listeners
      /\ burst \in [Listeners -> {"none", "init", "lock", "send", "done"}]
      /\ panicked \in {"no", "send", "close"}
  BY DEF TypeOK
<1> QED
  BY <1>1 DEF Offer, outVars

LEMMA BurstType ==
  ASSUME TypeOK, NEW l \in Listeners, BurstStep(l)
  PROVE  TypeOK'
<1> USE HubAssumption DEF TypeOK, mapVars, ringVars, readerVars, outVars, BurstFrame
<1>1. CASE BurstInit(l)
  <2>1. <<"init", 0>> \in Items
    BY DEF Items
  <2>2. CASE initSegment
    BY <1>1, <2>1, <2>2, OfferType DEF BurstInit
  <2>3. CASE ~initSegment
    BY <1>1, <2>3 DEF BurstInit, BurstGoes
  <2> QED
    BY <2>2, <2>3
<1>2. CASE BurstLock(l)
  BY <1>2 DEF BurstLock, BurstGoes
<1>3. CASE BurstSend(l)
  <2>1. PICK i \in 0 .. RingSize - 1 :
          /\ Offer(l, <<"burst", SlotAt(i)>>, "done", "send")
          /\ step' = [step EXCEPT ![l] = i + 1]
    BY <1>3 DEF BurstSend
  <2>2. (ringPos + i) % RingSize \in 0 .. RingSize - 1
    <3>1. ringPos + i \in Nat
      OBVIOUS
    <3> QED
      BY <3>1, ModRange
  <2>3. <<"burst", SlotAt(i)>> \in Items
    BY <2>2 DEF SlotAt, Items
  <2>4. /\ step' \in [Listeners -> 0 .. RingSize]
        /\ count' \in [Listeners -> 0 .. Burst]
    BY <1>3, <2>1 DEF BurstSend
  <2> QED
    BY <1>3, <2>1, <2>3, <2>4, OfferType DEF BurstSend
<1>4. CASE BurstEnd(l)
  BY <1>4 DEF BurstEnd, BurstGoes
<1> QED
  BY <1>1, <1>2, <1>3, <1>4 DEF BurstStep

LEMMA HandlerType ==
  ASSUME TypeOK, NEW l \in Listeners,
         Attach(l) \/ HandlerStep(l) \/ Written(l) \/ ClientLeaves(l)
  PROVE  TypeOK'
<1> USE HubAssumption DEF TypeOK, HandlerState, mapVars, chanVars, outVars, ringVars,
    readerVars, burstVars, Goes, ChanFrame
<1>1. CASE Attach(l)
  <2>1. IdOf(nextID + 1) \in Nat
    BY DEF IdOf, InvalidRune
  <2>2. /\ listeners' \subseteq Listeners /\ nextID' \in Nat /\ id' \in [Listeners -> Nat]
        /\ joined' \in [Listeners -> 0 .. MaxChunks]
        /\ burst' \in [Listeners -> {"none", "init", "lock", "send", "done"}]
        /\ handler' \in [Listeners -> HandlerState]
    BY <1>1, <2>1 DEF Attach
  <2> QED
    BY <1>1, <2>2 DEF Attach
<1>2. CASE RemoveFromMap(l)
  BY <1>2 DEF RemoveFromMap
<1>3. CASE CloseChan(l)
  BY <1>3 DEF CloseChan
<1>4. CASE Receive(l)
  <2>1. received' \in [Listeners -> Nat]
    BY <1>4 DEF Receive
  <2> QED
    BY <1>4, <2>1 DEF Receive
<1>5. CASE SeeClosed(l)
  BY <1>5 DEF SeeClosed
<1>6. CASE Written(l) \/ ClientLeaves(l)
  BY <1>6 DEF Written, ClientLeaves
<1> QED
  BY <1>1, <1>2, <1>3, <1>4, <1>5, <1>6 DEF HandlerStep

LEMMA NextType == TypeOK /\ [Next]_vars => TypeOK'
<1> SUFFICES ASSUME TypeOK, [Next]_vars PROVE TypeOK'
  OBVIOUS
<1>1. CASE UNCHANGED vars
  BY <1>1 DEF vars, mapVars, chanVars, outVars, ringVars, readerVars, burstVars, TypeOK
<1>2. CASE Close
  BY <1>2 DEF Close, TypeOK, outVars, ringVars, readerVars, burstVars
<1> QED
  BY <1>1, <1>2, ReaderType, InitSegmentType, BurstType, HandlerType DEF Next

\* Types are right in every reachable state.
THEOREM TypeCorrect == Spec => []TypeOK
  BY InitType, NextType, PTL DEF Spec

(***************************************************************************)
(* Channels.  The inductive invariant follows a Listener through its life: *)
(* while its handler has not begun to remove it, it is in the map or Close *)
(* has closed it; once the handler is about to close the channel, nobody   *)
(* else can, because it is out of the map.  All of it rests on the map     *)
(* holding one listener per ID.                                            *)
(***************************************************************************)
UnusedIds ==
  \A l \in Listeners : handler[l] # "new" => id[l] \in 1 .. nextID

DistinctIds ==
  \A k, l \in Listeners :
    handler[k] # "new" /\ handler[l] # "new" /\ id[k] = id[l] => k = l

ListedHandlers ==
  \A l \in listeners : handler[l] \in {"streaming", "writing", "removing"}

NewIsFresh == \A l \in Listeners : handler[l] = "new" => l \notin closed

ClosingIsOpen == \A l \in Listeners : handler[l] = "closing" => l \notin closed

ServedOrClosed ==
  \A l \in Listeners :
    handler[l] \in {"streaming", "writing", "removing"} => l \in listeners \cup closed

ChannelInv ==
  /\ UnusedIds
  /\ DistinctIds
  /\ ListedHandlers
  /\ NewIsFresh
  /\ ClosingIsOpen
  /\ ServedOrClosed
  /\ OpenWhileListed
  /\ panicked # "close"

HubInv == TypeOK /\ (IdsUnique => ChannelInv)

LEMMA InitChannels == Init => ChannelInv
  BY DEF Init, ChannelInv, UnusedIds, DistinctIds, ListedHandlers, NewIsFresh,
    ClosingIsOpen, ServedOrClosed, OpenWhileListed

\* The readers and the bursts touch neither the map nor the closing.
LEMMA StreamKeepsChannels ==
  ASSUME TypeOK, ChannelInv,
         \/ \E r \in Readers : Read(r) \/ ReaderStep(r)
         \/ SetInitSegment
         \/ \E l \in Listeners : BurstStep(l)
  PROVE  ChannelInv'
<1>1. UNCHANGED <<listeners, nextID, id, closed, handler>>
  BY DEF Read, ReaderStep, RingWrite, FanBegin, FanOut, FanEnd, FanFrame, SetInitSegment,
    BurstStep, BurstInit, BurstLock, BurstSend, BurstEnd, BurstFrame, mapVars, chanVars, outVars
<1>2. panicked' # "close"
  <2>1. CASE SetInitSegment
    BY <2>1 DEF SetInitSegment, ChannelInv
  <2>2. ASSUME NEW l \in Listeners, BurstStep(l) PROVE panicked' # "close"
    BY <2>2 DEF BurstStep, BurstInit, BurstLock, BurstSend, BurstEnd,
      Offer, ChannelInv
  <2>3. ASSUME NEW r \in Readers, Read(r) \/ ReaderStep(r) PROVE panicked' # "close"
    BY <2>3 DEF Read, ReaderStep, RingWrite, FanBegin, FanOut, FanEnd, ChannelInv
  <2> QED
    BY <2>1, <2>2, <2>3
<1> QED
  BY <1>1, <1>2 DEF ChannelInv, UnusedIds, DistinctIds, ListedHandlers,
    NewIsFresh, ClosingIsOpen, ServedOrClosed, OpenWhileListed

\* A new listener gets an ID that nobody has.
LEMMA AttachKeepsChannels ==
  ASSUME TypeOK, ChannelInv, IdsUnique', NEW l \in Listeners, Attach(l)
  PROVE  ChannelInv'
<1> USE DEF TypeOK, ChannelInv, Attach, Goes, chanVars, outVars
<1>1. IdOf(nextID + 1) = nextID + 1
  BY HubAssumption DEF IdsUnique, IdOf
<1>2. \A k \in Listeners : handler[k] # "new" => id[k] # nextID + 1
  BY DEF UnusedIds
<1>3. SameId(nextID + 1) = {}
  BY <1>2 DEF SameId, ListedHandlers
<1>4. listeners' = listeners \cup {l}
  BY <1>1, <1>3
<1>5. UnusedIds'
  BY <1>1 DEF UnusedIds
<1>6. DistinctIds'
  BY <1>1, <1>2 DEF DistinctIds
<1> QED
  BY <1>4, <1>5, <1>6 DEF ListedHandlers, NewIsFresh, ClosingIsOpen,
    ServedOrClosed, OpenWhileListed

\* RemoveListener finds its own listener or nobody.
LEMMA RemoveKeepsChannels ==
  ASSUME TypeOK, ChannelInv, NEW l \in Listeners, RemoveFromMap(l)
  PROVE  ChannelInv'
<1> USE DEF TypeOK, ChannelInv, RemoveFromMap, Goes, chanVars, outVars
<1>1. SameId(id[l]) = listeners \cap {l}
  BY DEF SameId, DistinctIds, ListedHandlers
<1>2. listeners' = listeners \ {l}
  BY <1>1
<1>3. handler'[l] = "closing" <=> l \in listeners
  BY <1>1
<1>4. UnusedIds' /\ DistinctIds'
  BY DEF UnusedIds, DistinctIds
<1> QED
  BY <1>2, <1>3, <1>4 DEF ListedHandlers, NewIsFresh, ClosingIsOpen,
    ServedOrClosed, OpenWhileListed

\* The other steps of a handler, and Close.
LEMMA OthersKeepChannels ==
  ASSUME TypeOK, ChannelInv,
         \/ \E l \in Listeners :
              \/ CloseChan(l) \/ Receive(l) \/ Written(l)
              \/ SeeClosed(l) \/ ClientLeaves(l)
         \/ Close
  PROVE  ChannelInv'
<1> USE DEF ChannelInv, UnusedIds, DistinctIds, ListedHandlers,
    NewIsFresh, ClosingIsOpen, ServedOrClosed, OpenWhileListed, Goes,
    mapVars, chanVars, outVars, ChanFrame
<1>0. handler \in [Listeners -> HandlerState] /\ listeners \subseteq Listeners
  BY DEF TypeOK
<1>1. ASSUME NEW l \in Listeners, CloseChan(l) PROVE ChannelInv'
  BY <1>0, <1>1 DEF CloseChan
<1>2. ASSUME NEW l \in Listeners, Receive(l) PROVE ChannelInv'
  BY <1>0, <1>2 DEF Receive
<1>3. ASSUME NEW l \in Listeners, SeeClosed(l) PROVE ChannelInv'
  BY <1>0, <1>3 DEF SeeClosed
<1>4. ASSUME NEW l \in Listeners, Written(l) \/ ClientLeaves(l) PROVE ChannelInv'
  BY <1>0, <1>4 DEF Written, ClientLeaves
<1>5. CASE Close
  BY <1>0, <1>5 DEF Close
<1> QED
  BY <1>1, <1>2, <1>3, <1>4, <1>5

\* IDs that are unique after a step were unique before it.
LEMMA IdsStayUnique ==
  ASSUME TypeOK, [Next]_vars, IdsUnique'
  PROVE  IdsUnique
<1>1. nextID' = nextID \/ nextID' = nextID + 1
  BY DEF Next, Read, ReaderStep, RingWrite, FanBegin, FanOut, FanEnd, FanFrame,
    SetInitSegment, BurstStep, BurstInit, BurstLock, BurstSend, BurstEnd, BurstFrame,
    Attach, HandlerStep, RemoveFromMap, CloseChan, Receive, Written, SeeClosed,
    ClientLeaves, ChanFrame, Close, mapVars, vars
<1> QED
  BY <1>1, HubAssumption DEF IdsUnique, TypeOK

(***************************************************************************)
(* Whatever the IDs are, a listed listener has an open channel: its own    *)
(* handler has not come to removing it, and Close empties the map.         *)
(***************************************************************************)
TodoListed ==
  \A r \in Readers : todo[r] \subseteq listeners /\ (at[r] # "send" => todo[r] = {})

OpenInv ==
  /\ TypeOK
  /\ TodoListed
  /\ ListedHandlers
  /\ NewIsFresh
  /\ OpenWhileListed

LEMMA NextOpen ==
  ASSUME OpenInv, [Next]_vars
  PROVE  OpenInv'
<1> USE DEF OpenInv, ListedHandlers, NewIsFresh, OpenWhileListed, TodoListed, Goes,
    mapVars, chanVars, outVars, readerVars, ringVars, burstVars, ChanFrame, NobodySends
<1>0. /\ handler \in [Listeners -> HandlerState] /\ listeners \subseteq Listeners
      /\ at \in [Readers -> {"read", "write", "fan", "send"}]
      /\ todo \in [Readers -> SUBSET Listeners]
  BY DEF TypeOK
<1>1. TypeOK'
  BY NextType
<1>2. CASE UNCHANGED <<listeners, closed, handler, todo, at>>
  BY <1>0, <1>1, <1>2
<1>3. ASSUME NEW l \in Listeners, Attach(l) PROVE OpenInv'
  BY <1>0, <1>1, <1>3 DEF Attach
<1>4. ASSUME NEW l \in Listeners, RemoveFromMap(l) PROVE OpenInv'
  <2>1. listeners' \subseteq listeners /\ l \notin listeners'
    BY <1>4 DEF RemoveFromMap, SameId
  <2> QED
    BY <1>0, <1>1, <1>4, <2>1 DEF RemoveFromMap
<1>5. ASSUME NEW l \in Listeners, CloseChan(l) PROVE OpenInv'
  BY <1>0, <1>1, <1>5 DEF CloseChan
<1>6. ASSUME NEW l \in Listeners,
             Receive(l) \/ Written(l) \/ SeeClosed(l) \/ ClientLeaves(l)
      PROVE OpenInv'
  BY <1>0, <1>1, <1>6 DEF Receive, Written, SeeClosed, ClientLeaves
<1>7. CASE Close
  BY <1>0, <1>1, <1>7 DEF Close
<1>8. CASE SetInitSegment \/ \E l \in Listeners : BurstStep(l)
  <2>1. UNCHANGED <<listeners, closed, handler, todo, at>>
    BY <1>8 DEF SetInitSegment, BurstStep, BurstInit, BurstLock, BurstSend, BurstEnd,
      BurstFrame
  <2> QED
    BY <1>2, <2>1
<1>9. ASSUME NEW r \in Readers, Read(r) \/ ReaderStep(r) PROVE OpenInv'
  <2>1. CASE Read(r)
    BY <1>0, <1>1, <2>1 DEF Read, ReaderGoes
  <2>2. CASE RingWrite(r)
    BY <1>0, <1>1, <2>2 DEF RingWrite, ReaderGoes
  <2>3. CASE FanBegin(r)
    BY <1>0, <1>1, <2>3 DEF FanBegin, ReaderGoes
  <2>4. ASSUME NEW l \in Listeners, FanOut(r, l) PROVE OpenInv'
    BY <1>0, <1>1, <2>4 DEF FanOut, FanFrame
  <2>5. CASE FanEnd(r)
    BY <1>0, <1>1, <2>5 DEF FanEnd, ReaderGoes
  <2> QED
    BY <1>9, <2>1, <2>2, <2>3, <2>4, <2>5 DEF ReaderStep
<1>10. CASE UNCHANGED vars
  BY <1>2, <1>10 DEF vars
<1> QED
  BY <1>3, <1>4, <1>5, <1>6, <1>7, <1>8, <1>9, <1>10 DEF Next, HandlerStep

\* No distributor ever meets a closed channel, unique IDs or not.
THEOREM ListedIsOpen == Spec => []OpenWhileListed
<1>1. Init => OpenInv
  BY InitType DEF Init, OpenInv, ListedHandlers, NewIsFresh, OpenWhileListed, TodoListed
<1>2. OpenInv => OpenWhileListed
  BY DEF OpenInv
<1> QED
  BY <1>1, <1>2, NextOpen, PTL DEF Spec

LEMMA NextChannels ==
  ASSUME HubInv, [Next]_vars
  PROVE  HubInv'
<1>1. TypeOK'
  BY NextType DEF HubInv
<1>2. ASSUME IdsUnique' PROVE ChannelInv'
  <2>1. ChannelInv /\ TypeOK
    BY <1>2, IdsStayUnique DEF HubInv
  <2>2. CASE UNCHANGED vars
    BY <2>1, <2>2 DEF vars, mapVars, chanVars, outVars, ChannelInv, UnusedIds,
      DistinctIds, ListedHandlers, NewIsFresh, ClosingIsOpen, ServedOrClosed,
      OpenWhileListed
  <2>3. CASE Next
    BY <1>2, <2>1, <2>3, StreamKeepsChannels, AttachKeepsChannels,
      RemoveKeepsChannels, OthersKeepChannels DEF Next, HandlerStep
  <2> QED
    BY <2>2, <2>3
<1> QED
  BY <1>1, <1>2 DEF HubInv

LEMMA HubInvariant == Spec => []HubInv
<1>1. Init => HubInv
  BY InitType, InitChannels DEF HubInv
<1> QED
  BY <1>1, NextChannels, PTL DEF Spec

\* As long as IDs are unique, no channel is closed twice.
THEOREM ClosedOnce == Spec => []NoDoubleClose
<1>1. HubInv => NoDoubleClose
  BY DEF HubInv, ChannelInv, NoDoubleClose
<1> QED
  BY <1>1, HubInvariant, PTL

\* As long as IDs are unique, whoever streams is in the map or on its way out.
THEOREM Served == Spec => []StreamingIsServed
<1>1. HubInv => StreamingIsServed
  BY DEF HubInv, ChannelInv, ServedOrClosed, StreamingIsServed
<1> QED
  BY <1>1, HubInvariant, PTL

(***************************************************************************)
(* The ring.  Slot p holds the last chunk that was written there, so that  *)
(* from ringPos on the numbers rise without a gap.                         *)
(***************************************************************************)
Slot(p) ==
  IF p < ringPos THEN chunk - ringPos + 1 + p
  ELSE IF chunk + 1 + p > RingSize + ringPos THEN chunk + 1 + p - RingSize - ringPos
  ELSE 0

\* The i-th slot after the oldest.
Aged(i) == IF chunk + 1 + i > RingSize THEN chunk + 1 + i - RingSize ELSE 0

RingInv ==
  /\ ringPos <= chunk
  /\ \A p \in 0 .. RingSize - 1 : ring[p] = Slot(p)

\* A remainder, for a number that exceeds the divisor no more than once.
LEMMA ModOnce ==
  ASSUME NEW n \in Nat \ {0}, NEW a \in Nat, a < n + n
  PROVE  (a < n => a % n = a) /\ (a >= n => a % n = a - n)
<1>1. a = n * (a \div n) + (a % n) /\ a % n \in 0 .. n - 1 /\ a \div n \in Int
  OBVIOUS
<1> DEFINE q == a \div n
           m == a % n
<1>2. a = n * q + m /\ m \in 0 .. n - 1 /\ q \in Int
  BY <1>1
<1> HIDE DEF q, m
<1>3. q \in {0, 1}
  <2>1. CASE q >= 2
    <3>1. n * q >= n * 2
      BY <1>2, <2>1
    <3> QED
      BY <1>2, <3>1
  <2>2. CASE q <= -1
    <3>1. n * q <= n * (-1)
      BY <1>2, <2>2
    <3> QED
      BY <1>2, <3>1
  <2> QED
    BY <1>2, <2>1, <2>2
<1>4. (a < n => m = a) /\ (a >= n => m = a - n)
  BY <1>2, <1>3
<1> QED
  BY <1>4 DEF m

LEMMA RingMod ==
  ASSUME NEW a \in Nat, a < RingSize + RingSize
  PROVE  /\ a < RingSize => a % RingSize = a
         /\ a >= RingSize => a % RingSize = a - RingSize
<1>1. RingSize \in Nat \ {0}
  BY HubAssumption
<1> QED
  BY <1>1, ModOnce

LEMMA RingWrites ==
  ASSUME TypeOK, RingInv, NEW r \in Readers, RingWrite(r) PROVE RingInv'
<1>0. /\ ringPos \in 0 .. RingSize - 1 /\ chunk \in Nat /\ chunk' = chunk + 1
      /\ ring' = [ring EXCEPT ![ringPos] = chunk + 1]
      /\ DOMAIN ring = 0 .. RingSize - 1 /\ RingSize \in Nat \ {0}
      /\ ringPos' = (ringPos + 1) % RingSize
  BY HubAssumption DEF TypeOK, RingWrite
<1>1. ringPos' = IF ringPos + 1 < RingSize THEN ringPos + 1 ELSE 0
  <2> DEFINE a == ringPos + 1
  <2>1. a \in Nat /\ a < RingSize + RingSize
    BY <1>0
  <2>2. ringPos' = a % RingSize
    BY <1>0
  <2> HIDE DEF a
  <2>3. ringPos' = IF a < RingSize THEN a ELSE a - RingSize
    BY <1>0, <2>1, <2>2, RingMod
  <2> QED
    BY <1>0, <2>1, <2>3 DEF a
<1>2. ringPos' <= chunk'
  BY <1>0, <1>1 DEF RingInv
<1>3. ASSUME NEW p \in 0 .. RingSize - 1 PROVE ring'[p] = Slot(p)'
  <2>1. ring'[p] = IF p = ringPos THEN chunk + 1 ELSE Slot(p)
    BY <1>0 DEF RingInv
  <2>2. ringPos <= chunk
    BY DEF RingInv
  <2>3. CASE ringPos + 1 < RingSize
    BY <1>0, <1>1, <2>1, <2>2, <2>3 DEF Slot
  <2>4. CASE ~(ringPos + 1 < RingSize)
    BY <1>0, <1>1, <2>1, <2>2, <2>4 DEF Slot
  <2> QED
    BY <2>3, <2>4
<1> QED
  BY <1>0, <1>2, <1>3 DEF RingInv

LEMMA RingStays ==
  ASSUME RingInv, UNCHANGED <<ring, ringPos, chunk>>
  PROVE  RingInv' /\ \A i : SlotAt(i)' = SlotAt(i)
  BY DEF RingInv, Slot, SlotAt

LEMMA SlotsRise ==
  ASSUME TypeOK, RingInv, NEW i \in 0 .. RingSize - 1
  PROVE  SlotAt(i) = Aged(i)
<1>0. /\ ringPos \in 0 .. RingSize - 1 /\ chunk \in Nat /\ RingSize \in Nat \ {0}
      /\ ringPos <= chunk
  BY HubAssumption DEF TypeOK, RingInv
<1> DEFINE p == (ringPos + i) % RingSize
<1>1. p = IF ringPos + i < RingSize THEN ringPos + i ELSE ringPos + i - RingSize
  <2> DEFINE a == ringPos + i
  <2>1. a \in Nat /\ a < RingSize + RingSize
    BY <1>0
  <2>2. p = a % RingSize
    OBVIOUS
  <2> HIDE DEF a, p
  <2>3. p = IF a < RingSize THEN a ELSE a - RingSize
    BY <1>0, <2>1, <2>2, RingMod
  <2> QED
    BY <1>0, <2>1, <2>3 DEF a
<1>2. SlotAt(i) = ring[p]
  BY DEF SlotAt
<1> HIDE DEF p
<1>3. p \in 0 .. RingSize - 1
  BY <1>0, <1>1
<1>4. ring[p] = Slot(p)
  BY <1>3 DEF RingInv
<1>5. Slot(p) = Aged(i)
  BY <1>0, <1>1 DEF Slot, Aged
<1> QED
  BY <1>2, <1>4, <1>5

(***************************************************************************)
(* Two readers.  A chunk stays in the hand of its reader until its fan-out *)
(* is over, so whatever was read meanwhile has it beside it; and chunks    *)
(* are written to the ring and fanned out from those hands.                *)
(***************************************************************************)
HandsTell ==
  /\ \A r \in Readers : at[r] = "read" <=> hand[r] = 0
  /\ \A r \in Readers : hand[r] <= taken
  /\ \A r, q \in Readers : r # q /\ hand[r] # 0 => hand[r] # hand[q]
  /\ \A r \in Readers : \A n \in 1 .. taken :
       hand[r] # 0 /\ hand[r] < n => hand[r] \in beside[n]

NumbersTell ==
  /\ \A r \in Readers : at[r] = "write" => \A c \in 1 .. chunk : readAs[c] # hand[r]
  /\ \A r \in Readers : at[r] \in {"fan", "send"} =>
       num[r] \in 1 .. chunk /\ readAs[num[r]] = hand[r]
  /\ \A c \in 1 .. chunk : readAs[c] \in 1 .. taken
  /\ \A c, d \in 1 .. chunk : c # d => readAs[c] # readAs[d]

RingFollows == \A c, d \in 1 .. chunk : c < d => MayPrecede(c, d)

HandInv == HandsTell /\ NumbersTell /\ RingFollows

HandTypes ==
  /\ taken \in Nat /\ chunk \in Nat /\ MaxChunks \in Nat
  /\ taken <= MaxChunks /\ chunk <= MaxChunks
  /\ at \in [Readers -> {"read", "write", "fan", "send"}]
  /\ hand \in [Readers -> Nat]
  /\ num \in [Readers -> Nat]
  /\ beside \in [1 .. MaxChunks -> SUBSET (1 .. MaxChunks)]
  /\ readAs \in [1 .. MaxChunks -> Nat]

LEMMA TypesOfHands == ASSUME TypeOK PROVE HandTypes
<1>1. 0 .. MaxChunks \subseteq Nat
  OBVIOUS
<1> QED
  BY <1>1, HubAssumption DEF TypeOK, HandTypes

LEMMA ReadHands ==
  ASSUME TypeOK, HandInv, NEW r \in Readers, Read(r) PROVE HandInv'
<1>0. HandTypes
  BY TypesOfHands
<1>1. /\ at[r] = "read" /\ taken < MaxChunks /\ taken' = taken + 1
      /\ at' = [at EXCEPT ![r] = "write"] /\ hand' = [hand EXCEPT ![r] = taken + 1]
      /\ beside' = [beside EXCEPT ![taken + 1] = InHand]
      /\ UNCHANGED <<num, chunk, readAs>>
  BY DEF Read, ReaderGoes, ringVars
<1>2. \A q \in Readers : hand[q] # 0 => hand[q] \in InHand
  BY DEF InHand
<1>3. HandsTell'
  <2>1. \A n \in 1 .. taken : beside'[n] = beside[n]
    BY <1>0, <1>1 DEF HandTypes
  <2>2. taken' \in 1 .. MaxChunks /\ beside'[taken'] = InHand
    BY <1>0, <1>1 DEF HandTypes
  <2>3. \A q \in Readers : hand'[q] = IF q = r THEN taken + 1 ELSE hand[q]
    BY <1>0, <1>1 DEF HandTypes
  <2>4. \A q \in Readers : at'[q] = IF q = r THEN "write" ELSE at[q]
    BY <1>0, <1>1 DEF HandTypes
  <2>5. ASSUME NEW q \in Readers, NEW n \in 1 .. taken', hand'[q] # 0, hand'[q] < n
        PROVE  hand'[q] \in beside'[n]
    <3>1. q # r /\ hand'[q] = hand[q]
      BY <1>0, <1>1, <2>3, <2>5 DEF HandTypes
    <3>2. CASE n = taken + 1
      BY <1>1, <1>2, <2>2, <2>5, <3>1, <3>2
    <3>3. CASE n # taken + 1
      <4>1. n \in 1 .. taken
        BY <1>0, <1>1, <3>3 DEF HandTypes
      <4> QED
        BY <2>1, <2>5, <3>1, <4>1 DEF HandInv, HandsTell
    <3> QED
      BY <3>2, <3>3
  <2>6. \A q \in Readers : at'[q] = "read" <=> hand'[q] = 0
    BY <1>0, <2>3, <2>4 DEF HandTypes, HandInv, HandsTell
  <2>7. \A q \in Readers : hand'[q] <= taken'
    BY <1>0, <1>1, <2>3 DEF HandTypes, HandInv, HandsTell
  <2>8. \A p, q \in Readers : p # q /\ hand'[p] # 0 => hand'[p] # hand'[q]
    BY <1>0, <1>1, <2>3 DEF HandTypes, HandInv, HandsTell
  <2> QED
    BY <2>5, <2>6, <2>7, <2>8 DEF HandsTell
<1>4. NumbersTell'
  BY <1>0, <1>1 DEF HandTypes, HandInv, NumbersTell
<1>5. RingFollows'
  <2>1. ASSUME NEW c \in 1 .. chunk, NEW d \in 1 .. chunk, MayPrecede(c, d)
        PROVE  MayPrecede(c, d)'
    <3>1. beside'[readAs[c]] = beside[readAs[c]]
      BY <1>0, <1>1 DEF HandTypes, HandInv, NumbersTell
    <3> QED
      BY <1>1, <2>1, <3>1 DEF MayPrecede
  <2> QED
    BY <1>1, <2>1 DEF HandInv, RingFollows
<1> QED
  BY <1>3, <1>4, <1>5 DEF HandInv

LEMMA WriteHands ==
  ASSUME TypeOK, HandInv, NEW r \in Readers, RingWrite(r) PROVE HandInv'
<1>0. HandTypes
  BY TypesOfHands
<1>1. /\ at[r] = "write" /\ chunk < MaxChunks /\ chunk' = chunk + 1
      /\ at' = [at EXCEPT ![r] = "fan"] /\ num' = [num EXCEPT ![r] = chunk + 1]
      /\ readAs' = [readAs EXCEPT ![chunk + 1] = hand[r]]
      /\ UNCHANGED <<taken, hand, beside>>
  BY DEF RingWrite, ReaderGoes
<1>2. /\ \A c \in 1 .. chunk : readAs'[c] = readAs[c]
      /\ readAs'[chunk + 1] = hand[r]
      /\ \A c \in 1 .. chunk' : c \in 1 .. chunk \/ c = chunk + 1
  BY <1>0, <1>1 DEF HandTypes
<1>3. /\ hand[r] \in 1 .. taken
      /\ \A c \in 1 .. chunk : readAs[c] # hand[r] /\ readAs[c] \in 1 .. taken
  BY <1>0, <1>1 DEF HandTypes, HandInv, HandsTell, NumbersTell
<1>4. HandsTell'
  BY <1>0, <1>1 DEF HandTypes, HandInv, HandsTell
<1>5. NumbersTell'
  <2>1. ASSUME NEW q \in Readers, at'[q] = "write", NEW c \in 1 .. chunk'
        PROVE  readAs'[c] # hand'[q]
    <3>1. q # r /\ at[q] = "write" /\ hand[q] # 0 /\ hand[q] # hand[r]
      BY <1>0, <1>1, <2>1 DEF HandTypes, HandInv, HandsTell
    <3> QED
      BY <1>1, <1>2, <3>1 DEF HandInv, NumbersTell
  <2>2. ASSUME NEW q \in Readers, at'[q] \in {"fan", "send"}
        PROVE  num'[q] \in 1 .. chunk' /\ readAs'[num'[q]] = hand'[q]
    <3>1. CASE q = r
      BY <1>0, <1>1, <1>2, <3>1 DEF HandTypes
    <3>2. CASE q # r
      BY <1>0, <1>1, <1>2, <2>2, <3>2 DEF HandTypes, HandInv, NumbersTell
    <3> QED
      BY <3>1, <3>2
  <2>3. \A c \in 1 .. chunk' : readAs'[c] \in 1 .. taken'
    BY <1>1, <1>2, <1>3
  <2>4. \A c, d \in 1 .. chunk' : c # d => readAs'[c] # readAs'[d]
    BY <1>2, <1>3 DEF HandInv, NumbersTell
  <2> QED
    BY <2>1, <2>2, <2>3, <2>4 DEF NumbersTell
<1>6. RingFollows'
  <2> SUFFICES ASSUME NEW c \in 1 .. chunk', NEW d \in 1 .. chunk', c < d
               PROVE  MayPrecede(c, d)'
    BY DEF RingFollows
  <2>1. c \in 1 .. chunk
    BY <1>0, <1>1 DEF HandTypes
  <2>2. CASE d \in 1 .. chunk
    <3>1. MayPrecede(c, d)
      BY <2>1, <2>2 DEF HandInv, RingFollows
    <3> QED
      BY <1>1, <1>2, <2>1, <2>2, <3>1 DEF MayPrecede
  <2>3. CASE d = chunk + 1
    <3>1. readAs'[c] = readAs[c] /\ readAs'[d] = hand[r]
      BY <1>2, <2>1, <2>3
    <3>2. readAs[c] < hand[r] \/ hand[r] < readAs[c]
      BY <1>3, <2>1
    <3>3. hand[r] < readAs[c] => hand[r] \in beside[readAs[c]]
      BY <1>3, <2>1 DEF HandInv, HandsTell
    <3> QED
      BY <1>1, <3>1, <3>2, <3>3 DEF MayPrecede
  <2> QED
    BY <1>2, <2>2, <2>3
<1> QED
  BY <1>4, <1>5, <1>6 DEF HandInv

\* A fan-out reads nothing and writes nothing to the ring.
LEMMA FanHands ==
  ASSUME TypeOK, HandInv, NEW r \in Readers,
         FanBegin(r) \/ FanEnd(r) \/ \E l \in Listeners : FanOut(r, l)
  PROVE  HandInv'
<1>0. HandTypes
  BY TypesOfHands
<1>1. UNCHANGED <<taken, beside, chunk, readAs>>
  BY DEF FanBegin, FanEnd, FanOut, FanFrame, ringVars
<1>2. RingFollows'
  BY <1>1 DEF HandInv, RingFollows, MayPrecede
<1>3. CASE FanBegin(r)
  <2>1. at[r] = "fan" /\ at' = [at EXCEPT ![r] = "send"] /\ UNCHANGED <<hand, num>>
    BY <1>3 DEF FanBegin, ReaderGoes
  <2>2. HandsTell'
    BY <1>0, <1>1, <2>1 DEF HandTypes, HandInv, HandsTell
  <2>3. NumbersTell'
    BY <1>0, <1>1, <2>1 DEF HandTypes, HandInv, NumbersTell
  <2> QED
    BY <1>2, <2>2, <2>3 DEF HandInv
<1>4. CASE FanEnd(r)
  <2>1. /\ at[r] = "send" /\ at' = [at EXCEPT ![r] = "read"]
        /\ hand' = [hand EXCEPT ![r] = 0] /\ num' = [num EXCEPT ![r] = 0]
    BY <1>4 DEF FanEnd, ReaderGoes
  <2>2. HandsTell'
    BY <1>0, <1>1, <2>1 DEF HandTypes, HandInv, HandsTell
  <2>3. NumbersTell'
    BY <1>0, <1>1, <2>1 DEF HandTypes, HandInv, NumbersTell
  <2> QED
    BY <1>2, <2>2, <2>3 DEF HandInv
<1>5. ASSUME NEW l \in Listeners, FanOut(r, l) PROVE HandInv'
  <2>1. UNCHANGED <<at, hand, num>>
    BY <1>5 DEF FanOut, FanFrame
  <2>2. HandsTell' /\ NumbersTell'
    BY <1>1, <2>1 DEF HandInv, HandsTell, NumbersTell
  <2> QED
    BY <1>2, <2>2 DEF HandInv
<1> QED
  BY <1>3, <1>4, <1>5

LEMMA QuietHands ==
  ASSUME HandInv, UNCHANGED <<readerVars, chunk, readAs>> PROVE HandInv'
  BY DEF HandInv, HandsTell, NumbersTell, RingFollows, MayPrecede, readerVars

\* Whatever is in the ring may precede the chunk a reader fans out.
LEMMA FannedFollows ==
  ASSUME TypeOK, HandInv, NEW r \in Readers, at[r] \in {"fan", "send"},
         NEW c \in 1 .. chunk, c # num[r]
  PROVE  MayPrecede(c, num[r])
<1>0. HandTypes
  BY TypesOfHands
<1>1. num[r] \in 1 .. chunk /\ readAs[num[r]] = hand[r] /\ hand[r] # 0 /\ hand[r] \in Nat
  BY <1>0 DEF HandInv, HandsTell, NumbersTell, HandTypes
<1>2. readAs[c] # hand[r] /\ readAs[c] \in 1 .. taken
  BY <1>1 DEF HandInv, NumbersTell
<1>3. readAs[c] < hand[r] \/ hand[r] < readAs[c]
  BY <1>1, <1>2
<1>4. hand[r] < readAs[c] => hand[r] \in beside[readAs[c]]
  BY <1>1, <1>2 DEF HandInv, HandsTell
<1> QED
  BY <1>1, <1>3, <1>4 DEF MayPrecede

(***************************************************************************)
(* Items in a channel.                                                     *)
(***************************************************************************)
InSequence(s) ==
  \A i, j \in DOMAIN s :
    i < j /\ s[i][1] = s[j][1] =>
      s[i][1] # "init" /\ s[i][2] # s[j][2] /\ MayPrecede(s[i][2], s[j][2])

LEMMA Appended ==
  ASSUME NEW s \in Seq(Items), NEW x \in Items
  PROVE  /\ Append(s, x) \in Seq(Items)
         /\ DOMAIN Append(s, x) = DOMAIN s \cup {Len(s) + 1}
         /\ DOMAIN s = 1 .. Len(s)
         /\ Append(s, x)[Len(s) + 1] = x
         /\ \A i \in DOMAIN s : Append(s, x)[i] = s[i]
  OBVIOUS

LEMMA AppendInSequence ==
  ASSUME NEW s \in Seq(Items), NEW x \in Items, InSequence(s),
         x[1] = "init" => Numbers(s, {"init"}) = {},
         \A n \in Numbers(s, {x[1]}) : n # x[2] /\ MayPrecede(n, x[2])
  PROVE  InSequence(Append(s, x))
<1> DEFINE t == Append(s, x)
           m == Len(s) + 1
<1>1. /\ DOMAIN t = DOMAIN s \cup {m} /\ t[m] = x
      /\ \A i \in DOMAIN s : t[i] = s[i] /\ i < m /\ ~(m < i)
  BY Appended
<1>2. \A i \in DOMAIN s : s[i][1] = x[1] => s[i][2] \in Numbers(s, {x[1]})
  BY DEF Numbers
<1>3. m \in Nat
  OBVIOUS
<1> HIDE DEF t, m
<1>4. ASSUME NEW i \in DOMAIN t, NEW j \in DOMAIN t, i < j, t[i][1] = t[j][1]
      PROVE  t[i][1] # "init" /\ t[i][2] # t[j][2] /\ MayPrecede(t[i][2], t[j][2])
  <2>1. i \in DOMAIN s /\ t[i] = s[i]
    BY <1>1, <1>3, <1>4
  <2>2. CASE j \in DOMAIN s
    BY <1>1, <1>4, <2>1, <2>2 DEF InSequence
  <2>3. CASE j = m
    <3>1. t[j] = x /\ s[i][2] \in Numbers(s, {x[1]}) /\ s[i][1] = x[1]
      BY <1>1, <1>2, <1>4, <2>1, <2>3
    <3> QED
      BY <2>1, <3>1
  <2> QED
    BY <1>1, <2>2, <2>3
<1>5. InSequence(t)
  BY <1>4 DEF InSequence
<1> QED
  BY <1>5 DEF t

LEMMA AppendNumbers ==
  ASSUME NEW s \in Seq(Items), NEW x \in Items, NEW kind
  PROVE  /\ x[1] = kind => Numbers(Append(s, x), {kind}) = Numbers(s, {kind}) \cup {x[2]}
         /\ x[1] # kind => Numbers(Append(s, x), {kind}) = Numbers(s, {kind})
<1> DEFINE t == Append(s, x)
           n == Len(s) + 1
<1>1. /\ DOMAIN t = DOMAIN s \cup {n} /\ t[n] = x /\ n \notin DOMAIN s
      /\ \A i \in DOMAIN s : t[i] = s[i]
  BY Appended
<1> HIDE DEF t, n
<1>2. /\ x[1] = kind => Numbers(t, {kind}) = Numbers(s, {kind}) \cup {x[2]}
      /\ x[1] # kind => Numbers(t, {kind}) = Numbers(s, {kind})
  BY <1>1 DEF Numbers
<1> QED
  BY <1>2 DEF t

(***************************************************************************)
(* The order of the pieces.  A reader sends its chunk to a listener once,  *)
(* after none that it may not follow; what the burst has sent is older     *)
(* than every slot it has still to come to, and stays so because the ring  *)
(* does not change meanwhile.                                              *)
(***************************************************************************)
Inits(l) == Numbers(sent[l], {"init"})

OrderOf(l) ==
  /\ InSequence(sent[l])
  /\ Live(l) \subseteq 1 .. chunk /\ Old(l) \subseteq 1 .. chunk
  /\ \A r \in Readers : at[r] = "fan" \/ l \in todo[r] => num[r] \notin Live(l)
  /\ burst[l] = "send" =>
       \A j \in step[l] .. RingSize - 1 : SlotAt(j) # 0 => \A b \in Old(l) : b < SlotAt(j)
  /\ burst[l] \in {"none", "init", "lock"} => Old(l) = {}
  /\ burst[l] \in {"none", "init"} => Inits(l) = {}
  /\ handler[l] = "new" => burst[l] = "none" /\ sent[l] = <<>>

OrderInv == RingInv /\ HandInv /\ \A l \in Listeners : OrderOf(l)

LEMMA SlotTypes ==
  ASSUME TypeOK, NEW i \in Nat PROVE SlotAt(i) \in 0 .. MaxChunks
<1>1. ringPos + i \in Nat /\ RingSize \in Nat \ {0}
  BY HubAssumption DEF TypeOK
<1>2. (ringPos + i) % RingSize \in 0 .. RingSize - 1
  BY <1>1, ModRange
<1> QED
  BY <1>2 DEF SlotAt, TypeOK

\* Chunks that are in the ring already keep their order.
LEMMA SequenceStays ==
  ASSUME TypeOK, HandInv, NEW r \in Readers, Read(r) \/ RingWrite(r),
         NEW l \in Listeners, InSequence(sent[l]),
         Live(l) \subseteq 1 .. chunk, Old(l) \subseteq 1 .. chunk
  PROVE  InSequence(sent[l])'
<1>0. HandTypes
  BY TypesOfHands
<1>1. sent' = sent
  BY DEF Read, RingWrite, chanVars, outVars
<1>2. /\ \A c \in 1 .. chunk : readAs'[c] = readAs[c]
      /\ \A n \in 1 .. taken : beside'[n] = beside[n]
  <2>1. CASE Read(r)
    <3>1. readAs' = readAs /\ beside' = [beside EXCEPT ![taken + 1] = InHand]
      BY <2>1 DEF Read, ringVars
    <3> QED
      BY <1>0, <3>1 DEF HandTypes
  <2>2. CASE RingWrite(r)
    <3>1. beside' = beside /\ readAs' = [readAs EXCEPT ![chunk + 1] = hand[r]]
      BY <2>2 DEF RingWrite
    <3> QED
      BY <1>0, <3>1 DEF HandTypes
  <2> QED
    BY <2>1, <2>2
<1>3. ASSUME NEW c \in 1 .. chunk, NEW d \in 1 .. chunk, MayPrecede(c, d)
      PROVE  MayPrecede(c, d)'
  BY <1>2, <1>3 DEF MayPrecede, HandInv, NumbersTell
<1>4. sent[l] \in Seq(Items)
  BY DEF TypeOK
<1>5. \A i \in DOMAIN sent[l] : sent[l][i] \in Items
  BY <1>4
<1>6. \A i \in DOMAIN sent[l] : sent[l][i][1] # "init" => sent[l][i][2] \in 1 .. chunk
  BY <1>5 DEF Items, Live, Old, Numbers
<1> QED
  BY <1>1, <1>3, <1>6 DEF InSequence

LEMMA ReadOrders ==
  ASSUME TypeOK, OrderInv, NEW r \in Readers, Read(r) PROVE OrderInv'
<1>0. /\ UNCHANGED <<sent, burst, step, handler, ring, ringPos, chunk, num, todo>>
      /\ at' = [at EXCEPT ![r] = "write"]
  BY DEF Read, ReaderGoes, ringVars, chanVars, outVars, burstVars
<1>1. RingInv' /\ \A i : SlotAt(i)' = SlotAt(i)
  BY <1>0, RingStays DEF OrderInv
<1>2. HandInv'
  BY ReadHands DEF OrderInv
<1>3. ASSUME NEW l \in Listeners PROVE OrderOf(l)'
  <2>1. OrderOf(l) /\ InSequence(sent[l])'
    BY SequenceStays DEF OrderInv, OrderOf
  <2>2. \A q \in Readers : at'[q] = "fan" => at[q] = "fan"
    BY <1>0 DEF TypeOK
  <2>3. UNCHANGED <<Live(l), Old(l), Inits(l)>>
    BY <1>0 DEF Live, Old, Inits
  <2> QED
    BY <1>0, <1>1, <2>1, <2>2, <2>3 DEF OrderOf
<1> QED
  BY <1>1, <1>2, <1>3 DEF OrderInv

LEMMA WriteOrders ==
  ASSUME OpenInv, OrderInv, NEW r \in Readers, RingWrite(r) PROVE OrderInv'
<1>0. /\ UNCHANGED <<sent, burst, step, handler, todo>> /\ chunk' = chunk + 1
      /\ at[r] = "write" /\ at' = [at EXCEPT ![r] = "fan"]
      /\ num' = [num EXCEPT ![r] = chunk + 1]
      /\ chunk \in Nat /\ TypeOK
      /\ \A l \in Listeners : burst[l] # "send"
  BY DEF RingWrite, ReaderGoes, RingIsFree, chanVars, outVars, burstVars, OpenInv, TypeOK
<1>1. RingInv'
  BY <1>0, RingWrites DEF OrderInv
<1>2. HandInv'
  BY <1>0, WriteHands DEF OrderInv
<1>3. ASSUME NEW l \in Listeners PROVE OrderOf(l)'
  <2>1. OrderOf(l) /\ InSequence(sent[l])'
    BY <1>0, SequenceStays DEF OrderInv, OrderOf
  <2>2. UNCHANGED <<Live(l), Old(l), Inits(l)>>
    BY <1>0 DEF Live, Old, Inits
  <2>3. chunk + 1 \notin Live(l) /\ 1 .. chunk \subseteq 1 .. chunk'
    BY <1>0, <2>1 DEF OrderOf
  <2>4. ASSUME NEW q \in Readers, at'[q] = "fan" \/ l \in todo'[q]
        PROVE  num'[q] \notin Live(l)'
    <3>1. CASE q = r
      BY <1>0, <2>2, <2>3, <3>1 DEF TypeOK
    <3>2. CASE q # r
      BY <1>0, <2>1, <2>2, <2>4, <3>2 DEF TypeOK, OrderOf
    <3> QED
      BY <3>1, <3>2
  <2> QED
    BY <1>0, <2>1, <2>2, <2>3, <2>4 DEF OrderOf
<1> QED
  BY <1>1, <1>2, <1>3 DEF OrderInv

\* Locking and unlocking for a fan-out.
LEMMA FanLockOrders ==
  ASSUME OpenInv, OrderInv, NEW r \in Readers, FanBegin(r) \/ FanEnd(r) PROVE OrderInv'
<1>0. /\ UNCHANGED <<sent, burst, step, handler, ring, ringPos, chunk, readAs, beside>>
      /\ TypeOK
  BY DEF FanBegin, FanEnd, chanVars, outVars, burstVars, ringVars, OpenInv
<1>1. RingInv' /\ \A i : SlotAt(i)' = SlotAt(i)
  BY <1>0, RingStays DEF OrderInv
<1>2. HandInv'
  BY <1>0, FanHands DEF OrderInv
<1>3. ASSUME NEW l \in Listeners PROVE OrderOf(l)'
  <2>1. OrderOf(l)
    BY DEF OrderInv
  <2>2. InSequence(sent[l])' /\ UNCHANGED <<Live(l), Old(l), Inits(l)>>
    BY <1>0, <2>1 DEF OrderOf, InSequence, MayPrecede, Live, Old, Inits
  <2>3. ASSUME NEW q \in Readers, at'[q] = "fan" \/ l \in todo'[q]
        PROVE  num'[q] \notin Live(l)
    <3>1. CASE FanBegin(r)
      <4>1. /\ at[r] = "fan" /\ at' = [at EXCEPT ![r] = "send"] /\ num' = num
            /\ todo' = [todo EXCEPT ![r] = listeners]
        BY <3>1 DEF FanBegin, ReaderGoes
      <4> QED
        BY <1>0, <2>1, <2>3, <4>1 DEF OrderOf, TypeOK
    <3>2. CASE FanEnd(r)
      <4>1. /\ at[r] = "send" /\ at' = [at EXCEPT ![r] = "read"] /\ todo[r] = {}
            /\ todo' = todo /\ num' = [num EXCEPT ![r] = 0]
        BY <3>2 DEF FanEnd, ReaderGoes
      <4> QED
        BY <1>0, <2>1, <2>3, <4>1 DEF OrderOf, TypeOK
    <3> QED
      BY <3>1, <3>2
  <2> QED
    BY <1>0, <1>1, <2>1, <2>2, <2>3 DEF OrderOf
<1> QED
  BY <1>1, <1>2, <1>3 DEF OrderInv

LEMMA FanOrders ==
  ASSUME OpenInv, OrderInv, NEW r \in Readers, NEW l \in Listeners, FanOut(r, l)
  PROVE  OrderInv'
<1> DEFINE x == <<"live", num[r]>>
<1>0. /\ UNCHANGED <<burst, step, handler, ring, ringPos, chunk, readAs, beside, at, num, hand>>
      /\ at[r] = "send" /\ l \in todo[r] /\ todo' = [todo EXCEPT ![r] = @ \ {l}]
      /\ TypeOK /\ HandInv /\ sent \in [Listeners -> Seq(Items)]
      /\ todo \in [Readers -> SUBSET Listeners]
  BY DEF FanOut, FanFrame, burstVars, ringVars, OpenInv, TypeOK, OrderInv
<1>1. l \in listeners /\ l \notin closed
  BY <1>0 DEF OpenInv, OpenWhileListed, TodoListed
<1>2. \/ sent' = sent
      \/ sent' = [sent EXCEPT ![l] = Append(@, x)]
  BY <1>1 DEF FanOut, outVars
<1>3. x \in Items /\ x[1] = "live" /\ x[2] = num[r]
  BY <1>0 DEF TypeOK, Items
<1> HIDE DEF x
<1>4. RingInv' /\ \A i : SlotAt(i)' = SlotAt(i)
  BY <1>0, RingStays DEF OrderInv
<1>5. HandInv'
  BY <1>0, FanHands
<1>7. ASSUME NEW k \in Listeners, sent'[k] = sent[k] PROVE OrderOf(k)'
  <2>1. OrderOf(k) /\ UNCHANGED <<Live(k), Old(k), Inits(k)>>
    BY <1>7 DEF OrderInv, Live, Old, Inits
  <2>2. InSequence(sent[k])'
    BY <1>0, <1>7, <2>1 DEF OrderOf, InSequence, MayPrecede
  <2>3. \A q \in Readers : k \in todo'[q] => k \in todo[q]
    BY <1>0
  <2> QED
    BY <1>0, <1>4, <1>7, <2>1, <2>2, <2>3 DEF OrderOf
<1>8. ASSUME sent' = [sent EXCEPT ![l] = Append(@, x)] PROVE OrderOf(l)'
  <2>0. sent[l] \in Seq(Items) /\ OrderOf(l) /\ sent'[l] = Append(sent[l], x)
    BY <1>0, <1>8 DEF OrderInv
  <2>1. /\ num[r] \in 1 .. chunk /\ num[r] \notin Live(l)
        /\ \A n \in Live(l) : n # num[r] /\ MayPrecede(n, num[r])
    BY <1>0, <2>0, FannedFollows DEF OrderOf, HandInv, NumbersTell
  <2>2. InSequence(Append(sent[l], x))
    BY <1>3, <2>0, <2>1, AppendInSequence DEF OrderOf, Live
  <2>3. InSequence(sent[l])'
    BY <1>0, <2>0, <2>2 DEF InSequence, MayPrecede
  <2>4. Live(l)' = Live(l) \cup {num[r]} /\ Old(l)' = Old(l) /\ Inits(l)' = Inits(l)
    <3>1. Numbers(Append(sent[l], x), {"live"}) = Numbers(sent[l], {"live"}) \cup {x[2]}
      BY <1>3, <2>0, AppendNumbers
    <3>2. Numbers(Append(sent[l], x), {"burst"}) = Numbers(sent[l], {"burst"})
      BY <1>3, <2>0, AppendNumbers
    <3>3. Numbers(Append(sent[l], x), {"init"}) = Numbers(sent[l], {"init"})
      BY <1>3, <2>0, AppendNumbers
    <3> QED
      BY <1>3, <2>0, <3>1, <3>2, <3>3 DEF Live, Old, Inits
  <2>5. ASSUME NEW q \in Readers, at'[q] = "fan" \/ l \in todo'[q]
        PROVE  num'[q] \notin Live(l)'
    <3>1. q # r
      BY <1>0, <2>5
    <3>2. at[q] \in {"fan", "send"} /\ num[q] \notin Live(l)
      BY <1>0, <2>0, <2>5, <3>1 DEF OpenInv, TodoListed, OrderOf
    <3>3. readAs[num[q]] = hand[q] /\ readAs[num[r]] = hand[r] /\ hand[q] # 0
      BY <1>0, <3>2 DEF HandInv, NumbersTell, HandsTell
    <3>4. num[q] # num[r]
      BY <1>0, <3>1, <3>3 DEF HandInv, HandsTell
    <3> QED
      BY <1>0, <2>4, <3>2, <3>4
  <2>6. handler[l] # "new"
    BY <1>1 DEF OpenInv, ListedHandlers
  <2> QED
    BY <1>0, <1>4, <2>0, <2>1, <2>3, <2>4, <2>5, <2>6 DEF OrderOf
<1>9. ASSUME NEW k \in Listeners PROVE OrderOf(k)'
  <2>1. CASE sent'[k] = sent[k]
    BY <1>7, <2>1
  <2>2. CASE sent'[k] # sent[k]
    BY <1>0, <1>2, <1>8, <2>2
  <2> QED
    BY <2>1, <2>2
<1> QED
  BY <1>4, <1>5, <1>9 DEF OrderInv

\* What a step of a burst leaves alone.
LEMMA BurstFrames ==
  ASSUME OpenInv, OrderInv, NEW l \in Listeners, BurstStep(l)
  PROVE  /\ UNCHANGED <<listeners, joined, readerVars, ringVars, handler>>
         /\ RingInv' /\ HandInv' /\ TypeOK
         /\ \A i : SlotAt(i)' = SlotAt(i)
         /\ \A k \in Listeners \ {l} :
              /\ sent'[k] = sent[k] /\ burst'[k] = burst[k] /\ step'[k] = step[k]
              /\ count'[k] = count[k] /\ (k \notin missed' => k \notin missed)
<1>0. /\ UNCHANGED <<listeners, joined, readerVars, ringVars, handler>> /\ TypeOK
  BY DEF BurstStep, BurstInit, BurstLock, BurstSend, BurstEnd, BurstFrame, mapVars, OpenInv
<1>1. RingInv' /\ HandInv' /\ \A i : SlotAt(i)' = SlotAt(i)
  BY <1>0, RingStays, QuietHands DEF OrderInv, ringVars
<1>2. /\ sent \in [Listeners -> Seq(Items)]
      /\ burst \in [Listeners -> {"none", "init", "lock", "send", "done"}]
      /\ step \in [Listeners -> 0 .. RingSize] /\ count \in [Listeners -> 0 .. Burst]
  BY <1>0 DEF TypeOK
<1>3. ASSUME NEW k \in Listeners \ {l}
      PROVE  /\ sent'[k] = sent[k] /\ burst'[k] = burst[k] /\ step'[k] = step[k]
             /\ count'[k] = count[k] /\ (k \notin missed' => k \notin missed)
  <2>1. CASE BurstInit(l)
    BY <1>2, <2>1 DEF BurstInit, BurstGoes, Offer, outVars
  <2>2. CASE BurstLock(l)
    BY <1>2, <2>2 DEF BurstLock, BurstGoes, outVars
  <2>3. CASE BurstSend(l)
    <3>1. PICK i \in 0 .. RingSize - 1 :
            /\ Offer(l, <<"burst", SlotAt(i)>>, "done", "send")
            /\ step' = [step EXCEPT ![l] = i + 1]
            /\ count' = [count EXCEPT ![l] = @ + 1]
      BY <2>3 DEF BurstSend
    <3> QED
      BY <1>2, <3>1 DEF Offer, outVars
  <2>4. CASE BurstEnd(l)
    BY <1>2, <2>4 DEF BurstEnd, BurstGoes, outVars
  <2> QED
    BY <2>1, <2>2, <2>3, <2>4 DEF BurstStep
<1> QED
  BY <1>0, <1>1, <1>3

LEMMA BurstOrders ==
  ASSUME OpenInv, OrderInv, NEW l \in Listeners, BurstStep(l) PROVE OrderInv'
<1>t. TypeOK /\ RingInv /\ OrderOf(l)
  BY DEF OpenInv, OrderInv
<1>0. /\ UNCHANGED <<ring, ringPos, chunk, readAs, beside, at, num, todo, handler>>
      /\ sent \in [Listeners -> Seq(Items)] /\ chunk \in Nat
      /\ burst \in [Listeners -> {"none", "init", "lock", "send", "done"}]
      /\ step \in [Listeners -> 0 .. RingSize]
      /\ sent[l] \in Seq(Items) /\ OrderOf(l) /\ RingSize \in Nat /\ TypeOK /\ RingInv
  <2>1. UNCHANGED <<ring, ringPos, chunk, readAs, beside, at, num, todo, handler>>
    BY BurstFrames DEF readerVars, ringVars
  <2>2. /\ sent \in [Listeners -> Seq(Items)] /\ chunk \in Nat /\ RingSize \in Nat
        /\ burst \in [Listeners -> {"none", "init", "lock", "send", "done"}]
        /\ step \in [Listeners -> 0 .. RingSize]
    BY <1>t, HubAssumption DEF TypeOK
  <2> QED
    BY <1>t, <2>1, <2>2
<1>1. RingInv' /\ HandInv' /\ \A i : SlotAt(i)' = SlotAt(i)
  BY BurstFrames
<1>2. ASSUME NEW k \in Listeners, k # l PROVE OrderOf(k)'
  <2>1. sent'[k] = sent[k] /\ burst'[k] = burst[k] /\ step'[k] = step[k] /\ OrderOf(k)
    BY <1>2, BurstFrames DEF OrderInv
  <2>2. InSequence(sent[k])' /\ UNCHANGED <<Live(k), Old(k), Inits(k)>>
    BY <1>0, <2>1 DEF OrderOf, InSequence, MayPrecede, Live, Old, Inits
  <2> QED
    BY <1>0, <1>1, <2>1, <2>2 DEF OrderOf
<1>3. handler[l] # "new"
  BY <1>0 DEF OrderOf, BurstStep, BurstInit, BurstLock, BurstSend, BurstEnd, BurstGoes
<1>4. ASSUME sent' = sent
      PROVE  InSequence(sent[l])' /\ UNCHANGED <<Live(l), Old(l), Inits(l)>>
  BY <1>0, <1>4 DEF OrderOf, InSequence, MayPrecede, Live, Old, Inits
<1>5. ASSUME sent' = sent /\ burst'[l] = "done"
      PROVE  OrderOf(l)'
  BY <1>0, <1>3, <1>4, <1>5 DEF OrderOf
<1>6. ASSUME sent' = sent /\ burst[l] \in {"init", "lock"} /\ burst'[l] \in {"init", "lock", "send"}
           /\ (burst'[l] = "init" => burst[l] = "init")
      PROVE  OrderOf(l)'
  BY <1>0, <1>3, <1>4, <1>6 DEF OrderOf
<1>7. ASSUME /\ burst[l] = "init" /\ burst'[l] = "lock"
             /\ sent'[l] = Append(sent[l], <<"init", 0>>)
      PROVE  OrderOf(l)'
  <2> DEFINE x == <<"init", 0>>
  <2>1. x \in Items /\ x[1] = "init" /\ x[2] = 0 /\ sent'[l] = Append(sent[l], x)
    BY <1>0, <1>7, HubAssumption DEF Items
  <2> HIDE DEF x
  <2>2. InSequence(Append(sent[l], x))
    BY <1>0, <1>7, <2>1, AppendInSequence DEF OrderOf, Inits
  <2>3. InSequence(sent[l])'
    BY <1>0, <2>1, <2>2 DEF InSequence, MayPrecede
  <2>4. Live(l)' = Live(l)
    <3>1. Numbers(Append(sent[l], x), {"live"}) = Numbers(sent[l], {"live"})
      BY <1>0, <2>1, AppendNumbers
    <3> QED
      BY <2>1, <3>1 DEF Live
  <2>5. Old(l)' = Old(l)
    <3>1. Numbers(Append(sent[l], x), {"burst"}) = Numbers(sent[l], {"burst"})
      BY <1>0, <2>1, AppendNumbers
    <3> QED
      BY <2>1, <3>1 DEF Old
  <2> QED
    BY <1>0, <1>3, <1>7, <2>3, <2>4, <2>5 DEF OrderOf
<1>8. ASSUME /\ burst[l] = "send" /\ burst'[l] = "send"
             /\ \E i \in 0 .. RingSize - 1 :
                  /\ NextFilled(l, i) /\ sent'[l] = Append(sent[l], <<"burst", SlotAt(i)>>)
                  /\ step'[l] = i + 1
      PROVE  OrderOf(l)'
  <2>0. PICK i \in 0 .. RingSize - 1 :
               /\ NextFilled(l, i) /\ sent'[l] = Append(sent[l], <<"burst", SlotAt(i)>>)
               /\ step'[l] = i + 1
    BY <1>8
  <2> DEFINE x == <<"burst", SlotAt(i)>>
  <2>1. /\ i \in Nat /\ SlotAt(i) \in 0 .. MaxChunks /\ SlotAt(i) # 0
        /\ i \in step[l] .. RingSize - 1
    BY <1>0, <2>0, SlotTypes DEF NextFilled
  <2>2. x \in Items /\ x[1] = "burst" /\ x[2] = SlotAt(i) /\ sent'[l] = Append(sent[l], x)
    BY <2>0, <2>1 DEF Items
  <2>3. SlotAt(i) \in 1 .. chunk
    <3>1. SlotAt(i) = Aged(i)
      BY <1>0, <2>0, SlotsRise
    <3> QED
      BY <1>0, <2>0, <2>1, <3>1 DEF Aged
  <2>4. \A b \in Old(l) : b < SlotAt(i) /\ b \in 1 .. chunk
    BY <1>0, <1>8, <2>1 DEF OrderOf
  <2>5. \A b \in Old(l) : b # SlotAt(i) /\ MayPrecede(b, SlotAt(i))
    BY <1>0, <2>3, <2>4 DEF OrderInv, HandInv, RingFollows
  <2>6. InSequence(Append(sent[l], x))
    <3> HIDE DEF x
    <3>1. \A n \in Numbers(sent[l], {x[1]}) : n # x[2] /\ MayPrecede(n, x[2])
      BY <2>2, <2>5 DEF Old
    <3> QED
      BY <1>0, <2>2, <3>1, AppendInSequence DEF OrderOf
  <2>7. InSequence(sent[l])'
    BY <1>0, <2>2, <2>6 DEF InSequence, MayPrecede
  <2>8. Live(l)' = Live(l) /\ Old(l)' = Old(l) \cup {SlotAt(i)}
    <3> HIDE DEF x
    <3>1. Numbers(Append(sent[l], x), {"live"}) = Numbers(sent[l], {"live"})
      BY <1>0, <2>2, AppendNumbers
    <3>2. Numbers(Append(sent[l], x), {"burst"}) = Numbers(sent[l], {"burst"}) \cup {x[2]}
      BY <1>0, <2>2, AppendNumbers
    <3> QED
      BY <2>2, <3>1, <3>2 DEF Live, Old
  <2>9. ASSUME NEW j \in step'[l] .. RingSize - 1, SlotAt(j) # 0, NEW b \in Old(l)'
        PROVE  b < SlotAt(j)
    <3>0. j \in 0 .. RingSize - 1 /\ i < j /\ j \in Nat
      BY <1>0, <2>0, <2>1, <2>9
    <3>1. SlotAt(i) < SlotAt(j)
      <4>1. SlotAt(i) = Aged(i) /\ SlotAt(j) = Aged(j)
        BY <1>0, <2>0, <3>0, SlotsRise
      <4> QED
        BY <1>0, <2>1, <2>9, <3>0, <4>1 DEF Aged
    <3>2. SlotAt(j) \in Nat /\ SlotAt(i) \in Nat
      BY <1>t, <2>1, <3>0, SlotTypes, HubAssumption
    <3> QED
      BY <1>0, <2>4, <2>8, <2>9, <3>1, <3>2
  <2> HIDE DEF x
  <2>10. \A j \in step'[l] .. RingSize - 1 :
           SlotAt(j)' # 0 => \A b \in Old(l)' : b < SlotAt(j)'
    BY <1>1, <2>9
  <2> QED
    BY <1>0, <1>3, <1>8, <2>3, <2>7, <2>8, <2>10 DEF OrderOf
<1>9. OrderOf(l)'
  <2>0. l \notin closed \/ sent' = sent
    BY DEF BurstStep, BurstInit, BurstLock, BurstSend, BurstEnd, Offer, outVars
  <2>1. CASE BurstInit(l)
    BY <1>0, <1>5, <1>6, <1>7, <2>1 DEF BurstInit, BurstGoes, Offer, outVars
  <2>2. CASE BurstLock(l)
    BY <1>0, <1>6, <2>2 DEF BurstLock, BurstGoes, outVars
  <2>3. CASE BurstSend(l)
    <3>1. PICK i \in 0 .. RingSize - 1 :
            /\ NextFilled(l, i) /\ Offer(l, <<"burst", SlotAt(i)>>, "done", "send")
            /\ step' = [step EXCEPT ![l] = i + 1]
      BY <2>3 DEF BurstSend
    <3>2. burst[l] = "send" /\ step'[l] = i + 1
      BY <1>0, <2>3, <3>1 DEF BurstSend
    <3>3. CASE l \in closed
      <4>1. \A j \in step'[l] .. RingSize - 1 : j \in step[l] .. RingSize - 1
        BY <1>0, <3>1, <3>2 DEF NextFilled
      <4>2. sent' = sent /\ burst' = burst
        BY <3>1, <3>3 DEF Offer, outVars
      <4>3. \A j \in step'[l] .. RingSize - 1 :
              SlotAt(j)' # 0 => \A b \in Old(l)' : b < SlotAt(j)'
        BY <1>0, <1>1, <1>4, <3>2, <4>1, <4>2 DEF OrderOf
      <4> QED
        BY <1>0, <1>3, <1>4, <3>2, <4>2, <4>3 DEF OrderOf
    <3>4. CASE l \notin closed
      BY <1>0, <1>5, <1>8, <3>1, <3>2, <3>4 DEF Offer
    <3> QED
      BY <3>3, <3>4
  <2>4. CASE BurstEnd(l)
    BY <1>0, <1>5, <2>4 DEF BurstEnd, BurstGoes, outVars
  <2> QED
    BY <2>1, <2>2, <2>3, <2>4 DEF BurstStep
<1> QED
  BY <1>1, <1>2, <1>9 DEF OrderInv

\* The other steps neither distribute nor send anything.
QuietStep ==
  \/ SetInitSegment \/ Close \/ UNCHANGED vars
  \/ \E l \in Listeners : Attach(l) \/ HandlerStep(l) \/ Written(l) \/ ClientLeaves(l)

LEMMA QuietSteps ==
  ASSUME TypeOK, QuietStep
  PROVE  /\ UNCHANGED <<sent, missed, readerVars, ringVars, step, count>>
         /\ \A l \in Listeners :
              \/ burst'[l] = burst[l] /\ (handler'[l] = "new" => handler[l] = "new")
              \/ handler[l] = "new" /\ burst'[l] = "init" /\ handler'[l] # "new"
<1> USE DEF Goes, chanVars, outVars, burstVars, mapVars, ChanFrame
<1>1. CASE SetInitSegment \/ Close \/ UNCHANGED vars
  BY <1>1 DEF SetInitSegment, Close, vars
<1>2. ASSUME NEW k \in Listeners, Attach(k)
      PROVE /\ UNCHANGED <<sent, missed, readerVars, ringVars, step, count>>
            /\ \A l \in Listeners :
                 \/ burst'[l] = burst[l] /\ (handler'[l] = "new" => handler[l] = "new")
                 \/ handler[l] = "new" /\ burst'[l] = "init" /\ handler'[l] # "new"
  BY <1>2 DEF Attach, TypeOK
<1>3. ASSUME NEW k \in Listeners, HandlerStep(k) \/ Written(k) \/ ClientLeaves(k)
      PROVE /\ UNCHANGED <<sent, missed, readerVars, ringVars, step, count>>
            /\ \A l \in Listeners :
                 burst'[l] = burst[l] /\ (handler'[l] = "new" => handler[l] = "new")
  <2>1. handler \in [Listeners -> HandlerState]
    BY DEF TypeOK
  <2> QED
    BY <1>3, <2>1 DEF HandlerStep, Receive, SeeClosed, RemoveFromMap, CloseChan, Written,
         ClientLeaves
<1> QED
  BY <1>1, <1>2, <1>3 DEF QuietStep

LEMMA QuietOrders ==
  ASSUME TypeOK, OrderInv, QuietStep PROVE OrderInv'
<1>0. /\ UNCHANGED <<sent, readerVars, ringVars, step>>
      /\ \A l \in Listeners :
           \/ burst'[l] = burst[l] /\ (handler'[l] = "new" => handler[l] = "new")
           \/ handler[l] = "new" /\ burst'[l] = "init" /\ handler'[l] # "new"
  BY QuietSteps
<1>1. RingInv' /\ HandInv' /\ \A i : SlotAt(i)' = SlotAt(i)
  BY <1>0, RingStays, QuietHands DEF OrderInv, ringVars
<1>2. ASSUME NEW l \in Listeners PROVE OrderOf(l)'
  <2>1. OrderOf(l)
    BY DEF OrderInv
  <2>2. InSequence(sent[l])' /\ UNCHANGED <<Live(l), Old(l), Inits(l)>>
    BY <1>0, <2>1 DEF OrderOf, InSequence, MayPrecede, Live, Old, Inits, readerVars, ringVars
  <2>3. UNCHANGED <<at, todo, num, chunk>>
    BY <1>0 DEF readerVars, ringVars
  <2> QED
    BY <1>0, <1>1, <2>1, <2>2, <2>3 DEF OrderOf
<1> QED
  BY <1>1, <1>2 DEF OrderInv

LEMMA NextOrders ==
  ASSUME OpenInv, OrderInv, [Next]_vars PROVE OrderInv'
<1>1. TypeOK
  BY DEF OpenInv
<1>2. CASE QuietStep
  BY <1>1, <1>2, QuietOrders
<1>3. ASSUME NEW r \in Readers, Read(r) \/ ReaderStep(r) PROVE OrderInv'
  BY <1>1, <1>3, ReadOrders, WriteOrders, FanLockOrders, FanOrders DEF ReaderStep
<1>4. CASE \E l \in Listeners : BurstStep(l)
  BY <1>4, BurstOrders
<1> QED
  BY <1>2, <1>3, <1>4 DEF Next, QuietStep

LEMMA InitOrders == Init => OrderInv
<1> SUFFICES ASSUME Init PROVE OrderInv
  OBVIOUS
<1>0. RingSize \in Nat \ {0}
  BY HubAssumption
<1>1. RingInv
  BY <1>0 DEF Init, RingInv, Slot
<1>2. HandInv
  <2>1. chunk = 0 /\ taken = 0 /\ 1 .. 0 = {}
    BY DEF Init
  <2> QED
    BY <2>1 DEF Init, HandInv, HandsTell, NumbersTell, RingFollows
<1>3. ASSUME NEW l \in Listeners PROVE OrderOf(l)
  BY <1>3 DEF Init, OrderOf, InSequence, Live, Old, Inits, Numbers
<1> QED
  BY <1>1, <1>2, <1>3 DEF OrderInv

LEMMA OrderInvariant == Spec => [](OpenInv /\ OrderInv)
<1>1. Init => OpenInv
  BY InitType DEF Init, OpenInv, ListedHandlers, NewIsFresh, OpenWhileListed, TodoListed
<1> QED
  BY <1>1, InitOrders, NextOpen, NextOrders, PTL DEF Spec

\* However many readers distribute at once, a chunk comes before one that was
\* read earlier only when the two were in two readers' hands together, and no
\* channel gets a chunk twice from the same kind of writer (mountpoint.go,
\* readFromSource, distributeToListeners and sendBurst).
THEOREM InOrder == Spec => []PiecesInOrder
<1>1. OrderInv => PiecesInOrder
  BY DEF OrderInv, OrderOf, InSequence, PiecesInOrder
<1> QED
  BY <1>1, OrderInvariant, PTL

(***************************************************************************)
(* Holes.  A listener in the map that has missed nothing has every chunk   *)
(* written since it came, or a reader has it still in hand; its burst is   *)
(* an interval of the ring: base is the last chunk the ring has dropped,   *)
(* skip the number of slots that were never written.  A burst that is over *)
(* has left out no more than Gap chunks of those before the listener came. *)
(***************************************************************************)
base == IF chunk > RingSize THEN chunk - RingSize ELSE 0
skip == IF chunk < RingSize THEN RingSize - chunk ELSE 0

Sending(l) ==
  /\ Old(l) = base + 1 .. base + count[l]
  /\ count[l] = IF step[l] = 0 THEN 0 ELSE step[l] - skip
  /\ step[l] = 0 \/ step[l] > skip

Settled(l) ==
  \E b \in Nat : /\ Old(l) = b + 1 .. b + count[l]
                 /\ joined[l] <= b + count[l] + Gap
                 /\ count[l] = 0 => joined[l] = 0

SinceJoined(l) == \A c \in joined[l] + 1 .. chunk : c \in Live(l) \cup Pending(l)

Continuous(l) ==
  /\ SinceJoined(l)
  /\ burst[l] = "send" => Sending(l)
  /\ burst[l] = "done" => Settled(l)

HoleInv ==
  /\ \A l \in Listeners : burst[l] \in {"none", "init", "lock"} =>
       step[l] = 0 /\ count[l] = 0 /\ Old(l) = {}
  /\ \A l \in Listeners : joined[l] <= chunk
  /\ \A l \in listeners \ missed : Continuous(l)

\* What a fan-out or a write owes to a listener.
Owes(q, l) == at[q] = "fan" \/ (at[q] = "send" /\ l \in todo[q])

LEMMA PendingOwed ==
  ASSUME NEW l
  PROVE  Pending(l) = {num[q] : q \in {p \in Readers : Owes(p, l)}}
  BY DEF Pending, Owes

LEMMA GapNat == Gap \in Nat
  BY HubAssumption DEF Gap

\* The steps of a reader touch no burst and no listener's coming.
LEMMA ReaderFrames ==
  ASSUME NEW r \in Readers, Read(r) \/ ReaderStep(r)
  PROVE  UNCHANGED <<listeners, joined, burst, step, count>>
  BY DEF Read, ReaderStep, RingWrite, FanBegin, FanOut, FanEnd, FanFrame, mapVars, burstVars

\* A listener keeps what it has when the ring and its burst stay as they are.
LEMMA StaysContinuous ==
  ASSUME NEW l \in Listeners, Continuous(l), chunk' = chunk, Old(l)' = Old(l),
         joined'[l] = joined[l], burst'[l] = burst[l], step'[l] = step[l],
         count'[l] = count[l],
         \A c : c \in Live(l) \cup Pending(l) => c \in (Live(l) \cup Pending(l))'
  PROVE  Continuous(l)'
<1>1. UNCHANGED <<base, skip, Gap>>
  BY DEF base, skip, Gap
<1>2. (Sending(l) => Sending(l)') /\ (Settled(l) => Settled(l)')
  BY <1>1 DEF Sending, Settled
<1>3. SinceJoined(l)'
  BY DEF Continuous, SinceJoined
<1> QED
  BY <1>2, <1>3 DEF Continuous

LEMMA ReaderContinues ==
  ASSUME OpenInv, OrderInv, HoleInv, NEW r \in Readers, Read(r) \/ ReaderStep(r)
  PROVE  HoleInv'
<1>t. TypeOK
  BY DEF OpenInv
<1>0. /\ at \in [Readers -> {"read", "write", "fan", "send"}]
      /\ num \in [Readers -> 0 .. MaxChunks] /\ todo \in [Readers -> SUBSET Listeners]
      /\ chunk \in Nat /\ listeners \subseteq Listeners /\ joined \in [Listeners -> Nat]
      /\ sent \in [Listeners -> Seq(Items)]
  BY <1>t, HubAssumption DEF TypeOK
<1>f. UNCHANGED <<listeners, joined, burst, step, count>>
  BY ReaderFrames
<1>1. CASE Read(r)
  <2>1. UNCHANGED <<sent, missed, chunk, num, todo>> /\ at[r] = "read"
        /\ at' = [at EXCEPT ![r] = "write"]
    BY <1>1 DEF Read, ReaderGoes, chanVars, outVars, ringVars
  <2>2. ASSUME NEW l \in Listeners PROVE UNCHANGED <<Live(l), Old(l), Pending(l)>>
    <3>1. \A q \in Readers : Owes(q, l)' <=> Owes(q, l)
      BY <1>0, <2>1 DEF Owes
    <3>2. Pending(l)' = Pending(l)
      BY <2>1, <3>1, PendingOwed DEF Pending, Owes
    <3> QED
      BY <2>1, <3>2 DEF Live, Old
  <2>3. \A l \in listeners \ missed' : Continuous(l)'
    BY <1>0, <1>f, <2>1, <2>2, StaysContinuous DEF HoleInv
  <2> QED
    BY <1>f, <2>1, <2>2, <2>3 DEF HoleInv
<1>2. CASE RingWrite(r)
  <2>1. /\ UNCHANGED <<sent, missed, todo>> /\ at[r] = "write"
        /\ at' = [at EXCEPT ![r] = "fan"] /\ num' = [num EXCEPT ![r] = chunk + 1]
        /\ chunk' = chunk + 1 /\ \A l \in Listeners : burst[l] # "send"
    BY <1>2 DEF RingWrite, ReaderGoes, RingIsFree, chanVars, outVars
  <2>2. ASSUME NEW l \in Listeners
        PROVE  /\ UNCHANGED <<Live(l), Old(l)>>
               /\ \A c \in Pending(l) : c \in Pending(l)'
               /\ chunk + 1 \in Pending(l)'
    <3>1. \A q \in Readers : Owes(q, l) => Owes(q, l)' /\ q # r /\ num'[q] = num[q]
      BY <1>0, <2>1 DEF Owes
    <3>2. at'[r] = "fan" /\ num'[r] = chunk + 1
      BY <1>0, <2>1
    <3>3. \A c \in Pending(l) : c \in Pending(l)'
      BY <3>1 DEF Pending, Owes
    <3>4. chunk + 1 \in Pending(l)'
      BY <3>2 DEF Pending
    <3> QED
      BY <2>1, <3>3, <3>4 DEF Live, Old
  <2>3. ASSUME NEW l \in listeners \ missed' PROVE Continuous(l)'
    <3>1. l \in Listeners /\ Continuous(l)
      BY <1>0, <2>1, <2>3 DEF HoleInv
    <3>2. SinceJoined(l)'
      <4> SUFFICES ASSUME NEW c \in joined[l] + 1 .. chunk + 1
                   PROVE  c \in (Live(l) \cup Pending(l))'
        BY <1>f, <2>1 DEF SinceJoined
      <4>1. c \in joined[l] + 1 .. chunk \/ c = chunk + 1
        BY <1>0, <3>1
      <4> QED
        BY <2>2, <3>1, <4>1 DEF Continuous, SinceJoined
    <3>3. Settled(l) => Settled(l)'
      BY <1>f, <2>2, <3>1 DEF Settled, Gap
    <3> QED
      BY <1>f, <2>1, <3>1, <3>2, <3>3 DEF Continuous
  <2>4. \A l \in Listeners : joined'[l] <= chunk'
    BY <1>0, <1>f, <2>1 DEF HoleInv
  <2> QED
    BY <1>f, <2>1, <2>2, <2>3, <2>4 DEF HoleInv
<1>3. CASE FanBegin(r)
  <2>1. UNCHANGED <<sent, missed, chunk, num>> /\ at[r] = "fan"
        /\ at' = [at EXCEPT ![r] = "send"] /\ todo' = [todo EXCEPT ![r] = listeners]
    BY <1>3 DEF FanBegin, ReaderGoes, chanVars, outVars, ringVars
  <2>2. ASSUME NEW l \in Listeners PROVE UNCHANGED <<Live(l), Old(l)>>
    BY <2>1 DEF Live, Old
  <2>3. ASSUME NEW l \in listeners PROVE Pending(l)' = Pending(l)
    <3>1. \A q \in Readers : Owes(q, l)' <=> Owes(q, l)
      BY <1>0, <2>1 DEF Owes
    <3> QED
      BY <2>1, <3>1, PendingOwed DEF Pending, Owes
  <2>4. \A l \in listeners \ missed' : Continuous(l)'
    BY <1>0, <1>f, <2>1, <2>2, <2>3, StaysContinuous DEF HoleInv
  <2> QED
    BY <1>f, <2>1, <2>2, <2>4 DEF HoleInv
<1>4. ASSUME NEW k \in Listeners, FanOut(r, k) PROVE HoleInv'
  <2> DEFINE x == <<"live", num[r]>>
  <2>1. /\ UNCHANGED <<chunk, num, at>> /\ at[r] = "send" /\ k \in todo[r]
        /\ todo' = [todo EXCEPT ![r] = @ \ {k}]
    BY <1>4 DEF FanOut, FanFrame, ringVars
  <2>2. k \notin closed
    BY <2>1 DEF OpenInv, OpenWhileListed, TodoListed
  <2>3. \/ sent' = sent /\ missed' = missed \cup {k}
        \/ sent' = [sent EXCEPT ![k] = Append(@, x)] /\ missed' = missed
    BY <1>4, <2>2 DEF FanOut, outVars
  <2>4. x \in Items /\ x[1] = "live" /\ x[2] = num[r]
    BY <1>0 DEF Items
  <2> HIDE DEF x
  <2>5. ASSUME NEW l \in Listeners, sent'[l] # sent[l]
        PROVE  l = k /\ Live(l)' = Live(l) \cup {num[r]} /\ Old(l)' = Old(l)
    <3>1. l = k /\ sent'[l] = Append(sent[l], x) /\ sent[l] \in Seq(Items)
      BY <1>0, <2>3, <2>5
    <3>2. Numbers(Append(sent[l], x), {"live"}) = Numbers(sent[l], {"live"}) \cup {x[2]}
      BY <2>4, <3>1, AppendNumbers
    <3>3. Numbers(Append(sent[l], x), {"burst"}) = Numbers(sent[l], {"burst"})
      BY <2>4, <3>1, AppendNumbers
    <3> QED
      BY <2>4, <3>1, <3>2, <3>3 DEF Live, Old
  <2>6. ASSUME NEW l \in Listeners, sent'[l] = sent[l] PROVE UNCHANGED <<Live(l), Old(l)>>
    BY <2>6 DEF Live, Old
  <2>7. ASSUME NEW l \in listeners \ missed' PROVE Continuous(l)'
    <3>1. l \in Listeners /\ l \notin missed /\ Continuous(l)
      BY <1>0, <2>3, <2>7 DEF HoleInv
    <3>2. \A q \in Readers : Owes(q, l) => Owes(q, l)' \/ (q = r /\ l = k)
      BY <1>0, <2>1 DEF Owes
    <3>3. \A c \in Pending(l) : c \in Pending(l)' \/ (c = num[r] /\ l = k)
      BY <2>1, <3>2 DEF Pending, Owes
    <3>4. l = k => sent'[l] = Append(sent[l], x) /\ sent'[l] # sent[l]
      <4>1. ASSUME l = k PROVE sent'[l] = Append(sent[l], x) /\ sent[l] \in Seq(Items)
        BY <1>0, <2>3, <2>7, <3>1, <4>1
      <4>2. \A s \in Seq(Items) : Append(s, x) # s
        BY <2>4
      <4> QED
        BY <4>1, <4>2
    <3>5. \A c : c \in Live(l) \cup Pending(l) => c \in (Live(l) \cup Pending(l))'
      BY <2>5, <2>6, <3>1, <3>3, <3>4
    <3>6. Old(l)' = Old(l)
      BY <2>5, <2>6, <3>1
    <3> QED
      BY <1>f, <2>1, <3>1, <3>5, <3>6, StaysContinuous
  <2>8. \A l \in Listeners : Old(l)' = Old(l)
    BY <2>5, <2>6
  <2> QED
    BY <1>f, <2>1, <2>7, <2>8 DEF HoleInv
<1>5. CASE FanEnd(r)
  <2>1. UNCHANGED <<sent, missed, chunk, todo>> /\ at[r] = "send" /\ todo[r] = {}
        /\ at' = [at EXCEPT ![r] = "read"] /\ num' = [num EXCEPT ![r] = 0]
    BY <1>5 DEF FanEnd, ReaderGoes, chanVars, outVars, ringVars
  <2>2. ASSUME NEW l \in Listeners PROVE UNCHANGED <<Live(l), Old(l), Pending(l)>>
    <3>1. \A q \in Readers : (Owes(q, l)' <=> Owes(q, l)) /\ (Owes(q, l) => num'[q] = num[q])
      BY <1>0, <2>1 DEF Owes
    <3>2. Pending(l)' = Pending(l)
      BY <3>1, PendingOwed DEF Pending, Owes
    <3> QED
      BY <2>1, <3>2 DEF Live, Old
  <2>3. \A l \in listeners \ missed' : Continuous(l)'
    BY <1>0, <1>f, <2>1, <2>2, StaysContinuous DEF HoleInv
  <2> QED
    BY <1>f, <2>1, <2>2, <2>3 DEF HoleInv
<1> QED
  BY <1>1, <1>2, <1>3, <1>4, <1>5 DEF ReaderStep

\* The next slot with something in it, and that the loop ends with the last.
LEMMA NextSlot ==
  ASSUME TypeOK, RingInv, NEW l \in Listeners, Sending(l), NEW i \in 0 .. RingSize - 1,
         NextFilled(l, i)
  PROVE  /\ SlotAt(i) = base + count[l] + 1
         /\ i + 1 > skip /\ count[l] + 1 = i + 1 - skip
<1>0. /\ chunk \in Nat /\ RingSize \in Nat \ {0} /\ step[l] \in 0 .. RingSize
      /\ i \in step[l] .. RingSize - 1 /\ SlotAt(i) # 0
      /\ \A j \in step[l] .. i - 1 : SlotAt(j) = 0
  BY HubAssumption DEF TypeOK, NextFilled
<1>1. SlotAt(i) = Aged(i) /\ \A j \in step[l] .. i - 1 : Aged(j) = 0
  <2>1. \A j \in step[l] .. i - 1 : j \in 0 .. RingSize - 1
    BY <1>0
  <2> QED
    BY <1>0, <2>1, SlotsRise
<1>2. i >= skip /\ i \in Nat
  BY <1>0, <1>1 DEF Aged, skip
<1>3. CASE step[l] = 0
  <2>1. i = skip
    <3>0. skip \in Nat
      BY <1>0 DEF skip
    <3>1. SUFFICES ASSUME i > skip PROVE FALSE
      BY <1>2, <3>0
    <3>2. skip \in step[l] .. i - 1 /\ skip \in Nat
      BY <1>0, <1>2, <1>3, <3>1 DEF skip
    <3>3. Aged(skip) = 0
      BY <1>1, <3>2
    <3> QED
      BY <1>0, <1>2, <3>1, <3>3 DEF Aged, skip
  <2> QED
    BY <1>0, <1>1, <1>3, <2>1 DEF Aged, skip, base, Sending
<1>4. CASE step[l] # 0
  <2>1. step[l] > skip
    BY <1>4 DEF Sending
  <2>2. i = step[l]
    <3>1. SUFFICES ASSUME i > step[l] PROVE FALSE
      BY <1>0
    <3>2. Aged(step[l]) = 0
      BY <1>0, <1>1, <3>1
    <3> QED
      BY <1>0, <2>1, <3>2 DEF Aged, skip
  <2> QED
    BY <1>0, <1>1, <1>4, <2>1, <2>2 DEF Aged, skip, base, Sending
<1> QED
  BY <1>3, <1>4

\* A burst that ends of itself has come to the end of the ring or to its target.
LEMMA BurstSettles ==
  ASSUME TypeOK, RingInv, NEW l \in Listeners, Sending(l), joined[l] <= chunk,
         ~MoreToSend(l)
  PROVE  Settled(l)
<1>0. /\ chunk \in Nat /\ RingSize \in Nat \ {0} /\ Burst \in Nat \ {0}
      /\ step[l] \in 0 .. RingSize /\ count[l] \in 0 .. Burst /\ joined[l] \in Nat
  BY HubAssumption DEF TypeOK
<1>1. base \in Nat /\ skip \in Nat /\ base + RingSize - skip = chunk
  BY <1>0 DEF base, skip
<1>2. count[l] = Burst \/ count[l] = RingSize - skip
  <2> SUFFICES ASSUME count[l] < Burst PROVE count[l] = RingSize - skip
    BY <1>0
  <2> DEFINE i == IF step[l] = 0 THEN skip ELSE step[l]
  <2>1. i \in Nat /\ i >= skip /\ i >= step[l]
    BY <1>0, <1>1 DEF Sending
  <2>2. i >= RingSize
    <3>1. SUFFICES ASSUME i < RingSize PROVE FALSE
      BY <1>0, <2>1
    <3>2. i \in 0 .. RingSize - 1 /\ i \in step[l] .. RingSize - 1
      BY <1>0, <2>1, <3>1
    <3>3. SlotAt(i) # 0
      <4> HIDE DEF i
      <4>1. SlotAt(i) = Aged(i)
        BY <3>2, SlotsRise
      <4> QED
        BY <1>0, <2>1, <3>2, <4>1 DEF Aged, skip
    <3>4. ASSUME NEW j \in step[l] .. i - 1 PROVE SlotAt(j) = 0
      <4>1. j \in 0 .. RingSize - 1 /\ j < skip
        BY <1>0, <1>1, <3>2, <3>4
      <4>2. SlotAt(j) = Aged(j)
        BY <4>1, SlotsRise
      <4> QED
        BY <1>0, <4>1, <4>2 DEF Aged, skip
    <3> HIDE DEF i
    <3> QED
      BY <3>2, <3>3, <3>4 DEF MoreToSend, NextFilled
  <2> QED
    BY <1>0, <1>1, <2>1, <2>2 DEF Sending, skip
<1>3. count[l] <= RingSize - skip
  <2>1. count[l] # 0 => count[l] = step[l] - skip
    BY DEF Sending
  <2>2. RingSize - skip >= 0
    BY <1>0 DEF skip
  <2> QED
    BY <1>0, <1>1, <2>1, <2>2
<1>4. joined[l] <= base + count[l] + Gap
  BY <1>0, <1>1, <1>2, <1>3 DEF Gap
<1>5. count[l] = 0 => joined[l] = 0
  <2> SUFFICES ASSUME count[l] = 0 PROVE chunk = 0
    BY <1>0
  <2>1. skip = RingSize
    BY <1>0, <1>1, <1>2
  <2> QED
    BY <1>0, <2>1 DEF skip
<1> QED
  BY <1>1, <1>4, <1>5 DEF Settled, Sending

LEMMA BurstContinues ==
  ASSUME OpenInv, OrderInv, HoleInv, NEW l \in Listeners, BurstStep(l) PROVE HoleInv'
<1>t. TypeOK /\ RingInv
  BY DEF OpenInv, OrderInv
<1>0. /\ sent \in [Listeners -> Seq(Items)] /\ chunk \in Nat /\ sent[l] \in Seq(Items)
      /\ burst \in [Listeners -> {"none", "init", "lock", "send", "done"}]
      /\ step \in [Listeners -> 0 .. RingSize] /\ count \in [Listeners -> 0 .. Burst]
      /\ listeners \subseteq Listeners /\ RingSize \in Nat \ {0} /\ Burst \in Nat \ {0}
  BY <1>t, HubAssumption DEF TypeOK
<1>f. UNCHANGED <<listeners, joined, chunk, num, at, todo>>
  BY BurstFrames DEF readerVars, ringVars
<1>g. UNCHANGED <<base, skip, Gap>> /\ \A k : Pending(k)' = Pending(k)
  BY <1>f DEF base, skip, Gap, Pending
<1>1. ASSUME NEW k \in Listeners, k # l
      PROVE  /\ sent'[k] = sent[k] /\ burst'[k] = burst[k] /\ step'[k] = step[k]
             /\ count'[k] = count[k] /\ (k \notin missed' => k \notin missed)
             /\ Live(k)' = Live(k) /\ Old(k)' = Old(k)
  BY <1>1, BurstFrames DEF Live, Old
<1>2. ASSUME /\ l \in listeners \ missed' => Continuous(l)'
             /\ burst'[l] \in {"none", "init", "lock"} =>
                  step'[l] = 0 /\ count'[l] = 0 /\ Old(l)' = {}
      PROVE  HoleInv'
  <2>1. ASSUME NEW k \in Listeners, burst'[k] \in {"none", "init", "lock"}
        PROVE step'[k] = 0 /\ count'[k] = 0 /\ Old(k)' = {}
    BY <1>1, <1>2, <2>1 DEF HoleInv
  <2>2. ASSUME NEW k \in listeners \ missed', k # l PROVE Continuous(k)'
    <3>1. k \in Listeners /\ Continuous(k)
      BY <1>0, <1>1, <2>2 DEF HoleInv
    <3> QED
      BY <1>1, <1>f, <1>g, <2>2, <3>1, StaysContinuous
  <2> QED
    BY <1>2, <1>f, <2>1, <2>2 DEF HoleInv
\* Steps before the burst holds the lock.
<1>3. ASSUME /\ step'[l] = step[l] /\ count'[l] = count[l]
             /\ burst[l] \in {"init", "lock"} /\ burst'[l] \in {"init", "lock", "send"}
             /\ Live(l)' = Live(l) /\ Old(l)' = Old(l)
             /\ l \notin missed' => l \notin missed
      PROVE  HoleInv'
  <2>1. Old(l)' = {} /\ step'[l] = 0 /\ count'[l] = 0
    BY <1>3 DEF HoleInv
  <2>2. ASSUME l \in listeners \ missed' PROVE Continuous(l)'
    <3>1. Continuous(l)
      BY <1>3, <2>2 DEF HoleInv
    <3>2. Sending(l)'
      <4>1. base \in Nat
        BY <1>0 DEF base
      <4>2. base + 1 .. base + 0 = {}
        BY <4>1
      <4> QED
        BY <1>g, <2>1, <4>2 DEF Sending
    <3>3. SinceJoined(l)'
      BY <1>3, <1>f, <1>g, <3>1 DEF Continuous, SinceJoined
    <3> QED
      BY <1>3, <3>2, <3>3 DEF Continuous
  <2> QED
    BY <1>2, <2>1, <2>2
<1>4. CASE BurstInit(l)
  <2>0. burst[l] = "init" /\ step' = step /\ count' = count
    BY <1>4 DEF BurstInit
  <2>1. ASSUME sent'[l] = Append(sent[l], <<"init", 0>>)
        PROVE  Live(l)' = Live(l) /\ Old(l)' = Old(l)
    <3> DEFINE x == <<"init", 0>>
    <3>1. x \in Items /\ x[1] # "live" /\ x[1] # "burst"
      BY HubAssumption DEF Items
    <3> HIDE DEF x
    <3>2. Numbers(Append(sent[l], x), {"live"}) = Numbers(sent[l], {"live"})
      BY <1>0, <3>1, AppendNumbers
    <3>3. Numbers(Append(sent[l], x), {"burst"}) = Numbers(sent[l], {"burst"})
      BY <1>0, <3>1, AppendNumbers
    <3> QED
      BY <2>1, <3>2, <3>3 DEF Live, Old, x
  <2>2. \/ burst'[l] \in {"init", "lock"} /\ missed' = missed
           /\ (sent'[l] = sent[l] \/ sent'[l] = Append(sent[l], <<"init", 0>>))
        \/ burst'[l] = "done" /\ l \in missed'
    BY <1>0, <1>4 DEF BurstInit, BurstGoes, Offer, outVars
  <2>3. CASE burst'[l] = "done" /\ l \in missed'
    BY <1>2, <2>3
  <2>4. CASE burst'[l] \in {"init", "lock"} /\ missed' = missed
             /\ (sent'[l] = sent[l] \/ sent'[l] = Append(sent[l], <<"init", 0>>))
    <3>1. Live(l)' = Live(l) /\ Old(l)' = Old(l)
      BY <2>1, <2>4 DEF Live, Old
    <3> QED
      BY <1>3, <2>0, <2>4, <3>1
  <2> QED
    BY <2>2, <2>3, <2>4
<1>5. CASE BurstLock(l)
  BY <1>0, <1>3, <1>5 DEF BurstLock, BurstGoes, outVars, Live, Old
<1>6. CASE BurstSend(l)
  <2>1. PICK i \in 0 .. RingSize - 1 :
          /\ NextFilled(l, i) /\ Offer(l, <<"burst", SlotAt(i)>>, "done", "send")
          /\ step' = [step EXCEPT ![l] = i + 1]
    BY <1>6 DEF BurstSend
  <2>2. burst[l] = "send" /\ step'[l] = i + 1 /\ count'[l] = count[l] + 1
    BY <1>0, <1>6, <2>1 DEF BurstSend
  <2>3. burst'[l] \in {"send", "done"}
    BY <1>0, <2>1, <2>2 DEF Offer
  <2>4. ASSUME l \in listeners \ missed' PROVE Continuous(l)'
    <3> DEFINE x == <<"burst", SlotAt(i)>>
    <3>0. l \notin closed
      BY <2>4 DEF OpenInv, OpenWhileListed
    <3>1. l \notin missed /\ Continuous(l)
      BY <2>1, <2>4, <3>0 DEF Offer, HoleInv
    <3>2. sent'[l] = Append(sent[l], x) /\ burst'[l] = "send"
      BY <1>0, <2>1, <2>4, <3>0 DEF Offer
    <3>3. x \in Items /\ x[1] = "burst" /\ x[2] = SlotAt(i)
      BY <1>t, <1>0, <2>1, SlotTypes DEF Items
    <3>4. Live(l)' = Live(l) /\ Old(l)' = Old(l) \cup {SlotAt(i)}
      <4> HIDE DEF x
      <4>1. Numbers(Append(sent[l], x), {"live"}) = Numbers(sent[l], {"live"})
        BY <1>0, <3>3, AppendNumbers
      <4>2. Numbers(Append(sent[l], x), {"burst"}) = Numbers(sent[l], {"burst"}) \cup {x[2]}
        BY <1>0, <3>3, AppendNumbers
      <4> QED
        BY <3>2, <3>3, <4>1, <4>2 DEF Live, Old
    <3> HIDE DEF x
    <3>5. Sending(l)
      BY <2>2, <3>1 DEF Continuous
    <3>6. /\ SlotAt(i) = base + count[l] + 1
          /\ i + 1 > skip /\ count[l] + 1 = i + 1 - skip
      BY <1>t, <2>1, <3>5, NextSlot
    <3>7. base \in Nat /\ count[l] \in Nat /\ skip \in Nat
      BY <1>0 DEF base, skip
    <3>8. Old(l)' = base + 1 .. base + (count[l] + 1)
      BY <3>4, <3>5, <3>6, <3>7 DEF Sending
    <3>9. Sending(l)'
      BY <1>g, <2>2, <3>6, <3>7, <3>8 DEF Sending
    <3>10. SinceJoined(l)'
      BY <1>f, <1>g, <3>1, <3>4 DEF Continuous, SinceJoined
    <3> QED
      BY <3>2, <3>9, <3>10 DEF Continuous
  <2> QED
    BY <1>2, <2>3, <2>4
<1>7. CASE BurstEnd(l)
  <2>1. /\ burst[l] = "send" /\ burst'[l] = "done" /\ UNCHANGED <<sent, missed, step, count>>
        /\ ~MoreToSend(l)
    BY <1>0, <1>7 DEF BurstEnd, BurstGoes, outVars
  <2>2. ASSUME l \in listeners \ missed' PROVE Continuous(l)'
    <3>1. Continuous(l) /\ Sending(l) /\ joined[l] <= chunk
      BY <1>0, <2>1, <2>2 DEF HoleInv, Continuous
    <3>2. Live(l)' = Live(l) /\ Old(l)' = Old(l)
      BY <2>1 DEF Live, Old
    <3>3. Settled(l)
      BY <1>t, <2>1, <3>1, BurstSettles
    <3>4. Settled(l)'
      BY <1>f, <1>g, <2>1, <3>2, <3>3 DEF Settled
    <3>5. SinceJoined(l)'
      BY <1>f, <1>g, <3>1, <3>2 DEF Continuous, SinceJoined
    <3> QED
      BY <2>1, <3>4, <3>5 DEF Continuous
  <2> QED
    BY <1>2, <2>1, <2>2
<1> QED
  BY <1>4, <1>5, <1>6, <1>7 DEF BurstStep

\* A listener that has come has missed nothing that was written since.
LEMMA QuietContinues ==
  ASSUME OpenInv, OrderInv, HoleInv, QuietStep PROVE HoleInv'
<1>t. TypeOK
  BY DEF OpenInv
<1>0. chunk \in Nat /\ listeners \subseteq Listeners /\ joined \in [Listeners -> Nat]
  BY <1>t, HubAssumption DEF TypeOK
<1>1. /\ UNCHANGED <<sent, missed, chunk, num, at, todo, step, count>>
      /\ \A l \in Listeners :
           \/ burst'[l] = burst[l] /\ (handler'[l] = "new" => handler[l] = "new")
           \/ handler[l] = "new" /\ burst'[l] = "init" /\ handler'[l] # "new"
  BY <1>t, QuietSteps DEF readerVars, ringVars
<1>2. /\ listeners' \subseteq Listeners
      /\ \A l \in listeners' \ listeners : joined'[l] = chunk /\ handler[l] = "new"
      /\ \A l \in listeners : handler[l] # "new"
      /\ \A l \in Listeners : joined'[l] = joined[l] \/ (joined'[l] = chunk /\ handler[l] = "new")
  <2>1. \A l \in listeners : handler[l] # "new"
    BY DEF OpenInv, ListedHandlers
  <2>2. ASSUME NEW k \in Listeners, Attach(k)
        PROVE  /\ listeners' \subseteq listeners \cup {k} /\ joined' = [joined EXCEPT ![k] = chunk]
               /\ handler[k] = "new"
    BY <2>2 DEF Attach, Goes
  <2>3. ASSUME ~ \E k \in Listeners : Attach(k)
        PROVE  listeners' \subseteq listeners /\ joined' = joined
    BY <2>3 DEF QuietStep, SetInitSegment, Close, vars, mapVars, HandlerStep, Receive, SeeClosed,
         RemoveFromMap, CloseChan, Written, ClientLeaves, ChanFrame
  <2> QED
    BY <1>0, <2>1, <2>2, <2>3
<1>3. ASSUME NEW l \in Listeners PROVE UNCHANGED <<Live(l), Old(l), Pending(l)>>
  BY <1>1 DEF Live, Old, Pending
<1>4. ASSUME NEW l \in Listeners, burst'[l] \in {"none", "init", "lock"}
      PROVE  step'[l] = 0 /\ count'[l] = 0 /\ Old(l)' = {}
  <2>1. burst[l] \in {"none", "init", "lock"}
    BY <1>1, <1>4 DEF OrderInv, OrderOf
  <2> QED
    BY <1>1, <1>3, <2>1 DEF HoleInv
<1>5. ASSUME NEW l \in listeners' \ missed' PROVE Continuous(l)'
  <2>1. CASE l \in listeners
    <3>1. l \in Listeners /\ burst'[l] = burst[l] /\ joined'[l] = joined[l] /\ Continuous(l)
      BY <1>0, <1>1, <1>2, <1>5, <2>1 DEF HoleInv
    <3> QED
      BY <1>1, <1>3, <3>1, StaysContinuous
  <2>2. CASE l \notin listeners
    <3>1. l \in Listeners /\ handler[l] = "new" /\ burst[l] = "none" /\ joined'[l] = chunk
      BY <1>2, <1>5, <2>2 DEF OrderInv, OrderOf
    <3>2. burst'[l] \in {"none", "init"}
      BY <1>1, <3>1
    <3>3. chunk + 1 .. chunk = {}
      BY <1>0
    <3>4. SinceJoined(l)'
      BY <1>1, <3>1, <3>3 DEF SinceJoined
    <3> QED
      BY <3>2, <3>4 DEF Continuous
  <2> QED
    BY <2>1, <2>2
<1>6. \A l \in Listeners : joined'[l] <= chunk'
  BY <1>0, <1>1, <1>2 DEF HoleInv
<1> QED
  BY <1>4, <1>5, <1>6 DEF HoleInv

LEMMA NextContinues ==
  ASSUME OpenInv, OrderInv, HoleInv, [Next]_vars PROVE HoleInv'
  BY ReaderContinues, BurstContinues, QuietContinues DEF Next, QuietStep

\* What is lost lies between the end of the burst and the listener's coming.
LEMMA SettledLosesLittle ==
  ASSUME TypeOK, NEW l \in Listeners, SinceJoined(l), Settled(l)
  PROVE  /\ \A c \in Lost(l) : c <= joined[l]
         /\ Cardinality(Lost(l)) <= Gap
<1>0. chunk \in Nat /\ joined[l] \in Nat /\ count[l] \in Nat /\ Gap \in Nat
  BY GapNat, HubAssumption DEF TypeOK
<1>1. \A c \in Lost(l) : c \in 1 .. chunk /\ c <= joined[l]
  BY <1>0 DEF Lost, SinceJoined
<1>2. PICK b \in Nat : /\ Old(l) = b + 1 .. b + count[l]
                       /\ joined[l] <= b + count[l] + Gap
  BY DEF Settled
<1> DEFINE first == b + count[l] + 1
           end == b + count[l] + Gap
<1>3. Lost(l) \subseteq first .. end
  <2> SUFFICES ASSUME NEW c \in Lost(l) PROVE c \in first .. end
    OBVIOUS
  <2>1. c \in 1 .. chunk /\ c <= joined[l] /\ c \notin Old(l)
    BY <1>1 DEF Lost
  <2>2. PICK x \in Old(l) : x < c
    BY <1>0, <2>1 DEF Lost
  <2> QED
    BY <1>0, <1>2, <2>1, <2>2
<1>4. IsFiniteSet(first .. end) /\ Cardinality(first .. end) = Gap
  <2>1. first \in Int /\ end \in Int /\ end - first + 1 = Gap
    BY <1>0, <1>2
  <2> HIDE DEF first, end
  <2>2. IsFiniteSet(first .. end)
        /\ Cardinality(first .. end) = IF first > end THEN 0 ELSE end - first + 1
    BY <2>1, FS_Interval
  <2> QED
    BY <1>0, <2>1, <2>2
<1> HIDE DEF first, end
<1>5. IsFiniteSet(Lost(l)) /\ Cardinality(Lost(l)) <= Cardinality(first .. end)
  BY <1>3, <1>4, FS_Subset
<1> QED
  BY <1>1, <1>4, <1>5

(***************************************************************************)
(* Whatever the sizes, and however many readers distribute while the burst *)
(* is sent, a listener whose channel was never full gets every chunk       *)
(* written after it came, and between its burst and then loses at most the *)
(* chunks by which the ring exceeds a burst, 208 of the 256 (mountpoint.go,*)
(* sendBurst and distributeToListeners).                                   *)
(***************************************************************************)
THEOREM HearsAll == Spec => []NoHole
<1>1. Init => HoleInv
  <2> SUFFICES ASSUME Init PROVE HoleInv
    OBVIOUS
  <2>1. \A l \in Listeners : Old(l) = {}
    BY DEF Init, Old, Numbers
  <2> QED
    BY <2>1 DEF Init, HoleInv
<1>2. ASSUME OpenInv, HoleInv PROVE NoHole
  <2> SUFFICES ASSUME NEW l \in listeners \ missed, burst[l] = "done"
               PROVE  /\ \A c \in Lost(l) : c <= joined[l]
                      /\ Cardinality(Lost(l)) <= Gap
    BY DEF NoHole
  <2>1. TypeOK /\ l \in Listeners
    BY <1>2 DEF OpenInv, TypeOK
  <2>2. SinceJoined(l) /\ Settled(l)
    BY <1>2 DEF HoleInv, Continuous
  <2> QED
    BY <2>1, <2>2, SettledLosesLittle
<1> QED
  BY <1>1, <1>2, OrderInvariant, NextContinues, PTL DEF Spec
===============================================================================
