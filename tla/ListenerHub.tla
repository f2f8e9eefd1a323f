------------------------------ MODULE ListenerHub ------------------------------
(***************************************************************************)
(* The listener half of a streaming.Mountpoint and the HandleListener      *)
(* goroutines around it: the listeners map behind listenersMu, the channel *)
(* of every listener, the ring buffer with its burst-on-connect goroutine, *)
(* the readFromSource goroutines that distribute chunks and the shutdown   *)
(* of the mountpoint.  What HandleListener does to the column              *)
(* stations.listeners_count is in StreamingServer.                         *)
(*                                                                         *)
(* A chunk has two numbers: its place among all that Reads have returned   *)
(* and its place among all that were written to the ring.  They agree as   *)
(* long as one goroutine reads; when a source is replaced, its reader may  *)
(* still distribute while the reader of its successor does.  One           *)
(* HandleListener per member of Listeners, one readFromSource at a time    *)
(* per member of Readers.                                                  *)
(***************************************************************************)
EXTENDS Naturals, Sequences, FiniteSets

CONSTANTS
  Listeners,
  Readers,     \* the readFromSource goroutines that run at once
  RingSize,    \* ringBufferSize (256)
  Burst,       \* targetBurst (48)
  Cap,         \* capacity of Listener.Chan (1500)
  MaxChunks,   \* bound: chunks the source delivers
  Surrogates,  \* the values n for which rune(n) is no character (0xD800-0xDFFF)
  Fmp4         \* whether an init segment may be stored

ASSUME HubAssumption ==
  /\ RingSize \in Nat \ {0}
  /\ Burst \in Nat \ {0}
  /\ Cap \in Nat \ {0}
  /\ MaxChunks \in Nat
  /\ Surrogates \subseteq Nat \ {0}
  /\ Fmp4 \in BOOLEAN

VARIABLES
  listeners,    \* the Listener objects the map m.listeners holds
  nextID,       \* m.nextID
  id,           \* [Listeners -> the varying part of Listener.ID]
  sent,         \* [Listeners -> every item ever put in Chan, in order]
  missed,       \* the listeners to whom a full Chan has cost an item
  received,     \* [Listeners -> how many of them the handler took]
  closed,       \* the listeners whose Chan is closed
  taken,        \* how many chunks the Reads have returned
  at,           \* [Readers -> where the loop of readFromSource is]
  hand,         \* [Readers -> the chunk it distributes, by reading; 0: none]
  num,          \* [Readers -> the number that chunk has in the ring, or 0]
  todo,         \* [Readers -> the listeners its fan-out has still to come to]
  beside,       \* history: [read number -> those other readers held then]
  readAs,       \* history: [ring number -> read number]
  joined,       \* history: [Listeners -> chunk when the listener came]
  ring,         \* m.ringBuffer, 0 for a nil slot
  ringPos,      \* m.ringBufferPos
  chunk,        \* number of the last chunk written to the ring
  initSegment,  \* whether m.initSegment is set
  burst,        \* [Listeners -> where sendBurst is]
  step,         \* [Listeners -> i, the ring slot the burst has come to]
  count,        \* [Listeners -> sent, how many chunks the burst has sent]
  handler,      \* [Listeners -> where HandleListener is]
  shut,         \* Close() has run
  panicked      \* "no", or the operation on a closed channel that killed us

readerVars == <<taken, at, hand, num, todo, beside>>
ringVars == <<ring, ringPos, chunk, readAs>>
burstVars == <<burst, step, count>>
mapVars == <<listeners, nextID, id, joined>>
outVars == <<sent, missed>>
chanVars == <<outVars, received, closed>>
vars == <<mapVars, chanVars, readerVars, ringVars, initSegment, burstVars,
          handler, shut, panicked>>

InvalidRune == 65533

\* string(rune(n)): every invalid code point becomes U+FFFD.
IdOf(n) == IF n \in Surrogates THEN InvalidRune ELSE n

Items == {"init", "burst", "live"} \X (0 .. MaxChunks)

HandlerState == {"new", "streaming", "writing", "removing", "closing", "gone"}

TypeOK ==
  /\ listeners \subseteq Listeners
  /\ nextID \in Nat
  /\ id \in [Listeners -> Nat]
  /\ sent \in [Listeners -> Seq(Items)]
  /\ missed \subseteq Listeners
  /\ received \in [Listeners -> Nat]
  /\ closed \subseteq Listeners
  /\ ring \in [0 .. RingSize - 1 -> 0 .. MaxChunks]
  /\ ringPos \in 0 .. RingSize - 1
  /\ chunk \in 0 .. MaxChunks
  /\ taken \in 0 .. MaxChunks
  /\ at \in [Readers -> {"read", "write", "fan", "send"}]
  /\ hand \in [Readers -> 0 .. MaxChunks]
  /\ num \in [Readers -> 0 .. MaxChunks]
  /\ todo \in [Readers -> SUBSET Listeners]
  /\ beside \in [1 .. MaxChunks -> SUBSET (1 .. MaxChunks)]
  /\ readAs \in [1 .. MaxChunks -> 0 .. MaxChunks]
  /\ joined \in [Listeners -> 0 .. MaxChunks]
  /\ initSegment \in BOOLEAN
  /\ burst \in [Listeners -> {"none", "init", "lock", "send", "done"}]
  /\ step \in [Listeners -> 0 .. RingSize]
  /\ count \in [Listeners -> 0 .. Burst]
  /\ handler \in [Listeners -> HandlerState]
  /\ shut \in BOOLEAN
  /\ panicked \in {"no", "send", "close"}

Init ==
  /\ listeners = {}
  /\ nextID = 0
  /\ id = [l \in Listeners |-> 0]
  /\ sent = [l \in Listeners |-> <<>>]
  /\ missed = {}
  /\ received = [l \in Listeners |-> 0]
  /\ closed = {}
  /\ ring = [p \in 0 .. RingSize - 1 |-> 0]
  /\ ringPos = 0
  /\ chunk = 0
  /\ taken = 0
  /\ at = [r \in Readers |-> "read"]
  /\ hand = [r \in Readers |-> 0]
  /\ num = [r \in Readers |-> 0]
  /\ todo = [r \in Readers |-> {}]
  /\ beside = [n \in 1 .. MaxChunks |-> {}]
  /\ readAs = [c \in 1 .. MaxChunks |-> 0]
  /\ joined = [l \in Listeners |-> 0]
  /\ initSegment = FALSE
  /\ burst = [l \in Listeners |-> "none"]
  /\ step = [l \in Listeners |-> 0]
  /\ count = [l \in Listeners |-> 0]
  /\ handler = [l \in Listeners |-> "new"]
  /\ shut = FALSE
  /\ panicked = "no"

HasRoom(l) == Len(sent[l]) - received[l] < Cap

Goes(l, from, to) ==
  /\ handler[l] = from
  /\ handler' = [handler EXCEPT ![l] = to]

BurstGoes(l, from, to) ==
  /\ burst[l] = from
  /\ burst' = [burst EXCEPT ![l] = to]

(***************************************************************************)
(* readFromSource: a Read returns a chunk, distributeToListeners writes it *)
(* to the ring under ringBufferMu, which a burst holds for reading all the *)
(* while, and then, with listenersMu held for reading, offers it to one    *)
(* listener of the map after the other; one whose channel is full goes     *)
(* without it.  Between the steps nothing keeps another reader out.        *)
(***************************************************************************)
ReaderGoes(r, from, to) ==
  /\ at[r] = from
  /\ at' = [at EXCEPT ![r] = to]

InHand == {hand[s] : s \in Readers} \ {0}

Read(r) ==
  /\ taken < MaxChunks
  /\ ReaderGoes(r, "read", "write")
  /\ taken' = taken + 1
  /\ hand' = [hand EXCEPT ![r] = taken + 1]
  /\ beside' = [beside EXCEPT ![taken + 1] = InHand]
  /\ UNCHANGED <<mapVars, chanVars, num, todo, ringVars, initSegment, burstVars,
                 handler, shut, panicked>>

RingIsFree == \A l \in Listeners : burst[l] # "send"

\* Mutant of RingWrite: ringBufferPos does not wrap.
RingWriteUnwrapped(r) ==
  /\ chunk < MaxChunks  \* bound, as in Read: never in the way
  /\ RingIsFree
  /\ ReaderGoes(r, "write", "fan")
  /\ chunk' = chunk + 1
  /\ ring' = [ring EXCEPT ![ringPos] = chunk + 1]
  /\ ringPos' = ringPos + 1
  /\ num' = [num EXCEPT ![r] = chunk + 1]
  /\ readAs' = [readAs EXCEPT ![chunk + 1] = hand[r]]
  /\ UNCHANGED <<mapVars, chanVars, taken, hand, todo, beside, initSegment,
                 burstVars, handler, shut, panicked>>

RingWrite(r) ==
  /\ chunk < MaxChunks  \* bound, as in Read: never in the way
  /\ RingIsFree
  /\ ReaderGoes(r, "write", "fan")
  /\ chunk' = chunk + 1
  /\ ring' = [ring EXCEPT ![ringPos] = chunk + 1]
  /\ ringPos' = (ringPos + 1) % RingSize
  /\ num' = [num EXCEPT ![r] = chunk + 1]
  /\ readAs' = [readAs EXCEPT ![chunk + 1] = hand[r]]
  /\ UNCHANGED <<mapVars, chanVars, taken, hand, todo, beside, initSegment,
                 burstVars, handler, shut, panicked>>

\* listenersMu.RLock: from here to FanEnd the map stays as it is.
FanBegin(r) ==
  /\ ReaderGoes(r, "fan", "send")
  /\ todo' = [todo EXCEPT ![r] = listeners]
  /\ UNCHANGED <<mapVars, chanVars, taken, hand, num, beside, ringVars,
                 initSegment, burstVars, handler, shut, panicked>>

NobodySends == \A r \in Readers : at[r] # "send"

FanFrame ==
  UNCHANGED <<mapVars, received, closed, taken, at, hand, num, beside, ringVars,
              initSegment, burstVars, handler, shut>>

\* Mutant of FanOut: a listener gets no live chunk before its burst is over.
FanOutAfterBurst(r, l) ==
  /\ at[r] = "send" /\ l \in todo[r]
  /\ todo' = [todo EXCEPT ![r] = @ \ {l}]
  /\ sent' = IF burst[l] = "done" /\ HasRoom(l)
               THEN [sent EXCEPT ![l] = Append(@, <<"live", num[r]>>)]
               ELSE sent
  /\ UNCHANGED <<missed, panicked>>
  /\ FanFrame

\* Mutant of FanOut: the fan-out takes the newest chunk out of the ring again.
FanOutNewest(r, l) ==
  /\ at[r] = "send" /\ l \in todo[r]
  /\ todo' = [todo EXCEPT ![r] = @ \ {l}]
  /\ IF HasRoom(l)
       THEN /\ sent' = [sent EXCEPT ![l] = Append(@, <<"live", chunk>>)]
            /\ UNCHANGED missed
       ELSE missed' = missed \cup {l} /\ UNCHANGED sent
  /\ UNCHANGED panicked
  /\ FanFrame

FanOut(r, l) ==
  /\ at[r] = "send" /\ l \in todo[r]
  /\ todo' = [todo EXCEPT ![r] = @ \ {l}]
  /\ IF l \in closed
       THEN panicked' = "send" /\ UNCHANGED outVars
       ELSE /\ IF HasRoom(l)
                 THEN /\ sent' = [sent EXCEPT ![l] = Append(@, <<"live", num[r]>>)]
                      /\ UNCHANGED missed
                 ELSE missed' = missed \cup {l} /\ UNCHANGED sent
            /\ UNCHANGED panicked
  /\ FanFrame

\* RUnlock, and back to the head of the loop.
FanEnd(r) ==
  /\ todo[r] = {}
  /\ ReaderGoes(r, "send", "read")
  /\ hand' = [hand EXCEPT ![r] = 0]
  /\ num' = [num EXCEPT ![r] = 0]
  /\ UNCHANGED <<mapVars, chanVars, taken, todo, beside, ringVars, initSegment,
                 burstVars, handler, shut, panicked>>

\* What a reader does with the chunk in its hand.
ReaderStep(r) ==
  \/ RingWrite(r)
  \/ FanBegin(r)
  \/ \E l \in Listeners : FanOut(r, l)
  \/ FanEnd(r)

\* SetInitSegment: an fMP4 stream stores it once, before its first chunk or,
\* when the download fails at first, somewhere in the middle.
SetInitSegment ==
  /\ Fmp4 /\ ~initSegment
  /\ initSegment' = TRUE
  /\ UNCHANGED <<mapVars, chanVars, readerVars, ringVars, burstVars, handler,
                 shut, panicked>>

(***************************************************************************)
(* sendBurst, in a goroutine of its own that keeps the *Listener: the init *)
(* segment, then, with ringBufferMu held for reading, the oldest Burst     *)
(* filled slots of the ring.  A full channel ends it.                      *)
(***************************************************************************)

\* The slot i places after the oldest one; 0 when it was never written.
SlotAt(i) == ring[(ringPos + i) % RingSize]

BurstFrame ==
  UNCHANGED <<mapVars, received, closed, readerVars, ringVars, initSegment,
              handler, shut>>

\* Offer one item: a send on a closed channel panics whatever the select.
Offer(l, item, full, next) ==
  \/ /\ l \in closed
     /\ panicked' = "send"
     /\ UNCHANGED <<outVars, burst>>
  \/ /\ l \notin closed /\ HasRoom(l)
     /\ sent' = [sent EXCEPT ![l] = Append(@, item)]
     /\ burst' = [burst EXCEPT ![l] = next]
     /\ UNCHANGED <<missed, panicked>>
  \/ /\ l \notin closed /\ ~HasRoom(l)
     /\ burst' = [burst EXCEPT ![l] = full]
     /\ missed' = missed \cup {l}
     /\ UNCHANGED <<sent, panicked>>

BurstInit(l) ==
  /\ burst[l] = "init"
  /\ IF initSegment
       THEN Offer(l, <<"init", 0>>, "done", "lock")
       ELSE BurstGoes(l, "init", "lock") /\ UNCHANGED <<outVars, panicked>>
  /\ UNCHANGED <<step, count>>
  /\ BurstFrame

BurstLock(l) ==
  /\ BurstGoes(l, "lock", "send")
  /\ UNCHANGED <<step, count, outVars, panicked>>
  /\ BurstFrame

\* Slot i is the next filled one the loop of l comes to; the ring cannot
\* change while it looks.
NextFilled(l, i) ==
  /\ i \in step[l] .. RingSize - 1
  /\ SlotAt(i) # 0
  /\ \A j \in step[l] .. i - 1 : SlotAt(j) = 0

MoreToSend(l) ==
  count[l] < Burst /\ \E i \in 0 .. RingSize - 1 : NextFilled(l, i)

BurstSend(l) ==
  /\ burst[l] = "send"
  /\ count[l] < Burst
  /\ \E i \in 0 .. RingSize - 1 :
       /\ NextFilled(l, i)
       /\ Offer(l, <<"burst", SlotAt(i)>>, "done", "send")
       /\ step' = [step EXCEPT ![l] = i + 1]
  /\ count' = [count EXCEPT ![l] = @ + 1]
  /\ BurstFrame

\* The ring is exhausted or the target reached: RUnlock.
BurstEnd(l) ==
  /\ ~MoreToSend(l)
  /\ BurstGoes(l, "send", "done")
  /\ UNCHANGED <<step, count, outVars, panicked>>
  /\ BurstFrame

BurstStep(l) ==
  \/ BurstInit(l)
  \/ BurstLock(l)
  \/ BurstSend(l)
  \/ BurstEnd(l)

(***************************************************************************)
(* AddListener and RemoveListener.  The map is keyed by Listener.ID, so an *)
(* insertion replaces whoever has the same ID and a removal looks for the  *)
(* ID, not for the Listener it was given.  Both, and Close, need the map's *)
(* lock for writing.                                                       *)
(***************************************************************************)
SameId(n) == {k \in listeners : id[k] = n}

\* Mutant of Attach: nextID is not incremented.
AttachSameId(l) ==
  /\ NobodySends
  /\ Goes(l, "new", "streaming")
  /\ id' = [id EXCEPT ![l] = IdOf(nextID + 1)]
  /\ listeners' = (listeners \ SameId(IdOf(nextID + 1))) \cup {l}
  /\ joined' = [joined EXCEPT ![l] = chunk]
  /\ burst' = [burst EXCEPT ![l] = "init"]
  /\ UNCHANGED <<nextID, chanVars, readerVars, ringVars, initSegment, step, count,
                 shut, panicked>>

Attach(l) ==
  /\ NobodySends
  /\ Goes(l, "new", "streaming")
  /\ nextID' = nextID + 1
  /\ id' = [id EXCEPT ![l] = IdOf(nextID + 1)]
  /\ listeners' = (listeners \ SameId(IdOf(nextID + 1))) \cup {l}
  /\ joined' = [joined EXCEPT ![l] = chunk]
  /\ burst' = [burst EXCEPT ![l] = "init"]
  /\ UNCHANGED <<chanVars, readerVars, ringVars, initSegment, step, count, shut,
                 panicked>>

\* Mutant of RemoveFromMap: the channel is closed even when the map did not
\* hold the listener.
RemoveAnyway(l) ==
  /\ NobodySends
  /\ Goes(l, "removing", "closing")
  /\ listeners' = listeners \ SameId(id[l])
  /\ UNCHANGED <<nextID, id, joined, chanVars, readerVars, ringVars, initSegment,
                 burstVars, shut, panicked>>

RemoveFromMap(l) ==
  /\ NobodySends
  /\ Goes(l, "removing", IF SameId(id[l]) # {} THEN "closing" ELSE "gone")
  /\ listeners' = listeners \ SameId(id[l])
  /\ UNCHANGED <<nextID, id, joined, chanVars, readerVars, ringVars, initSegment,
                 burstVars, shut, panicked>>

\* close(listener.Chan), after the lock is given back.
CloseChan(l) ==
  /\ Goes(l, "closing", "gone")
  /\ IF l \in closed
       THEN panicked' = "close" /\ UNCHANGED closed
       ELSE closed' = closed \cup {l} /\ UNCHANGED panicked
  /\ UNCHANGED <<mapVars, outVars, received, readerVars, ringVars, initSegment,
                 burstVars, shut>>

ChanFrame ==
  UNCHANGED <<mapVars, outVars, closed, readerVars, ringVars, initSegment, burstVars,
              shut, panicked>>

\* streamAudio takes an item and begins to write it to the client.
Receive(l) ==
  /\ received[l] < Len(sent[l])
  /\ Goes(l, "streaming", "writing")
  /\ received' = [received EXCEPT ![l] = @ + 1]
  /\ ChanFrame

\* w.Write and the flush return.
Written(l) ==
  /\ Goes(l, "writing", "streaming")
  /\ ChanFrame /\ UNCHANGED received

\* Mutant of SeeClosed: streamAudio ignores the second result of the receive.
SeeNothing(l) ==
  /\ l \in closed
  /\ received[l] = Len(sent[l])
  /\ Goes(l, "streaming", "streaming")
  /\ ChanFrame /\ UNCHANGED received

\* The channel is closed and empty: streamAudio returns.
SeeClosed(l) ==
  /\ l \in closed
  /\ received[l] = Len(sent[l])
  /\ Goes(l, "streaming", "removing")
  /\ ChanFrame /\ UNCHANGED received

\* The client disconnects: ctx.Done() between two items, or a write error.
ClientLeaves(l) ==
  /\ \/ Goes(l, "streaming", "removing")
     \/ Goes(l, "writing", "removing")
  /\ ChanFrame /\ UNCHANGED received

(***************************************************************************)
(* Mountpoint.Close as far as listeners go: one critical section.          *)
(***************************************************************************)

\* Mutant of Close: the map keeps the listeners whose channels were closed.
CloseKeepsMap ==
  /\ ~shut
  /\ NobodySends
  /\ shut' = TRUE
  /\ IF listeners \cap closed = {}
       THEN closed' = closed \cup listeners /\ UNCHANGED panicked
       ELSE panicked' = "close" /\ UNCHANGED closed
  /\ UNCHANGED <<mapVars, outVars, received, readerVars, ringVars, initSegment,
                 burstVars, handler>>

Close ==
  /\ ~shut
  /\ NobodySends
  /\ shut' = TRUE
  /\ IF listeners \cap closed = {}
       THEN closed' = closed \cup listeners /\ UNCHANGED panicked
       ELSE panicked' = "close" /\ UNCHANGED closed
  /\ listeners' = {}
  /\ UNCHANGED <<nextID, id, joined, outVars, received, readerVars, ringVars,
                 initSegment, burstVars, handler>>

\* The steps of HandleListener that wait for nobody outside the process.
HandlerStep(l) ==
  \/ Receive(l)
  \/ SeeClosed(l)
  \/ RemoveFromMap(l)
  \/ CloseChan(l)

\* A panic in any goroutine ends the process.
Running == panicked = "no"

Next ==
  /\ Running
  /\ \/ \E r \in Readers : Read(r)
     \/ \E r \in Readers : ReaderStep(r)
     \/ SetInitSegment
     \/ \E l \in Listeners : BurstStep(l)
     \/ \E l \in Listeners : Attach(l)
     \/ \E l \in Listeners : HandlerStep(l)
     \/ \E l \in Listeners : Written(l) \/ ClientLeaves(l)
     \/ Close

Spec == Init /\ [][Next]_vars

(***************************************************************************)
(* Fairness: the goroutines of the process run, and whoever waits for a    *)
(* lock that is given back time and again gets it.  Nothing is assumed of  *)
(* the outside: not that the source delivers (Read), that clients come,    *)
(* leave or take what is written to them (Attach, ClientLeaves, Written),  *)
(* nor that the server is stopped (Close).                                 *)
(***************************************************************************)
Fairness ==
  /\ \A l \in Listeners : WF_vars(Running /\ HandlerStep(l))
  /\ \A l \in Listeners : SF_vars(Running /\ RemoveFromMap(l))
  /\ \A l \in Listeners : WF_vars(Running /\ BurstStep(l))
  /\ \A r \in Readers : WF_vars(Running /\ ReaderStep(r))

FairSpec == Spec /\ Fairness

(***************************************************************************)
(* Properties that hold.                                                   *)
(***************************************************************************)

\* No distributor ever meets a closed channel: RemoveListener and Close
\* take a listener out of the map no later than they close its channel.
OpenWhileListed == listeners \cap closed = {}

\* As long as nextID has not come to a value that is no character, no channel
\* is closed twice, whichever of Close and the listener's own RemoveListener
\* comes first.
IdsUnique == \A n \in Surrogates : nextID < n
NoDoubleClose == IdsUnique => panicked # "close"

\* As long as IDs are unique, a handler that is serving its client is in the
\* map, so that it is offered every new chunk, or has its channel closed, so
\* that it ends: no client hangs on a channel that nobody can reach any more.
StreamingIsServed ==
  IdsUnique =>
    \A l \in Listeners :
      handler[l] \in {"streaming", "writing"} => l \in listeners \cup closed

\* Chunk c of the ring may come before chunk d: it was read before d, or d was
\* still in another reader's hand when it was.
MayPrecede(c, d) ==
  readAs[c] < readAs[d] \/ readAs[d] \in beside[readAs[c]]

\* Each of the two kinds of writer of a channel keeps the order of the stream:
\* neither in the snapshot of the ring that the burst sends nor among the live
\* chunks does one chunk come twice, or before one that was read before it,
\* unless the two were in the hands of two readers at once.
PiecesInOrder ==
  \A l \in Listeners : \A i, j \in DOMAIN sent[l] :
    i < j /\ sent[l][i][1] = sent[l][j][1] =>
      /\ sent[l][i][1] # "init"
      /\ sent[l][i][2] # sent[l][j][2]
      /\ MayPrecede(sent[l][i][2], sent[l][j][2])

\* A listener whose channel was never full gets every chunk that is written
\* after it came, and loses none of those between its burst and then but the
\* ones for which the ring has more room than a burst: none when the ring is
\* not larger than a burst.  A chunk a reader has still to offer is not lost.
Numbers(items, kinds) ==
  {items[i][2] : i \in {j \in DOMAIN items : items[j][1] \in kinds}}
Live(l) == Numbers(sent[l], {"live"})
Old(l) == Numbers(sent[l], {"burst"})
Pending(l) ==
  {num[r] : r \in {q \in Readers :
                     at[q] = "fan" \/ (at[q] = "send" /\ l \in todo[q])}}
Lost(l) ==
  {c \in 1 .. chunk : /\ c \notin Old(l) \cup Live(l) \cup Pending(l)
                      /\ c > joined[l] \/ \E b \in Old(l) : b < c}
Gap == IF RingSize > Burst THEN RingSize - Burst ELSE 0
NoHole ==
  \A l \in listeners \ missed :
    burst[l] = "done" => /\ \A c \in Lost(l) : c <= joined[l]
                         /\ Cardinality(Lost(l)) <= Gap

\* Whoever's channel has been closed is eventually out of HandleListener,
\* unless a write to its client blocks for ever: Close really ends the
\* responses of the listeners it found in the map.
ClosedLeaves ==
  \A l \in Listeners :
    []<>(handler[l] # "writing") =>
      (l \in closed ~> (handler[l] = "gone" \/ ~Running))

(***************************************************************************)
(* A claim of the comments that the code does not keep.                    *)
(***************************************************************************)

\* mountpoint.go:316, "Now safe to close the channel - it's no longer
\* accessible from the map": nobody sends on a closed channel.
NoSendOnClosed == panicked # "send"
===============================================================================
