------------------------ MODULE StreamingServerProofs ------------------------
(***************************************************************************)
(* Theorems about StreamingServer for any number of paths, connections and *)
(* listeners, any limit and any number of crashes.                         *)
(***************************************************************************)
EXTENDS StreamingServer, FiniteSetTheorems, TLAPS

(***************************************************************************)
(* The inductive invariant.                                                *)
(***************************************************************************)
Types ==
  /\ server \in {"up", "closing", "down"}
  /\ registry \in [Paths -> Mountpoints \cup {None}]
  /\ slot \in [Mountpoints -> Connections \cup {None}]
  /\ source \in [Connections -> Request(SourceState)]
  /\ saw \in [Connections -> SUBSET Connections]
  /\ listener \in [Listeners -> Request(ListenerState)]

\* When a request has a path, and when a mountpoint.
Waiting == {"admitted", "absent"}
Sound(r) ==
  /\ r.at \in {"new", "done"} \cup Waiting => r.mount = None
  /\ r.at \notin {"new", "done"} => r.path \in Paths
  /\ r.at \in {"bound", "claimed", "streaming"} => r.mount \in Mountpoints
SourceSound(c) == Sound(source[c])
ListenerSound(l) ==
  IF listener[l].at \in {"new", "done"} THEN listener[l].mount = None
  ELSE listener[l].path \in Paths

\* Before its start the process has nothing.
Blank ==
  server = "down" =>
    /\ \A c \in Connections : source[c].at = "new"
    /\ \A l \in Listeners : listener[l].at = "new"
    /\ \A p \in Paths : registry[p] = None

\* A request about to store a mountpoint replaces none, or has raced.
Right(r) == r.mount # None => r.mount = registry[r.path] \/ r.path \in raced
Absent(c) == source[c].at = "absent"
OnePerPath ==
  /\ \A c \in Connections : Right(source[c])
  /\ \A l \in Listeners : Right(listener[l])
  /\ \A c \in Connections :
       Absent(c) => registry[source[c].path] = None \/ source[c].path \in raced
  /\ \A c, d \in Connections :
       Absent(c) /\ Absent(d) /\ c # d /\ source[c].path = source[d].path =>
         source[c].path \in raced

\* Whoever may be on the air, and what a source has seen of them.  A request has
\* freed its slot before it writes its status; a stream's reader may be late.
Airs(s) == s \in {"claimed", "streaming", "released", "ended"}
Asks(s) == s \in {"admitted", "absent", "bound"}
Holders == {c \in Connections : Airs(source[c].at)}
Holds(c, m) ==
  /\ c \in Holders /\ source[c].mount = m
  /\ source[c].at = "released" => c \in Streams
SlotHeld == \A m \in Mountpoints : slot[m] # None => Holds(slot[m], m)
SawFew(c) ==
  /\ Asks(source[c].at) /\ c \notin Streams => Cardinality(saw[c]) < MaxSourceClients
  /\ \A d \in saw[c] : Airs(source[d].at) \/ source[d].at = "done"

\* However many of the holders leave, those that stay have overlapped, or one
\* of them is a stream that started at the limit.
Overlap(S) ==
  \/ \E c, d \in S : c # d /\ c \notin saw[d] /\ d \notin saw[c]
  \/ \E c \in S \cap Streams : Cardinality(saw[c]) >= MaxSourceClients
LimitHolds == \A S \in SUBSET Holders : Cardinality(S) > MaxSourceClients => Overlap(S)

Inv ==
  /\ Types /\ Blank /\ SlotHeld /\ LimitHolds
  /\ \A c \in Connections : SourceSound(c) /\ SawFew(c)
  /\ \A l \in Listeners : ListenerSound(l)
  /\ Running => OnePerPath

-----------------------------------------------------------------------------
(***************************************************************************)
(* The steps, by what they change of this.                                 *)
(***************************************************************************)
Ends(c) == LimitSource(c) \/ Reject(c) \/ Refuse(c) \/ MarkOffline(c) \/ StreamOver(c)
Stays(c) == MarkOnline(c) \/ Release(c)
Lets(c) == Admit(c) \/ StreamStarts(c)
Drifts(c) == StreamFails(c) \/ StreamOffline(c)
SourceSteps(c) ==
  \/ Lets(c) \/ Ends(c) \/ Load(c) \/ Store(c) \/ Claim(c) \/ Stays(c) \/ Drifts(c)
  \/ SlotFrees(c)
Listens(l) ==
  \/ Find(l) \/ TurnAway(l) \/ Attach(l) \/ ReadCount(l) \/ WriteCount(l) \/ SeeClosed(l)
  \/ ClientLeaves(l) \/ RemoveListener(l)
Tasked == UNCHANGED <<server, registry, slot, source, saw, listener, raced>>
Others == Tasked \/ Start \/ Stop \/ (\E p \in Paths : CloseMountpoint(p))

LEMMA Kinds ==
  ASSUME Next
  PROVE  \/ \E c \in Connections : SourceSteps(c)
         \/ \E l \in Listeners : Listens(l)
         \/ Others
         \/ Die
<1>1. ASSUME NEW p \in Paths, CleanupCheck(p) \/ StatsRead(p) PROVE Tasked
  BY <1>1 DEF CleanupCheck, StatsRead, Tasked, TaskRest, mapVars
<1>2. CASE TaskWrites
  BY <1>2 DEF TaskWrites, Tasked, TaskRest, mapVars, Others
<1>3. Exit \/ Crash => Die
  BY DEF Exit, Crash
<1>4. ASSUME NEW c \in Connections, Admit(c) \/ LimitSource(c) \/ SourceMoves(c) \/ SlotFrees(c)
      PROVE  SourceSteps(c)
  BY <1>4 DEF SourceSteps, SourceMoves, Ends, Stays, Lets, Drifts
<1>5. ASSUME NEW l \in Listeners, Find(l) \/ TurnAway(l) \/ ListenerMoves(l) \/ ClientLeaves(l)
      PROVE  Listens(l)
  BY <1>5 DEF Listens, ListenerMoves
<1> QED
  BY <1>1, <1>2, <1>3, <1>4, <1>5 DEF Next, MainMoves, Mountpoints, Others

(***************************************************************************)
(* What each of them does to the requests.                                 *)
(***************************************************************************)
Moved(c) ==
  /\ source' \in [Connections -> Request(SourceState)]
  /\ \A d \in Connections \ {c} : source'[d] = source[d]
  /\ UNCHANGED <<server, listener>>

LEMMA LetMoves ==
  ASSUME Types, NEW c \in Connections, Lets(c)
  PROVE  /\ Moved(c) /\ source[c].at = "new"
         /\ source'[c].at = "admitted" /\ source'[c].path \in Paths /\ source'[c].mount = None
         /\ c \notin Streams => Cardinality(Counted) < MaxSourceClients
         /\ saw' = [saw EXCEPT ![c] = Counted]
         /\ UNCHANGED <<registry, slot, raced>>
<1>1. PICK p \in Knows[c] :
        source' = [source EXCEPT ![c] = [at |-> "admitted", path |-> p, mount |-> None]]
  BY DEF Lets, Admit, StreamStarts
<1>2. p \in Paths
  BY ServerAssumption
<1>3. [at |-> "admitted", path |-> p, mount |-> None] \in Request(SourceState)
  BY <1>2 DEF Request, SourceState
<1> QED
  BY <1>1, <1>2, <1>3 DEF Lets, Admit, StreamStarts, Types, Moved, SourceRest, mapVars

LEMMA EndMoves ==
  ASSUME Types, NEW c \in Connections, Ends(c)
  PROVE  /\ Moved(c) /\ source[c].at \in {"new", "admitted", "bound", "released", "ended"}
         /\ source[c].at = "released" => c \notin Streams
         /\ source[c].at = "ended" => \A m \in Mountpoints : slot[m] # c
         /\ source'[c] = OldRequest
         /\ saw' = [saw EXCEPT ![c] = {}]
         /\ UNCHANGED <<registry, slot, raced>>
<1>1. OldRequest \in Request(SourceState)
  BY DEF OldRequest, Request, SourceState
<1>2. /\ source[c].at \in {"new", "admitted", "bound", "released", "ended"}
      /\ source[c].at = "released" => c \notin Streams
      /\ source[c].at = "ended" => \A m \in Mountpoints : slot[m] # c
      /\ source' = [source EXCEPT ![c] = OldRequest]
      /\ saw' = [saw EXCEPT ![c] = {}]
      /\ UNCHANGED <<server, listener, registry, slot, raced>>
  BY DEF Ends, LimitSource, Reject, Refuse, MarkOffline, StreamOver, SourceEnds, SourceRest, mapVars
<1> QED
  BY <1>1, <1>2 DEF Types, Moved

LEMMA LoadMoves ==
  ASSUME Types, NEW c \in Connections, Load(c), SourceSound(c)
  PROVE  /\ Moved(c) /\ source[c].at = "admitted"
         /\ source'[c].path = source[c].path /\ source[c].path \in Paths
         /\ source'[c].mount = registry[source[c].path]
         /\ source'[c].at = IF registry[source[c].path] = None THEN "absent" ELSE "bound"
         /\ raced' = IF /\ registry[source[c].path] = None
                       /\ \E d \in Connections :
                            source[d].at = "absent" /\ source[d].path = source[c].path
                    THEN raced \cup {source[c].path} ELSE raced
         /\ UNCHANGED <<registry, slot, saw>>
<1> DEFINE p == source[c].path
           r == [at |-> IF registry[p] = None THEN "absent" ELSE "bound", path |-> p,
                 mount |-> registry[p]]
<1>1. source[c].at = "admitted" /\ p \in Paths
  BY DEF Load, SourceSound, Sound
<1>2. source[c] \in Request(SourceState) /\ source' = [source EXCEPT ![c] = source'[c]]
  BY DEF Load, Types
<1>3. source'[c] = [source[c] EXCEPT !.at = r.at, !.mount = r.mount]
  BY DEF Load, Types
<1>4. source'[c] = r
  BY <1>2, <1>3 DEF Request
<1>5. r \in Request(SourceState)
  BY <1>1 DEF Types, Request, SourceState
<1>6. /\ raced' = IF /\ registry[p] = None
                     /\ \E d \in Connections : source[d].at = "absent" /\ source[d].path = p
                  THEN raced \cup {p} ELSE raced
      /\ UNCHANGED <<server, registry, slot, saw, listener>>
  BY DEF Load, SourceRest, mapVars
<1>7. Moved(c)
  BY <1>2, <1>4, <1>5, <1>6 DEF Types, Moved
<1> QED
  BY <1>1, <1>4, <1>6, <1>7

LEMMA StoreMoves ==
  ASSUME Types, NEW c \in Connections, Store(c), SourceSound(c)
  PROVE  /\ Moved(c) /\ source[c].at = "absent"
         /\ source'[c].at = "bound" /\ source'[c].path = source[c].path /\ source'[c].mount = c
         /\ source[c].path \in Paths
         /\ registry' = [registry EXCEPT ![source[c].path] = c]
         /\ UNCHANGED <<slot, saw, raced>>
<1> DEFINE r == [at |-> "bound", path |-> source[c].path, mount |-> c]
<1>1. source[c].at = "absent" /\ source[c].path \in Paths
  BY DEF Store, SourceSound, Sound
<1>2. source[c] \in Request(SourceState) /\ source' = [source EXCEPT ![c] = source'[c]]
  BY DEF Store, Types
<1>3. source'[c] = [source[c] EXCEPT !.at = "bound", !.mount = c]
  BY DEF Store, Types
<1>4. source'[c] = r
  BY <1>2, <1>3 DEF Request
<1>5. r \in Request(SourceState)
  BY <1>1 DEF Request, SourceState, Mountpoints
<1> QED
  BY <1>1, <1>2, <1>4, <1>5 DEF Store, Types, Moved, SourceRest, mapVars

LEMMA ClaimMoves ==
  ASSUME Types, NEW c \in Connections, Claim(c), SourceSound(c)
  PROVE  /\ Moved(c) /\ source[c].at = "bound"
         /\ source'[c].at = "claimed" /\ source'[c].path = source[c].path
         /\ source'[c].mount = source[c].mount
         /\ source[c].mount \in Mountpoints /\ slot' = [slot EXCEPT ![source[c].mount] = c]
         /\ UNCHANGED <<registry, saw, raced>>
<1>1. source[c].at = "bound" /\ source[c].mount \in Mountpoints
  BY DEF Claim, SourceIs, SourceSound, Sound
<1>2. /\ [source[c] EXCEPT !.at = "claimed"] \in Request(SourceState)
      /\ [source[c] EXCEPT !.at = "claimed"].at = "claimed"
      /\ [source[c] EXCEPT !.at = "claimed"].path = source[c].path
      /\ [source[c] EXCEPT !.at = "claimed"].mount = source[c].mount
  BY DEF Types, Request, SourceState
<1>3. source' = [source EXCEPT ![c] = [source[c] EXCEPT !.at = "claimed"]]
  BY DEF Claim, SourceIs, Types
<1> QED
  BY <1>1, <1>2, <1>3 DEF Claim, Types, Moved, SourceRest

LEMMA StayMoves ==
  ASSUME Types, NEW c \in Connections, Stays(c), SourceSound(c)
  PROVE  /\ Moved(c) /\ source[c].mount \in Mountpoints
         /\ source'[c].path = source[c].path /\ source'[c].mount = source[c].mount
         /\ \/ /\ source[c].at = "claimed" /\ source'[c].at = "streaming"
               /\ UNCHANGED slot
            \/ /\ source[c].at = "streaming" /\ source'[c].at = "released" /\ c \notin Streams
               /\ slot' = [slot EXCEPT ![source[c].mount] = None]
         /\ UNCHANGED <<registry, saw, raced>>
<1>1. \A s \in SourceState : /\ [source[c] EXCEPT !.at = s] \in Request(SourceState)
                            /\ [source[c] EXCEPT !.at = s].at = s
                            /\ [source[c] EXCEPT !.at = s].path = source[c].path
                            /\ [source[c] EXCEPT !.at = s].mount = source[c].mount
  BY DEF Types, Request
<1>2. CASE MarkOnline(c)
  <2>1. source[c].at = "claimed" /\ source[c].mount \in Mountpoints
    BY <1>2 DEF MarkOnline, SourceIs, SourceSound, Sound
  <2>2. source' = [source EXCEPT ![c] = [source[c] EXCEPT !.at = "streaming"]]
    BY <1>2 DEF MarkOnline, SourceIs, Types
  <2>3. "streaming" \in SourceState
    BY DEF SourceState
  <2> QED
    BY <1>1, <1>2, <2>1, <2>2, <2>3 DEF MarkOnline, Types, Moved, SourceRest, mapVars
<1>3. CASE Release(c)
  <2>1. source[c].at = "streaming" /\ source[c].mount \in Mountpoints
    BY <1>3 DEF Release, SourceIs, SourceSound, Sound
  <2>2. source' = [source EXCEPT ![c] = [source[c] EXCEPT !.at = "released"]]
    BY <1>3 DEF Release, SourceIs, Types
  <2>3. "released" \in SourceState
    BY DEF SourceState
  <2> QED
    BY <1>1, <1>3, <2>1, <2>2, <2>3 DEF Release, Types, Moved, SourceRest
<1> QED
  BY <1>2, <1>3 DEF Stays

LEMMA DriftMoves ==
  ASSUME Types, NEW c \in Connections, Drifts(c), SourceSound(c)
  PROVE  /\ Moved(c) /\ c \in Streams
         /\ source'[c].path = source[c].path /\ source'[c].mount = source[c].mount
         /\ source[c].path \in Paths
         /\ \/ source[c].at \in {"admitted", "bound", "streaming"} /\ source'[c].at = "released"
            \/ source[c].at = "released" /\ source'[c].at = "ended"
         /\ UNCHANGED <<registry, slot, saw, raced>>
<1>1. \A s \in SourceState : /\ [source[c] EXCEPT !.at = s] \in Request(SourceState)
                            /\ [source[c] EXCEPT !.at = s].at = s
                            /\ [source[c] EXCEPT !.at = s].path = source[c].path
                            /\ [source[c] EXCEPT !.at = s].mount = source[c].mount
  BY DEF Types, Request
<1>2. /\ \/ /\ source[c].at \in {"admitted", "bound", "streaming"}
            /\ source' = [source EXCEPT ![c].at = "released"]
         \/ /\ source[c].at = "released"
            /\ source' = [source EXCEPT ![c].at = "ended"]
      /\ c \in Streams
      /\ UNCHANGED <<server, listener, registry, slot, saw, raced>>
  BY DEF Drifts, StreamFails, StreamOffline, SourceIs, SourceRest, mapVars
<1>3. \/ /\ source[c].at \in {"admitted", "bound", "streaming"}
         /\ source' = [source EXCEPT ![c] = [source[c] EXCEPT !.at = "released"]]
      \/ /\ source[c].at = "released"
         /\ source' = [source EXCEPT ![c] = [source[c] EXCEPT !.at = "ended"]]
  BY <1>2 DEF Types
<1>4. "released" \in SourceState /\ "ended" \in SourceState
  BY DEF SourceState
<1>5. source[c].path \in Paths
  BY <1>2 DEF SourceSound, Sound
<1>6. ASSUME NEW s \in SourceState,
             source' = [source EXCEPT ![c] = [source[c] EXCEPT !.at = s]]
      PROVE  /\ Moved(c) /\ source'[c].at = s
             /\ source'[c].path = source[c].path /\ source'[c].mount = source[c].mount
  BY <1>1, <1>2, <1>6 DEF Types, Moved
<1>7. CASE source[c].at = "released"
  <2>1. source' = [source EXCEPT ![c] = [source[c] EXCEPT !.at = "ended"]]
    BY <1>3, <1>7
  <2> QED
    BY <1>2, <1>4, <1>5, <1>6, <1>7, <2>1
<1>8. CASE source[c].at # "released"
  <2>1. /\ source' = [source EXCEPT ![c] = [source[c] EXCEPT !.at = "released"]]
        /\ source[c].at \in {"admitted", "bound", "streaming"}
    BY <1>3, <1>8
  <2> QED
    BY <1>2, <1>4, <1>5, <1>6, <2>1
<1> QED
  BY <1>7, <1>8

LEMMA SlotFreeMoves ==
  ASSUME Types, NEW c \in Connections, SlotFrees(c)
  PROVE  /\ slot' = [slot EXCEPT ![c] = None]
         /\ UNCHANGED <<server, registry, source, saw, listener, raced>>
BY DEF SlotFrees, SourceRest

\* A listener request finds the mountpoint the map has, keeps it, or is over.
LEMMA ListenerMoved ==
  ASSUME Types, NEW l \in Listeners, Listens(l), ListenerSound(l)
  PROVE  /\ UNCHANGED <<server, registry, slot, source, saw, raced>>
         /\ server # "down" \/ listener[l].at # "new"
         /\ listener' \in [Listeners -> Request(ListenerState)]
         /\ \A k \in Listeners \ {l} : listener'[k] = listener[k]
         /\ ListenerSound(l)'
         /\ \/ listener'[l].mount = None
            \/ listener'[l].mount = registry[listener'[l].path]
            \/ /\ listener'[l].mount = listener[l].mount
               /\ listener'[l].path = listener[l].path
<1>1. UNCHANGED <<server, registry, slot, source, saw, raced>>
  BY DEF Listens, Find, TurnAway, Attach, ReadCount, WriteCount, SeeClosed, ClientLeaves, Leaves,
         RemoveListener, ListenerRest
<1>2. CASE Find(l)
  <2>1. PICK p \in Knows[l] :
          /\ registry[p] # None
          /\ listener' = [listener EXCEPT
                            ![l] = [at |-> "found", path |-> p, mount |-> registry[p]]]
    BY <1>2 DEF Find
  <2>2. p \in Paths
    BY ServerAssumption
  <2>3. [at |-> "found", path |-> p, mount |-> registry[p]] \in Request(ListenerState)
    BY <2>2 DEF Types, Request, ListenerState
  <2> QED
    BY <1>1, <1>2, <2>1, <2>2, <2>3 DEF Find, Types, ListenerSound
<1>3. CASE TurnAway(l) \/ RemoveListener(l)
  <2>1. listener' = [listener EXCEPT ![l] = OldRequest]
    BY <1>3 DEF TurnAway, RemoveListener
  <2>2. OldRequest \in Request(ListenerState)
    BY DEF OldRequest, Request, ListenerState
  <2>3. server # "down" \/ listener[l].at # "new"
    BY <1>3 DEF TurnAway, RemoveListener
  <2> QED
    BY <1>1, <2>1, <2>2, <2>3 DEF Types, ListenerSound, OldRequest
<1>4. CASE \/ Attach(l) \/ ReadCount(l) \/ WriteCount(l) \/ SeeClosed(l) \/ ClientLeaves(l)
  <2>1. /\ listener[l].at \notin {"new", "done"}
        /\ \E s \in ListenerState \ {"new", "done"} : listener' = [listener EXCEPT ![l].at = s]
    BY <1>4 DEF Attach, ReadCount, WriteCount, SeeClosed, ClientLeaves, Leaves, ListenerIs,
                ListenerState
  <2>2. PICK s \in ListenerState \ {"new", "done"} : listener' = [listener EXCEPT ![l].at = s]
    BY <2>1
  <2>3. listener' = [listener EXCEPT ![l] = [listener[l] EXCEPT !.at = s]]
    BY <2>2 DEF Types
  <2>4. [listener[l] EXCEPT !.at = s] \in Request(ListenerState)
    BY <2>2 DEF Types, Request
  <2>5. listener[l].path \in Paths
    BY <2>1 DEF ListenerSound
  <2> QED
    BY <1>1, <2>1, <2>2, <2>3, <2>4, <2>5 DEF Types, ListenerSound, Request
<1> QED
  BY <1>2, <1>3, <1>4 DEF Listens

LEMMA OtherMoves ==
  ASSUME Types, Others
  PROVE  /\ UNCHANGED <<source, saw, listener, raced>>
         /\ registry' \in [Paths -> Mountpoints \cup {None}]
         /\ slot' \in [Mountpoints -> Connections \cup {None}]
         /\ server' \in {"up", "closing", "down"}
         /\ server' = "down" => server = "down"
         /\ \A m \in Mountpoints : slot'[m] \in {None, slot[m]}
         /\ UNCHANGED registry
<1>2. ASSUME NEW p \in Paths, CloseMountpoint(p)
      PROVE  /\ UNCHANGED <<source, saw, listener, raced, server, registry>>
             /\ slot' \in [Mountpoints -> Connections \cup {None}]
             /\ \A m \in Mountpoints : slot'[m] \in {None, slot[m]}
  BY <1>2 DEF Types, CloseMountpoint
<1>3. CASE Tasked \/ Start \/ Stop
  BY <1>3 DEF Types, Tasked, Start, Stop, ServerGoes, MainRest, mapVars
<1> QED
  BY <1>2, <1>3 DEF Others, Types

\* Sets of connections are finite.
LEMMA Finite ==
  ASSUME NEW S \in SUBSET Connections
  PROVE  IsFiniteSet(S) /\ Cardinality(S) \in Nat
BY FS_Subset, FS_CardinalityType, ServerAssumption

LEMMA NoneHold ==
  ASSUME NEW S \in SUBSET {} PROVE ~(Cardinality(S) > MaxSourceClients)
<1>1. S = {}
  OBVIOUS
<1>2. Cardinality(S) = 0
  BY <1>1, FS_EmptySet
<1> QED
  BY <1>2, ServerAssumption

LEMMA StartsRight == Init => Inv
<1> SUFFICES ASSUME Init PROVE Inv
  OBVIOUS
<1> USE DEF Init, NoMap, NoSlot, NoMembers, NoRequests, NewRequest, Mountpoints
<1>1. Types
  BY DEF Types, Request, SourceState, ListenerState
<1>2. Holders = {}
  BY DEF Holders, Airs
<1>3. LimitHolds
  BY <1>2, NoneHold DEF LimitHolds
<1> QED
  BY <1>1, <1>2, <1>3
  DEF Inv, Sound, Blank, SlotHeld, SourceSound, SawFew, Asks, ListenerSound, Running, Waiting

\* Death leaves what there was before the start.
LEMMA DeathIsStart ==
  ASSUME Die PROVE Inv'
<1> USE DEF Die, NoMap, NoSlot, NoMembers, NoRequests, NewRequest, Mountpoints
<1>1. Types'
  BY DEF Types, Request, SourceState, ListenerState
<1>2. Holders' = {}
  BY DEF Holders, Airs
<1>3. LimitHolds'
  BY <1>2, NoneHold DEF LimitHolds
<1> QED
  BY <1>1, <1>2, <1>3
  DEF Inv, Sound, Blank, SlotHeld, SourceSound, SawFew, Asks, ListenerSound, Running, Waiting

LEMMA NextTypes ==
  ASSUME Inv, Next
  PROVE  Types' /\ (\A c \in Connections : SourceSound(c)')
               /\ (\A l \in Listeners : ListenerSound(l)')
<1>0. /\ Types
      /\ \A c \in Connections : SourceSound(c)
      /\ \A l \in Listeners : ListenerSound(l)
  BY DEF Inv
<1> DEFINE Goal == Types' /\ (\A c \in Connections : SourceSound(c)')
                         /\ (\A l \in Listeners : ListenerSound(l)')
\* A source request moves: it has to be sound, and the map, the slots and saw well typed.
<1>1. ASSUME NEW c \in Connections, Moved(c), Sound(source'[c]),
             registry' \in [Paths -> Mountpoints \cup {None}],
             slot' \in [Mountpoints -> Connections \cup {None}],
             saw' \in [Connections -> SUBSET Connections]
      PROVE  Goal
  BY <1>0, <1>1 DEF Moved, Types, SourceSound, ListenerSound
<1>2. ASSUME NEW c \in Connections, SourceSteps(c) PROVE Goal
  <2>1. CASE Lets(c)
    <3>1. Counted \in SUBSET Connections
      BY <1>0 DEF Types, Counted, Online
    <3>2. Sound(source'[c])
      BY <1>0, <2>1, LetMoves DEF Sound, Waiting
    <3>3. saw' \in [Connections -> SUBSET Connections] /\ UNCHANGED <<registry, slot>> /\ Moved(c)
      BY <1>0, <2>1, <3>1, LetMoves DEF Types
    <3> QED
      BY <1>0, <1>1, <3>2, <3>3 DEF Types
  <2>2. CASE Ends(c)
    <3>1. Sound(source'[c])
      BY <1>0, <2>2, EndMoves DEF Sound, OldRequest, Waiting
    <3>2. saw' \in [Connections -> SUBSET Connections] /\ UNCHANGED <<registry, slot>> /\ Moved(c)
      BY <1>0, <2>2, EndMoves DEF Types
    <3> QED
      BY <1>0, <1>1, <3>1, <3>2 DEF Types
  <2>3. CASE Load(c)
    <3>1. Sound(source'[c])
      BY <1>0, <2>3, LoadMoves DEF Sound, Types, Waiting
    <3> QED
      BY <1>0, <1>1, <2>3, <3>1, LoadMoves DEF Types
  <2>4. CASE Store(c)
    <3>0. /\ source'[c].at = "bound" /\ source'[c].path \in Paths /\ source'[c].mount = c
          /\ registry' = [registry EXCEPT ![source[c].path] = c]
          /\ UNCHANGED <<slot, saw>> /\ Moved(c)
      BY <1>0, <2>4, StoreMoves
    <3>1. Sound(source'[c])
      BY <3>0 DEF Sound, Waiting, Mountpoints
    <3>2. /\ registry' \in [Paths -> Mountpoints \cup {None}]
          /\ UNCHANGED <<slot, saw>> /\ Moved(c)
      BY <1>0, <3>0 DEF Types, Mountpoints
    <3> QED
      BY <1>0, <1>1, <3>1, <3>2 DEF Types
  <2>5. CASE Claim(c)
    <3>1. Sound(source'[c])
      BY <1>0, <2>5, ClaimMoves DEF Sound, SourceSound, Types, Request, Waiting
    <3>2. /\ slot' \in [Mountpoints -> Connections \cup {None}]
          /\ UNCHANGED <<registry, saw>> /\ Moved(c)
      BY <1>0, <2>5, ClaimMoves DEF Types
    <3> QED
      BY <1>0, <1>1, <3>1, <3>2 DEF Types
  <2>6. CASE Stays(c)
    <3>1. Sound(source'[c])
      BY <1>0, <2>6, StayMoves DEF Sound, SourceSound, Types, Request, Waiting
    <3>2. /\ slot' \in [Mountpoints -> Connections \cup {None}]
          /\ UNCHANGED <<registry, saw>> /\ Moved(c)
      BY <1>0, <2>6, StayMoves DEF Types
    <3> QED
      BY <1>0, <1>1, <3>1, <3>2 DEF Types
  <2>7. CASE SlotFrees(c)
    BY <1>0, <2>7, SlotFreeMoves DEF Types, SourceSound, ListenerSound
  <2>8. CASE Drifts(c)
    <3>1. Sound(source'[c])
      BY <1>0, <2>8, DriftMoves DEF Sound, Waiting
    <3> QED
      BY <1>0, <1>1, <2>8, <3>1, DriftMoves DEF Types
  <2> QED
    BY <1>2, <2>1, <2>2, <2>3, <2>4, <2>5, <2>6, <2>7, <2>8 DEF SourceSteps
<1>3. ASSUME NEW l \in Listeners, Listens(l) PROVE Goal
  <2>1. \A k \in Listeners : ListenerSound(k)'
    BY <1>0, <1>3, ListenerMoved DEF ListenerSound
  <2> QED
    BY <1>0, <1>3, <2>1, ListenerMoved DEF Types, SourceSound
<1>4. CASE Others
  BY <1>0, <1>4, OtherMoves DEF Types, SourceSound, ListenerSound
<1> QED
  BY <1>2, <1>3, <1>4, DeathIsStart, Kinds DEF Inv

-----------------------------------------------------------------------------
(***************************************************************************)
(* One mountpoint for a path.                                              *)
(***************************************************************************)
LEMMA NextBlank ==
  ASSUME Inv, Next PROVE Blank'
<1>0. /\ Types /\ Blank
      /\ \A c \in Connections : SourceSound(c)
      /\ \A l \in Listeners : ListenerSound(l)
  BY DEF Inv
<1>1. ASSUME NEW c \in Connections, SourceSteps(c) PROVE Blank'
  <2>1. CASE Lets(c) \/ LimitSource(c)
    BY <2>1 DEF Lets, Admit, StreamStarts, Running, LimitSource, SourceRest, Blank
  <2>2. ASSUME server = "down"
        PROVE  ~(\/ Reject(c) \/ Refuse(c) \/ MarkOffline(c) \/ Load(c) \/ Store(c) \/ Claim(c)
                 \/ Stays(c) \/ StreamOver(c) \/ Drifts(c))
    <3>1. source[c].at = "new"
      BY <1>0, <2>2 DEF Blank
    <3> QED
      BY <3>1 DEF Reject, Refuse, MarkOffline, SourceEnds, Load, Store, Claim, Stays, MarkOnline,
                  Release, SourceIs, StreamOver, Drifts, StreamFails, StreamOffline
  <2>3. CASE SlotFrees(c)
    BY <1>0, <2>3, SlotFreeMoves DEF Blank
  <2>4. CASE \/ Reject(c) \/ Refuse(c) \/ MarkOffline(c) \/ Load(c) \/ Store(c) \/ Claim(c)
             \/ Stays(c) \/ StreamOver(c) \/ Drifts(c)
    BY <2>2, <2>4 DEF Reject, Refuse, MarkOffline, Load, Store, Claim, Stays, MarkOnline,
                  Release, SourceRest, Blank, StreamOver, Drifts, StreamFails, StreamOffline
  <2> QED
    BY <1>1, <2>1, <2>3, <2>4 DEF SourceSteps, Ends
<1>2. ASSUME NEW l \in Listeners, Listens(l) PROVE Blank'
  BY <1>0, <1>2, ListenerMoved DEF Blank
<1>3. CASE Others
  BY <1>0, <1>3, OtherMoves DEF Blank, Running
<1> QED
  BY <1>1, <1>2, <1>3, DeathIsStart, Kinds DEF Inv

LEMMA NextOnePerPath ==
  ASSUME Inv, Next PROVE Running' => OnePerPath'
<1>0. /\ Types /\ Blank /\ (Running => OnePerPath)
      /\ \A c \in Connections : SourceSound(c)
      /\ \A l \in Listeners : ListenerSound(l)
  BY DEF Inv
<1> SUFFICES ASSUME Running' PROVE OnePerPath'
  OBVIOUS
<1>1. ASSUME NEW c \in Connections, SourceSteps(c) PROVE OnePerPath'
  <2>0. OnePerPath
    <3>1. UNCHANGED server
      BY <1>1 DEF SourceSteps, Lets, Admit, StreamStarts, Ends, LimitSource, Reject, Refuse,
                  MarkOffline, StreamOver, Load, Store, Claim, Stays, MarkOnline, Release, Drifts,
                  StreamFails, StreamOffline, SlotFrees, SourceRest
    <3> QED
      BY <1>0, <3>1 DEF Running
  \* The others are right as long as the map and raced only grow.
  <2>1. ASSUME Moved(c), Right(source[c])', raced \subseteq raced',
               \A p \in Paths : registry'[p] = registry[p] \/ registry[p] = None \/ p \in raced'
        PROVE  /\ \A d \in Connections : Right(source[d])'
               /\ \A l \in Listeners : Right(listener[l])'
    <3>1. \A r \in Request(SourceState \cup ListenerState) :
             /\ r.mount # None => r.path \in Paths
             /\ Right(r)
             => Right(r)'
      BY <1>0, <2>1 DEF Right, Types
    <3> QED
      BY <1>0, <2>0, <2>1, <3>1
      DEF Moved, OnePerPath, Right, Types, SourceSound, Sound, ListenerSound, Request, Waiting,
          SourceState
  <2>2. CASE Lets(c)
    BY <1>0, <2>0, <2>2, LetMoves DEF OnePerPath, Right, Absent, Moved
  <2>3. CASE Ends(c)
    BY <1>0, <2>0, <2>3, EndMoves DEF OnePerPath, Right, Absent, Moved, OldRequest
  <2>4. CASE Load(c)
    BY <1>0, <2>0, <2>4, LoadMoves DEF OnePerPath, Right, Absent, Moved
  <2>5. CASE Store(c)
    <3> DEFINE p == source[c].path
    <3>0. /\ Moved(c) /\ source[c].at = "absent" /\ p \in Paths /\ UNCHANGED raced
          /\ source'[c].at = "bound" /\ source'[c].path = p /\ source'[c].mount = c
          /\ registry' = [registry EXCEPT ![p] = c]
      BY <1>0, <2>5, StoreMoves
    <3>1. registry[p] = None \/ p \in raced
      BY <2>0, <3>0 DEF OnePerPath, Absent
    <3>2. registry'[p] = c /\ \A q \in Paths \ {p} : registry'[q] = registry[q]
      BY <1>0, <3>0 DEF Types
    <3>3. Right(source[c])'
      BY <3>0, <3>2 DEF Right
    <3>4. \A d \in Connections :
             Absent(d)' => registry'[source'[d].path] = None \/ source'[d].path \in raced'
      <4> SUFFICES ASSUME NEW d \in Connections, Absent(d)'
                   PROVE  registry'[source'[d].path] = None \/ source'[d].path \in raced'
        OBVIOUS
      <4>1. d # c /\ source'[d] = source[d] /\ Absent(d)
        BY <3>0 DEF Moved, Absent
      <4>2. source[d].path \in Paths
        BY <1>0, <4>1 DEF SourceSound, Sound, Absent
      <4>3. source[d].path = p => p \in raced
        BY <2>0, <3>0, <4>1 DEF OnePerPath, Absent
      <4> QED
        BY <2>0, <3>0, <3>2, <4>1, <4>2, <4>3 DEF OnePerPath
    <3>5. \A d, e \in Connections :
             Absent(d)' /\ Absent(e)' /\ d # e /\ source'[d].path = source'[e].path =>
               source'[d].path \in raced'
      BY <2>0, <3>0 DEF OnePerPath, Absent, Moved
    <3> QED
      BY <2>1, <3>0, <3>1, <3>2, <3>3, <3>4, <3>5 DEF OnePerPath
  <2>6. ASSUME Moved(c), UNCHANGED <<registry, raced>>, ~Absent(c)',
               source'[c].path = source[c].path, source'[c].mount = source[c].mount
        PROVE  OnePerPath'
    <3>1. Right(source[c])'
      BY <2>0, <2>6 DEF OnePerPath, Right
    <3> QED
      BY <2>0, <2>6, <3>1 DEF OnePerPath, Right, Absent, Moved
  <2>7. CASE Claim(c)
    BY <1>0, <2>7, <2>6, ClaimMoves DEF Absent
  <2>8. CASE Stays(c)
    BY <1>0, <2>8, <2>6, StayMoves DEF Absent
  <2>9. CASE SlotFrees(c)
    BY <1>0, <2>0, <2>9, SlotFreeMoves DEF OnePerPath, Right, Absent
  <2>10. CASE Drifts(c)
    BY <1>0, <2>10, <2>6, DriftMoves DEF Absent
  <2> QED
    BY <1>1, <2>2, <2>3, <2>4, <2>5, <2>7, <2>8, <2>9, <2>10 DEF SourceSteps
<1>2. ASSUME NEW l \in Listeners, Listens(l) PROVE OnePerPath'
  <2>0. /\ UNCHANGED <<server, registry, source, raced>>
        /\ \A k \in Listeners \ {l} : listener'[k] = listener[k]
        /\ \/ listener'[l].mount = None
           \/ listener'[l].mount = registry[listener'[l].path]
           \/ listener'[l].mount = listener[l].mount /\ listener'[l].path = listener[l].path
    BY <1>0, <1>2, ListenerMoved
  <2>1. OnePerPath
    BY <1>0, <2>0 DEF Running
  <2>2. Right(listener[l])'
    BY <2>0, <2>1 DEF OnePerPath, Right
  <2> QED
    BY <2>0, <2>1, <2>2 DEF OnePerPath, Right, Absent
<1>3. CASE Others
  <2>0. UNCHANGED <<source, listener, raced, registry>>
    BY <1>0, <1>3, OtherMoves DEF Running
  <2>1. CASE server = "down"
    <3>1. \A c \in Connections : source'[c].mount = None /\ ~Absent(c)'
      BY <1>0, <2>0, <2>1 DEF Blank, SourceSound, Sound, Absent
    <3>2. \A l \in Listeners : listener'[l].mount = None
      BY <1>0, <2>0, <2>1 DEF Blank, ListenerSound
    <3> QED
      BY <3>1, <3>2 DEF OnePerPath, Right
  <2>2. CASE Running
    BY <1>0, <2>0, <2>2 DEF OnePerPath, Right, Absent
  <2> QED
    BY <2>1, <2>2 DEF Running
<1>4. CASE Die
  BY <1>4 DEF Die, Running
<1> QED
  BY <1>1, <1>2, <1>3, <1>4, Kinds

-----------------------------------------------------------------------------
(***************************************************************************)
(* The limit on sources.                                                   *)
(***************************************************************************)
LEMMA CountedHold ==
  ASSUME Types, SlotHeld PROVE Counted \subseteq Holders
BY DEF Types, SlotHeld, Holds, Counted, Online

LEMMA NextSlot ==
  ASSUME Inv, Next PROVE SlotHeld'
<1>0. Types /\ SlotHeld /\ \A c \in Connections : SourceSound(c)
  BY DEF Inv
<1>1. ASSUME NEW c \in Connections, SourceSteps(c) PROVE SlotHeld'
  <2>1. ASSUME Moved(c), UNCHANGED slot, ~ \E m \in Mountpoints : slot[m] = c
        PROVE  SlotHeld'
    BY <1>0, <2>1 DEF Moved, SlotHeld, Holds, Holders, Types
  \* Who is not on the air has no slot.
  <2>10. ASSUME Moved(c), UNCHANGED slot,
                ~Airs(source[c].at) \/ (source[c].at = "released" /\ c \notin Streams)
         PROVE  SlotHeld'
    <3>1. c # None
      BY ServerAssumption
    <3>2. ~ \E m \in Mountpoints : slot[m] = c
      BY <1>0, <2>10, <3>1 DEF SlotHeld, Holds, Holders
    <3> QED
      BY <2>1, <2>10, <3>2
  <2>2. CASE Lets(c)
    <3>1. Moved(c) /\ UNCHANGED slot /\ ~Airs(source[c].at)
      BY <1>0, <2>2, LetMoves DEF Airs
    <3> QED
      BY <2>10, <3>1
  <2>3. CASE Ends(c)
    <3>1. /\ Moved(c) /\ UNCHANGED slot
          /\ source[c].at \in {"new", "admitted", "bound", "released", "ended"}
          /\ source[c].at = "released" => c \notin Streams
          /\ source[c].at = "ended" => \A m \in Mountpoints : slot[m] # c
      BY <1>0, <2>3, EndMoves
    <3>2. CASE source[c].at = "ended"
      BY <2>1, <3>1, <3>2
    <3>3. CASE source[c].at # "ended"
      BY <2>10, <3>1, <3>3 DEF Airs
    <3> QED
      BY <3>2, <3>3
  <2>4. CASE Load(c)
    <3>1. Moved(c) /\ UNCHANGED slot /\ ~Airs(source[c].at)
      BY <1>0, <2>4, LoadMoves DEF Airs
    <3> QED
      BY <2>10, <3>1
  <2>5. CASE Store(c)
    <3>1. Moved(c) /\ UNCHANGED slot /\ ~Airs(source[c].at)
      BY <1>0, <2>5, StoreMoves DEF Airs
    <3> QED
      BY <2>10, <3>1
  <2>6. CASE Claim(c)
    <3>0. /\ Moved(c) /\ source[c].at = "bound" /\ source[c].mount \in Mountpoints
          /\ slot' = [slot EXCEPT ![source[c].mount] = c]
      BY <1>0, <2>6, ClaimMoves
    <3>1. source'[c].at = "claimed" /\ source'[c].mount = source[c].mount
      BY <1>0, <2>6, ClaimMoves DEF Types, Request
    <3>2. \A m \in Mountpoints : slot'[m] = IF m = source[c].mount THEN c ELSE slot[m]
      BY <1>0, <3>0 DEF Types
    <3> QED
      BY <1>0, <3>0, <3>1, <3>2 DEF SlotHeld, Holds, Holders, Airs, Moved, Types
  <2>7. CASE Stays(c)
    <3>1. CASE source[c].at = "claimed"
      <4>1. Moved(c) /\ UNCHANGED slot
        BY <1>0, <2>7, <3>1, StayMoves
      <4>2. source'[c].at = "streaming" /\ source'[c].mount = source[c].mount
        BY <1>0, <2>7, <3>1, StayMoves DEF Types, Request
      <4> QED
        BY <1>0, <4>1, <4>2 DEF SlotHeld, Holds, Holders, Airs, Moved, Types
    <3>2. CASE source[c].at # "claimed"
      <4>1. /\ Moved(c) /\ source[c].at = "streaming" /\ source[c].mount \in Mountpoints
            /\ slot' = [slot EXCEPT ![source[c].mount] = None]
        BY <1>0, <2>7, <3>2, StayMoves
      <4>2. \A m \in Mountpoints : slot'[m] = IF m = source[c].mount THEN None ELSE slot[m]
        BY <1>0, <4>1 DEF Types
      <4> QED
        BY <1>0, <4>1, <4>2 DEF SlotHeld, Holds, Holders, Moved, Types
    <3> QED
      BY <3>1, <3>2
  <2>8. CASE SlotFrees(c)
    <3>1. /\ UNCHANGED source
          /\ \A m \in Mountpoints : slot'[m] \in {None, slot[m]}
      BY <1>0, <2>8, SlotFreeMoves DEF Types
    <3> QED
      BY <1>0, <3>1 DEF SlotHeld, Holds, Holders
  <2>9. CASE Drifts(c)
    <3>1. /\ Moved(c) /\ c \in Streams /\ UNCHANGED slot /\ source'[c].mount = source[c].mount
          /\ Airs(source'[c].at)
      BY <1>0, <2>9, DriftMoves DEF Airs
    <3> QED
      BY <1>0, <3>1 DEF SlotHeld, Holds, Holders, Moved, Types
  <2> QED
    BY <1>1, <2>2, <2>3, <2>4, <2>5, <2>6, <2>7, <2>8, <2>9 DEF SourceSteps
<1>2. ASSUME NEW l \in Listeners, Listens(l) PROVE SlotHeld'
  BY <1>0, <1>2 DEF SlotHeld, Holds, Holders, Listens, Find, TurnAway, Attach, ReadCount, WriteCount,
     SeeClosed, ClientLeaves, Leaves, RemoveListener, ListenerRest
<1>3. CASE Others
  BY <1>0, <1>3, OtherMoves DEF SlotHeld, Holds, Holders
<1> QED
  BY <1>1, <1>2, <1>3, DeathIsStart, Kinds DEF Inv

LEMMA NextSaw ==
  ASSUME Inv, Next PROVE \A c \in Connections : SawFew(c)'
<1>0. /\ Types /\ SlotHeld
      /\ \A c \in Connections : SawFew(c)
      /\ \A c \in Connections : SourceSound(c)
  BY DEF Inv
<1> DEFINE Seen(s) == Airs(s) \/ s = "done"
<1>1. ASSUME NEW c \in Connections, SourceSteps(c), NEW d \in Connections PROVE SawFew(d)'
  \* Nobody who has been on the air comes back, and nobody asks again.
  <2>1. ASSUME Moved(c), saw'[d] = saw[d], Seen(source[c].at) => Seen(source'[c].at),
               d = c /\ Asks(source'[c].at) => Asks(source[c].at)
        PROVE  SawFew(d)'
    <3>1. saw[d] \subseteq Connections
      BY <1>0 DEF Types
    <3>2. \A e \in saw[d] : Seen(source'[e].at)
      BY <1>0, <2>1, <3>1 DEF SawFew, Moved
    <3>3. Asks(source'[d].at) => Asks(source[d].at)
      BY <2>1 DEF Moved
    <3> QED
      BY <1>0, <2>1, <3>2, <3>3 DEF SawFew
  <2>2. CASE Lets(c)
    <3>0. /\ Moved(c) /\ source[c].at = "new" /\ source'[c].at = "admitted"
          /\ c \notin Streams => Cardinality(Counted) < MaxSourceClients
          /\ saw' = [saw EXCEPT ![c] = Counted]
      BY <1>0, <2>2, LetMoves
    <3>1. CASE d # c
      BY <1>0, <2>1, <3>0, <3>1 DEF Types, Airs
    <3>2. CASE d = c
      <4>1. saw'[c] = Counted
        BY <1>0, <3>0 DEF Types
      <4>2. \A e \in Counted : e \in Connections \ {c} /\ Seen(source[e].at)
        BY <1>0, <3>0, CountedHold DEF Holders, Airs
      <4>3. \A e \in Counted : Seen(source'[e].at)
        BY <3>0, <4>2 DEF Moved
      <4> QED
        BY <3>0, <3>2, <4>1, <4>3 DEF SawFew
    <3> QED
      BY <3>1, <3>2
  <2>3. CASE Ends(c)
    <3>0. Moved(c) /\ source'[c].at = "done" /\ saw' = [saw EXCEPT ![c] = {}]
      BY <1>0, <2>3, EndMoves DEF OldRequest
    <3>1. CASE d # c
      BY <1>0, <2>1, <3>0, <3>1 DEF Types
    <3>2. CASE d = c
      <4>1. saw'[c] = {}
        BY <1>0, <3>0 DEF Types
      <4> QED
        BY <3>0, <3>2, <4>1 DEF SawFew, Asks
    <3> QED
      BY <3>1, <3>2
  <2>4. CASE Load(c)
    BY <1>0, <2>1, <2>4, LoadMoves DEF Asks, Airs
  <2>5. CASE Store(c)
    BY <1>0, <2>1, <2>5, StoreMoves DEF Asks, Airs
  <2>6. CASE Claim(c)
    <3>1. source'[c].at = "claimed"
      BY <1>0, <2>6, ClaimMoves DEF Types, Request
    <3> QED
      BY <1>0, <2>1, <2>6, <3>1, ClaimMoves DEF Asks, Airs
  <2>7. CASE Stays(c)
    <3>1. source'[c].at \in {"streaming", "released"}
      BY <1>0, <2>7, StayMoves DEF Types, Request
    <3> QED
      BY <1>0, <2>1, <2>7, <3>1, StayMoves DEF Asks, Airs
  <2>8. CASE SlotFrees(c)
    BY <1>0, <2>8, SlotFreeMoves DEF SawFew
  <2>9. CASE Drifts(c)
    BY <1>0, <2>1, <2>9, DriftMoves DEF Asks, Airs
  <2> QED
    BY <1>1, <2>2, <2>3, <2>4, <2>5, <2>6, <2>7, <2>8, <2>9 DEF SourceSteps
<1>2. ASSUME UNCHANGED <<source, saw>> PROVE \A d \in Connections : SawFew(d)'
  BY <1>0, <1>2 DEF SawFew
<1>3. ASSUME NEW l \in Listeners, Listens(l) PROVE UNCHANGED <<source, saw>>
  BY <1>3 DEF Listens, Find, TurnAway, Attach, ReadCount, WriteCount, SeeClosed, ClientLeaves,
              Leaves, RemoveListener, ListenerRest
<1>4. Others => UNCHANGED <<source, saw>>
  BY <1>0, OtherMoves
<1> QED
  BY <1>1, <1>2, <1>3, <1>4, DeathIsStart, Kinds DEF Inv

LEMMA NextLimit ==
  ASSUME Inv, Next PROVE LimitHolds'
<1>0. /\ Types /\ LimitHolds
      /\ \A c \in Connections : SawFew(c)
      /\ \A c \in Connections : SourceSound(c)
  BY DEF Inv
<1>1. CASE Die
  BY <1>1, DeathIsStart DEF Inv
<1> SUFFICES ASSUME ~Die, NEW S \in SUBSET Holders', Cardinality(S) > MaxSourceClients
             PROVE Overlap(S)'
  BY <1>1 DEF LimitHolds
\* Those who were on the air before overlap as they did.
<1>2. ASSUME S \subseteq Holders, \A d \in S : saw'[d] = saw[d] PROVE Overlap(S)'
  BY <1>0, <1>2 DEF LimitHolds, Overlap
\* Somebody else may be on the air.
<1>3. ASSUME NEW c \in Connections, Claim(c) \/ Drifts(c), ~Airs(source[c].at)
      PROVE  Overlap(S)'
  <2>0. UNCHANGED saw /\ Asks(source[c].at) /\ S \subseteq Holders \cup {c}
    BY <1>0, <1>3, ClaimMoves, DriftMoves DEF Moved, Holders, Asks, Airs
  <2>1. CASE c \notin S
    BY <1>2, <2>0, <2>1
  <2>2. CASE c \in S /\ S \ {c} \subseteq saw[c]
    <3>0. S \subseteq Connections /\ S \ {c} \subseteq Connections /\ saw[c] \subseteq Connections
      BY <1>0 DEF Holders, Types
    <3>1. Cardinality(S \ {c}) = Cardinality(S) - 1
      BY <2>2, <3>0, Finite, FS_RemoveElement
    <3>2. Cardinality(S \ {c}) <= Cardinality(saw[c])
      BY <2>2, <3>0, Finite, FS_Subset
    <3>3. Cardinality(saw[c]) \in Nat /\ Cardinality(S) \in Nat
      BY <3>0, Finite
    <3>4. Cardinality(saw[c]) >= MaxSourceClients
      BY <3>1, <3>2, <3>3, ServerAssumption
    <3>5. c \in Streams
      BY <1>0, <2>0, <3>3, <3>4, ServerAssumption DEF SawFew
    <3> QED
      BY <2>0, <2>2, <3>4, <3>5 DEF Overlap
  <2>3. CASE c \in S /\ ~(S \ {c} \subseteq saw[c])
    <3>1. PICK d \in S : d # c /\ d \notin saw[c]
      BY <2>3
    <3>2. c \notin saw[d]
      BY <1>0, <2>0, <3>1 DEF SawFew, Holders, Asks, Airs
    <3> QED
      BY <2>0, <2>3, <3>1, <3>2 DEF Overlap
  <2> QED
    BY <2>1, <2>2, <2>3
<1>4. ASSUME NEW c \in Connections, SourceSteps(c), Claim(c) \/ Drifts(c) => Airs(source[c].at)
      PROVE  Overlap(S)'
  <2>1. Holders' \subseteq Holders /\ \A d \in Holders' : saw'[d] = saw[d]
    <3>1. CASE Lets(c)
      BY <1>0, <3>1, LetMoves DEF Holders, Airs, Moved, Types
    <3>2. CASE Ends(c)
      BY <1>0, <3>2, EndMoves DEF Holders, Airs, Moved, Types, OldRequest
    <3>3. CASE Load(c)
      BY <1>0, <3>3, LoadMoves DEF Holders, Airs, Moved
    <3>4. CASE Store(c)
      BY <1>0, <3>4, StoreMoves DEF Holders, Airs, Moved
    <3>5. CASE Stays(c)
      <4>1. Moved(c) /\ UNCHANGED saw /\ Airs(source[c].at)
        BY <1>0, <3>5, StayMoves DEF Airs
      <4> QED
        BY <4>1 DEF Holders, Moved
    <3>6. CASE SlotFrees(c)
      BY <1>0, <3>6 DEF SlotFrees, SourceRest, Holders
    <3>7. CASE Claim(c)
      <4>1. ~Airs(source[c].at)
        BY <1>0, <3>7, ClaimMoves DEF Airs
      <4> QED
        BY <1>4, <3>7, <4>1
    <3>8. CASE Drifts(c)
      BY <1>0, <1>4, <3>8, DriftMoves DEF Holders, Moved
    <3> QED
      BY <1>4, <3>1, <3>2, <3>3, <3>4, <3>5, <3>6, <3>7, <3>8 DEF SourceSteps
  <2> QED
    BY <1>2, <2>1
<1>5. ASSUME UNCHANGED <<source, saw>> PROVE Overlap(S)'
  BY <1>2, <1>5 DEF Holders
<1>6. ASSUME NEW l \in Listeners, Listens(l) PROVE UNCHANGED <<source, saw>>
  BY <1>6 DEF Listens, Find, TurnAway, Attach, ReadCount, WriteCount, SeeClosed, ClientLeaves,
              Leaves, RemoveListener, ListenerRest
<1>7. Others => UNCHANGED <<source, saw>>
  BY <1>0, OtherMoves
<1> QED
  BY <1>3, <1>4, <1>5, <1>6, <1>7, Kinds

-----------------------------------------------------------------------------
LEMMA Invariant == Spec => []Inv
<1>1. ASSUME Inv, UNCHANGED vars PROVE Inv'
  BY <1>1 DEF vars, mapVars, rowVars, Inv, Types, Blank, SlotHeld, LimitHolds, Overlap, SourceSound,
     SawFew, ListenerSound, Running, OnePerPath, Right, Absent, Holders, Holds
<1>2. ASSUME Inv, Next PROVE Inv'
  BY <1>2, NextTypes, NextBlank, NextOnePerPath, NextSlot, NextSaw, NextLimit DEF Inv
<1> QED
  BY <1>1, <1>2, StartsRight, PTL DEF Spec

(***************************************************************************)
(* Until the server stops, whoever uses a path has the mountpoint the map  *)
(* has, unless two first requests have raced (mountpoint.go:472-482).      *)
(***************************************************************************)
THEOREM OnePerPathKept == Spec => []OneMountpointPerPath
<1>1. Inv => OneMountpointPerPath
  BY DEF Inv, Types, OnePerPath, Right, OneMountpointPerPath, Range
<1> QED
  BY <1>1, Invariant, PTL

(***************************************************************************)
(* MaxSourceClients is passed only by sources that overlapped and by       *)
(* streams that started at the limit (icecast.go:187, external_stream.go). *)
(***************************************************************************)
THEOREM LimitKept == Spec => []LimitNeedsOverlap
<1>1. Inv => LimitNeedsOverlap
  BY CountedHold DEF Inv, LimitHolds, Overlap, LimitNeedsOverlap
<1> QED
  BY <1>1, Invariant, PTL
===============================================================================
