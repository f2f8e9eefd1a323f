-------------------------- MODULE ProxySessionsProofs --------------------------
(***************************************************************************)
(* Theorems about ProxySessions for any number of keys and clients and any *)
(* limits.                                                                 *)
(***************************************************************************)
EXTENDS ProxySessions, FiniteSetTheorems, TLAPS

(***************************************************************************)
(* The inductive invariant.                                                *)
(***************************************************************************)
Holding == {"got", "counted", "streaming", "uncounted", "left", "cleaning"}
Coming == {"passed", "admitted", "missing", "connecting"}
Past == {"counted", "streaming", "uncounted", "left", "cleaning", "done"}

Types ==
  /\ client \in [Clients -> ClientState]
  /\ key \in [Clients -> Keys \cup {None}]
  /\ session \in [Clients -> Sessions \cup {None}]
  /\ saw \in [Clients -> SUBSET Clients]
  /\ lock \in Clients \cup {None}
  /\ proxies \in [Keys -> Sessions \cup {None}]
  /\ listeners \in [Sessions -> Int]
  /\ cancelled \subseteq Sessions
  /\ idle \in [Sessions -> 0 .. 2]
  /\ monitor \in [Sessions -> {"none", "watch", "clean", "done"}]
  /\ worker \in [Sessions -> {"none", "run", "done"}]

\* A request that connects keeps the lock, and one that has got a session has
\* got one of its key.
Sound(c) ==
  /\ client[c] \notin {"new", "passed"} => key[c] \in Keys
  /\ client[c] \in Coming \cup {"new"} => monitor[c] = "none"
  /\ client[c] = "connecting" => lock = c /\ proxies[key[c]] = None
  /\ client[c] \in Holding =>
       /\ session[c] \in Sessions /\ monitor[session[c]] # "none"
       /\ key[session[c]] = key[c]

\* The map has a session at its key.
MapIsRight ==
  \A k \in Keys : proxies[k] # None => key[proxies[k]] = k /\ monitor[proxies[k]] # "none"

\* The counts are those of the requests that have counted themselves.
Attached(s) == {c \in Clients : session[c] = s /\ client[c] \in {"streaming", "uncounted"}}
CountsAreRight ==
  /\ current = Cardinality(Counted)
  /\ \A s \in Sessions : listeners[s] = Cardinality(Attached(s))

\* A request that is not counted yet has seen fewer than the limit.
SawFew(c) ==
  /\ client[c] \in Coming \cup {"got"} => Cardinality(saw[c]) < MaxProxies
  /\ \A d \in saw[c] : client[d] \in Past

\* However many of the counted leave, those that stay have overlapped.
Overlap(S) == \E c, d \in S : c # d /\ c \notin saw[d] /\ d \notin saw[c]
LimitHolds == \A S \in SUBSET Counted : Cardinality(S) > MaxProxies => Overlap(S)

Inv ==
  /\ Types /\ MapIsRight /\ CountsAreRight /\ LimitHolds
  /\ \A c \in Clients : Sound(c) /\ SawFew(c)
  /\ LiveIsListed /\ SessionIsOwed

-----------------------------------------------------------------------------
\* Sets of clients are finite.
LEMMA Finite ==
  ASSUME NEW S \in SUBSET Clients
  PROVE  IsFiniteSet(S) /\ Cardinality(S) \in 0 .. Cardinality(Clients)
<1>1. /\ IsFiniteSet(S) /\ Cardinality(S) <= Cardinality(Clients)
      /\ IsFiniteSet(Clients)
  BY FS_Subset, ProxyAssumption
<1> QED
  BY <1>1, FS_CardinalityType

LEMMA StartsRight == Init => Inv
<1> SUFFICES ASSUME Init PROVE Inv
  OBVIOUS
<1> USE DEF Init, Sessions
<1>1. Types
  BY DEF Types, ClientState
<1>2. Counted = {} /\ \A s \in Sessions : Attached(s) = {}
  BY DEF Counted, Attached
<1>3. CountsAreRight
  BY <1>2, FS_EmptySet DEF CountsAreRight
<1>4. LimitHolds
  BY <1>2, FS_EmptySet, ProxyAssumption DEF LimitHolds
<1>5. Listed = {}
  BY DEF Listed
<1> QED
  BY <1>1, <1>3, <1>4, <1>5 DEF Inv, MapIsRight, Sound, SawFew, LiveIsListed, SessionIsOwed,
     Coming, Holding

-----------------------------------------------------------------------------
(***************************************************************************)
(* Types, and where a session is.                                          *)
(***************************************************************************)
\* Steps in which a request moves and the rest of the session stays.
Advance(c) ==
  \/ CountGlobal(c) \/ CountListener(c) \/ Uncount(c) \/ UncountListener(c) \/ LastOne(c)

\* Steps of a session that leave the requests and the map alone.
Housekeeping(s) ==
  GrowsIdle(s) \/ MonitorTick(s) \/ MonitorEnds(s) \/ WorkerEnds(s) \/ Chunk(s)

LEMMA Kinds ==
  ASSUME Next
  PROVE  \/ \E c \in Clients : \/ Enter(c) \/ Look(c) \/ LookAgain(c) \/ Connected(c)
                              \/ ConnectFails(c) \/ Advance(c) \/ Cleanup(c)
                              \/ MonitorCleans(c) \/ Housekeeping(c)
         \/ Close
BY DEF Next, ClientMoves, Advance, Housekeeping, Sessions

LEMMA NextType ==
  ASSUME Inv, Next PROVE Types'
<1>0. Types /\ \A c \in Clients : Sound(c)
  BY DEF Inv
<1> USE <1>0 DEF Types, Goes, ClientState, Sessions, countVars, sessionVars, requestVars, mapVars
<1>1. ASSUME NEW c \in Clients, Enter(c) PROVE Types'
  BY <1>1 DEF Enter, PassGlobal, Admit, Counted
<1>2. ASSUME NEW c \in Clients, Look(c) \/ LookAgain(c) PROVE Types'
  <2>1. proxies[key[c]] \in Sessions \cup {None}
    BY <1>2 DEF Look, LookAgain, Sound
  <2> QED
    BY <1>2, <2>1 DEF Look, LookAgain
<1>3. ASSUME NEW c \in Clients, Connected(c) \/ ConnectFails(c) PROVE Types'
  BY <1>3 DEF Connected, ConnectFails
<1>4. ASSUME NEW c \in Clients, Advance(c) PROVE Types'
  BY <1>4 DEF Advance, CountGlobal, CountListener, Uncount, UncountListener, LastOne
<1>5. ASSUME NEW c \in Clients, Cleanup(c) \/ MonitorCleans(c) PROVE Types'
  <2>1. key[c] \in Keys
    BY <1>5 DEF Cleanup, MonitorCleans, MonitorGoes, Sound, Coming
  <2>2. CleanupSession(key[c]) => cancelled' \subseteq Clients
                                 /\ proxies' \in [Keys -> Clients \cup {None}]
    BY <2>1 DEF CleanupSession
  <2> QED
    BY <1>5, <2>2 DEF Cleanup, MonitorCleans, MonitorGoes, CleanupSession
<1>6. ASSUME NEW s \in Clients, Housekeeping(s) PROVE Types'
  BY <1>6 DEF Housekeeping, GrowsIdle, MonitorTick, MonitorEnds, WorkerEnds, Chunk, MonitorGoes
<1>7. CASE Close
  BY <1>7 DEF Close, Listed
<1> QED
  BY <1>1, <1>2, <1>3, <1>4, <1>5, <1>6, <1>7, Kinds

-----------------------------------------------------------------------------
(***************************************************************************)
(* What a step does to the places and counts of requests.                  *)
(***************************************************************************)

\* Nobody moves into or out of a counted place and no session changes hands.
Still ==
  /\ UNCHANGED countVars
  /\ Counted' = Counted
  /\ \A s \in Sessions : Attached(s)' = Attached(s)

LEMMA StillCounts ==
  ASSUME CountsAreRight, Still PROVE CountsAreRight'
BY DEF CountsAreRight, Still, countVars

LEMMA StillSteps ==
  ASSUME Types, NEW c \in Clients,
         \/ Enter(c) \/ Look(c) \/ LookAgain(c) \/ Connected(c) \/ ConnectFails(c)
         \/ LastOne(c) \/ Cleanup(c) \/ MonitorCleans(c) \/ Housekeeping(c)
  PROVE  Still
<1> USE DEF Types, Still, Counted, Attached, Goes, countVars
<1>1. CASE Enter(c) \/ Look(c) \/ LookAgain(c)
  BY <1>1 DEF Enter, PassGlobal, Admit, Look, LookAgain
<1>2. CASE Connected(c) \/ ConnectFails(c) \/ LastOne(c)
  BY <1>2 DEF Connected, ConnectFails, LastOne
<1>3. CASE Cleanup(c) \/ MonitorCleans(c)
  BY <1>3 DEF Cleanup, MonitorCleans, requestVars
<1>4. CASE Housekeeping(c)
  BY <1>4 DEF Housekeeping, GrowsIdle, MonitorTick, MonitorEnds, WorkerEnds, Chunk, requestVars
<1> QED
  BY <1>1, <1>2, <1>3, <1>4

LEMMA NextCounts ==
  ASSUME Inv, Next PROVE CountsAreRight'
<1>0. Types /\ CountsAreRight /\ \A c \in Clients : Sound(c)
  BY DEF Inv
<1> USE <1>0 DEF Sessions
<1>1. ASSUME NEW c \in Clients, CountGlobal(c) PROVE CountsAreRight'
  <2>1. /\ Counted' = Counted \cup {c} /\ c \notin Counted
        /\ \A s \in Clients : Attached(s)' = Attached(s)
    BY <1>1 DEF CountGlobal, Goes, Counted, Attached, Types
  <2>2. Cardinality(Counted') = Cardinality(Counted) + 1
    BY <2>1, Finite, FS_AddElement DEF Counted
  <2> QED
    BY <1>1, <2>1, <2>2 DEF CountGlobal, CountsAreRight
<1>2. ASSUME NEW c \in Clients, CountListener(c) PROVE CountsAreRight'
  <2>0. session[c] \in Clients
    BY <1>2 DEF CountListener, Goes, Sound, Holding
  <2>1. /\ Counted' = Counted
        /\ Attached(session[c])' = Attached(session[c]) \cup {c} /\ c \notin Attached(session[c])
        /\ \A s \in Clients \ {session[c]} : Attached(s)' = Attached(s)
    BY <1>2 DEF CountListener, Goes, Counted, Attached, Types
  <2>2. Cardinality(Attached(session[c])') = Cardinality(Attached(session[c])) + 1
    BY <2>1, Finite, FS_AddElement DEF Attached
  <2> QED
    BY <1>2, <2>0, <2>1, <2>2 DEF CountListener, CountsAreRight, Types
<1>3. ASSUME NEW c \in Clients, Uncount(c) PROVE CountsAreRight'
  <2>1. /\ Counted' = Counted \ {c} /\ c \in Counted
        /\ \A s \in Clients : Attached(s)' = Attached(s)
    BY <1>3 DEF Uncount, Goes, Counted, Attached, Types
  <2>2. Cardinality(Counted') = Cardinality(Counted) - 1
    BY <2>1, Finite, FS_RemoveElement DEF Counted
  <2> QED
    BY <1>3, <2>1, <2>2 DEF Uncount, CountsAreRight
<1>4. ASSUME NEW c \in Clients, UncountListener(c) PROVE CountsAreRight'
  <2>0. session[c] \in Clients
    BY <1>4 DEF UncountListener, Goes, Sound, Holding
  <2>1. /\ Counted' = Counted
        /\ Attached(session[c])' = Attached(session[c]) \ {c} /\ c \in Attached(session[c])
        /\ \A s \in Clients \ {session[c]} : Attached(s)' = Attached(s)
    BY <1>4 DEF UncountListener, Goes, Counted, Attached, Types
  <2>2. Cardinality(Attached(session[c])') = Cardinality(Attached(session[c])) - 1
    BY <2>1, Finite, FS_RemoveElement DEF Attached
  <2> QED
    BY <1>4, <2>0, <2>1, <2>2 DEF UncountListener, CountsAreRight, Types
<1>5. CASE Close
  <2>1. Still
    BY <1>5 DEF Close, Still, Counted, Attached, requestVars, countVars
  <2> QED
    BY <2>1, StillCounts
<1> QED
  BY <1>1, <1>2, <1>3, <1>4, <1>5, StillSteps, StillCounts, Kinds DEF Advance

-----------------------------------------------------------------------------
(***************************************************************************)
(* Requests, the map and the sessions that live.                           *)
(***************************************************************************)
LEMMA NextSound ==
  ASSUME Inv, Next
  PROVE  MapIsRight' /\ (\A c \in Clients : Sound(c)') /\ LiveIsListed'
<1>0. Types /\ MapIsRight /\ LiveIsListed /\ \A c \in Clients : Sound(c)
  BY DEF Inv
<1> USE <1>0, ProxyAssumption
    DEF Types, MapIsRight, LiveIsListed, Sound, Goes, Sessions, Coming, Holding, ClientState
<1> DEFINE Goal == MapIsRight' /\ (\A d \in Clients : Sound(d)') /\ LiveIsListed'
<1>1. ASSUME NEW c \in Clients, Enter(c) PROVE Goal
  BY <1>1 DEF Enter, PassGlobal, Admit, mapVars, countVars, sessionVars
<1>2. ASSUME NEW c \in Clients, Look(c) \/ LookAgain(c) PROVE Goal
  BY <1>2 DEF Look, LookAgain, mapVars, countVars, sessionVars
<1>3. ASSUME NEW c \in Clients, Connected(c) PROVE Goal
  BY <1>3 DEF Connected, countVars
<1>4. ASSUME NEW c \in Clients, ConnectFails(c) PROVE Goal
  BY <1>4 DEF ConnectFails, countVars, sessionVars
<1>5. ASSUME NEW c \in Clients, Advance(c) PROVE Goal
  BY <1>5 DEF Advance, CountGlobal, CountListener, Uncount, UncountListener, LastOne, mapVars,
              sessionVars
<1>6. ASSUME NEW c \in Clients, Cleanup(c) PROVE Goal
  BY <1>6 DEF Cleanup, CleanupSession, sessionVars
<1>7. ASSUME NEW s \in Clients, MonitorCleans(s) PROVE Goal
  BY <1>7 DEF MonitorCleans, MonitorGoes, CleanupSession, requestVars
<1>8. ASSUME NEW s \in Clients, Housekeeping(s) PROVE Goal
  BY <1>8 DEF Housekeeping, GrowsIdle, MonitorTick, MonitorEnds, WorkerEnds, Chunk, MonitorGoes,
              requestVars, mapVars
<1>9. CASE Close
  BY <1>9 DEF Close, Listed, requestVars, sessionVars
<1> QED
  BY <1>1, <1>2, <1>3, <1>4, <1>5, <1>6, <1>7, <1>8, <1>9, Kinds

-----------------------------------------------------------------------------
(***************************************************************************)
(* A session in the map is owed a cleanup.                                 *)
(***************************************************************************)

\* Who holds a session.
Holds(c, s) == session[c] = s /\ client[c] \in Holding

LEMMA NextOwed ==
  ASSUME Inv, Next PROVE SessionIsOwed'
<1>0. /\ Types /\ MapIsRight /\ CountsAreRight
      /\ \A c \in Clients : Sound(c)
      /\ \A s \in Listed : \E c \in Clients : Holds(c, s)
  BY DEF Inv, SessionIsOwed, Holds, Holding
<1> SUFFICES ASSUME NEW s \in Listed' PROVE \E d \in Clients : Holds(d, s)'
  BY DEF SessionIsOwed, Holds, Holding
<1>1. ASSUME NEW c \in Clients, Enter(c) \/ Look(c) \/ LookAgain(c) \/ ConnectFails(c)
      PROVE \E d \in Clients : Holds(d, s)'
  <2>1. s \in Listed
    BY <1>1 DEF Enter, PassGlobal, Admit, Look, LookAgain, ConnectFails, mapVars, Listed
  <2>2. PICK d \in Clients : Holds(d, s)
    BY <1>0, <2>1
  <2>3. Holds(d, s)'
    BY <1>0, <1>1, <2>2 DEF Enter, PassGlobal, Admit, Look, LookAgain, ConnectFails, Goes, Holds,
      Holding, Types
  <2> QED
    BY <2>3
<1>2. ASSUME NEW c \in Clients, Connected(c) PROVE \E d \in Clients : Holds(d, s)'
  <2>1. Holds(c, c)'
    BY <1>0, <1>2 DEF Connected, Goes, Holds, Holding, Types
  <2>2. s = c \/ s \in Listed
    BY <1>0, <1>2 DEF Connected, Listed, Types
  <2>3. \A d \in Clients : Holds(d, s) => Holds(d, s)'
    BY <1>0, <1>2 DEF Connected, Goes, Holds, Holding, Types
  <2> QED
    BY <1>0, <2>1, <2>2, <2>3
<1>3. ASSUME NEW c \in Clients, Advance(c) PROVE \E d \in Clients : Holds(d, s)'
  <2>1. s \in Listed
    BY <1>3 DEF Advance, CountGlobal, CountListener, Uncount, UncountListener, LastOne, mapVars,
                Listed
  <2>2. \A d \in Clients \ {c} : Holds(d, s) => Holds(d, s)'
    BY <1>0, <1>3 DEF Advance, CountGlobal, CountListener, Uncount, UncountListener, LastOne, Goes,
                      Holds, Types
  <2>3. CASE client'[c] # "done"
    <3>1. Holds(c, s) => Holds(c, s)'
      BY <1>0, <1>3, <2>3 DEF Advance, CountGlobal, CountListener, Uncount, UncountListener,
                              LastOne, Goes, Holds, Holding, Types
    <3> QED
      BY <1>0, <2>1, <2>2, <3>1
  <2>4. CASE client'[c] = "done"
    <3>1. client[c] = "left" /\ session[c] \in Clients /\ listeners[session[c]] # 0
      BY <1>0, <1>3, <2>4 DEF Advance, CountGlobal, CountListener, Uncount, UncountListener,
                              LastOne, Goes, Types, Sound, Holding, Sessions
    <3>2. Attached(session[c]) # {}
      BY <1>0, <3>1, FS_EmptySet DEF CountsAreRight, Sessions
    <3>3. PICK d \in Clients : d # c /\ Holds(d, session[c])
      BY <3>1, <3>2 DEF Attached, Holds, Holding
    <3> QED
      BY <1>0, <2>1, <2>2, <3>3 DEF Holds
  <2> QED
    BY <2>3, <2>4
<1>4. ASSUME NEW c \in Clients, Cleanup(c) PROVE \E d \in Clients : Holds(d, s)'
  <2>1. s \in Listed /\ key[s] # key[c]
    BY <1>0, <1>4 DEF Cleanup, CleanupSession, Listed, MapIsRight, Types
  <2>2. PICK d \in Clients : Holds(d, s)
    BY <1>0, <2>1
  <2>3. d # c
    BY <1>0, <2>1, <2>2 DEF Holds, Sound
  <2> QED
    BY <1>0, <1>4, <2>2, <2>3 DEF Cleanup, Goes, Holds, Types
<1>5. ASSUME NEW t \in Clients, MonitorCleans(t) \/ Housekeeping(t)
      PROVE \E d \in Clients : Holds(d, s)'
  <2>1. s \in Listed
    BY <1>0, <1>5 DEF MonitorCleans, CleanupSession, Housekeeping, GrowsIdle, MonitorTick,
                      MonitorEnds, WorkerEnds, Chunk, mapVars, Listed, Types
  <2>2. UNCHANGED requestVars
    BY <1>5 DEF MonitorCleans, Housekeeping, GrowsIdle, MonitorTick, MonitorEnds, WorkerEnds, Chunk
  <2> QED
    BY <1>0, <2>1, <2>2 DEF requestVars, Holds
<1>6. CASE Close
  BY <1>6 DEF Close, Listed
<1> QED
  BY <1>1, <1>2, <1>3, <1>4, <1>5, <1>6, Kinds

-----------------------------------------------------------------------------
(***************************************************************************)
(* The limit.                                                              *)
(***************************************************************************)
LEMMA NextSaw ==
  ASSUME Inv, Next PROVE \A c \in Clients : SawFew(c)'
<1>0. Types /\ CountsAreRight /\ \A c \in Clients : SawFew(c)
  BY DEF Inv
<1> USE <1>0 DEF Types, SawFew, Goes, Coming, Past, Sessions
<1>1. ASSUME NEW c \in Clients, Enter(c) PROVE \A d \in Clients : SawFew(d)'
  <2>1. CASE PassGlobal(c)
    BY <2>1 DEF PassGlobal, Counted, CountsAreRight
  <2>2. CASE Admit(c)
    BY <2>2 DEF Admit
  <2> QED
    BY <1>1, <2>1, <2>2 DEF Enter
<1>2. ASSUME NEW c \in Clients, Look(c) \/ LookAgain(c) \/ Connected(c) \/ ConnectFails(c)
      PROVE \A d \in Clients : SawFew(d)'
  BY <1>2 DEF Look, LookAgain, Connected, ConnectFails
<1>3. ASSUME NEW c \in Clients, Advance(c) \/ Cleanup(c) PROVE \A d \in Clients : SawFew(d)'
  BY <1>3 DEF Advance, CountGlobal, CountListener, Uncount, UncountListener, LastOne, Cleanup
<1>4. ASSUME NEW c \in Clients, MonitorCleans(c) \/ Housekeeping(c)
      PROVE \A d \in Clients : SawFew(d)'
  BY <1>4 DEF MonitorCleans, Housekeeping, GrowsIdle, MonitorTick, MonitorEnds, WorkerEnds, Chunk,
              requestVars
<1>5. CASE Close
  BY <1>5 DEF Close, requestVars
<1> QED
  BY <1>1, <1>2, <1>3, <1>4, <1>5, Kinds

LEMMA NextLimit ==
  ASSUME Inv, Next PROVE LimitHolds'
<1>0. Types /\ LimitHolds /\ \A c \in Clients : SawFew(c)
  BY DEF Inv
<1> SUFFICES ASSUME NEW S \in SUBSET Counted', Cardinality(S) > MaxProxies PROVE Overlap(S)'
  BY DEF LimitHolds
\* Those who were counted before overlap as they did.
<1>1. ASSUME S \subseteq Counted, \A d \in Counted : saw'[d] = saw[d] PROVE Overlap(S)'
  BY <1>0, <1>1 DEF LimitHolds, Overlap
<1>2. ASSUME NEW c \in Clients, CountGlobal(c) PROVE Overlap(S)'
  <2>0. UNCHANGED saw /\ client[c] = "got" /\ S \subseteq Counted \cup {c}
    BY <1>0, <1>2 DEF CountGlobal, Goes, Counted, Types
  <2>1. CASE c \notin S
    BY <1>1, <2>0, <2>1
  <2>2. CASE c \in S /\ S \ {c} \subseteq saw[c]
    <3>0. S \subseteq Clients /\ S \ {c} \subseteq Clients /\ saw[c] \subseteq Clients
      BY <1>0, <2>0 DEF Counted, Types
    <3>1. Cardinality(S \ {c}) = Cardinality(S) - 1
      BY <2>2, <3>0, Finite, FS_RemoveElement
    <3>2. Cardinality(S \ {c}) <= Cardinality(saw[c])
      BY <2>2, <3>0, Finite, FS_Subset
    <3>3. Cardinality(saw[c]) < MaxProxies
      BY <1>0, <2>0 DEF SawFew
    <3> QED
      BY <3>0, <3>1, <3>2, <3>3, Finite, ProxyAssumption
  <2>3. CASE c \in S /\ ~(S \ {c} \subseteq saw[c])
    <3>1. PICK d \in S : d # c /\ d \notin saw[c]
      BY <2>3
    <3>2. c \notin saw[d]
      BY <1>0, <2>0, <3>1 DEF SawFew, Past, Counted
    <3> QED
      BY <2>0, <2>3, <3>1, <3>2 DEF Overlap
  <2> QED
    BY <2>1, <2>2, <2>3
<1>3. ASSUME NEW c \in Clients, Uncount(c) PROVE Overlap(S)'
  <2>1. S \subseteq Counted \ {c} /\ \A d \in Clients \ {c} : saw'[d] = saw[d]
    BY <1>0, <1>3 DEF Uncount, Goes, Counted, Types
  <2> QED
    BY <1>0, <2>1 DEF LimitHolds, Overlap, Counted
<1>4. ASSUME NEW c \in Clients, CountListener(c) \/ UncountListener(c) \/ LastOne(c) \/ Cleanup(c)
                                \/ MonitorCleans(c) \/ Housekeeping(c)
      PROVE Overlap(S)'
  <2>1. S \subseteq Counted /\ UNCHANGED saw
    BY <1>0, <1>4 DEF CountListener, UncountListener, LastOne, Cleanup, MonitorCleans, Housekeeping,
       GrowsIdle, MonitorTick, MonitorEnds, WorkerEnds, Chunk, requestVars, Goes, Counted, Types
  <2> QED
    BY <1>1, <2>1
<1>5. ASSUME NEW c \in Clients, \/ Enter(c) \/ Look(c) \/ LookAgain(c) \/ Connected(c)
                                \/ ConnectFails(c)
      PROVE Overlap(S)'
  <2>1. S \subseteq Counted /\ \A d \in Counted : saw'[d] = saw[d]
    BY <1>0, <1>5 DEF Enter, PassGlobal, Admit, Look, LookAgain, Connected, ConnectFails, Goes,
      Counted, Types
  <2> QED
    BY <1>1, <2>1
<1>6. CASE Close
  <2>1. S \subseteq Counted /\ UNCHANGED saw
    BY <1>6 DEF Close, requestVars, Counted
  <2> QED
    BY <1>1, <2>1
<1> QED
  BY <1>2, <1>3, <1>4, <1>5, <1>6, Kinds DEF Advance

-----------------------------------------------------------------------------
LEMMA Invariant == Spec => []Inv
<1>1. ASSUME Inv, UNCHANGED vars PROVE Inv'
  BY <1>1 DEF vars, requestVars, mapVars, countVars, sessionVars, Inv, Types, MapIsRight,
     CountsAreRight, LimitHolds, Overlap, Sound, SawFew, LiveIsListed, SessionIsOwed, Counted,
     Attached, Listed
<1>2. ASSUME Inv, Next PROVE Inv'
  BY <1>2, NextType, NextCounts, NextSound, NextOwed, NextSaw, NextLimit DEF Inv
<1> QED
  BY <1>1, <1>2, StartsRight, PTL DEF Spec

(***************************************************************************)
(* Types; the counts never pass the number of requests or fall below zero  *)
(* (proxy.go:187-191).                                                     *)
(***************************************************************************)
THEOREM TypeCorrect == Spec => []TypeOK
<1>1. Inv => TypeOK
  <2> SUFFICES ASSUME Inv PROVE TypeOK
    OBVIOUS
  <2>1. Types /\ CountsAreRight
    BY DEF Inv
  <2>2. /\ Cardinality(Counted) \in 0 .. Cardinality(Clients)
        /\ \A s \in Sessions : Cardinality(Attached(s)) \in 0 .. Cardinality(Clients)
    BY Finite DEF Counted, Attached
  <2>3. listeners = [s \in Sessions |-> listeners[s]]
    BY <2>1 DEF Types
  <2> QED
    BY <2>1, <2>2, <2>3 DEF Types, CountsAreRight, TypeOK
<1> QED
  BY <1>1, Invariant, PTL

(***************************************************************************)
(* A session in the map has a request that will see whether it was the     *)
(* last (proxy.go:186-197).                                                *)
(***************************************************************************)
THEOREM SessionOwed == Spec => []SessionIsOwed
<1>1. Inv => SessionIsOwed
  BY DEF Inv
<1> QED
  BY <1>1, Invariant, PTL

(***************************************************************************)
(* A session that is not cancelled is in the map and monitored             *)
(* (proxy.go:222-278, 384-409).                                            *)
(***************************************************************************)
THEOREM LiveListed == Spec => []LiveIsListed
<1>1. Inv => LiveIsListed
  BY DEF Inv
<1> QED
  BY <1>1, Invariant, PTL

(***************************************************************************)
(* The global limit is passed only by requests that overlapped             *)
(* (proxy.go:126, 187).                                                    *)
(***************************************************************************)
THEOREM LimitKept == Spec => []LimitNeedsOverlap
<1>1. Inv => LimitNeedsOverlap
  BY DEF Inv, LimitHolds, Overlap, LimitNeedsOverlap
<1> QED
  BY <1>1, Invariant, PTL

(***************************************************************************)
(* At every key the map is an exclusive slot (proxy.go:222-278, 384-409).  *)
(***************************************************************************)
THEOREM Refinement == ASSUME NEW k \in Keys PROVE Spec => ImplementsSlot(k)
<1> USE DEF Slot!slot, Sessions
<1>1. Init => Slot(k)!Init
  BY DEF Init, Slot!Init, Opened
<1>2. ASSUME Inv, [Next]_vars PROVE [Slot(k)!Next]_(Slot(k)!slot)
  <2>0. Types /\ MapIsRight /\ \A c \in Clients : Sound(c)
    BY <1>2 DEF Inv
  <2> USE <2>0 DEF Types
  <2>1. ASSUME NEW c \in Clients, Connected(c), key[c] = k PROVE Slot(k)!Acquire(c)
    <3>1. proxies[k] = None /\ monitor[c] = "none" /\ c # None
      BY <2>1, ProxyAssumption DEF Connected, Goes, Sound, Coming
    <3>2. Opened(k)' = Opened(k) \cup {c}
      BY <2>1 DEF Connected, Opened
    <3> QED
      BY <2>1, <3>1, <3>2 DEF Connected, Slot!Acquire, Opened
  <2>2. ASSUME UNCHANGED Opened(k), proxies'[k] \in {proxies[k], None}
        PROVE  Slot(k)!Release \/ UNCHANGED Slot(k)!slot
    BY <2>2 DEF Slot!Release
  <2>3. ASSUME NEW c \in Clients, Enter(c) PROVE UNCHANGED Opened(k) /\ UNCHANGED proxies
    <3>1. client[c] \in {"new", "passed"} /\ monitor[c] = "none" /\ UNCHANGED <<monitor, proxies>>
      BY <2>3 DEF Enter, PassGlobal, Admit, Goes, Sound, Coming, sessionVars, mapVars
    <3>2. \A s \in Sessions \ {c} : key'[s] = key[s]
      BY <2>3 DEF Enter, PassGlobal, Admit
    <3> QED
      BY <3>1, <3>2 DEF Opened
  <2>4. ASSUME NEW c \in Clients,
               \/ Look(c) \/ LookAgain(c) \/ (Connected(c) /\ key[c] # k) \/ ConnectFails(c)
               \/ Advance(c) \/ Cleanup(c) \/ MonitorCleans(c) \/ Housekeeping(c)
        PROVE  UNCHANGED Opened(k) /\ proxies'[k] \in {proxies[k], None}
    <3>1. UNCHANGED key
      BY <2>4 DEF Look, LookAgain, Connected, ConnectFails, Advance, Cleanup, MonitorCleans,
        Housekeeping, CountGlobal, CountListener, Uncount, UncountListener, LastOne, GrowsIdle,
        MonitorTick, MonitorEnds, WorkerEnds, Chunk, requestVars
    <3>2. \A s \in Sessions : key[s] = k => (monitor'[s] = "none" <=> monitor[s] = "none")
      BY <2>4 DEF Look, LookAgain, Connected, ConnectFails, Advance, Cleanup, MonitorCleans,
        Housekeeping, CountGlobal, CountListener, Uncount, UncountListener, LastOne, GrowsIdle,
        MonitorTick, MonitorEnds, WorkerEnds, Chunk, sessionVars, MonitorGoes
    <3>3. proxies'[k] \in {proxies[k], None}
      BY <2>4 DEF Look, LookAgain, Connected, ConnectFails, Advance, Cleanup, MonitorCleans,
        Housekeeping, CountGlobal, CountListener, Uncount, UncountListener, LastOne, GrowsIdle,
        MonitorTick, MonitorEnds, WorkerEnds, Chunk, mapVars, CleanupSession
    <3> QED
      BY <3>1, <3>2, <3>3 DEF Opened
  <2>5. CASE Close
    <3>1. UNCHANGED Opened(k) /\ proxies'[k] = None
      BY <2>5 DEF Close, Opened, requestVars, sessionVars
    <3> QED
      BY <2>2, <3>1 DEF Slot!Next
  <2>6. CASE UNCHANGED vars
    BY <2>6 DEF vars, requestVars, mapVars, sessionVars, Opened
  <2>7. ASSUME Next PROVE [Slot(k)!Next]_(Slot(k)!slot)
    <3>1. CASE \E c \in Clients : Connected(c) /\ key[c] = k
      BY <2>1, <3>1 DEF Slot!Next
    <3>2. CASE ~(\E c \in Clients : Connected(c) /\ key[c] = k) /\ ~Close
      <4>0. PICK c \in Clients : \/ Enter(c) \/ Look(c) \/ LookAgain(c) \/ Connected(c)
                               \/ ConnectFails(c) \/ Advance(c) \/ Cleanup(c)
                               \/ MonitorCleans(c) \/ Housekeeping(c)
        BY <2>7, <3>2, Kinds
      <4>1. CASE Enter(c)
        BY <2>2, <2>3, <4>1 DEF Slot!Next
      <4>2. CASE ~Enter(c)
        <5>1. UNCHANGED Opened(k) /\ proxies'[k] \in {proxies[k], None}
          BY <2>4, <3>2, <4>0, <4>2
        <5> QED
          BY <2>2, <5>1 DEF Slot!Next
      <4> QED
        BY <4>1, <4>2
    <3> QED
      BY <2>5, <3>1, <3>2 DEF Slot!Next
  <2> QED
    BY <1>2, <2>6, <2>7
<1> QED
  BY <1>1, <1>2, Invariant, PTL DEF Spec, ImplementsSlot, Slot!Spec
===============================================================================
