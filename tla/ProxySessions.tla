---------------------------- MODULE ProxySessions ----------------------------
(***************************************************************************)
(* The proxy for federated streams: the requests of ServeHTTP, the map of  *)
(* sessions behind activeProxiesMu, and the two goroutines of each         *)
(* session.  A session is named by the request that made it.  Every client *)
(* has a connection of its own to the remote node; the session's is never  *)
(* read.                                                                   *)
(***************************************************************************)
EXTENDS Naturals, FiniteSets

CONSTANTS
  Keys,        \* node address and mountpoint
  Clients,     \* requests for /stream/federated/...
  MaxProxies,  \* maxProxiesGlobal
  MaxPerIP,    \* maxProxiesPerIP, which is compared with all sessions
  None

ASSUME ProxyAssumption ==
  /\ IsFiniteSet(Clients)
  /\ MaxProxies \in Nat /\ MaxPerIP \in Nat
  /\ None \notin Clients \cup Keys

VARIABLES
  client,     \* where each request is in ServeHTTP
  key,        \* the session key each request is for
  session,    \* the session it has got
  saw,        \* the requests each one was counted against
  lock,       \* who keeps activeProxiesMu while it connects
  proxies,    \* activeProxies: [Keys -> session or None]
  current,    \* currentProxies
  listeners,  \* the listeners of each session
  cancelled,  \* sessions whose context is cancelled and reader closed
  idle,       \* since the last read: 0, over a minute, over two minutes
  monitor,    \* healthMonitor of each session
  worker      \* metadataUpdateWorker of each session

requestVars == <<client, key, session, saw>>
mapVars == <<lock, proxies, cancelled>>
countVars == <<current, listeners>>
sessionVars == <<idle, monitor, worker>>
vars == <<requestVars, mapVars, countVars, sessionVars>>

Sessions == Clients

ClientState ==
  {"new", "passed", "admitted", "missing", "connecting", "got", "counted", "streaming",
   "uncounted", "left", "cleaning", "done"}

TypeOK ==
  /\ client \in [Clients -> ClientState]
  /\ key \in [Clients -> Keys \cup {None}]
  /\ session \in [Clients -> Sessions \cup {None}]
  /\ saw \in [Clients -> SUBSET Clients]
  /\ lock \in Clients \cup {None}
  /\ proxies \in [Keys -> Sessions \cup {None}]
  /\ current \in 0 .. Cardinality(Clients)
  /\ listeners \in [Sessions -> 0 .. Cardinality(Clients)]
  /\ cancelled \subseteq Sessions
  /\ idle \in [Sessions -> 0 .. 2]
  /\ monitor \in [Sessions -> {"none", "watch", "clean", "done"}]
  /\ worker \in [Sessions -> {"none", "run", "done"}]

Init ==
  /\ client = [c \in Clients |-> "new"]
  /\ key = [c \in Clients |-> None]
  /\ session = [c \in Clients |-> None]
  /\ saw = [c \in Clients |-> {}]
  /\ lock = None
  /\ proxies = [k \in Keys |-> None]
  /\ current = 0
  /\ listeners = [s \in Sessions |-> 0]
  /\ cancelled = {}
  /\ idle = [s \in Sessions |-> 0]
  /\ monitor = [s \in Sessions |-> "none"]
  /\ worker = [s \in Sessions |-> "none"]

Goes(c, from, to) ==
  /\ client[c] = from
  /\ client' = [client EXCEPT ![c] = to]

Listed == {proxies[k] : k \in Keys} \ {None}
InUse == {s \in Listed : listeners[s] > 0}
Counted == {c \in Clients : client[c] \in {"counted", "streaming"}}

-----------------------------------------------------------------------------
(***************************************************************************)
(* ServeHTTP up to the session.                                            *)
(***************************************************************************)

\* Mutant of PassGlobal: the limit may be passed by one.
PassOneMore(c) ==
  /\ Goes(c, "new", "passed")
  /\ current <= MaxProxies
  /\ saw' = [saw EXCEPT ![c] = Counted]
  /\ UNCHANGED <<key, session, mapVars, countVars, sessionVars>>

\* The two limits are read one after the other ...
PassGlobal(c) ==
  /\ Goes(c, "new", "passed")
  /\ current < MaxProxies
  /\ saw' = [saw EXCEPT ![c] = Counted]
  /\ UNCHANGED <<key, session, mapVars, countVars, sessionVars>>

\* ... and the station's row is fine.
Admit(c) ==
  /\ Goes(c, "passed", "admitted")
  /\ lock = None /\ Cardinality(InUse) < MaxPerIP
  /\ key' \in {[key EXCEPT ![c] = k] : k \in Keys}
  /\ UNCHANGED <<session, saw, mapVars, countVars, sessionVars>>

Enter(c) == PassGlobal(c) \/ Admit(c)

\* getOrCreateSession looks with the read lock ...
Look(c) ==
  LET s == proxies[key[c]] IN
  /\ lock = None
  /\ Goes(c, "admitted", IF s = None THEN "missing" ELSE "got")
  /\ session' = [session EXCEPT ![c] = s]
  /\ UNCHANGED <<key, saw, mapVars, countVars, sessionVars>>

\* Mutant of LookAgain: no second look with the write lock.
LookOnce(c) ==
  /\ lock = None
  /\ Goes(c, "missing", "connecting")
  /\ lock' = c
  /\ UNCHANGED <<key, session, saw, proxies, cancelled, countVars, sessionVars>>

\* ... and again with the write lock, which it keeps while it connects.
LookAgain(c) ==
  LET s == proxies[key[c]] IN
  /\ lock = None
  /\ Goes(c, "missing", IF s = None THEN "connecting" ELSE "got")
  /\ session' = [session EXCEPT ![c] = s]
  /\ lock' = IF s = None THEN c ELSE None
  /\ UNCHANGED <<key, saw, proxies, cancelled, countVars, sessionVars>>

\* The remote node answers: the session and its goroutines start.
Connected(c) ==
  /\ Goes(c, "connecting", "got")
  /\ session' = [session EXCEPT ![c] = c]
  /\ proxies' = [proxies EXCEPT ![key[c]] = c]
  /\ monitor' = [monitor EXCEPT ![c] = "watch"]
  /\ worker' = [worker EXCEPT ![c] = "run"]
  /\ lock' = None
  /\ UNCHANGED <<key, saw, cancelled, countVars, idle>>

\* 502, before anything is counted.
ConnectFails(c) ==
  /\ Goes(c, "connecting", "done")
  /\ lock' = None
  /\ saw' = [saw EXCEPT ![c] = {}]
  /\ UNCHANGED <<key, session, proxies, cancelled, countVars, sessionVars>>

-----------------------------------------------------------------------------
(***************************************************************************)
(* The counted part of ServeHTTP and its deferred function.                *)
(***************************************************************************)
\* Mutant of CountGlobal: what the deferred function takes off was never added.
CountNothing(c) ==
  /\ Goes(c, "got", "counted")
  /\ UNCHANGED <<key, session, saw, mapVars, countVars, sessionVars>>

CountGlobal(c) ==
  /\ Goes(c, "got", "counted")
  /\ current' = current + 1
  /\ UNCHANGED <<key, session, saw, mapVars, listeners, sessionVars>>

CountListener(c) ==
  /\ Goes(c, "counted", "streaming")
  /\ listeners' = [listeners EXCEPT ![session[c]] = @ + 1]
  /\ UNCHANGED <<key, session, saw, mapVars, current, sessionVars>>

\* A chunk reaches the client and refreshes the session, cancelled or not;
\* only a monitor that still watches cares.
Chunk(c) ==
  /\ client[c] = "streaming" /\ monitor[session[c]] = "watch"
  /\ idle[session[c]] > 0
  /\ idle' = [idle EXCEPT ![session[c]] = 0]
  /\ UNCHANGED <<requestVars, mapVars, countVars, monitor, worker>>

\* streamToClient returns (no connection, an error, the end of the stream,
\* a client or a session that is gone); the deferred function begins.
Uncount(c) ==
  /\ Goes(c, "streaming", "uncounted")
  /\ current' = current - 1
  /\ saw' = [saw EXCEPT ![c] = {}]
  /\ UNCHANGED <<key, session, mapVars, listeners, sessionVars>>

UncountListener(c) ==
  /\ Goes(c, "uncounted", "left")
  /\ listeners' = [listeners EXCEPT ![session[c]] = @ - 1]
  /\ UNCHANGED <<key, session, saw, mapVars, current, sessionVars>>

\* Mutant of LastOne: the comparison still counts the request itself.
LastOneOfTwo(c) ==
  /\ Goes(c, "left", IF listeners[session[c]] = 1 THEN "cleaning" ELSE "done")
  /\ UNCHANGED <<key, session, saw, mapVars, countVars, sessionVars>>

LastOne(c) ==
  /\ Goes(c, "left", IF listeners[session[c]] = 0 THEN "cleaning" ELSE "done")
  /\ UNCHANGED <<key, session, saw, mapVars, countVars, sessionVars>>

(***************************************************************************)
(* cleanupSession ends whatever session the key has by now.                *)
(***************************************************************************)
CleanupSession(k) ==
  /\ lock = None
  /\ cancelled' = cancelled \cup ({proxies[k]} \ {None})
  /\ proxies' = [proxies EXCEPT ![k] = None]
  /\ UNCHANGED lock

Cleanup(c) ==
  /\ Goes(c, "cleaning", "done")
  /\ CleanupSession(key[c])
  /\ UNCHANGED <<key, session, saw, countVars, sessionVars>>

ClientMoves(c) ==
  \/ Look(c) \/ LookAgain(c) \/ Connected(c) \/ ConnectFails(c)
  \/ CountGlobal(c) \/ CountListener(c)
  \/ UncountListener(c) \/ LastOne(c) \/ Cleanup(c)

-----------------------------------------------------------------------------
(***************************************************************************)
(* The goroutines of a session.                                            *)
(***************************************************************************)
MonitorGoes(s, from, to) ==
  /\ monitor[s] = from
  /\ monitor' = [monitor EXCEPT ![s] = to]

\* A minute passes without a read.
GrowsIdle(s) ==
  /\ monitor[s] = "watch" /\ idle[s] < 2
  /\ idle' = [idle EXCEPT ![s] = @ + 1]
  /\ UNCHANGED <<requestVars, mapVars, countVars, monitor, worker>>

\* A tick of ten seconds; it may win the select against a cancelled context.
MonitorTick(s) ==
  /\ MonitorGoes(s, "watch", "clean")
  /\ idle[s] = 2 \/ (idle[s] = 1 /\ listeners[s] = 0)
  /\ UNCHANGED <<requestVars, mapVars, countVars, idle, worker>>

MonitorCleans(s) ==
  /\ MonitorGoes(s, "clean", "done")
  /\ CleanupSession(key[s])
  /\ UNCHANGED <<requestVars, countVars, idle, worker>>

MonitorEnds(s) ==
  /\ s \in cancelled
  /\ MonitorGoes(s, "watch", "done")
  /\ UNCHANGED <<requestVars, mapVars, countVars, idle, worker>>

\* The worker ends with the session, and after five failures or half a
\* minute without a read also before it.
WorkerEnds(s) ==
  /\ worker[s] = "run"
  /\ worker' = [worker EXCEPT ![s] = "done"]
  /\ UNCHANGED <<requestVars, mapVars, countVars, idle, monitor>>

\* ProxyHandler.Close; later requests find an empty map and start anew.
Close ==
  /\ lock = None /\ Listed # {}
  /\ cancelled' = cancelled \cup Listed
  /\ proxies' = [k \in Keys |-> None]
  /\ UNCHANGED <<lock, requestVars, countVars, sessionVars>>

Next ==
  \/ \E c \in Clients :
       Enter(c) \/ ClientMoves(c) \/ Uncount(c) \/ Chunk(c)
  \/ \E s \in Sessions :
       \/ GrowsIdle(s) \/ MonitorTick(s) \/ MonitorCleans(s) \/ MonitorEnds(s)
       \/ WorkerEnds(s)
  \/ Close

Spec == Init /\ [][Next]_vars

-----------------------------------------------------------------------------
\* A session in the map has a request that has got it and has not yet seen
\* whether it is the last: whatever counts and cleanups overlap, no session
\* is left in the map with nobody to remove it but the monitor.
SessionIsOwed ==
  \A s \in Listed :
    \E c \in Clients :
      /\ session[c] = s
      /\ client[c] \in {"got", "counted", "streaming", "uncounted", "left", "cleaning"}

\* A session that has not been cancelled is the one its key has in the map,
\* and its monitor is there: no session is forgotten with its connection and
\* its goroutines still open.
LiveIsListed ==
  \A s \in Sessions :
    monitor[s] # "none" /\ s \notin cancelled =>
      proxies[key[s]] = s /\ monitor[s] \in {"watch", "clean"}

\* The limit is passed only by requests that were let in before the other
\* was counted.
LimitNeedsOverlap ==
  Cardinality(Counted) > MaxProxies =>
    \E c, d \in Counted : c # d /\ c \notin saw[d] /\ d \notin saw[c]

(***************************************************************************)
(* What the map promises at each key: the connection to the remote node is *)
(* as exclusive as the slot of a mountpoint.                               *)
(***************************************************************************)
Opened(k) == {s \in Sessions : key[s] = k /\ monitor[s] # "none"}
Slot(k) == INSTANCE ExclusiveSlot WITH
  Sources <- Sessions, holder <- proxies[k], served <- Opened(k)

\* A session gets into the map only when its key has none, and does not come
\* back after a cleanup, a monitor or Close has taken it out, although looking,
\* connecting and storing are separate steps.
ImplementsSlot(k) == Slot(k)!Spec
=============================================================================
