--------------------------- MODULE StreamingServer ---------------------------
(***************************************************************************)
(* The streaming server as a process: the manager's map of mountpoints,    *)
(* the source and listener requests and the external streams that look     *)
(* mountpoints up in it, the five-minute tasks, the shutdown in main.go,   *)
(* and a death of the process at any moment, after which only the rows of  *)
(* the stations are left.  Every UPDATE may fail: it is logged, no more.   *)
(*                                                                         *)
(* A mountpoint object is named by the connection whose GetOrCreate made   *)
(* it.  Its source slot is the ExclusiveSlot that SourceSession is shown   *)
(* to implement; its channels are in ListenerHub.                          *)
(***************************************************************************)
EXTENDS Naturals, FiniteSets, Functions

CONSTANTS
  Paths,             \* mountpoint paths, one station each
  Connections,       \* sources of one life of the process: requests and
  Streams,           \* those of them that are attempts of external streams
  Listeners,         \* listener requests of one life of the process
  MaxSourceClients,
  Knows,             \* the paths each request may be for
  None

ASSUME ServerAssumption ==
  /\ IsFiniteSet(Connections) /\ IsFiniteSet(Listeners)
  /\ Streams \subseteq Connections
  /\ MaxSourceClients \in Nat
  /\ Knows \in [Connections \cup Listeners -> SUBSET Paths]
  /\ None \notin Connections \cup Paths

VARIABLES
  server,    \* where main() is
  registry,  \* mm.mountpoints: [Paths -> mountpoint or None]
  slot,      \* the source on the air of each mountpoint, or None
  members,   \* the keys of each mountpoint's listeners map
  source,    \* the source requests and the external streams
  saw,       \* the sources on the air when each of them was let in
  listener,  \* the listener requests
  seen,      \* the count a listener request has read for its UPDATE
  task,      \* runCleanupTasks
  status,    \* stations.status
  count,     \* stations.listeners_count
  raced,     \* paths that two handlers have looked up in vain together
  unclosed   \* the keys CloseAll has not come to yet

mapVars == <<registry, slot, members>>
rowVars == <<status, count>>
vars == <<server, mapVars, source, saw, listener, seen, task, rowVars, raced, unclosed>>

Mountpoints == Connections
Counts == 0 .. Cardinality(Listeners)

SourceState == {"new", "admitted", "absent", "bound", "claimed", "streaming",
                "released", "ended", "done"}
ListenerState == {"new", "found", "attached", "counted", "streaming",
                  "leaving", "recounted", "removing", "done"}

Request(states) ==
  [at : states, path : Paths \cup {None}, mount : Mountpoints \cup {None}]

Idle == [does |-> "sleep"]
Tasks == {Idle}
  \cup [does : {"offline"}, path : Paths]
  \cup [does : {"count"}, path : Paths, n : Counts]

TypeOK ==
  /\ server \in {"up", "closing", "down"}
  /\ registry \in [Paths -> Mountpoints \cup {None}]
  /\ slot \in [Mountpoints -> Connections \cup {None}]
  /\ members \in [Mountpoints -> SUBSET Listeners]
  /\ source \in [Connections -> Request(SourceState)]
  /\ saw \in [Connections -> SUBSET Connections]
  /\ listener \in [Listeners -> Request(ListenerState)]
  /\ seen \in [Listeners -> Counts]
  /\ task \in Tasks
  /\ status \in [Paths -> {"online", "offline"}]
  /\ count \in [Paths -> Counts]
  /\ raced \subseteq Paths /\ unclosed \subseteq Paths

NewRequest == [at |-> "new", path |-> None, mount |-> None]
OldRequest == [at |-> "done", path |-> None, mount |-> None]

\* A memory in which nothing has happened.
NoMap == [p \in Paths |-> None]
NoSlot == [m \in Mountpoints |-> None]
NoMembers == [m \in Mountpoints |-> {}]
NoRequests(R) == [r \in R |-> NewRequest]

Init ==
  /\ server = "down"
  /\ registry = NoMap /\ slot = NoSlot /\ members = NoMembers
  /\ source = NoRequests(Connections) /\ saw = [c \in Connections |-> {}]
  /\ listener = NoRequests(Listeners) /\ seen = [l \in Listeners |-> 0]
  /\ task = Idle
  /\ raced = {} /\ unclosed = {}
  /\ status = [p \in Paths |-> "offline"]
  /\ count = [p \in Paths |-> 0]

Running == server # "down"   \* s.running
Online(p) == registry[p] # None /\ slot[registry[p]] # None
Counted == {slot[registry[p]] : p \in {q \in Paths : Online(q)}}

\* UpdateStationStatus, which may fail.
SetStatus(p, value) == status' \in {status, [status EXCEPT ![p] = value]}

-----------------------------------------------------------------------------
(***************************************************************************)
(* A source request: the limit, then (after the body's first bytes)        *)
(* GetOrCreate, TrySetSource and the rest of HandleSource.                 *)
(***************************************************************************)
SourceIs(c, from, to) ==
  /\ source[c].at = from
  /\ source' = [source EXCEPT ![c].at = to]

\* The handler returns and its variables are gone.
SourceEnds(c, from) ==
  /\ source[c].at = from
  /\ source' = [source EXCEPT ![c] = OldRequest]
  /\ saw' = [saw EXCEPT ![c] = {}]

SourceRest == <<server, listener, seen, task, unclosed>>

\* Mutant of Admit: the limit may be passed by one.
AdmitOneMore(c) ==
  /\ server = "up" /\ c \notin Streams /\ source[c].at = "new"
  /\ Cardinality(Counted) <= MaxSourceClients
  /\ \E p \in Knows[c] :
       source' = [source EXCEPT ![c] = [at |-> "admitted", path |-> p, mount |-> None]]
  /\ saw' = [saw EXCEPT ![c] = Counted]
  /\ UNCHANGED <<SourceRest, mapVars, rowVars, raced>>

\* A request is refused when MaxSourceClients mountpoints have a source.
Admit(c) ==
  /\ server = "up" /\ c \notin Streams /\ source[c].at = "new"
  /\ Cardinality(Counted) < MaxSourceClients
  /\ \E p \in Knows[c] :
       source' = [source EXCEPT ![c] = [at |-> "admitted", path |-> p, mount |-> None]]
  /\ saw' = [saw EXCEPT ![c] = Counted]
  /\ UNCHANGED <<SourceRest, mapVars, rowVars, raced>>

\* The address asks too often, or the limit is reached.
LimitSource(c) ==
  /\ server = "up" /\ c \notin Streams
  /\ SourceEnds(c, "new")
  /\ UNCHANGED <<SourceRest, mapVars, rowVars, raced>>

\* HandleSource finds a path, a password, a type or first bytes that will not do.
Reject(c) ==
  /\ c \notin Streams
  /\ SourceEnds(c, "admitted")
  /\ UNCHANGED <<SourceRest, mapVars, rowVars, raced>>

\* Mutant of Load: every request makes a mountpoint of its own.
LoadNothing(c) ==
  /\ SourceIs(c, "admitted", "absent")
  /\ UNCHANGED <<SourceRest, saw, mapVars, rowVars, raced>>

\* The Load of GetOrCreate.
Load(c) ==
  LET p == source[c].path IN
  /\ source[c].at = "admitted"
  /\ source' = [source EXCEPT
       ![c].at = IF registry[p] = None THEN "absent" ELSE "bound",
       ![c].mount = registry[p]]
  /\ raced' = IF /\ registry[p] = None
                 /\ \E d \in Connections : source[d].at = "absent" /\ source[d].path = p
              THEN raced \cup {p} ELSE raced
  /\ UNCHANGED <<SourceRest, saw, mapVars, rowVars>>

\* The Store of GetOrCreate: whatever the path has by now is replaced.
Store(c) ==
  /\ source[c].at = "absent"
  /\ source' = [source EXCEPT ![c].at = "bound", ![c].mount = c]
  /\ registry' = [registry EXCEPT ![source[c].path] = c]
  /\ UNCHANGED <<SourceRest, saw, slot, members, rowVars, raced>>

Claim(c) ==
  /\ SourceIs(c, "bound", "claimed")
  /\ slot[source[c].mount] = None
  /\ slot' = [slot EXCEPT ![source[c].mount] = c]
  /\ UNCHANGED <<SourceRest, saw, registry, members, rowVars, raced>>

Refuse(c) ==
  /\ c \notin Streams
  /\ SourceEnds(c, "bound")
  /\ slot[source[c].mount] # None
  /\ UNCHANGED <<SourceRest, mapVars, rowVars, raced>>

MarkOnline(c) ==
  /\ SourceIs(c, "claimed", "streaming")
  /\ SetStatus(source[c].path, "online")
  /\ UNCHANGED <<SourceRest, saw, mapVars, count, raced>>

\* ExclusiveSlot!Release by anybody else: a reader's exit, an owner's stop.
SlotFrees(m) ==
  /\ slot[m] # None
  /\ slot' = [slot EXCEPT ![m] = None]
  /\ UNCHANGED <<SourceRest, source, saw, registry, members, rowVars, raced>>

\* The broadcaster has left: RemoveSource.
Release(c) ==
  /\ c \notin Streams
  /\ SourceIs(c, "streaming", "released")
  /\ slot' = [slot EXCEPT ![source[c].mount] = None]
  /\ UNCHANGED <<SourceRest, saw, registry, members, rowVars, raced>>

MarkOffline(c) ==
  /\ c \notin Streams
  /\ SourceEnds(c, "released")
  /\ SetStatus(source[c].path, "offline")
  /\ UNCHANGED <<SourceRest, mapVars, count, raced>>

(***************************************************************************)
(* An attempt of an external stream claims the slot of its mountpoint in   *)
(* the same way, whatever the limit, and does not free it: it closes its   *)
(* pipe, and the mountpoint's reader leaves (SlotFrees) before or after    *)
(* the status is written.                                                  *)
(***************************************************************************)
StreamStarts(c) ==
  /\ Running /\ c \in Streams /\ source[c].at = "new"
  /\ \E p \in Knows[c] :
       source' = [source EXCEPT ![c] = [at |-> "admitted", path |-> p, mount |-> None]]
  /\ saw' = [saw EXCEPT ![c] = Counted]
  /\ UNCHANGED <<SourceRest, mapVars, rowVars, raced>>

\* It is cancelled or finds no playlist, is refused, or closes its pipe.
StreamFails(c) ==
  /\ c \in Streams
  /\ \/ SourceIs(c, "admitted", "released")
     \/ SourceIs(c, "bound", "released") /\ slot[source[c].mount] # None
     \/ SourceIs(c, "streaming", "released")
  /\ UNCHANGED <<SourceRest, saw, mapVars, rowVars, raced>>

\* The goroutine's deferred UPDATE; an attempt that is retried has none.
StreamOffline(c) ==
  /\ c \in Streams
  /\ SourceIs(c, "released", "ended")
  /\ SetStatus(source[c].path, "offline")
  /\ UNCHANGED <<SourceRest, saw, mapVars, count, raced>>

\* Nothing is left of the attempt once its pipe's reader has gone.
StreamOver(c) ==
  /\ c \in Streams
  /\ SourceEnds(c, "ended")
  /\ \A m \in Mountpoints : slot[m] # c
  /\ UNCHANGED <<SourceRest, mapVars, rowVars, raced>>

SourceMoves(c) ==
  \/ Reject(c) \/ Load(c) \/ Store(c) \/ Claim(c) \/ Refuse(c)
  \/ MarkOnline(c) \/ Release(c) \/ MarkOffline(c)
  \/ StreamStarts(c) \/ StreamFails(c) \/ StreamOffline(c) \/ StreamOver(c)

-----------------------------------------------------------------------------
(***************************************************************************)
(* A listener request keeps the mountpoint it has found, whatever the map  *)
(* holds later; its two counts are read and written in separate steps.     *)
(***************************************************************************)
ListenerIs(l, from, to) ==
  /\ listener[l].at = from
  /\ listener' = [listener EXCEPT ![l].at = to]

ListenerRest == <<server, registry, slot, source, saw, task, status, raced, unclosed>>

\* HandleListener gets the mountpoint.
Find(l) ==
  /\ server = "up" /\ listener[l].at = "new"
  /\ \E p \in Knows[l] :
       /\ registry[p] # None
       /\ listener' = [listener EXCEPT
                         ![l] = [at |-> "found", path |-> p, mount |-> registry[p]]]
  /\ UNCHANGED <<ListenerRest, members, seen, count>>

\* The address asks too often, or the path has no mountpoint.
TurnAway(l) ==
  /\ server = "up" /\ listener[l].at = "new"
  /\ listener' = [listener EXCEPT ![l] = OldRequest]
  /\ UNCHANGED <<ListenerRest, members, seen, count>>

Attach(l) ==
  /\ ListenerIs(l, "found", "attached")
  /\ members' = [members EXCEPT ![listener[l].mount] = @ \cup {l}]
  /\ UNCHANGED <<ListenerRest, seen, count>>

\* GetListenerCount, in the body and in the deferred function alike.
ReadCount(l) ==
  /\ ListenerIs(l, "attached", "counted") \/ ListenerIs(l, "leaving", "recounted")
  /\ seen' = [seen EXCEPT ![l] = Cardinality(members[listener[l].mount])]
  /\ UNCHANGED <<ListenerRest, members, count>>

\* UpdateStationListenerCount, which may fail.
WriteCount(l) ==
  /\ ListenerIs(l, "counted", "streaming") \/ ListenerIs(l, "recounted", "removing")
  /\ count' \in {count, [count EXCEPT ![listener[l].path] = seen[l]]}
  /\ seen' = [seen EXCEPT ![l] = 0]
  /\ UNCHANGED <<ListenerRest, members>>

Leaves(l) ==
  /\ ListenerIs(l, "streaming", "leaving")
  /\ UNCHANGED <<ListenerRest, members, seen, count>>

\* The client leaves at any time.
ClientLeaves(l) == Leaves(l) /\ l \in members[listener[l].mount]

\* streamAudio finds the channel closed by Close.
SeeClosed(l) == Leaves(l) /\ l \notin members[listener[l].mount]

RemoveListener(l) ==
  /\ listener[l].at = "removing"
  /\ listener' = [listener EXCEPT ![l] = OldRequest]
  /\ members' = [members EXCEPT ![listener[l].mount] = @ \ {l}]
  /\ UNCHANGED <<ListenerRest, seen, count>>

ListenerMoves(l) ==
  \/ Attach(l) \/ ReadCount(l) \/ WriteCount(l) \/ SeeClosed(l) \/ RemoveListener(l)

-----------------------------------------------------------------------------
(***************************************************************************)
(* runCleanupTasks, one mountpoint of the map after the other.  Stop keeps *)
(* s.mu for its whole grace period and the task waits for it, so only a    *)
(* round that is under way goes on while the server stops.  A check whose  *)
(* UPDATE fails changes nothing, and is left out.                          *)
(***************************************************************************)
TaskRest == <<server, mapVars, source, saw, listener, seen, raced, unclosed>>

\* Mutant of CleanupCheck: only mountpoints that somebody listens to are looked at.
CleanupHeard(p) ==
  /\ Running /\ task = Idle
  /\ registry[p] # None /\ ~Online(p) /\ members[registry[p]] # {}
  /\ task' = [does |-> "offline", path |-> p]
  /\ UNCHANGED <<TaskRest, rowVars>>

CleanupCheck(p) ==
  /\ Running /\ task = Idle
  /\ registry[p] # None /\ ~Online(p)
  /\ task' = [does |-> "offline", path |-> p]
  /\ UNCHANGED <<TaskRest, rowVars>>

StatsRead(p) ==
  /\ Running /\ task = Idle
  /\ registry[p] # None
  /\ task' = [does |-> "count", path |-> p,
              n |-> Cardinality(members[registry[p]])]
  /\ UNCHANGED <<TaskRest, rowVars>>

TaskWrites ==
  /\ task # Idle
  /\ IF task.does = "count"
       THEN count' = [count EXCEPT ![task.path] = task.n] /\ UNCHANGED status
       ELSE status' = [status EXCEPT ![task.path] = "offline"] /\ UNCHANGED count
  /\ task' = Idle
  /\ UNCHANGED TaskRest

-----------------------------------------------------------------------------
(***************************************************************************)
(* main(): a signal ends the wait; server.Shutdown takes no new requests   *)
(* and waits for those under way, though no longer than its context; then  *)
(* the deferred calls stop the streaming server and close the database.    *)
(* The wait is a stretch of "up" in which no request comes.                *)
(***************************************************************************)
ServerGoes(from, to) == server = from /\ server' = to

MainRest == <<source, saw, listener, seen, task, rowVars, raced, unclosed>>

\* The rows are what the last life left: nothing resets them.
Start ==
  /\ ServerGoes("down", "up")
  /\ UNCHANGED <<MainRest, mapVars>>

\* Shutdown has returned, at the latest after its 30 s, and Stop has had its grace
\* period: CloseAll ranges over the keys of the map.
Stop ==
  /\ ServerGoes("up", "closing")
  /\ unclosed' = {p \in Paths : registry[p] # None}
  /\ UNCHANGED <<source, saw, listener, seen, task, rowVars, raced, mapVars>>

\* Close takes the source and the listeners of one mountpoint.
CloseMountpoint(p) ==
  LET m == registry[p] IN
  /\ server = "closing" /\ p \in unclosed
  /\ unclosed' = unclosed \ {p}
  /\ slot' = [n \in Mountpoints |-> IF n = m THEN None ELSE slot[n]]
  /\ members' = [n \in Mountpoints |-> IF n = m THEN {} ELSE members[n]]
  /\ UNCHANGED <<server, source, saw, listener, seen, task, rowVars, raced, registry>>

\* The process is over and takes every handler with it.
Die ==
  /\ Running
  /\ server' = "down"
  /\ registry' = NoMap /\ slot' = NoSlot /\ members' = NoMembers
  /\ source' = NoRequests(Connections) /\ saw' = [c \in Connections |-> {}]
  /\ listener' = NoRequests(Listeners) /\ seen' = [l \in Listeners |-> 0]
  /\ task' = Idle
  /\ raced' = {} /\ unclosed' = {}
  /\ UNCHANGED rowVars

\* CloseAll replaces the map, s.running is false and main() returns.  What a handler
\* does to the rows in between it may do before: nobody looks at the new map.
Exit == server = "closing" /\ unclosed = {} /\ Die
Crash == (server = "up" \/ unclosed # {}) /\ Die

MainMoves == Stop \/ (\E p \in Paths : CloseMountpoint(p)) \/ Exit

-----------------------------------------------------------------------------
Next ==
  \/ \E c \in Connections : Admit(c) \/ LimitSource(c) \/ SourceMoves(c)
  \/ \E m \in Mountpoints : SlotFrees(m)
  \/ \E l \in Listeners : Find(l) \/ TurnAway(l) \/ ListenerMoves(l) \/ ClientLeaves(l)
  \/ \E p \in Paths : CleanupCheck(p) \/ StatsRead(p)
  \/ TaskWrites
  \/ Start \/ MainMoves \/ Crash

Spec == Init /\ [][Next]_vars

(***************************************************************************)
(* Fairness: the tasks reach every mountpoint of the map time and again,   *)
(* and not every UPDATE of theirs fails.  Nothing is assumed of clients    *)
(* and handlers, and nobody has to start or stop the process.              *)
(***************************************************************************)
Fairness ==
  /\ \A p \in Paths : SF_vars(CleanupCheck(p)) /\ SF_vars(StatsRead(p))
  /\ WF_vars(TaskWrites)

FairSpec == Spec /\ Fairness

-----------------------------------------------------------------------------
\* Until the server stops, whoever has a mountpoint has the one the map has:
\* a listener hears the path's broadcaster, and TrySetSource keeps a second
\* one off.  Only two requests that had both looked for the mountpoint before
\* either had made one (GetOrCreate's Load and Store) can be apart, and a
\* listener attaches to a closed mountpoint only after Stop.
OneMountpointPerPath ==
  Running =>
    \A r \in Range(source) \cup Range(listener) :
      r.mount # None => r.mount = registry[r.path] \/ r.path \in raced

\* The limit on sources (icecast.go, active_sources) is passed only by two
\* sources neither of which was on the air when the other was let in, or by
\* an external stream, which nobody counts: it started at the limit.
LimitNeedsOverlap ==
  Cardinality(Counted) > MaxSourceClients =>
    \/ \E c, d \in Counted : c # d /\ c \notin saw[d] /\ d \notin saw[c]
    \/ \E c \in Counted \cap Streams : Cardinality(saw[c]) >= MaxSourceClients

\* Once the clients of a running server keep still, the row of every path
\* that has been used since the start says what the mountpoint says, also
\* when a crash had left it online: the five-minute tasks repair it for good.
Calm ==
  /\ server = "up"
  /\ \A c \in Connections : source[c].at \in {"new", "done"}
  /\ \A l \in Listeners : listener[l].at \in {"new", "streaming", "done"}
RowIsRight(p) ==
  /\ status[p] = "offline"
  /\ count[p] = Cardinality(members[registry[p]])
RowsSettle ==
  <>[]Calm => <>[](\A p \in Paths : registry[p] # None => RowIsRight(p))
=============================================================================
