----------------------------- MODULE Federation -----------------------------
(* The federation: radio nodes that register with a federation server, the
   server that pulls their public stations, and one radio node's client that
   caches the server's listing.

   Nodes are told apart by their key, which the server finds them by; the
   address follows from it.  Each node has one public station or none.  The
   clock ticks once per interval of pulls, which is the interval of queries
   too (60 s by default); the other intervals are in ticks.  Sending a
   statement to a database takes no time on this scale, a request to a node
   that does not answer takes up to NodeTimeout. *)
EXTENDS Integers, FiniteSets

CONSTANTS
    Nodes,          \* radio nodes, by public key
    Stations,       \* those that may have a station
    NodeTimeout,    \* federation.node_timeout
    MaintainEvery,  \* the five minutes between maintenance cycles
    StationTTL,     \* federation.station_ttl
    MaxFailures,    \* federation.max_consecutive_failures
    RegisterEvery,  \* federation.register_interval of the nodes
    Horizon         \* the longest time a mode is remembered

ASSUME TimesAssumption ==
    {NodeTimeout, MaintainEvery, StationTTL, MaxFailures, RegisterEvery, Horizon}
        \subseteq Nat \ {0}

ASSUME NodesAssumption == IsFiniteSet(Nodes) /\ Stations \subseteq Nodes

VARIABLES
    mode,       \* "on": reachable with a station; "empty": reachable, none; "down"
    since,      \* for how many ticks, at most Horizon
    registerIn, \* ticks to the node's next registration
    row,        \* federation_nodes
    station,    \* federated_stations: ticks since last_seen, or Absent
    pullDue,    \* the pull task's ticker has fired
    todo,       \* nodes the pull cycle has still to ask
    pull,       \* the request under way
    maintainIn, \* ticks to the next maintenance cycle
    marked      \* the maintenance cycle is between its two statements

nodeVars == <<mode, since, registerIn>>
serverVars == <<row, station>>
pullVars == <<pullDue, todo, pull>>
maintainVars == <<maintainIn, marked>>
vars == <<nodeVars, serverVars, pullVars, maintainVars>>

Modes(n) == {"empty", "down"} \cup IF n \in Stations THEN {"on"} ELSE {}
Absent == -1
Reachable(n) == mode[n] # "down"

\* Ages beyond the limit they are compared with are not told apart.
Older(age, limit) == IF age = Absent \/ age > limit THEN age ELSE age + 1
Sooner(t) == IF t = 0 THEN 0 ELSE t - 1

NoRow == [status |-> "none", failures |-> 0, seen |-> 0]
Rows == [status : {"none", "active", "offline"}, failures : 0..MaxFailures,
         seen : 0..NodeTimeout + 1]

Idle == [stage |-> "idle"]
Pulls == {Idle} \cup [stage : {"asked"}, node : Nodes, waited : 0..NodeTimeout]
                \cup [stage : {"answered"}, node : Nodes, offers : BOOLEAN]

TypeOK ==
    /\ mode \in [Nodes -> UNION {Modes(n) : n \in Nodes}]
    /\ since \in [Stations -> 0..Horizon]
    /\ registerIn \in [Nodes -> 0..RegisterEvery]
    /\ row \in [Nodes -> Rows]
    /\ station \in [Nodes -> {Absent} \cup 0..StationTTL + 1]
    /\ pullDue \in BOOLEAN /\ todo \subseteq Nodes /\ pull \in Pulls
    /\ maintainIn \in 0..MaintainEvery /\ marked \in BOOLEAN

(* All nodes are down and unknown; both of the server's tasks run at once. *)
Init ==
    /\ mode = [n \in Nodes |-> "down"] /\ since = [n \in Stations |-> Horizon]
    /\ registerIn = [n \in Nodes |-> 0]
    /\ row = [n \in Nodes |-> NoRow]
    /\ station = [n \in Nodes |-> Absent]
    /\ pullDue = TRUE /\ todo = {} /\ pull = Idle
    /\ maintainIn = 0 /\ marked = FALSE

-----------------------------------------------------------------------------
(* The nodes *)

\* A node stops, loses its network, comes back, or its owner adds or deletes
\* the station.  One that was restarted registers at once, one that was only
\* unreachable when its timer says so.
Change(n, m) ==
    /\ m # mode[n]
    /\ mode' = [mode EXCEPT ![n] = m]
    /\ since' = [s \in Stations |-> IF s = n THEN 0 ELSE since[s]]
    /\ \/ UNCHANGED registerIn
       \/ /\ ~Reachable(n)
          /\ registerIn' = [registerIn EXCEPT ![n] = 0]
    /\ UNCHANGED <<serverVars, pullVars, maintainVars>>

RegistrationDue(n) == registerIn[n] = 0

\* A faulty UPDATE that leaves consecutive_failures.
RegisteredWithFailures(r) == [r EXCEPT !.status = "active", !.seen = 0]

\* What RegisterNode makes of the node's row, new or known.
Registered(r) == [r EXCEPT !.status = "active", !.failures = 0, !.seen = 0]

Register(n) ==
    /\ RegistrationDue(n)
    /\ registerIn' = [registerIn EXCEPT ![n] = RegisterEvery]
    /\ row' = IF Reachable(n) THEN [row EXCEPT ![n] = Registered(@)] ELSE row
    /\ UNCHANGED <<mode, since, station, pullVars, maintainVars>>

-----------------------------------------------------------------------------
(* The server's pull task *)

ActiveNodes == {n \in Nodes : row[n].status = "active"}

\* The cycle reads its list of nodes once.
PullFromAllNodes ==
    /\ pullDue /\ todo = {} /\ pull = Idle
    /\ pullDue' = FALSE
    /\ todo' = ActiveNodes
    /\ UNCHANGED <<nodeVars, serverVars, pull, maintainVars>>

Ask(n) ==
    /\ pull = Idle /\ n \in todo
    /\ todo' = todo \ {n}
    /\ pull' = [stage |-> "asked", node |-> n, waited |-> 0]
    /\ UNCHANGED <<nodeVars, serverVars, pullDue, maintainVars>>

\* The node serves its public stations; the answer is stored a step later.
Answer ==
    /\ pull.stage = "asked" /\ Reachable(pull.node)
    /\ pull' = [stage |-> "answered", node |-> pull.node,
                offers |-> mode[pull.node] = "on"]
    /\ UNCHANGED <<nodeVars, serverVars, pullDue, todo, maintainVars>>

PullSucceeded(r) == [r EXCEPT !.status = "active", !.failures = 0]

\* Faulty upserts: one that touches rows the answer does not list, one that does
\* not touch last_seen of a known row.
UpsertedAnyway(age, offered) == 0
InsertedOnly(age, offered) == IF offered /\ age = Absent THEN 0 ELSE age

\* What UpsertStation leaves of the station's row.
Upserted(age, offered) == IF offered THEN 0 ELSE age

Store ==
    /\ pull.stage = "answered"
    /\ station' = [station EXCEPT ![pull.node] = Upserted(@, pull.offers)]
    /\ row' = [row EXCEPT ![pull.node] = PullSucceeded(@)]
    /\ pull' = Idle
    /\ UNCHANGED <<nodeVars, pullDue, todo, maintainVars>>

PullFailed(r) ==
    [status |-> IF r.failures + 1 >= MaxFailures THEN "offline" ELSE r.status,
     failures |-> r.failures + 1, seen |-> r.seen]

\* Refused at once or timed out, or any moment in between.
HandlePullError ==
    /\ pull.stage = "asked" /\ ~Reachable(pull.node)
    /\ row' = [row EXCEPT ![pull.node] = PullFailed(@)]
    /\ pull' = Idle
    /\ UNCHANGED <<nodeVars, station, pullDue, todo, maintainVars>>

-----------------------------------------------------------------------------
(* The server's maintenance task *)

\* A faulty condition: rows are looked at only after a failed pull.
StaleAfterFailure(r) == r.status = "active" /\ r.failures > 0 /\ r.seen > NodeTimeout

Stale(r) == r.status = "active" /\ r.seen > NodeTimeout

MarkStaleNodesOffline ==
    /\ maintainIn = 0 /\ ~marked
    /\ row' = [n \in Nodes |-> IF Stale(row[n])
                               THEN [row[n] EXCEPT !.status = "offline"] ELSE row[n]]
    /\ marked' = TRUE
    /\ UNCHANGED <<nodeVars, station, pullVars, maintainIn>>

Expired(age, limit) == age > limit

RemoveStaleStations ==
    /\ marked
    /\ station' = [n \in Nodes |-> IF Expired(station[n], StationTTL)
                                   THEN Absent ELSE station[n]]
    /\ marked' = FALSE
    /\ maintainIn' = MaintainEvery
    /\ UNCHANGED <<nodeVars, row, pullVars>>

-----------------------------------------------------------------------------
(* Time *)

\* Nothing that is due at this moment is left over: the only thing that waits
\* is a request whose node has not answered.
Quiet ==
    /\ \A n \in Nodes : ~RegistrationDue(n)
    /\ maintainIn > 0 /\ ~marked
    /\ \/ pull.stage = "asked" /\ pull.waited < NodeTimeout
       \/ pull = Idle /\ todo = {} /\ ~pullDue

\* The tickers drop what they cannot deliver: at most one pull is pending.
Tick ==
    /\ Quiet
    /\ since' = [n \in Stations |-> IF since[n] = Horizon THEN Horizon ELSE since[n] + 1]
    /\ registerIn' = [n \in Nodes |-> Sooner(registerIn[n])]
    /\ row' = [n \in Nodes |-> [row[n] EXCEPT
                   !.seen = IF row[n].status = "none" THEN 0 ELSE Older(@, NodeTimeout)]]
    /\ station' = [n \in Nodes |-> Older(station[n], StationTTL)]
    /\ pullDue' = TRUE
    /\ pull' = IF pull = Idle THEN Idle ELSE [pull EXCEPT !.waited = @ + 1]
    /\ maintainIn' = Sooner(maintainIn)
    /\ UNCHANGED <<mode, todo, marked>>

NodeStep == \E n \in Nodes : Register(n) \/ \E m \in Modes(n) : Change(n, m)
PullStep ==
    \/ PullFromAllNodes \/ Answer \/ Store \/ HandlePullError
    \/ \E n \in Nodes : Ask(n)
MaintenanceStep == MarkStaleNodesOffline \/ RemoveStaleStations

Next == NodeStep \/ PullStep \/ MaintenanceStep \/ Tick
Spec == Init /\ [][Next]_vars

-----------------------------------------------------------------------------
(* Properties *)

\* A request to each of the nodes may time out in one cycle of pulls.
CycleTime == Cardinality(Nodes) * NodeTimeout

\* A node that went down stops being asked soon: its row is active no longer
\* than it takes the next maintenance to find it stale, although an answer
\* that was under way makes the row active again.
DeadTime == NodeTimeout + MaintainEvery + 1
DeadIsDropped ==
    \A n \in Stations :
        mode[n] = "down" /\ since[n] >= DeadTime => row[n].status # "active"

\* A station that its node has stopped offering, or whose node is gone, leaves
\* the listing, although nothing tells the server to delete it.
DelistTime == StationTTL + MaintainEvery + 1
GoneIsDelisted ==
    \A n \in Stations :
        mode[n] # "on" /\ since[n] >= DelistTime => station[n] = Absent

\* What the other nodes may keep a cycle for, or what is left of this tick.
OthersTime == IF Cardinality(Nodes) > 2 THEN CycleTime - NodeTimeout ELSE NodeTimeout

\* A station whose node stays up and offers it is listed, and what the server
\* knows of it is no older than a registration, the cycle of pulls that was
\* under way then and the one after it, although maintenance keeps taking the
\* node off the list of nodes to pull between its registrations.  It takes that
\* the next cycle reads the list before maintenance finds the row stale: there
\* is one other node to wait for at the most, or nodes register more often than
\* they time out.
Lag == RegisterEvery + OthersTime + CycleTime
UpIsListed ==
    \A n \in Stations :
        mode[n] = "on" /\ since[n] > Lag => station[n] \in 0..Lag

=============================================================================
