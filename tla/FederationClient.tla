--------------------------- MODULE FederationClient ---------------------------
(* One radio node's cache of the federation server's listing, next to the
   server and the nodes of Federation.  The node's own station, which
   queryStations skips, is not among them.  While it passes a station's
   stream on, the worker of the proxy session writes the cached row too,
   whether the station is still listed or not.  The metadata poll writes
   nothing: a node's answer to HEAD has no ICY header for it. *)
EXTENDS Federation

CONSTANTS
    ExpireAfter,    \* twice federation.query_interval
    ExpireEvery,    \* the hour between cleanups of the cache
    ReadTimeout     \* the time without a read, 30 s, that a worker lives on for

ASSUME ExpireAssumption == {ExpireAfter, ExpireEvery, ReadTimeout} \subseteq Nat \ {0}

\* In this time from the last writing on the cleanup finds a row too old.
ExpireTime == ExpireAfter + ExpireEvery + 1

VARIABLES
    query,      \* the query worker
    cache,      \* federated_station_cache: ticks since last_updated, or Absent
    expireIn,   \* ticks to the next cleanup of the cache
    worker,     \* the metadata worker of the proxy session for each station
    quiet       \* for how many ticks, at most ExpireTime, there has been none

workerVars == <<worker, quiet>>
clientVars == <<query, cache, expireIn, workerVars>>
allVars == <<vars, clientVars>>

Queries == {Idle} \cup [stage : {"due"}]
                  \cup [stage : {"fetched", "pruned"}, listing : SUBSET Nodes]

ClientTypeOK ==
    /\ TypeOK
    /\ query \in Queries
    /\ cache \in [Nodes -> {Absent} \cup 0..ExpireAfter + 1]
    /\ expireIn \in 0..ExpireEvery
    /\ worker \in [Stations -> {"none", "waits", "holds"}]
    /\ quiet \in [Stations -> 0..ExpireTime]

\* The first query is made at once, the first cleanup an hour later.
ClientInit ==
    /\ Init
    /\ query = [stage |-> "due"]
    /\ cache = [n \in Nodes |-> Absent]
    /\ expireIn = ExpireEvery
    /\ worker = [n \in Stations |-> "none"] /\ quiet = [n \in Stations |-> ExpireTime]

-----------------------------------------------------------------------------
Listed == {n \in Nodes : station[n] # Absent}

\* The server may be out of reach; then the cache is left as it is.
QueryStations ==
    /\ query.stage = "due"
    /\ query' \in {Idle, [stage |-> "fetched", listing |-> Listed]}
    /\ UNCHANGED <<vars, cache, expireIn, workerVars>>

\* Unlisted stations are deleted; an error is only logged.
DeleteNotInList ==
    /\ query.stage = "fetched"
    /\ query' = [query EXCEPT !.stage = "pruned"]
    /\ \/ cache' = [n \in Nodes |-> IF n \in query.listing THEN cache[n] ELSE Absent]
       \/ UNCHANGED cache
    /\ UNCHANGED <<vars, expireIn, workerVars>>

\* A faulty refresh, of every row the cache still has.
UpdateWholeCache ==
    /\ query.stage = "pruned"
    /\ cache' = [n \in Nodes |-> IF n \in query.listing \/ cache[n] # Absent
                                 THEN 0 ELSE cache[n]]
    /\ query' = Idle
    /\ UNCHANGED <<vars, expireIn, workerVars>>

\* Listed stations are written one by one; those that fail are skipped.
UpdateCache ==
    /\ query.stage = "pruned"
    /\ \E written \in SUBSET query.listing :
           cache' = [n \in Nodes |-> IF n \in written THEN 0 ELSE cache[n]]
    /\ query' = Idle
    /\ UNCHANGED <<vars, expireIn, workerVars>>

\* A listener asks for a station, and the node answers the proxy's request; the
\* row that named it may be gone by then.
StartWorker(n) ==
    /\ worker[n] = "none" /\ Reachable(n)
    /\ worker' = [worker EXCEPT ![n] = "waits"]
    /\ quiet' = [quiet EXCEPT ![n] = 0]
    /\ UNCHANGED <<vars, query, cache, expireIn>>

\* The metadata has changed: the worker reads the whole row ...
WorkerReads(n) ==
    /\ worker[n] = "waits" /\ cache[n] # Absent
    /\ worker' = [worker EXCEPT ![n] = "holds"]
    /\ UNCHANGED <<vars, query, cache, expireIn, quiet>>

\* ... and writes it back, which makes it a new one if it has been deleted.  The
\* worker of a session that has just ended may hold the row as well.
WorkerWrites(n) ==
    /\ worker[n] = "holds"
    /\ cache' \in {cache, [cache EXCEPT ![n] = 0]}
    /\ \E w \in {"waits", "holds"} : worker' = [worker EXCEPT ![n] = w]
    /\ UNCHANGED <<vars, query, expireIn, quiet>>

\* The session is over or its stream unhealthy, or there is no metadata.
WorkerEnds(n) ==
    /\ worker[n] = "waits"
    /\ worker' = [worker EXCEPT ![n] = "none"]
    /\ UNCHANGED <<vars, query, cache, expireIn, quiet>>

WorkerStep(n) == StartWorker(n) \/ WorkerReads(n) \/ WorkerWrites(n) \/ WorkerEnds(n)

\* Reading and writing back take no time; without a stream a worker ends.
WorkerMayWait(n) ==
    \/ worker[n] = "none"
    \/ worker[n] = "waits" /\ (Reachable(n) \/ since[n] < ReadTimeout)

ExpireOldEntries ==
    /\ expireIn = 0
    /\ cache' = [n \in Nodes |-> IF Expired(cache[n], ExpireAfter)
                                 THEN Absent ELSE cache[n]]
    /\ expireIn' = ExpireEvery
    /\ UNCHANGED <<vars, query, workerVars>>

ClientTick ==
    /\ query = Idle /\ expireIn > 0 /\ \A n \in Stations : WorkerMayWait(n)
    /\ Tick
    /\ query' = [stage |-> "due"]
    /\ cache' = [n \in Nodes |-> Older(cache[n], ExpireAfter)]
    /\ expireIn' = Sooner(expireIn)
    /\ quiet' = [n \in Stations |-> IF worker[n] = "none" /\ quiet[n] < ExpireTime
                                  THEN quiet[n] + 1 ELSE quiet[n]]
    /\ UNCHANGED worker

ClientStep ==
    \/ QueryStations \/ DeleteNotInList \/ UpdateCache \/ ExpireOldEntries
    \/ \E n \in Stations : WorkerStep(n)
    \/ ClientTick

ClientNext ==
    \/ ClientStep
    \/ (NodeStep \/ PullStep \/ MaintenanceStep) /\ UNCHANGED clientVars

ClientSpec == ClientInit /\ [][ClientNext]_allVars

-----------------------------------------------------------------------------
\* A station that is gone leaves the cache too, whatever statements fail and
\* however long the federation server is out of reach: as long as the server
\* lists it a query may write it again, and as long as the client passes on a
\* stream of it, which an unlisted station may have, a worker may, also after
\* it was pruned.  From then on it is pruned, or it ages until the cleanup finds
\* it.  A node that is down has no stream either.
ForgetTime == DelistTime + ExpireAfter + ExpireEvery
GoneIsForgotten ==
    \A n \in Stations :
        /\ mode[n] # "on" /\ since[n] >= ForgetTime
        /\ \/ quiet[n] >= ExpireTime
           \/ mode[n] = "down" /\ since[n] >= ReadTimeout + ExpireTime
        => cache[n] = Absent

=============================================================================
