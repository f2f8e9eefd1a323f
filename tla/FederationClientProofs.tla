------------------------ MODULE FederationClientProofs ------------------------
(***************************************************************************)
(* Theorems about FederationClient for any number of nodes and any         *)
(* intervals.                                                              *)
(***************************************************************************)
EXTENDS FederationClient, FederationProofs

(***************************************************************************)
(* The inductive invariant.                                                *)
(***************************************************************************)

\* The listing that a query works on is younger than the last tick.
ListingIsFresh(n) ==
    query.stage \in {"fetched", "pruned"} /\ n \in query.listing /\ mode[n] # "on" =>
        since[n] < DelistTime

\* The cached row of a station that is gone ages with it, from the time that
\* the server can have listed it last, or from the end of its last worker.
CacheAges(n) ==
    mode[n] # "on" /\ cache[n] # Absent =>
        \/ cache[n] > ExpireAfter
        \/ cache[n] + DelistTime > since[n]
        \/ cache[n] >= quiet[n]

\* A cached row that is too old is there until the next cleanup at the latest.
CleanupComes(n) ==
    /\ mode[n] # "on" /\ cache[n] # Absent
    /\ since[n] >= DelistTime + ExpireAfter /\ quiet[n] > ExpireAfter
    => \/ since[n] + expireIn < DelistTime + ExpireAfter + ExpireEvery
       \/ quiet[n] + expireIn < ExpireTime

\* As long as there is a worker there is a stream, or there was one just now.
WorkerIsFed(n) ==
    /\ worker[n] # "none" => quiet[n] = 0
    /\ mode[n] = "down" => quiet[n] >= ExpireTime \/ quiet[n] + ReadTimeout >= since[n]

ForgettingOf(n) == ListingIsFresh(n) /\ CacheAges(n) /\ CleanupComes(n) /\ WorkerIsFed(n)
Forgetting == \A n \in Stations : ForgettingOf(n)

(***************************************************************************)
(* Types.                                                                  *)
(***************************************************************************)

\* The client's intervals are positive.
LEMMA ClientTimes ==
  /\ ExpireAfter \in Nat /\ ExpireAfter >= 1
  /\ ExpireEvery \in Nat /\ ExpireEvery >= 1
  /\ DelistTime \in Nat /\ DelistTime >= 1
  /\ ReadTimeout \in Nat /\ ReadTimeout >= 1
  /\ ExpireTime = ExpireAfter + ExpireEvery + 1
  BY ExpireAssumption, Times DEF DelistTime, ExpireTime

\* The forms of a query.
LEMMA QueryForms ==
  ASSUME query \in Queries
  PROVE  \/ query = Idle /\ query.stage = "idle"
         \/ query.stage = "due"
         \/ /\ query.stage \in {"fetched", "pruned"} /\ query.listing \subseteq Nodes
            /\ query = [stage |-> query.stage, listing |-> query.listing]
  BY DEF Queries, Idle

\* Steps of the server and its nodes are steps of Federation.
LEMMA ServerStep == [ClientNext]_allVars => [Next]_vars
<1> SUFFICES ASSUME [ClientNext]_allVars PROVE [Next]_vars
  OBVIOUS
<1>1. CASE ClientStep
  BY <1>1 DEF ClientStep, QueryStations, DeleteNotInList, UpdateCache, WorkerStep, StartWorker,
    WorkerReads, WorkerWrites, WorkerEnds, ExpireOldEntries, ClientTick, Next
<1>2. CASE (NodeStep \/ PullStep \/ MaintenanceStep) /\ UNCHANGED clientVars
  BY <1>2 DEF Next
<1>3. CASE UNCHANGED allVars
  BY <1>3 DEF allVars
<1> QED
  BY <1>1, <1>2, <1>3 DEF ClientNext

ClientTypes ==
    /\ query \in Queries
    /\ cache \in [Nodes -> {Absent} \cup 0..ExpireAfter + 1]
    /\ expireIn \in 0..ExpireEvery
    /\ worker \in [Stations -> {"none", "waits", "holds"}]
    /\ quiet \in [Stations -> 0..ExpireTime]

LEMMA ClientTypesInit == ClientInit => ClientTypes
<1> SUFFICES ASSUME ClientInit PROVE ClientTypes
  OBVIOUS
<1>1. query \in Queries
  BY DEF ClientInit, Queries
<1>2. cache \in [Nodes -> {Absent} \cup 0..ExpireAfter + 1]
  BY DEF ClientInit
<1>3. expireIn \in 0..ExpireEvery
  BY ClientTimes DEF ClientInit
<1>4. /\ worker \in [Stations -> {"none", "waits", "holds"}]
      /\ quiet \in [Stations -> 0..ExpireTime]
  BY ClientTimes DEF ClientInit
<1> QED
  BY <1>1, <1>2, <1>3, <1>4 DEF ClientTypes

LEMMA ClientTypesNext ==
  ASSUME TypeOK, ClientTypes, [ClientNext]_allVars
  PROVE  ClientTypes'
<1> USE ClientTimes DEF ClientTypes
<1>1. 0 \in 0..ExpireAfter + 1 /\ ExpireEvery \in 0..ExpireEvery
  OBVIOUS
<1>2. CASE QueryStations
  <2>1. query' \in Queries
    BY <1>2 DEF QueryStations, Queries, Listed
  <2> QED
    BY <1>2, <2>1 DEF QueryStations, workerVars
<1>3. CASE DeleteNotInList
  <2>1. query' \in Queries
    <3>1. query.listing \subseteq Nodes /\ query.stage = "fetched"
      BY <1>3, QueryForms DEF DeleteNotInList
    <3>2. query' = [stage |-> "pruned", listing |-> query.listing]
      BY <1>3, QueryForms DEF DeleteNotInList
    <3> QED
      BY <3>1, <3>2 DEF Queries
  <2>2. cache' \in [Nodes -> {Absent} \cup 0..ExpireAfter + 1]
    BY <1>3 DEF DeleteNotInList
  <2> QED
    BY <1>3, <2>1, <2>2 DEF DeleteNotInList, workerVars
<1>4. CASE UpdateCache
  <2>1. query' \in Queries
    BY <1>4 DEF UpdateCache, Queries
  <2>2. cache' \in [Nodes -> {Absent} \cup 0..ExpireAfter + 1]
    BY <1>1, <1>4 DEF UpdateCache
  <2> QED
    BY <1>4, <2>1, <2>2 DEF UpdateCache, workerVars
<1>5. ASSUME NEW n \in Stations, WorkerStep(n) PROVE ClientTypes'
  <2>1. CASE StartWorker(n)
    BY <2>1 DEF StartWorker
  <2>2. CASE WorkerReads(n)
    BY <2>2 DEF WorkerReads
  <2>3. CASE WorkerWrites(n)
    BY <1>1, <2>3, NodesAssumption DEF WorkerWrites
  <2>4. CASE WorkerEnds(n)
    BY <2>4 DEF WorkerEnds
  <2> QED
    BY <1>5, <2>1, <2>2, <2>3, <2>4 DEF WorkerStep
<1>6. CASE ExpireOldEntries
  <2>1. cache' \in [Nodes -> {Absent} \cup 0..ExpireAfter + 1]
    BY <1>6 DEF ExpireOldEntries
  <2> QED
    BY <1>1, <1>6, <2>1 DEF ExpireOldEntries, workerVars
<1>7. CASE ClientTick
  <2>1. query' \in Queries
    BY <1>7 DEF ClientTick, Queries
  <2>2. cache' \in [Nodes -> {Absent} \cup 0..ExpireAfter + 1]
    <3>1. \A n \in Nodes :
              Older(cache[n], ExpireAfter) \in {Absent} \cup 0..ExpireAfter + 1
      BY OlderType
    <3> QED
      BY <1>7, <3>1 DEF ClientTick
  <2>3. expireIn' \in 0..ExpireEvery
    BY <1>7, SoonerType DEF ClientTick
  <2>4. quiet' \in [Stations -> 0..ExpireTime] /\ UNCHANGED worker
    BY <1>7 DEF ClientTick
  <2> QED
    BY <2>1, <2>2, <2>3, <2>4
<1>8. CASE UNCHANGED clientVars
  BY <1>8 DEF clientVars, workerVars
<1> QED
  BY <1>2, <1>3, <1>4, <1>5, <1>6, <1>7, <1>8 DEF ClientNext, ClientStep, allVars

\* The types of the whole, for the cache of any client.
THEOREM ClientTypeCorrect == ClientSpec => []ClientTypeOK
<1>1. ClientInit => TypeOK /\ Budget /\ ClientTypes
  BY InitType, ClientTypesInit DEF ClientInit
<1>2. TypeOK /\ Budget /\ ClientTypes /\ [ClientNext]_allVars
          => (TypeOK /\ Budget /\ ClientTypes)'
  BY NextType, ClientTypesNext, ServerStep
<1>3. TypeOK /\ ClientTypes => ClientTypeOK
  BY DEF ClientTypes, ClientTypeOK
<1> QED
  BY <1>1, <1>2, <1>3, PTL DEF ClientSpec

(***************************************************************************)
(* What the cache says of a station that is gone.                          *)
(***************************************************************************)

\* What the types say of one station.
LEMMA ForgettingTypes ==
  ASSUME TypeOK, ClientTypes, NEW n \in Stations
  PROVE  /\ n \in Nodes /\ since[n] \in 0..Horizon
         /\ cache[n] \in {Absent} \cup 0..ExpireAfter + 1
         /\ expireIn \in 0..ExpireEvery
         /\ quiet[n] \in 0..ExpireTime /\ worker[n] \in {"none", "waits", "holds"}
  BY NodesAssumption DEF TypeOK, ClientTypes

LEMMA DelistedNow == TypeOK /\ Aging => GoneIsDelisted
  BY Times, NodeTypes DEF Aging, AgingOf, MaintenanceComes, GoneIsDelisted, DelistTime

LEMMA ForgettingInit ==
  ASSUME ClientInit, NEW n \in Stations
  PROVE  ForgettingOf(n)
<1>1. /\ n \in Nodes /\ cache[n] = Absent /\ query.stage = "due"
      /\ worker[n] = "none" /\ quiet[n] = ExpireTime
  BY NodesAssumption DEF ClientInit
<1> QED
  BY <1>1, ClientTimes DEF ForgettingOf, ListingIsFresh, CacheAges, CleanupComes, WorkerIsFed

\* The client's own steps, the clock apart.
LEMMA ForgettingQuery ==
  ASSUME TypeOK, ClientTypes, GoneIsDelisted, NEW n \in Stations, ForgettingOf(n),
         QueryStations \/ DeleteNotInList \/ UpdateCache \/ ExpireOldEntries
  PROVE  ForgettingOf(n)'
<1> USE ClientTimes, ForgettingTypes
<1>1. UNCHANGED <<mode, since, station, worker, quiet>>
  BY DEF QueryStations, DeleteNotInList, UpdateCache, ExpireOldEntries,
    vars, nodeVars, serverVars, workerVars
<1>2. WorkerIsFed(n)'
  BY <1>1 DEF ForgettingOf, WorkerIsFed
<1>3. CASE QueryStations
  <2>1. query' = Idle \/ query' = [stage |-> "fetched", listing |-> Listed]
    BY <1>3 DEF QueryStations
  <2>2. n \in Listed /\ mode[n] # "on" => since[n] < DelistTime
    BY DEF Listed, GoneIsDelisted
  <2>3. ListingIsFresh(n)'
    BY <1>1, <2>1, <2>2 DEF ListingIsFresh, Idle
  <2>4. UNCHANGED <<cache, expireIn>>
    BY <1>3 DEF QueryStations
  <2> QED
    BY <1>1, <1>2, <2>3, <2>4 DEF ForgettingOf, CacheAges, CleanupComes
<1>4. CASE DeleteNotInList
  <2>1. query'.listing = query.listing /\ query.stage = "fetched"
    BY <1>4, QueryForms DEF DeleteNotInList, ClientTypes
  <2>2. cache'[n] \in {cache[n], Absent} /\ expireIn' = expireIn
    BY <1>4 DEF DeleteNotInList
  <2> QED
    BY <1>1, <1>2, <2>1, <2>2 DEF ForgettingOf, ListingIsFresh, CacheAges, CleanupComes
<1>5. CASE UpdateCache
  <2>1. query'.stage = "idle" /\ expireIn' = expireIn /\ query.stage = "pruned"
    BY <1>5 DEF UpdateCache, Idle
  <2>2. cache'[n] = cache[n] \/ (n \in query.listing /\ cache'[n] = 0)
    BY <1>5 DEF UpdateCache
  <2>3. cache'[n] = cache[n] \/ (mode[n] # "on" => since[n] < DelistTime /\ cache'[n] = 0)
    BY <2>1, <2>2 DEF ForgettingOf, ListingIsFresh
  <2> QED
    BY <1>1, <1>2, <2>1, <2>3 DEF ForgettingOf, ListingIsFresh, CacheAges, CleanupComes
<1>6. CASE ExpireOldEntries
  <2>1. /\ cache'[n] # Absent => cache'[n] = cache[n] /\ ~(cache[n] > ExpireAfter)
        /\ expireIn' = ExpireEvery /\ query' = query
    BY <1>6 DEF ExpireOldEntries, Expired
  <2> QED
    BY <1>1, <1>2, <2>1 DEF ForgettingOf, ListingIsFresh, CacheAges, CleanupComes
<1> QED
  BY <1>3, <1>4, <1>5, <1>6

\* A worker writes while its station is not quiet.
LEMMA ForgettingWorker ==
  ASSUME TypeOK, ClientTypes, NEW n \in Stations, ForgettingOf(n),
         NEW k \in Stations, WorkerStep(k)
  PROVE  ForgettingOf(n)'
<1> USE ClientTimes, ForgettingTypes
<1>1. UNCHANGED <<mode, since, query, expireIn>>
  BY DEF WorkerStep, StartWorker, WorkerReads, WorkerWrites, WorkerEnds, vars, nodeVars
<1>2. \/ /\ cache'[n] = cache[n] /\ quiet'[n] = quiet[n]
         /\ worker'[n] # "none" => worker[n] # "none"
      \/ cache'[n] = cache[n] /\ quiet'[n] = 0 /\ mode[n] # "down"
      \/ quiet'[n] = 0 /\ quiet[n] = 0 /\ cache'[n] = 0 /\ worker[n] # "none"
  <2>0. n \in Nodes /\ k \in Nodes
    BY ForgettingTypes
  <2>1. CASE StartWorker(k)
    <3>1. k = n => quiet'[n] = 0 /\ mode[n] # "down"
      BY <2>1 DEF StartWorker, Reachable, ClientTypes
    <3>2. k # n => quiet'[n] = quiet[n] /\ worker'[n] = worker[n]
      BY <2>1 DEF StartWorker, ClientTypes
    <3> QED
      BY <2>1, <3>1, <3>2 DEF StartWorker
  <2>2. CASE WorkerReads(k) \/ WorkerEnds(k)
    BY <2>2 DEF WorkerReads, WorkerEnds, ClientTypes
  <2>3. CASE WorkerWrites(k)
    <3>1. UNCHANGED quiet /\ worker[k] = "holds"
      BY <2>3 DEF WorkerWrites
    <3>2. k # n => cache'[n] = cache[n] /\ worker'[n] = worker[n]
      BY <2>0, <2>3 DEF WorkerWrites, ClientTypes
    <3>3. k = n => (cache'[n] = cache[n] \/ cache'[n] = 0) /\ quiet[n] = 0
      BY <2>0, <2>3, <3>1 DEF WorkerWrites, ClientTypes, ForgettingOf, WorkerIsFed
    <3> QED
      BY <3>1, <3>2, <3>3
  <2> QED
    BY <2>1, <2>2, <2>3 DEF WorkerStep
<1>3. ListingIsFresh(n)'
  BY <1>1 DEF ForgettingOf, ListingIsFresh
<1>4. CacheAges(n)' /\ CleanupComes(n)'
  BY <1>1, <1>2 DEF ForgettingOf, CacheAges, CleanupComes, Absent
<1>5. WorkerIsFed(n)'
  BY <1>1, <1>2 DEF ForgettingOf, WorkerIsFed
<1> QED
  BY <1>3, <1>4, <1>5 DEF ForgettingOf

LEMMA ForgettingTick ==
  ASSUME TypeOK, ClientTypes, NEW n \in Stations, ForgettingOf(n), ClientTick
  PROVE  ForgettingOf(n)'
<1> USE ClientTimes, ForgettingTypes
<1>1. mode' = mode /\ query'.stage = "due"
  BY DEF ClientTick, Tick
<1>2. since'[n] \in 0..Horizon /\ since'[n] <= since[n] + 1
  <2>1. since'[n] = IF since[n] = Horizon THEN Horizon ELSE since[n] + 1
    BY DEF ClientTick, Tick
  <2> QED
    BY <2>1, Times
<1>3. cache'[n] = Older(cache[n], ExpireAfter)
  BY DEF ClientTick
<1>4. expireIn > 0 /\ expireIn' = expireIn - 1
  BY DEF ClientTick, Sooner
<1>7. /\ quiet'[n] = IF worker[n] = "none" /\ quiet[n] < ExpireTime THEN quiet[n] + 1 ELSE quiet[n]
      /\ UNCHANGED worker /\ WorkerMayWait(n)
  BY DEF ClientTick
<1>8. quiet'[n] \in 0..ExpireTime /\ quiet'[n] <= quiet[n] + 1
  BY <1>7
<1>5. CacheAges(n)'
  BY <1>1, <1>2, <1>3, <1>8 DEF ForgettingOf, CacheAges, Older, Absent
<1>6. CleanupComes(n)'
  <2>1. cache'[n] # Absent => cache[n] # Absent
    BY <1>3 DEF Older
  <2> QED
    BY <1>1, <1>2, <1>4, <1>8, <2>1 DEF ForgettingOf, CleanupComes
<1>9. WorkerIsFed(n)'
  <2>1. worker'[n] # "none" => quiet'[n] = 0
    BY <1>7 DEF ForgettingOf, WorkerIsFed
  <2>2. CASE worker[n] = "none"
    BY <1>1, <1>2, <1>7, <2>1, <2>2 DEF ForgettingOf, WorkerIsFed
  <2>3. CASE worker[n] # "none" /\ mode[n] = "down"
    <3>1. since[n] < ReadTimeout
      BY <1>7, <2>3 DEF WorkerMayWait, Reachable
    <3> QED
      BY <1>2, <1>8, <2>1, <3>1 DEF WorkerIsFed
  <2>4. CASE mode[n] # "down"
    BY <1>1, <2>1, <2>4 DEF WorkerIsFed
  <2> QED
    BY <2>2, <2>3, <2>4
<1> QED
  BY <1>1, <1>5, <1>6, <1>9 DEF ForgettingOf, ListingIsFresh

\* A node that has just changed starts its time anew, the server's tasks do not
\* touch the client.
LEMMA ForgettingServer ==
  ASSUME TypeOK, ClientTypes, NEW n \in Stations, ForgettingOf(n),
         NodeStep \/ PullStep \/ MaintenanceStep, UNCHANGED clientVars
  PROVE  ForgettingOf(n)'
<1> USE ClientTimes, ForgettingTypes
<1>1. UNCHANGED <<query, cache, expireIn, worker, quiet>>
  BY DEF clientVars, workerVars
<1>2. since'[n] = 0 \/ (since'[n] = since[n] /\ mode'[n] = mode[n])
  <2>1. ASSUME NEW k \in Nodes, NEW m \in Modes(k), Change(k, m)
        PROVE  since'[n] = 0 \/ (since'[n] = since[n] /\ mode'[n] = mode[n])
    BY <2>1 DEF Change, TypeOK
  <2>2. ASSUME NEW k \in Nodes, Register(k)
        PROVE  UNCHANGED <<mode, since>>
    BY <2>2 DEF Register
  <2>3. PullStep => UNCHANGED <<mode, since>>
    BY DEF PullStep, PullFromAllNodes, Ask, Answer, Store, HandlePullError, nodeVars
  <2>4. MaintenanceStep => UNCHANGED <<mode, since>>
    BY DEF MaintenanceStep, MarkStaleNodesOffline, RemoveStaleStations, nodeVars
  <2> QED
    BY <2>1, <2>2, <2>3, <2>4 DEF NodeStep
<1> QED
  BY <1>1, <1>2 DEF ForgettingOf, ListingIsFresh, CacheAges, CleanupComes, WorkerIsFed, Absent

LEMMA ForgettingNext ==
  TypeOK /\ ClientTypes /\ Aging /\ Forgetting /\ [ClientNext]_allVars => Forgetting'
<1> SUFFICES ASSUME TypeOK, ClientTypes, Aging, Forgetting, [ClientNext]_allVars,
                    NEW n \in Stations
             PROVE  ForgettingOf(n)'
  BY DEF Forgetting
<1>1. ForgettingOf(n) /\ GoneIsDelisted
  BY DelistedNow DEF Forgetting
<1>2. CASE ClientTick
  BY <1>1, <1>2, ForgettingTick
<1>3. CASE ClientStep /\ ~ClientTick
  BY <1>1, <1>3, ForgettingQuery, ForgettingWorker DEF ClientStep
<1>4. CASE (NodeStep \/ PullStep \/ MaintenanceStep) /\ UNCHANGED clientVars
  BY <1>1, <1>4, ForgettingServer
<1>5. CASE UNCHANGED allVars
  BY <1>1, <1>5 DEF ForgettingOf, ListingIsFresh, CacheAges, CleanupComes, WorkerIsFed, allVars,
    vars, nodeVars, clientVars, workerVars
<1> QED
  BY <1>2, <1>3, <1>4, <1>5 DEF ClientNext

\* A station that is gone leaves the cache of every client within ForgetTime and
\* ExpireTime after the last proxy session for it, whatever statements fail and
\* however long the federation server is out of reach (queryStations,
\* ExpireOldFederatedStations and metadataUpdateWorker).
THEOREM GoneForgotten == ClientSpec => []GoneIsForgotten
<1>1. ClientInit => TypeOK /\ Budget /\ ClientTypes /\ Aging /\ Forgetting
  BY InitType, ClientTypesInit, AgingInit, ForgettingInit DEF ClientInit, Aging, Forgetting
<1>2. TypeOK /\ Budget /\ ClientTypes /\ Aging /\ Forgetting /\ [ClientNext]_allVars
          => (TypeOK /\ Budget /\ ClientTypes /\ Aging /\ Forgetting)'
  BY NextType, ClientTypesNext, AgingNext, ForgettingNext, ServerStep
<1>3. TypeOK /\ ClientTypes /\ Forgetting => GoneIsForgotten
  BY ClientTimes, ForgettingTypes
  DEF Forgetting, ForgettingOf, CleanupComes, WorkerIsFed, GoneIsForgotten, ForgetTime
<1> QED
  BY <1>1, <1>2, <1>3, PTL DEF ClientSpec

=============================================================================
