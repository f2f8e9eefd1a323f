---------------------------- MODULE FederationProofs ----------------------------
(***************************************************************************)
(* Theorems about Federation for any number of nodes and any intervals.    *)
(***************************************************************************)
EXTENDS Federation, FiniteSetTheorems, TLAPS

(***************************************************************************)
(* The inductive invariants.                                               *)
(***************************************************************************)

\* A node that is asked, or is going to be, may still fail once more.
Budget ==
    /\ \A n \in Nodes :
           \/ row[n].status = "active"
           \/ n \in todo
           \/ pull.stage = "asked" /\ pull.node = n
           => row[n].failures < MaxFailures
    /\ pull.stage = "asked" => pull.node \notin todo

\* What a node answered is stored before the clock ticks.
AnswerIsFresh(n) ==
    pull.stage = "answered" /\ pull.node = n =>
        /\ mode[n] = "down" => since[n] = 0
        /\ pull.offers /\ mode[n] # "on" => since[n] = 0

\* The rows of a node that is gone age with it.
RowsAge(n) ==
    /\ mode[n] = "down" /\ row[n].status = "active" =>
           row[n].seen > NodeTimeout \/ row[n].seen >= since[n]
    /\ mode[n] # "on" /\ station[n] # Absent =>
           station[n] > StationTTL \/ station[n] >= since[n]

\* A row that is too old is there until the next maintenance at the latest.
MaintenanceComes(n) ==
    /\ mode[n] = "down" /\ row[n].status = "active" /\ since[n] >= NodeTimeout =>
           since[n] + maintainIn <= NodeTimeout + MaintainEvery
    /\ marked /\ mode[n] = "down" /\ row[n].status = "active" =>
           since[n] <= NodeTimeout
    /\ mode[n] # "on" /\ station[n] # Absent /\ since[n] >= StationTTL =>
           since[n] + maintainIn <= StationTTL + MaintainEvery

AgingOf(n) == AnswerIsFresh(n) /\ RowsAge(n) /\ MaintenanceComes(n)
Aging == \A n \in Stations : AgingOf(n)

(***************************************************************************)
(* Types.                                                                  *)
(***************************************************************************)

\* The intervals are positive.
LEMMA Times ==
  /\ NodeTimeout \in Nat /\ NodeTimeout >= 1
  /\ MaintainEvery \in Nat /\ MaintainEvery >= 1
  /\ StationTTL \in Nat /\ StationTTL >= 1
  /\ MaxFailures \in Nat /\ MaxFailures >= 1
  /\ RegisterEvery \in Nat /\ RegisterEvery >= 1
  /\ Horizon \in Nat /\ Horizon >= 1
  BY TimesAssumption

\* What the statements on federation_nodes make of a row.
LEMMA RowTypes ==
  ASSUME NEW r \in Rows
  PROVE  /\ Registered(r) \in Rows /\ Registered(r).failures = 0
         /\ PullSucceeded(r) \in Rows /\ PullSucceeded(r).failures = 0
         /\ PullSucceeded(r).seen = r.seen
         /\ [r EXCEPT !.status = "offline"] \in Rows
         /\ r.failures < MaxFailures =>
                /\ PullFailed(r) \in Rows
                /\ PullFailed(r).seen = r.seen
                /\ PullFailed(r).status = "active" =>
                       /\ r.status = "active"
                       /\ PullFailed(r).failures < MaxFailures
<1>1. /\ r = [status |-> r.status, failures |-> r.failures, seen |-> r.seen]
      /\ r.status \in {"none", "active", "offline"}
      /\ r.failures \in 0..MaxFailures /\ r.seen \in 0..NodeTimeout + 1
  BY DEF Rows
<1>2. 0 \in 0..MaxFailures /\ 0 \in 0..NodeTimeout + 1
  BY Times
<1>3. Registered(r) \in Rows /\ Registered(r).failures = 0
  BY <1>1, <1>2 DEF Rows, Registered
<1>4. /\ PullSucceeded(r) \in Rows /\ PullSucceeded(r).failures = 0
      /\ PullSucceeded(r).seen = r.seen
  BY <1>1, <1>2 DEF Rows, PullSucceeded
<1>5. [r EXCEPT !.status = "offline"] \in Rows
  BY <1>1 DEF Rows
<1>6. ASSUME r.failures < MaxFailures
      PROVE  /\ PullFailed(r) \in Rows
             /\ PullFailed(r).seen = r.seen
             /\ PullFailed(r).status = "active" =>
                    /\ r.status = "active"
                    /\ PullFailed(r).failures < MaxFailures
  <2>1. r.failures + 1 \in 0..MaxFailures
    BY <1>1, <1>6, Times
  <2>2. PullFailed(r) \in Rows
    BY <1>1, <2>1 DEF PullFailed, Rows
  <2>3. PullFailed(r).status = "active" =>
            r.status = "active" /\ ~(r.failures + 1 >= MaxFailures)
    BY DEF PullFailed
  <2> QED
    BY <1>1, <2>1, <2>2, <2>3, Times DEF PullFailed
<1> QED
  BY <1>3, <1>4, <1>5, <1>6

\* The three forms of a request.
LEMMA PullForms ==
  ASSUME pull \in Pulls
  PROVE  \/ pull = Idle /\ pull.stage = "idle"
         \/ /\ pull.stage = "asked" /\ pull.node \in Nodes
            /\ pull.waited \in 0..NodeTimeout
            /\ pull = [stage |-> "asked", node |-> pull.node,
                       waited |-> pull.waited]
         \/ /\ pull.stage = "answered" /\ pull.node \in Nodes
            /\ pull.offers \in BOOLEAN
            /\ pull = [stage |-> "answered", node |-> pull.node,
                       offers |-> pull.offers]
  BY DEF Pulls, Idle

\* The clock moves an age or a countdown within its range.
LEMMA OlderType ==
  ASSUME NEW limit \in Nat, NEW age \in {Absent} \cup 0..limit + 1
  PROVE  /\ Older(age, limit) \in {Absent} \cup 0..limit + 1
         /\ age # Absent => Older(age, limit) \in 0..limit + 1
  BY DEF Older, Absent

LEMMA SoonerType ==
  ASSUME NEW most \in Nat, NEW t \in 0..most
  PROVE  Sooner(t) \in 0..most
  BY DEF Sooner

LEMMA InitType == Init => TypeOK /\ Budget
<1> SUFFICES ASSUME Init PROVE TypeOK /\ Budget
  OBVIOUS
<1> USE Times, NodesAssumption
<1>1. mode \in [Nodes -> UNION {Modes(n) : n \in Nodes}]
  BY DEF Init, Modes
<1>2. row \in [Nodes -> Rows]
  <2>1. NoRow \in Rows
    BY DEF NoRow, Rows
  <2> QED
    BY <2>1 DEF Init
<1>3. pull \in Pulls /\ pull.stage = "idle"
  BY DEF Init, Pulls, Idle
<1>4. TypeOK
  <2>1. since \in [Stations -> 0..Horizon] /\ registerIn \in [Nodes -> 0..RegisterEvery]
    BY DEF Init
  <2>2. station \in [Nodes -> {Absent} \cup 0..StationTTL + 1]
    BY DEF Init
  <2>3. todo \subseteq Nodes /\ pullDue \in BOOLEAN /\ marked \in BOOLEAN
    BY DEF Init
  <2>4. maintainIn \in 0..MaintainEvery
    BY DEF Init
  <2> QED
    BY <1>1, <1>2, <1>3, <2>1, <2>2, <2>3, <2>4 DEF TypeOK
<1>5. Budget
  BY <1>3 DEF Init, Budget, NoRow
<1> QED
  BY <1>4, <1>5

\* A node's own steps.
LEMMA NodeType ==
  ASSUME TypeOK, Budget, NEW n \in Nodes,
         Register(n) \/ \E m \in Modes(n) : Change(n, m)
  PROVE  TypeOK' /\ Budget'
<1> USE Times, NodesAssumption
<1>1. ASSUME NEW m \in Modes(n), Change(n, m)
      PROVE  TypeOK' /\ Budget'
  <2>1. mode' \in [Nodes -> UNION {Modes(k) : k \in Nodes}]
    BY <1>1 DEF Change, TypeOK
  <2>2. /\ since' \in [Stations -> 0..Horizon]
        /\ registerIn' \in [Nodes -> 0..RegisterEvery]
    BY <1>1 DEF Change, TypeOK
  <2> QED
    BY <1>1, <2>1, <2>2 DEF Change, TypeOK, Budget, serverVars, pullVars,
      maintainVars
<1>2. CASE Register(n)
  <2>1. /\ row' \in [Nodes -> Rows]
        /\ registerIn' \in [Nodes -> 0..RegisterEvery]
    <3>1. RegisterEvery \in 0..RegisterEvery
      OBVIOUS
    <3>2. Registered(row[n]) \in Rows
      BY RowTypes DEF TypeOK
    <3>3. row' \in [Nodes -> Rows]
      BY <1>2, <3>2 DEF Register, TypeOK
    <3> QED
      BY <1>2, <3>1, <3>3 DEF Register, TypeOK
  <2>2. \A k \in Nodes : row'[k] = row[k] \/ row'[k].failures = 0
    BY <1>2, RowTypes DEF Register, TypeOK
  <2>3. TypeOK'
    BY <1>2, <2>1 DEF Register, TypeOK, pullVars, maintainVars
  <2>4. Budget'
    BY <1>2, <2>2 DEF Register, Budget, pullVars
  <2> QED
    BY <2>3, <2>4
<1> QED
  BY <1>1, <1>2

\* The pull task.
LEMMA PullType ==
  ASSUME TypeOK, Budget, PullStep
  PROVE  TypeOK' /\ Budget'
<1> USE Times, NodesAssumption
<1>1. CASE PullFromAllNodes
  BY <1>1 DEF PullFromAllNodes, ActiveNodes, TypeOK, Budget, Idle, nodeVars,
    serverVars, maintainVars
<1>2. ASSUME NEW n \in Nodes, Ask(n)
      PROVE  TypeOK' /\ Budget'
  <2>1. pull' \in Pulls
    BY <1>2 DEF Ask, Pulls
  <2> QED
    BY <1>2, <2>1 DEF Ask, TypeOK, Budget, nodeVars, serverVars, maintainVars
<1>3. CASE Answer
  <2>1. pull' \in Pulls
    BY <1>3, PullForms DEF Answer, Pulls, TypeOK, Idle
  <2> QED
    BY <1>3, <2>1 DEF Answer, TypeOK, Budget, nodeVars, serverVars, maintainVars
<1>4. CASE Store
  <2>1. pull.node \in Nodes /\ pull.offers \in BOOLEAN
    BY <1>4, PullForms DEF Store, TypeOK
  <2>2. /\ row' \in [Nodes -> Rows]
        /\ \A k \in Nodes : row'[k] = row[k] \/ row'[k].failures = 0
    BY <1>4, <2>1, RowTypes DEF Store, TypeOK
  <2>3. station' \in [Nodes -> {Absent} \cup 0..StationTTL + 1]
    BY <1>4, <2>1 DEF Store, Upserted, TypeOK, Absent
  <2>4. TypeOK'
    BY <1>4, <2>2, <2>3 DEF Store, TypeOK, Pulls, nodeVars, maintainVars
  <2>5. Budget'
    BY <1>4, <2>2 DEF Store, Budget, Idle
  <2> QED
    BY <2>4, <2>5
<1>5. CASE HandlePullError
  <2>1. pull.node \in Nodes /\ row[pull.node].failures < MaxFailures
    BY <1>5, PullForms DEF HandlePullError, TypeOK, Budget
  <2>2. row' \in [Nodes -> Rows]
    BY <1>5, <2>1, RowTypes DEF HandlePullError, TypeOK
  <2>3. /\ \A k \in Nodes \ {pull.node} : row'[k] = row[k]
        /\ row'[pull.node].status = "active" =>
               row'[pull.node].failures < MaxFailures
    BY <1>5, <2>1, RowTypes DEF HandlePullError, TypeOK
  <2>4. TypeOK'
    BY <1>5, <2>2 DEF HandlePullError, TypeOK, Pulls, nodeVars, maintainVars
  <2>5. Budget'
    BY <1>5, <2>1, <2>3 DEF HandlePullError, Budget, Idle
  <2> QED
    BY <2>4, <2>5
<1> QED
  BY <1>1, <1>2, <1>3, <1>4, <1>5 DEF PullStep

\* The maintenance task.
LEMMA MaintenanceType ==
  ASSUME TypeOK, Budget, MaintenanceStep
  PROVE  TypeOK' /\ Budget'
<1> USE Times, NodesAssumption
<1>1. CASE MarkStaleNodesOffline
  <2>1. /\ row' \in [Nodes -> Rows]
        /\ \A n \in Nodes : /\ row'[n].failures = row[n].failures
                            /\ row'[n].status = "active" => row[n].status = "active"
    BY <1>1 DEF MarkStaleNodesOffline, TypeOK, Rows
  <2> QED
    BY <1>1, <2>1 DEF MarkStaleNodesOffline, TypeOK, Budget, nodeVars, pullVars
<1>2. CASE RemoveStaleStations
  <2>1. station' \in [Nodes -> {Absent} \cup 0..StationTTL + 1]
    BY <1>2 DEF RemoveStaleStations, TypeOK, Absent
  <2>2. maintainIn' = MaintainEvery /\ MaintainEvery \in 0..MaintainEvery
    BY <1>2 DEF RemoveStaleStations
  <2>3. /\ UNCHANGED <<mode, since, registerIn, row, pullDue, todo, pull>>
    BY <1>2 DEF RemoveStaleStations, nodeVars, pullVars
  <2>4. marked' = FALSE
    BY <1>2 DEF RemoveStaleStations
  <2>5. TypeOK'
    BY <2>1, <2>2, <2>3, <2>4 DEF TypeOK
  <2>6. Budget'
    BY <2>3 DEF Budget
  <2> QED
    BY <2>5, <2>6
<1> QED
  BY <1>1, <1>2 DEF MaintenanceStep

\* What the clock leaves of a row and of a request.
LEMMA TickRow ==
  ASSUME TypeOK, Tick, NEW n \in Nodes
  PROVE  /\ row'[n] \in Rows
         /\ row'[n].status = row[n].status /\ row'[n].failures = row[n].failures
         /\ row[n].status = "active" => row'[n].seen = Older(row[n].seen, NodeTimeout)
<1> USE Times
<1>1. /\ row[n] \in Rows
      /\ row'[n] = [row[n] EXCEPT !.seen =
                       IF row[n].status = "none" THEN 0
                       ELSE Older(row[n].seen, NodeTimeout)]
  BY DEF Tick, TypeOK
<1>2. Older(row[n].seen, NodeTimeout) \in 0..NodeTimeout + 1
  BY <1>1, OlderType DEF Rows, Absent
<1> QED
  BY <1>1, <1>2 DEF Rows

LEMMA TickPull ==
  ASSUME TypeOK, Tick
  PROVE  /\ pull' \in Pulls
         /\ pull'.stage = pull.stage
         /\ pull.stage = "asked" => pull'.node = pull.node
         /\ pull.stage # "answered"
<1>1. CASE pull = Idle
  BY <1>1 DEF Tick, Pulls, Idle
<1>2. CASE pull # Idle
  <2>1. pull.stage = "asked" /\ pull.waited < NodeTimeout
    BY <1>2 DEF Tick, Quiet
  <2>2. /\ pull.node \in Nodes /\ pull.waited \in 0..NodeTimeout
        /\ pull = [stage |-> "asked", node |-> pull.node, waited |-> pull.waited]
    BY <2>1, PullForms DEF TypeOK
  <2>3. pull' = [stage |-> "asked", node |-> pull.node,
                 waited |-> pull.waited + 1]
    <3>1. pull' = [pull EXCEPT !.waited = pull.waited + 1]
      BY <1>2 DEF Tick
    <3> QED
      BY <2>2, <3>1
  <2>4. pull.waited + 1 \in 0..NodeTimeout
    BY <2>1, <2>2, Times
  <2> QED
    BY <2>1, <2>2, <2>3, <2>4 DEF Pulls
<1> QED
  BY <1>1, <1>2

LEMMA TickType ==
  ASSUME TypeOK, Budget, Tick
  PROVE  TypeOK' /\ Budget'
<1> USE Times, NodesAssumption
<1>1. since' \in [Stations -> 0..Horizon]
  <2>1. ASSUME NEW n \in Stations
        PROVE  (IF since[n] = Horizon THEN Horizon ELSE since[n] + 1) \in 0..Horizon
    BY DEF TypeOK
  <2> QED
    BY <2>1 DEF Tick
<1>2. registerIn' \in [Nodes -> 0..RegisterEvery] /\ maintainIn' \in 0..MaintainEvery
  BY SoonerType DEF Tick, TypeOK
<1>3. row' \in [Nodes -> Rows]
  <2>1. row' = [n \in Nodes |-> row'[n]]
    BY DEF Tick
  <2> QED
    BY <2>1, TickRow
<1>4. station' \in [Nodes -> {Absent} \cup 0..StationTTL + 1]
  BY OlderType DEF Tick, TypeOK
<1>5. TypeOK'
  BY <1>1, <1>2, <1>3, <1>4, TickPull DEF Tick, TypeOK
<1>6. Budget'
  <2>1. todo' = todo
    BY DEF Tick
  <2>2. pull'.stage = "asked" => pull.stage = "asked" /\ pull'.node = pull.node
    BY TickPull
  <2>3. \A n \in Nodes : /\ row'[n].status = row[n].status
                         /\ row'[n].failures = row[n].failures
    BY TickRow
  <2> QED
    BY <2>1, <2>2, <2>3 DEF Budget
<1> QED
  BY <1>5, <1>6

LEMMA NextType == TypeOK /\ Budget /\ [Next]_vars => TypeOK' /\ Budget'
<1> SUFFICES ASSUME TypeOK, Budget, [Next]_vars PROVE TypeOK' /\ Budget'
  OBVIOUS
<1>1. CASE NodeStep
  BY <1>1, NodeType DEF NodeStep
<1>2. CASE PullStep
  BY <1>2, PullType
<1>3. CASE MaintenanceStep
  BY <1>3, MaintenanceType
<1>4. CASE Tick
  BY <1>4, TickType
<1>5. CASE UNCHANGED vars
  BY <1>5 DEF TypeOK, Budget, vars, nodeVars, serverVars, pullVars, maintainVars
<1> QED
  BY <1>1, <1>2, <1>3, <1>4, <1>5 DEF Next

\* Every variable keeps its type; what is worth the name is that failures never
\* exceed max_consecutive_failures: a node at the limit is not asked again
\* before it has registered.
THEOREM TypeCorrect == Spec => []TypeOK
<1>1. Spec => [](TypeOK /\ Budget)
  BY InitType, NextType, PTL DEF Spec
<1> QED
  BY <1>1, PTL

(***************************************************************************)
(* What the server's rows say of a node that is gone.                      *)
(***************************************************************************)

\* What the types say of one station's node.
LEMMA NodeTypes ==
  ASSUME TypeOK, NEW n \in Stations
  PROVE  /\ n \in Nodes /\ since[n] \in 0..Horizon /\ row[n] \in Rows
         /\ row[n].seen \in 0..NodeTimeout + 1
         /\ station[n] \in {Absent} \cup 0..StationTTL + 1
         /\ maintainIn \in 0..MaintainEvery
  BY NodesAssumption DEF TypeOK, Rows

LEMMA AgingInit ==
  ASSUME Init, NEW n \in Stations
  PROVE  AgingOf(n)
<1>1. n \in Nodes
  BY NodesAssumption
<1>2. row[n].status = "none" /\ station[n] = Absent /\ pull.stage = "idle" /\ marked = FALSE
  BY <1>1 DEF Init, NoRow, Idle
<1> QED
  BY <1>2 DEF AgingOf, AnswerIsFresh, RowsAge, MaintenanceComes

\* A node that has just changed starts its time anew.
LEMMA AgingNode ==
  ASSUME TypeOK, NEW n \in Stations, AgingOf(n), NodeStep
  PROVE  AgingOf(n)'
<1> USE Times, NodeTypes
<1>1. PICK k \in Nodes : Register(k) \/ \E m \in Modes(k) : Change(k, m)
  BY DEF NodeStep
<1>2. ASSUME NEW m \in Modes(k), Change(k, m)
      PROVE  AgingOf(n)'
  <2>1. UNCHANGED <<row, station, pull, maintainIn, marked>>
    BY <1>2 DEF Change, serverVars, pullVars, maintainVars
  <2>2. CASE k = n
    <3>1. since'[n] = 0
      BY <1>2, <2>2 DEF Change
    <3> QED
      BY <2>1, <3>1 DEF AgingOf, AnswerIsFresh, RowsAge, MaintenanceComes, Absent
  <2>3. CASE k # n
    <3>1. since'[n] = since[n] /\ mode'[n] = mode[n]
      BY <1>2, <2>3 DEF Change, TypeOK
    <3> QED
      BY <2>1, <3>1 DEF AgingOf, AnswerIsFresh, RowsAge, MaintenanceComes
  <2> QED
    BY <2>2, <2>3
<1>3. CASE Register(k)
  <2>1. UNCHANGED <<mode, since, station, pull, maintainIn, marked>>
    BY <1>3 DEF Register, pullVars, maintainVars
  <2>2. mode[n] = "down" => row'[n] = row[n]
    BY <1>3 DEF Register, Reachable, TypeOK
  <2> QED
    BY <2>1, <2>2 DEF AgingOf, AnswerIsFresh, RowsAge, MaintenanceComes
<1> QED
  BY <1>1, <1>2, <1>3

\* An answer that makes a row young again has come from a node that is there,
\* or was when the clock ticked last.
LEMMA AgingPull ==
  ASSUME TypeOK, Budget, NEW n \in Stations, AgingOf(n), PullStep
  PROVE  AgingOf(n)'
<1> USE Times, NodeTypes
<1>1. UNCHANGED <<mode, since, maintainIn, marked>>
  BY DEF PullStep, PullFromAllNodes, Ask, Answer, Store, HandlePullError, nodeVars,
    maintainVars
<1>2. CASE PullFromAllNodes \/ \E k \in Nodes : Ask(k)
  <2>1. UNCHANGED <<row, station>> /\ pull'.stage # "answered"
    BY <1>2 DEF PullFromAllNodes, Ask, serverVars, Idle
  <2> QED
    BY <1>1, <2>1 DEF AgingOf, AnswerIsFresh, RowsAge, MaintenanceComes
<1>3. CASE Answer
  <2>1. UNCHANGED <<row, station>>
    BY <1>3 DEF Answer, serverVars
  <2>2. /\ pull'.node = pull.node /\ pull'.offers = (mode[pull.node] = "on")
        /\ mode[pull.node] # "down"
    BY <1>3 DEF Answer, Reachable
  <2> QED
    BY <1>1, <2>1, <2>2 DEF AgingOf, AnswerIsFresh, RowsAge, MaintenanceComes
<1>4. CASE Store
  <2>1. pull.stage = "answered" /\ pull.node \in Nodes /\ pull'.stage = "idle"
    BY <1>4, PullForms DEF Store, TypeOK, Idle
  <2>2. CASE pull.node = n
    <3>1. mode[n] = "down" => since[n] = 0
      BY <2>1, <2>2 DEF AgingOf, AnswerIsFresh
    <3>2. station'[n] = IF pull.offers THEN 0 ELSE station[n]
      BY <1>4, <2>2 DEF Store, TypeOK, Upserted
    <3>3. pull.offers /\ mode[n] # "on" => since[n] = 0
      BY <2>1, <2>2 DEF AgingOf, AnswerIsFresh
    <3>4. row'[n].seen = row[n].seen
      BY <1>4, <2>2, RowTypes DEF Store, TypeOK
    <3>5. AnswerIsFresh(n)'
      BY <2>1 DEF AnswerIsFresh
    <3>6. RowsAge(n)'
      BY <1>1, <3>1, <3>2, <3>3, <3>4 DEF AgingOf, RowsAge, Absent
    <3>7. MaintenanceComes(n)'
      BY <1>1, <3>1, <3>2, <3>3 DEF AgingOf, MaintenanceComes
    <3> QED
      BY <3>5, <3>6, <3>7 DEF AgingOf
  <2>3. CASE pull.node # n
    <3>1. row'[n] = row[n] /\ station'[n] = station[n]
      BY <1>4, <2>3 DEF Store, TypeOK
    <3> QED
      BY <1>1, <2>1, <3>1 DEF AgingOf, AnswerIsFresh, RowsAge, MaintenanceComes
  <2> QED
    BY <2>2, <2>3
<1>5. CASE HandlePullError
  <2>1. pull.node \in Nodes /\ row[pull.node].failures < MaxFailures
    BY <1>5, PullForms DEF HandlePullError, TypeOK, Budget
  <2>2. /\ row'[n].seen = row[n].seen
        /\ row'[n].status = "active" => row[n].status = "active"
    BY <1>5, <2>1, RowTypes DEF HandlePullError, TypeOK
  <2>3. pull'.stage = "idle" /\ station' = station
    BY <1>5 DEF HandlePullError, Idle
  <2> QED
    BY <1>1, <2>2, <2>3 DEF AgingOf, AnswerIsFresh, RowsAge, MaintenanceComes
<1> QED
  BY <1>2, <1>3, <1>4, <1>5 DEF PullStep

\* Each of the two statements leaves no row that is too old for it.
LEMMA AgingMaintenance ==
  ASSUME TypeOK, NEW n \in Stations, AgingOf(n), MaintenanceStep
  PROVE  AgingOf(n)'
<1> USE Times, NodeTypes
<1>1. CASE MarkStaleNodesOffline
  <2>1. UNCHANGED <<mode, since, station, pull, maintainIn>>
    BY <1>1 DEF MarkStaleNodesOffline, nodeVars, pullVars
  <2>2. /\ row'[n].seen = row[n].seen
        /\ row'[n].status = "active" =>
               row[n].status = "active" /\ ~(row[n].seen > NodeTimeout)
    BY <1>1 DEF MarkStaleNodesOffline, Stale, Rows
  <2>3. mode[n] = "down" /\ row'[n].status = "active" => since[n] <= NodeTimeout
    BY <2>2 DEF AgingOf, RowsAge
  <2> QED
    BY <2>1, <2>2, <2>3 DEF AgingOf, AnswerIsFresh, RowsAge, MaintenanceComes
<1>2. CASE RemoveStaleStations
  <2>1. /\ UNCHANGED <<mode, since, row, pull>>
        /\ marked /\ ~marked' /\ maintainIn' = MaintainEvery
    BY <1>2 DEF RemoveStaleStations, nodeVars, pullVars
  <2>2. station'[n] # Absent =>
            station'[n] = station[n] /\ ~(station[n] > StationTTL)
    BY <1>2 DEF RemoveStaleStations, Expired
  <2>3. mode[n] # "on" /\ station'[n] # Absent => since[n] <= StationTTL
    BY <2>2 DEF AgingOf, RowsAge
  <2>4. mode[n] = "down" /\ row[n].status = "active" => since[n] <= NodeTimeout
    BY <2>1 DEF AgingOf, MaintenanceComes
  <2>5. AnswerIsFresh(n)' /\ RowsAge(n)'
    BY <2>1, <2>2 DEF AgingOf, AnswerIsFresh, RowsAge
  <2>6. MaintenanceComes(n)'
    BY <2>1, <2>3, <2>4 DEF MaintenanceComes
  <2> QED
    BY <2>5, <2>6 DEF AgingOf
<1> QED
  BY <1>1, <1>2 DEF MaintenanceStep

\* The clock ticks when no answer waits and no maintenance is due or under way.
LEMMA AgingTick ==
  ASSUME TypeOK, NEW n \in Stations, AgingOf(n), Tick
  PROVE  AgingOf(n)'
<1> USE Times, NodeTypes
<1>1. mode' = mode /\ ~marked /\ marked' = marked
  BY DEF Tick, Quiet
<1>2. pull'.stage = pull.stage /\ pull.stage # "answered"
  BY TickPull
<1>3. since'[n] \in 0..Horizon /\ since'[n] <= since[n] + 1
  <2>1. since'[n] = IF since[n] = Horizon THEN Horizon ELSE since[n] + 1
    BY DEF Tick
  <2>2. since[n] \in 0..Horizon
    OBVIOUS
  <2> QED
    BY <2>1, <2>2
<1>4. maintainIn > 0 /\ maintainIn' = maintainIn - 1
  BY DEF Tick, Quiet, Sooner
<1>5. station'[n] = Older(station[n], StationTTL)
  BY DEF Tick
<1>6. /\ row'[n].status = row[n].status
      /\ row[n].status = "active" => row'[n].seen = Older(row[n].seen, NodeTimeout)
  BY TickRow
<1>7. RowsAge(n)'
  <2>1. mode[n] = "down" /\ row[n].status = "active" =>
            row'[n].seen > NodeTimeout \/ row'[n].seen >= since'[n]
    BY <1>3, <1>6 DEF AgingOf, RowsAge, Older, Absent
  <2>2. mode[n] # "on" /\ station'[n] # Absent =>
            station'[n] > StationTTL \/ station'[n] >= since'[n]
    BY <1>3, <1>5 DEF AgingOf, RowsAge, Older, Absent
  <2> QED
    BY <1>1, <1>6, <2>1, <2>2 DEF RowsAge
<1>8. MaintenanceComes(n)'
  <2>1. station'[n] # Absent => station[n] # Absent
    BY <1>5 DEF Older
  <2> QED
    BY <1>1, <1>3, <1>4, <1>6, <2>1 DEF AgingOf, MaintenanceComes
<1> QED
  BY <1>2, <1>7, <1>8 DEF AgingOf, AnswerIsFresh

LEMMA AgingNext == TypeOK /\ Budget /\ Aging /\ [Next]_vars => Aging'
<1> SUFFICES ASSUME TypeOK, Budget, Aging, [Next]_vars, NEW n \in Stations
             PROVE  AgingOf(n)'
  BY DEF Aging
<1>1. AgingOf(n)
  BY DEF Aging
<1>2. CASE NodeStep
  BY <1>1, <1>2, AgingNode
<1>3. CASE PullStep
  BY <1>1, <1>3, AgingPull
<1>4. CASE MaintenanceStep
  BY <1>1, <1>4, AgingMaintenance
<1>5. CASE Tick
  BY <1>1, <1>5, AgingTick
<1>6. CASE UNCHANGED vars
  BY <1>1, <1>6 DEF AgingOf, AnswerIsFresh, RowsAge, MaintenanceComes, vars, nodeVars,
    serverVars, pullVars, maintainVars
<1> QED
  BY <1>2, <1>3, <1>4, <1>5, <1>6 DEF Next

LEMMA AgingHolds == Spec => [](TypeOK /\ Aging)
<1>1. Init => TypeOK /\ Budget /\ Aging
  BY InitType, AgingInit DEF Aging
<1>2. TypeOK /\ Budget /\ Aging /\ [Next]_vars => (TypeOK /\ Budget /\ Aging)'
  BY NextType, AgingNext
<1> QED
  BY <1>1, <1>2, PTL DEF Spec

\* A node that went down leaves the list of nodes to pull within DeadTime, for
\* any number of nodes and whatever the two timeouts are
\* (MarkStaleNodesOffline against an answer that makes the row active again).
THEOREM DeadDropped == Spec => []DeadIsDropped
<1>1. TypeOK /\ Aging => DeadIsDropped
  BY Times, NodeTypes DEF Aging, AgingOf, MaintenanceComes, DeadIsDropped, DeadTime
<1> QED
  BY <1>1, AgingHolds, PTL

\* What a node has stopped offering leaves the listing within DelistTime, for
\* any number of nodes and any station_ttl (RemoveStaleStations against an answer
\* stored late).
THEOREM GoneDelisted == Spec => []GoneIsDelisted
<1>1. TypeOK /\ Aging => GoneIsDelisted
  BY Times, NodeTypes DEF Aging, AgingOf, MaintenanceComes, GoneIsDelisted, DelistTime
<1> QED
  BY <1>1, AgingHolds, PTL

(***************************************************************************)
(* How fresh the server keeps the station of a node that stays up.  Its    *)
(* age and the time until its next answer at the latest never exceed Lag   *)
(* together: the node has still to register, or the next cycle will read   *)
(* it from the list, or it is in the cycle under way, or is being asked,   *)
(* or has answered.                                                        *)
(***************************************************************************)
Refreshing ==
    /\ StationTTL >= Lag /\ Horizon > Lag
    /\ Cardinality(Nodes) <= 2 \/ RegisterEvery <= NodeTimeout

\* What nodes may keep a cycle for.
Share(S) == Cardinality(S) * NodeTimeout

\* What the nodes but n may still keep the cycle under way for.
Rest == IF pull.stage = "asked" THEN NodeTimeout - pull.waited ELSE 0
Work(n) == Share(todo \ {n}) + (IF pull.stage = "asked" /\ pull.node = n THEN 0 ELSE Rest)

\* The time until the next cycle, if n is not in this one.
NextCycle(n) == IF Work(n) = 0 /\ ~pullDue THEN 1 ELSE Work(n)

Age(n) == IF station[n] \in 0..since[n] THEN station[n] ELSE since[n]
Asking(n) == pull.stage # "idle" /\ pull.node = n

\* Maintenance does not find the row stale before the next cycle.
StaysActive(n) ==
    /\ row[n].status = "active"
    /\ \/ row[n].seen + NextCycle(n) <= NodeTimeout
       \/ RegisterEvery <= NodeTimeout /\ row[n].seen + registerIn[n] <= RegisterEvery

ToRegister(n) == Age(n) + registerIn[n] <= RegisterEvery
ToBeRead(n) ==
    /\ StaysActive(n) /\ n \notin todo /\ ~Asking(n)
    /\ Age(n) + NextCycle(n) + CycleTime <= Lag
ToBeAsked(n) == n \in todo /\ Age(n) + Work(n) + NodeTimeout <= Lag
IsAsked(n) ==
    /\ pull.stage = "asked" /\ pull.node = n
    /\ Age(n) + NodeTimeout <= Lag + pull.waited
HasAnswered(n) ==
    pull.stage = "answered" /\ pull.node = n /\ pull.offers /\ Age(n) <= Lag

FreshOf(n) == mode[n] = "on" =>
    ToRegister(n) \/ ToBeRead(n) \/ ToBeAsked(n) \/ IsAsked(n) \/ HasAnswered(n)

\* A node is asked once in a cycle, a request that has waited through a tick
\* finds the next cycle due, and one that was answered without the station was
\* so before the owner added it.
Cycles ==
    /\ pull.stage # "idle" => pull.node \notin todo
    /\ pull.stage = "asked" /\ pull.waited > 0 => pullDue
    /\ \A n \in Stations :
           pull.stage = "answered" /\ pull.node = n /\ ~pull.offers /\ mode[n] = "on" =>
               since[n] = 0

\* Factors of the same size.
LEMMA Monotone ==
  ASSUME NEW a \in Nat, NEW b \in Nat, NEW t \in Nat, a <= b
  PROVE  a * t <= b * t /\ a * t \in Nat
<1>1. PICK d \in Nat : b = a + d
  <2>1. b - a \in Nat /\ b = a + (b - a)
    OBVIOUS
  <2> QED
    BY <2>1
<1>2. b * t = a * t + d * t
  BY <1>1
<1>3. a * t \in Nat /\ d * t \in Nat
  OBVIOUS
<1> QED
  BY <1>2, <1>3

LEMMA Shares ==
  ASSUME NEW S \in SUBSET Nodes
  PROVE  /\ Share(S) \in Nat
         /\ Share(S) <= CycleTime /\ CycleTime \in Nat
         /\ S = {} => Share(S) = 0
         /\ S # {} => Share(S) >= NodeTimeout
         /\ \A x \in S : Share(S) = Share(S \ {x}) + NodeTimeout
         /\ \A x \in Nodes \ S : Share(S) + NodeTimeout <= CycleTime
<1>1. /\ IsFiniteSet(Nodes) /\ IsFiniteSet(S) /\ Cardinality(S) \in Nat
      /\ Cardinality(Nodes) \in Nat /\ Cardinality(S) <= Cardinality(Nodes)
  BY NodesAssumption, FS_Subset, FS_CardinalityType
<1>2. Share(S) \in Nat /\ Share(S) <= CycleTime /\ CycleTime \in Nat
  BY <1>1, Times, Monotone DEF Share, CycleTime
<1>3. ASSUME S = {} PROVE Share(S) = 0
  <2>1. Cardinality(S) = 0
    BY <1>3, FS_EmptySet
  <2> QED
    BY <2>1, Times DEF Share
<1>4. ASSUME NEW x \in S PROVE Share(S) = Share(S \ {x}) + NodeTimeout
  <2>1. Cardinality(S \ {x}) = Cardinality(S) - 1 /\ Cardinality(S \ {x}) \in Nat
    BY <1>1, FS_RemoveElement, FS_CardinalityType
  <2>2. Cardinality(S) = Cardinality(S \ {x}) + 1
    BY <1>1, <2>1
  <2> DEFINE c == Cardinality(S \ {x})
  <2>3. \A m \in Nat : (m + 1) * NodeTimeout = m * NodeTimeout + NodeTimeout
    BY Times
  <2> QED
    BY <2>1, <2>2, <2>3 DEF Share
<1>5. ASSUME S # {} PROVE Share(S) >= NodeTimeout
  <2>1. PICK x \in S : TRUE
    BY <1>5
  <2>2. IsFiniteSet(S \ {x}) /\ Cardinality(S \ {x}) \in Nat
    BY <1>1, FS_Subset, FS_CardinalityType
  <2>3. Share(S \ {x}) \in Nat
    BY <2>2, Times, Monotone DEF Share
  <2> QED
    BY <1>4, <2>3, Times
<1>6. ASSUME NEW x \in Nodes \ S PROVE Share(S) + NodeTimeout <= CycleTime
  <2>1. Cardinality(S \cup {x}) = Cardinality(S) + 1 /\ IsFiniteSet(S \cup {x})
    BY <1>1, FS_AddElement
  <2>2. Cardinality(S \cup {x}) <= Cardinality(Nodes)
    BY <1>1, FS_Subset
  <2>3. (Cardinality(S) + 1) * NodeTimeout <= CycleTime
    BY <1>1, <2>1, <2>2, Times, Monotone DEF CycleTime
  <2>4. \A m \in Nat : (m + 1) * NodeTimeout = m * NodeTimeout + NodeTimeout
    BY Times
  <2> QED
    BY <1>1, <2>3, <2>4 DEF Share
<1> QED
  BY <1>2, <1>3, <1>4, <1>5, <1>6

\* The intervals that Lag is made of.
LEMMA Lags ==
  ASSUME Stations # {}
  PROVE  /\ CycleTime \in Nat /\ OthersTime \in Nat /\ Lag \in Nat
         /\ OthersTime >= 1 /\ CycleTime <= OthersTime + NodeTimeout
         /\ CycleTime >= NodeTimeout
         /\ Lag = RegisterEvery + OthersTime + CycleTime
         /\ Cardinality(Nodes) <= 2 => OthersTime = NodeTimeout
<1> DEFINE N == Cardinality(Nodes)
<1>1. N \in Nat /\ CycleTime \in Nat /\ CycleTime >= NodeTimeout /\ CycleTime = N * NodeTimeout
  BY NodesAssumption, Shares, FS_CardinalityType DEF Share, CycleTime
<1>2. N <= 2 => CycleTime <= 2 * NodeTimeout
  BY <1>1, Monotone, Times
<1>3. N > 2 => CycleTime >= 3 * NodeTimeout
  BY <1>1, Monotone, Times
<1> HIDE DEF N
<1>4. OthersTime = IF N > 2 THEN CycleTime - NodeTimeout ELSE NodeTimeout
  BY DEF OthersTime, N
<1>5. /\ OthersTime \in Nat /\ OthersTime >= 1 /\ CycleTime <= OthersTime + NodeTimeout
      /\ N <= 2 => OthersTime = NodeTimeout
  BY <1>1, <1>2, <1>3, <1>4, Times
<1> QED
  BY <1>1, <1>5, Times DEF Lag, N

(***************************************************************************)
(* What the steps do to the work of a cycle and to the age of a station.   *)
(***************************************************************************)
LEMMA WorkBound ==
  ASSUME TypeOK, Cycles, NEW n \in Stations
  PROVE  /\ Share(todo \ {n}) \in Nat /\ Rest \in 0..NodeTimeout
         /\ Work(n) \in Nat /\ Work(n) + NodeTimeout <= CycleTime
         /\ NextCycle(n) \in Nat /\ NextCycle(n) <= OthersTime
<1>1. n \in Nodes /\ todo \ {n} \in SUBSET Nodes
  BY NodesAssumption DEF TypeOK
<1>2. /\ Share(todo \ {n}) \in Nat /\ CycleTime \in Nat
      /\ Share(todo \ {n}) + NodeTimeout <= CycleTime
  BY <1>1, Shares
<1>3. Rest \in 0..NodeTimeout
  BY PullForms, Times DEF TypeOK, Rest
<1>4. ASSUME pull.stage = "asked", pull.node # n
      PROVE  Share(todo \ {n}) + NodeTimeout + NodeTimeout <= CycleTime
  <2> DEFINE o == pull.node
  <2>1. o \in Nodes /\ o \notin todo
    BY <1>4, PullForms DEF TypeOK, Cycles
  <2>2. (todo \ {n}) \cup {o} \in SUBSET Nodes /\ n \in Nodes \ ((todo \ {n}) \cup {o})
    BY <1>1, <1>4, <2>1
  <2>3. Share((todo \ {n}) \cup {o}) + NodeTimeout <= CycleTime
    BY <2>2, Shares
  <2>4. ((todo \ {n}) \cup {o}) \ {o} = todo \ {n}
    BY <2>1
  <2>5. Share((todo \ {n}) \cup {o}) = Share(todo \ {n}) + NodeTimeout
    BY <2>2, <2>4, Shares
  <2> QED
    BY <2>3, <2>5
<1>5. Work(n) \in Nat /\ Work(n) + NodeTimeout <= CycleTime
  <2>1. CASE pull.stage = "asked" /\ pull.node # n
    <3>1. Work(n) = Share(todo \ {n}) + Rest
      BY <2>1 DEF Work
    <3> QED
      BY <1>2, <1>3, <1>4, <2>1, <3>1, Times
  <2>2. CASE ~(pull.stage = "asked" /\ pull.node # n)
    <3>1. Work(n) = Share(todo \ {n})
      BY <1>2, <2>2 DEF Work, Rest
    <3> QED
      BY <1>2, <3>1
  <2> QED
    BY <2>1, <2>2
<1>6. /\ OthersTime \in Nat /\ OthersTime >= 1 /\ CycleTime \in Nat
      /\ CycleTime <= OthersTime + NodeTimeout
  <2>1. Stations # {}
    OBVIOUS
  <2> QED
    BY <2>1, Lags
<1>7. NextCycle(n) = Work(n) \/ NextCycle(n) = 1
  BY DEF NextCycle
<1> QED
  BY <1>2, <1>3, <1>5, <1>6, <1>7, Times

\* An idle task has done all work but its list.
LEMMA IdleWork ==
  ASSUME TypeOK, Cycles, NEW n \in Stations, pull.stage # "asked", todo \subseteq {n}
  PROVE  Work(n) = 0
  BY Shares, NodesAssumption DEF Work, Rest

LEMMA AskWork ==
  ASSUME TypeOK, Cycles, NEW n \in Stations, NEW k \in Nodes \ {n}, Ask(k)
  PROVE  Work(n)' = Work(n)
<1>1. /\ pull.stage = "idle" /\ k \in todo /\ todo' = todo \ {k}
      /\ pull' = [stage |-> "asked", node |-> k, waited |-> 0]
  BY DEF Ask, Idle
<1>2. Work(n) = Share(todo \ {n})
  BY <1>1, WorkBound DEF Work, Rest
<1>3. Work(n)' = Share((todo \ {n}) \ {k}) + NodeTimeout
  <2>1. todo' \ {n} = (todo \ {n}) \ {k}
    BY <1>1
  <2>2. pull'.stage = "asked" /\ pull'.node # n /\ pull'.waited = 0
    BY <1>1
  <2>3. Rest' = NodeTimeout
    BY <2>2, Times DEF Rest
  <2> QED
    BY <2>1, <2>2, <2>3 DEF Work, Share
<1>4. todo \ {n} \in SUBSET Nodes /\ k \in todo \ {n}
  BY <1>1 DEF TypeOK
<1> QED
  BY <1>2, <1>3, <1>4, Shares

\* An answer, or none, of another node.
LEMMA EndWork ==
  ASSUME TypeOK, Cycles, NEW n \in Stations, Answer \/ HandlePullError, pull.node # n
  PROVE  Work(n)' <= Work(n) /\ NextCycle(n)' <= NextCycle(n)
<1>1. /\ pull.stage = "asked" /\ UNCHANGED <<todo, pullDue>> /\ pull'.stage # "asked"
      /\ pull.waited \in 0..NodeTimeout
  BY PullForms DEF Answer, HandlePullError, Idle, TypeOK
<1>2. Share(todo \ {n}) \in Nat /\ Rest = NodeTimeout - pull.waited
  BY <1>1, WorkBound DEF Rest
<1>3. Work(n)' = Share(todo \ {n}) /\ Work(n) = Share(todo \ {n}) + Rest
  BY <1>1, <1>2 DEF Work, Rest, Share
<1>4. pull.waited > 0 => pullDue
  BY <1>1 DEF Cycles
<1> QED
  BY <1>1, <1>2, <1>3, <1>4, Times DEF NextCycle

\* The clock ticks only while a request waits, or between two cycles.
LEMMA TickWork ==
  ASSUME TypeOK, Cycles, NEW n \in Stations, Tick, ~Asking(n)
  PROVE  /\ NextCycle(n)' = NextCycle(n) - 1
         /\ n \in todo => Work(n)' = Work(n) - 1
         /\ todo' = todo /\ ~Asking(n)'
<1>1. todo' = todo /\ pullDue'
  BY DEF Tick
<1>2. CASE pull.stage = "asked"
  <2>1. /\ pull.waited \in 0..NodeTimeout /\ pull.waited < NodeTimeout
        /\ pull' = [pull EXCEPT !.waited = @ + 1]
        /\ pull = [stage |-> "asked", node |-> pull.node, waited |-> pull.waited]
    BY <1>2, PullForms DEF Tick, Quiet, TypeOK, Idle
  <2>2. pull'.stage = "asked" /\ pull'.node = pull.node /\ pull'.waited = pull.waited + 1
    BY <2>1
  <2>3. Rest = NodeTimeout - pull.waited /\ Rest' = NodeTimeout - (pull.waited + 1)
    BY <1>2, <2>2 DEF Rest
  <2>4. Work(n) = Share(todo \ {n}) + Rest /\ Work(n)' = Share(todo \ {n}) + Rest'
    BY <1>1, <1>2, <2>2 DEF Work, Asking, Share
  <2>5. Share(todo \ {n}) \in Nat
    BY WorkBound
  <2>6. Work(n)' = Work(n) - 1 /\ Work(n) >= 1
    BY <2>1, <2>3, <2>4, <2>5, Times
  <2>7. NextCycle(n) = Work(n) /\ NextCycle(n)' = Work(n)'
    BY <1>1, <2>6 DEF NextCycle
  <2> QED
    BY <1>1, <1>2, <2>2, <2>6, <2>7 DEF Asking
<1>3. CASE pull.stage # "asked"
  <2>1. pull = Idle /\ pull' = Idle /\ todo = {} /\ ~pullDue
    BY <1>3 DEF Tick, Quiet
  <2>2. Work(n) = 0
    BY <1>3, <2>1, IdleWork
  <2>3. Work(n)' = Work(n)
    BY <1>1, <2>1 DEF Work, Rest, Share
  <2> QED
    BY <1>1, <2>1, <2>2, <2>3 DEF NextCycle, Asking, Idle
<1> QED
  BY <1>2, <1>3

LEMMA AgeBound ==
  ASSUME TypeOK, NEW n \in Stations
  PROVE  Age(n) \in 0..Horizon /\ registerIn[n] \in 0..RegisterEvery /\ n \in Nodes
  BY NodeTypes, Times DEF Age, TypeOK

LEMMA AgeTick ==
  ASSUME TypeOK, NEW n \in Stations, Tick, Age(n) < Horizon, Age(n) <= StationTTL
  PROVE  Age(n)' <= Age(n) + 1
<1>1. /\ since[n] \in 0..Horizon /\ since'[n] = IF since[n] = Horizon THEN Horizon ELSE since[n] + 1
      /\ station[n] \in {Absent} \cup 0..StationTTL + 1
      /\ station'[n] = Older(station[n], StationTTL)
  BY NodeTypes DEF Tick
<1>2. CASE station[n] \in 0..since[n]
  <2>1. Age(n) = station[n] /\ station'[n] = station[n] + 1
    BY <1>1, <1>2, Times DEF Age, Older, Absent
  <2>2. station'[n] \in 0..since'[n]
    BY <1>1, <1>2, <2>1, Times
  <2> QED
    BY <2>1, <2>2 DEF Age
<1>3. CASE station[n] \notin 0..since[n]
  <2>1. Age(n) = since[n] /\ since'[n] = since[n] + 1
    BY <1>1, <1>3, Times DEF Age
  <2>2. Age(n)' <= since'[n]
    BY <1>1, <2>1 DEF Age
  <2> QED
    BY <2>1, <2>2
<1> QED
  BY <1>2, <1>3

\* A fresh station is younger than what RemoveStaleStations looks for, and than
\* what is remembered.
LEMMA FreshAge ==
  ASSUME TypeOK, Cycles, Refreshing, NEW n \in Stations, FreshOf(n), mode[n] = "on"
  PROVE  /\ Age(n) <= Lag /\ Age(n) < Horizon /\ Age(n) <= StationTTL /\ Age(n) \in Nat
         /\ Lag \in Nat
<1>1. Lag \in Nat /\ RegisterEvery <= Lag
  <2>1. Stations # {}
    OBVIOUS
  <2> QED
    BY <2>1, Lags, Times
<1>2. /\ Age(n) \in Nat /\ registerIn[n] \in Nat /\ NextCycle(n) \in Nat /\ Work(n) \in Nat
      /\ CycleTime \in Nat
  <2>1. Stations # {}
    OBVIOUS
  <2>2. CycleTime \in Nat
    BY <2>1, Lags
  <2>3. Age(n) \in 0..Horizon /\ registerIn[n] \in 0..RegisterEvery
    BY AgeBound
  <2>4. NextCycle(n) \in Nat /\ Work(n) \in Nat
    BY WorkBound
  <2> QED
    BY <2>2, <2>3, <2>4, Times
<1>3. pull.stage = "asked" => pull.waited \in 0..NodeTimeout
  BY PullForms DEF TypeOK
<1>4. Age(n) <= Lag
  BY <1>1, <1>2, <1>3, Times DEF FreshOf, ToRegister, ToBeRead, ToBeAsked, IsAsked, HasAnswered
<1> QED
  BY <1>1, <1>2, <1>4, Times DEF Refreshing

(***************************************************************************)
(* Every step keeps the stations fresh.                                    *)
(***************************************************************************)
LEMMA CyclesNext ==
  ASSUME TypeOK, Cycles, [Next]_vars
  PROVE  Cycles'
<1>1. CASE Answer
  <2>1. /\ pull.stage = "asked" /\ UNCHANGED <<todo, mode, since>>
        /\ pull' = [stage |-> "answered", node |-> pull.node, offers |-> mode[pull.node] = "on"]
    BY <1>1 DEF Answer, nodeVars
  <2> QED
    BY <2>1 DEF Cycles
<1>2. ASSUME NEW n \in Nodes, Ask(n) PROVE Cycles'
  <2>1. /\ todo' = todo \ {n} /\ pull' = [stage |-> "asked", node |-> n, waited |-> 0]
    BY <1>2 DEF Ask
  <2>2. pull'.stage = "asked" /\ pull'.node = n /\ pull'.waited = 0
    BY <2>1
  <2> QED
    BY <2>1, <2>2 DEF Cycles
<1>3. CASE Store \/ HandlePullError \/ PullFromAllNodes
  <2>1. pull'.stage = "idle"
    BY <1>3 DEF Store, HandlePullError, PullFromAllNodes, Idle
  <2> QED
    BY <2>1 DEF Cycles
<1>4. CASE Tick
  <2>1. /\ UNCHANGED <<mode, todo>> /\ pullDue' /\ pull'.stage = pull.stage
        /\ pull.stage # "answered" /\ (pull.stage # "idle" => pull'.node = pull.node)
    BY <1>4, TickPull, PullForms DEF Tick, TypeOK, Idle
  <2> QED
    BY <2>1 DEF Cycles
<1>5. ASSUME NEW n \in Nodes, NEW m \in Modes(n), Change(n, m) PROVE Cycles'
  <2>1. UNCHANGED <<pull, todo, pullDue>>
    BY <1>5 DEF Change, pullVars
  <2>2. \A s \in Stations : since'[s] = 0 \/ (since'[s] = since[s] /\ mode'[s] = mode[s])
    <3> SUFFICES ASSUME NEW s \in Stations
                 PROVE  since'[s] = 0 \/ (since'[s] = since[s] /\ mode'[s] = mode[s])
      OBVIOUS
    <3>1. s = n => since'[s] = 0
      BY <1>5 DEF Change
    <3>2. s # n => since'[s] = since[s] /\ mode'[s] = mode[s]
      BY <1>5, NodesAssumption DEF Change, TypeOK
    <3> QED
      BY <3>1, <3>2
  <2> QED
    BY <2>1, <2>2 DEF Cycles
<1>6. CASE UNCHANGED <<pull, todo, pullDue, mode, since>>
  BY <1>6 DEF Cycles
<1>7. CASE MaintenanceStep \/ (\E n \in Nodes : Register(n)) \/ UNCHANGED vars
  BY <1>6, <1>7 DEF MaintenanceStep, MarkStaleNodesOffline, RemoveStaleStations, Register, vars,
    nodeVars, pullVars
<1> QED
  BY <1>1, <1>2, <1>3, <1>4, <1>5, <1>7 DEF Next, NodeStep, PullStep

\* A registration comes in time for all that follows it.
LEMMA FreshRegister ==
  ASSUME TypeOK, Cycles, Refreshing, NEW n \in Stations, FreshOf(n), mode[n] = "on",
         Register(n)
  PROVE  FreshOf(n)'
<1>1. /\ UNCHANGED <<mode, since, station, pullDue, todo, pull>>
      /\ registerIn[n] = 0 /\ registerIn'[n] = RegisterEvery
      /\ row'[n].status = "active" /\ row'[n].seen = 0
  <2>1. n \in Nodes /\ row[n] \in Rows
    BY NodeTypes
  <2>2. row'[n] = Registered(row[n])
    BY <2>1 DEF Register, Reachable, TypeOK
  <2>3. Registered(row[n]).status = "active" /\ Registered(row[n]).seen = 0
    BY <2>1 DEF Registered, Rows
  <2> QED
    BY <2>1, <2>2, <2>3 DEF Register, RegistrationDue, TypeOK, pullVars
<1>2. /\ Age(n)' = Age(n) /\ Work(n)' = Work(n) /\ NextCycle(n)' = NextCycle(n)
      /\ Asking(n)' = Asking(n) /\ CycleTime' = CycleTime /\ Lag' = Lag
  BY <1>1 DEF Age, Work, NextCycle, Asking, Rest, Share, CycleTime, Lag, OthersTime
<1>3. Stations # {}
  OBVIOUS
<1>4. /\ CycleTime \in Nat /\ OthersTime \in Nat /\ CycleTime <= OthersTime + NodeTimeout
      /\ CycleTime >= NodeTimeout /\ Lag = RegisterEvery + OthersTime + CycleTime
      /\ Cardinality(Nodes) <= 2 => OthersTime = NodeTimeout
  BY <1>3, Lags
<1>5. /\ Work(n) \in Nat /\ Work(n) + NodeTimeout <= CycleTime
      /\ NextCycle(n) \in Nat /\ NextCycle(n) <= OthersTime /\ Age(n) \in Nat
  BY WorkBound, FreshAge
<1>6. StaysActive(n)'
  <2>1. NextCycle(n) <= NodeTimeout \/ RegisterEvery <= NodeTimeout
    BY <1>4, <1>5 DEF Refreshing
  <2> QED
    BY <1>1, <1>2, <1>5, <2>1, Times DEF StaysActive
<1>7. CASE ToRegister(n)
  <2>1. Age(n) <= RegisterEvery
    BY <1>1, <1>5, <1>7 DEF ToRegister
  <2>2. ASSUME n \notin todo, ~Asking(n) PROVE ToBeRead(n)'
    <3>1. Age(n) + NextCycle(n) + CycleTime <= Lag
      BY <1>4, <1>5, <2>1, Times
    <3> QED
      BY <1>1, <1>2, <1>6, <2>2, <3>1 DEF ToBeRead
  <2>3. ASSUME n \in todo PROVE ToBeAsked(n)'
    <3>1. Age(n) + Work(n) + NodeTimeout <= Lag
      BY <1>4, <1>5, <2>1, Times
    <3> QED
      BY <1>1, <1>2, <2>3, <3>1 DEF ToBeAsked
  <2>4. ASSUME pull.stage = "asked", pull.node = n PROVE IsAsked(n)'
    <3>1. pull.waited \in Nat
      BY <2>4, PullForms DEF TypeOK
    <3>2. Age(n) + NodeTimeout <= Lag + pull.waited
      BY <1>4, <1>5, <2>1, <3>1, Times
    <3> QED
      BY <1>1, <1>2, <2>4, <3>2 DEF IsAsked
  <2>5. ASSUME pull.stage = "answered", pull.node = n, pull.offers PROVE HasAnswered(n)'
    <3>1. Age(n) <= Lag
      BY <1>4, <1>5, <2>1, Times
    <3> QED
      BY <1>1, <1>2, <2>5, <3>1 DEF HasAnswered
  <2>6. ASSUME pull.stage = "answered", pull.node = n, ~pull.offers PROVE ToRegister(n)'
    <3>1. Age(n) = 0
      BY <2>6, NodeTypes DEF Cycles, Age
    <3> QED
      BY <1>1, <1>2, <3>1, Times DEF ToRegister
  <2>7. pull.stage \in {"idle", "asked", "answered"}
    BY PullForms DEF TypeOK
  <2> QED
    BY <2>2, <2>3, <2>4, <2>5, <2>6, <2>7 DEF FreshOf, Asking
<1>8. CASE ToBeRead(n)
  BY <1>1, <1>2, <1>6, <1>8 DEF ToBeRead, FreshOf
<1>9. CASE ToBeAsked(n) \/ IsAsked(n) \/ HasAnswered(n)
  BY <1>1, <1>2, <1>9 DEF ToBeAsked, IsAsked, HasAnswered, FreshOf
<1> QED
  BY <1>7, <1>8, <1>9 DEF FreshOf

LEMMA FreshNode ==
  ASSUME TypeOK, Cycles, Refreshing, NEW n \in Stations, FreshOf(n), NodeStep
  PROVE  FreshOf(n)'
<1>1. PICK k \in Nodes : Register(k) \/ \E m \in Modes(k) : Change(k, m)
  BY DEF NodeStep
<1>2. n \in Nodes
  BY NodesAssumption
<1>3. ASSUME \E m \in Modes(k) : Change(k, m), k = n PROVE FreshOf(n)'
  <2>1. since'[n] = 0 /\ station' = station /\ registerIn'[n] \in {0, registerIn[n]}
    BY <1>2, <1>3 DEF Change, serverVars, TypeOK
  <2>2. Age(n)' = 0
    BY <2>1 DEF Age
  <2>3. ToRegister(n)'
    BY <2>1, <2>2, AgeBound, Times DEF ToRegister
  <2> QED
    BY <2>3 DEF FreshOf
<1>4. ASSUME (\E m \in Modes(k) : Change(k, m)) \/ Register(k), k # n PROVE FreshOf(n)'
  <2>1. /\ UNCHANGED <<station, pullDue, todo, pull>>
        /\ mode'[n] = mode[n] /\ since'[n] = since[n] /\ registerIn'[n] = registerIn[n]
        /\ row'[n] = row[n]
    BY <1>2, <1>4 DEF Change, Register, serverVars, pullVars, TypeOK
  <2>2. /\ Age(n)' = Age(n) /\ Work(n)' = Work(n) /\ NextCycle(n)' = NextCycle(n)
        /\ Asking(n)' = Asking(n)
    BY <2>1 DEF Age, Work, NextCycle, Asking, Rest, Share
  <2> QED
    BY <2>1, <2>2 DEF FreshOf, ToRegister, ToBeRead, StaysActive, ToBeAsked, IsAsked, HasAnswered
<1>5. ASSUME Register(k), k = n PROVE FreshOf(n)'
  <2>1. mode' = mode
    BY <1>5 DEF Register
  <2>2. CASE mode[n] = "on"
    BY <1>5, <2>2, FreshRegister
  <2> QED
    BY <2>1, <2>2 DEF FreshOf
<1> QED
  BY <1>1, <1>3, <1>4, <1>5

\* The cycle reads the list while the row is active.
LEMMA FreshRead ==
  ASSUME TypeOK, Cycles, Refreshing, NEW n \in Stations, FreshOf(n), mode[n] = "on",
         PullFromAllNodes
  PROVE  FreshOf(n)'
<1>1. /\ pullDue /\ todo = {} /\ pull = Idle /\ pull.stage = "idle"
      /\ todo' = ActiveNodes
      /\ UNCHANGED <<mode, since, registerIn, row, station, pull>>
  BY DEF PullFromAllNodes, nodeVars, serverVars, Idle
<1>2. Age(n)' = Age(n) /\ Age(n) \in Nat
  BY <1>1, FreshAge DEF Age
<1>3. CASE ToRegister(n)
  BY <1>1, <1>2, <1>3 DEF ToRegister, FreshOf
<1>4. CASE ToBeRead(n)
  <2>1. n \in todo'
    BY <1>1, <1>4, NodesAssumption DEF ToBeRead, StaysActive, ActiveNodes
  <2>2. NextCycle(n) \in Nat
    BY WorkBound
  <2>3. Age(n) + CycleTime <= Lag
    <3>1. Stations # {}
      OBVIOUS
    <3> QED
      BY <1>2, <1>4, <2>2, <3>1, Lags DEF ToBeRead
  <2>4. Work(n)' \in Nat /\ Work(n)' + NodeTimeout <= CycleTime
    <3>1. todo' \ {n} \in SUBSET Nodes /\ n \in Nodes \ (todo' \ {n})
      BY <1>1, NodesAssumption DEF ActiveNodes
    <3>2. Share(todo' \ {n}) \in Nat /\ Share(todo' \ {n}) + NodeTimeout <= CycleTime
      BY <3>1, Shares
    <3>3. Work(n)' = Share(todo' \ {n})
      BY <1>1, <3>2 DEF Work, Rest, Share
    <3> QED
      BY <3>2, <3>3
  <2>5. Age(n) + Work(n)' + NodeTimeout <= Lag
    <3>1. Stations # {}
      OBVIOUS
    <3>2. CycleTime \in Nat /\ Lag \in Nat
      BY <3>1, Lags
    <3> QED
      BY <1>2, <2>3, <2>4, <3>2, Times
  <2>6. Age(n)' + Work(n)' + NodeTimeout <= Lag
    BY <1>2, <2>5
  <2> QED
    BY <2>1, <2>6 DEF ToBeAsked, FreshOf
<1> QED
  BY <1>1, <1>3, <1>4 DEF FreshOf, ToBeAsked, IsAsked, HasAnswered

LEMMA FreshAsk ==
  ASSUME TypeOK, Cycles, Refreshing, NEW n \in Stations, FreshOf(n), mode[n] = "on",
         NEW k \in Nodes, Ask(k)
  PROVE  FreshOf(n)'
<1>1. /\ pull.stage = "idle" /\ k \in todo /\ todo' = todo \ {k}
      /\ pull'.stage = "asked" /\ pull'.node = k /\ pull'.waited = 0
      /\ UNCHANGED <<mode, since, registerIn, row, station, pullDue>>
  BY DEF Ask, nodeVars, serverVars, Idle
<1>2. Age(n)' = Age(n) /\ Age(n) \in Nat
  BY <1>1, FreshAge DEF Age
<1>3. CASE k = n
  <2>1. CASE ToRegister(n)
    BY <1>1, <1>2, <2>1 DEF ToRegister, FreshOf
  <2>2. CASE ToBeAsked(n)
    <3>1. Work(n) \in Nat /\ Lag \in Nat
      BY WorkBound, FreshAge
    <3>2. Age(n) + NodeTimeout <= Lag + 0
      BY <1>2, <2>2, <3>1, Times DEF ToBeAsked
    <3> QED
      BY <1>1, <1>2, <1>3, <3>2 DEF IsAsked, FreshOf
  <2> QED
    BY <1>1, <1>3, <2>1, <2>2 DEF FreshOf, ToBeRead, IsAsked, HasAnswered
<1>4. CASE k # n
  <2>1. Work(n)' = Work(n)
    BY <1>4, AskWork
  <2>2. NextCycle(n)' = NextCycle(n)
    BY <1>1, <2>1 DEF NextCycle
  <2> QED
    BY <1>1, <1>2, <1>4, <2>1, <2>2
    DEF FreshOf, ToRegister, ToBeRead, StaysActive, Asking, ToBeAsked, IsAsked, HasAnswered
<1> QED
  BY <1>3, <1>4

\* The answer of n counts, that of another node makes way.
LEMMA FreshAnswer ==
  ASSUME TypeOK, Cycles, Refreshing, NEW n \in Stations, FreshOf(n), mode[n] = "on",
         Answer \/ HandlePullError
  PROVE  FreshOf(n)'
<1>1. /\ pull.stage = "asked" /\ UNCHANGED <<mode, since, registerIn, station, pullDue, todo>>
      /\ pull.node \in Nodes /\ pull.waited \in 0..NodeTimeout
  BY PullForms DEF Answer, HandlePullError, nodeVars, serverVars, TypeOK
<1>2. Age(n)' = Age(n) /\ Age(n) \in Nat /\ Age(n) <= Lag /\ n \in Nodes
  BY <1>1, FreshAge, NodesAssumption DEF Age
<1>3. CASE pull.node = n
  <2>1. Answer
    BY <1>3 DEF HandlePullError, Reachable
  <2>2. pull'.stage = "answered" /\ pull'.node = n /\ pull'.offers
    BY <1>3, <2>1 DEF Answer
  <2> QED
    BY <1>2, <2>2 DEF HasAnswered, FreshOf
<1>4. CASE pull.node # n
  <2>1. row'[n] = row[n] /\ (pull'.stage = "idle" \/ pull'.node # n)
    BY <1>2, <1>4 DEF Answer, HandlePullError, serverVars, Idle, TypeOK
  <2>2. Work(n)' <= Work(n) /\ NextCycle(n)' <= NextCycle(n)
    BY <1>4, EndWork
  <2>3. /\ Work(n) \in Nat /\ NextCycle(n) \in Nat
        /\ Work(n)' \in Nat /\ NextCycle(n)' \in Nat
    <3>1. Share(todo \ {n}) \in Nat /\ Work(n) \in Nat /\ NextCycle(n) \in Nat
      BY WorkBound
    <3>2. pull'.stage # "asked"
      BY DEF Answer, HandlePullError, Idle
    <3>3. Work(n)' = Share(todo \ {n})
      BY <1>1, <3>1, <3>2 DEF Work, Rest, Share
    <3> QED
      BY <3>1, <3>3 DEF NextCycle
  <2>4. CASE ToRegister(n)
    BY <1>1, <1>2, <2>4 DEF ToRegister, FreshOf
  <2>5. CASE ToBeRead(n)
    <3>1. ~Asking(n)' /\ n \notin todo'
      BY <1>1, <2>1, <2>5 DEF ToBeRead, Asking
    <3>2. StaysActive(n)'
      <4>1. row[n].seen \in Nat
        BY NodeTypes, Times
      <4> QED
        BY <1>1, <2>1, <2>2, <2>3, <2>5, <4>1, Times DEF ToBeRead, StaysActive
    <3>3. Age(n) + NextCycle(n)' + CycleTime <= Lag
      <4>1. Stations # {}
        OBVIOUS
      <4>2. CycleTime \in Nat /\ Lag \in Nat
        BY <4>1, Lags
      <4> QED
        BY <1>2, <2>2, <2>3, <2>5, <4>2 DEF ToBeRead
    <3>4. Age(n)' + NextCycle(n)' + CycleTime <= Lag
      BY <1>2, <3>3
    <3> QED
      BY <3>1, <3>2, <3>4 DEF ToBeRead, FreshOf
  <2>6. CASE ToBeAsked(n)
    <3>1. Age(n) + Work(n)' + NodeTimeout <= Lag
      BY <1>2, <2>2, <2>3, <2>6, FreshAge, Times DEF ToBeAsked
    <3>2. Age(n)' + Work(n)' + NodeTimeout <= Lag /\ n \in todo'
      BY <1>1, <1>2, <2>6, <3>1 DEF ToBeAsked
    <3> QED
      BY <3>2 DEF ToBeAsked, FreshOf
  <2> QED
    BY <1>1, <1>4, <2>4, <2>5, <2>6 DEF FreshOf, IsAsked, HasAnswered
<1> QED
  BY <1>3, <1>4

LEMMA FreshStore ==
  ASSUME TypeOK, Cycles, Refreshing, NEW n \in Stations, FreshOf(n), mode[n] = "on", Store
  PROVE  FreshOf(n)'
<1>1. /\ pull.stage = "answered" /\ pull.node \in Nodes /\ pull'.stage = "idle"
      /\ pull.offers \in BOOLEAN
      /\ UNCHANGED <<mode, since, registerIn, pullDue, todo>>
  BY PullForms DEF Store, nodeVars, Idle, TypeOK
<1>2. n \in Nodes
  BY NodesAssumption
<1>3. CASE pull.node = n
  <2>1. CASE pull.offers
    <3>1. station'[n] = 0
      BY <1>2, <1>3, <2>1 DEF Store, Upserted, TypeOK
    <3>2. Age(n)' = 0
      BY <1>1, <3>1, NodeTypes DEF Age
    <3> QED
      BY <1>1, <3>2, AgeBound, Times DEF ToRegister, FreshOf
  <2>2. CASE ~pull.offers
    <3>1. station'[n] = station[n]
      BY <1>2, <1>3, <2>2 DEF Store, Upserted, TypeOK
    <3>2. Age(n)' = Age(n)
      BY <1>1, <3>1 DEF Age
    <3>3. ToRegister(n)
      BY <1>1, <1>3, <2>2 DEF FreshOf, ToBeRead, ToBeAsked, IsAsked, HasAnswered, Asking, Cycles
    <3> QED
      BY <1>1, <3>2, <3>3 DEF ToRegister, FreshOf
  <2> QED
    BY <2>1, <2>2, <1>1
<1>4. CASE pull.node # n
  <2>1. row'[n] = row[n] /\ station'[n] = station[n]
    BY <1>2, <1>4 DEF Store, TypeOK
  <2>2. Age(n)' = Age(n) /\ Work(n)' = Work(n) /\ NextCycle(n)' = NextCycle(n) /\ ~Asking(n)'
    BY <1>1, <2>1 DEF Age, Work, NextCycle, Rest, Share, Asking
  <2> QED
    BY <1>1, <1>4, <2>1, <2>2
    DEF FreshOf, ToRegister, ToBeRead, StaysActive, ToBeAsked, IsAsked, HasAnswered
<1> QED
  BY <1>3, <1>4

\* Maintenance takes off neither a row nor a station that is fresh.
LEMMA FreshMaintenance ==
  ASSUME TypeOK, Cycles, Refreshing, NEW n \in Stations, FreshOf(n), mode[n] = "on",
         MaintenanceStep
  PROVE  FreshOf(n)'
<1>1. UNCHANGED <<mode, since, registerIn, pullDue, todo, pull>>
  BY DEF MaintenanceStep, MarkStaleNodesOffline, RemoveStaleStations, nodeVars, pullVars
<1>2. Work(n)' = Work(n) /\ NextCycle(n)' = NextCycle(n) /\ Asking(n)' = Asking(n)
  BY <1>1 DEF Work, NextCycle, Rest, Share, Asking
<1>3. n \in Nodes /\ NextCycle(n) \in Nat /\ registerIn[n] \in Nat /\ row[n].seen \in Nat
  <2>1. NextCycle(n) \in Nat
    BY WorkBound
  <2>2. registerIn[n] \in 0..RegisterEvery
    BY AgeBound
  <2>3. n \in Nodes /\ row[n].seen \in 0..NodeTimeout + 1
    BY NodeTypes
  <2> QED
    BY <2>1, <2>2, <2>3, Times
<1>4. Age(n)' = Age(n)
  <2>1. CASE MarkStaleNodesOffline
    BY <1>1, <2>1 DEF MarkStaleNodesOffline, Age
  <2>2. CASE RemoveStaleStations
    <3>1. Age(n) <= StationTTL
      BY FreshAge
    <3>2. station'[n] = IF station[n] > StationTTL THEN Absent ELSE station[n]
      BY <1>3, <2>2 DEF RemoveStaleStations, Expired
    <3>3. CASE station[n] \in 0..since[n]
      BY <1>1, <3>1, <3>2, <3>3, NodeTypes, Times DEF Age
    <3>4. CASE station[n] \notin 0..since[n]
      BY <1>1, <3>2, <3>4 DEF Age, Absent
    <3> QED
      BY <3>3, <3>4
  <2> QED
    BY <2>1, <2>2 DEF MaintenanceStep
<1>5. StaysActive(n) => StaysActive(n)'
  <2>1. CASE MarkStaleNodesOffline
    <3>1. StaysActive(n) => ~Stale(row[n])
      BY <1>3, Times DEF StaysActive, Stale
    <3>2. StaysActive(n) => row'[n] = row[n]
      BY <1>3, <2>1, <3>1 DEF MarkStaleNodesOffline
    <3> QED
      BY <1>1, <1>2, <3>2 DEF StaysActive
  <2>2. CASE RemoveStaleStations
    BY <1>1, <1>2, <2>2 DEF RemoveStaleStations, StaysActive
  <2> QED
    BY <2>1, <2>2 DEF MaintenanceStep
<1> QED
  BY <1>1, <1>2, <1>4, <1>5 DEF FreshOf, ToRegister, ToBeRead, ToBeAsked, IsAsked, HasAnswered

\* What is waited for comes nearer with every tick.
LEMMA FreshTick ==
  ASSUME TypeOK, Cycles, Refreshing, NEW n \in Stations, FreshOf(n), mode[n] = "on", Tick
  PROVE  FreshOf(n)'
<1>1. Age(n)' <= Age(n) + 1 /\ Age(n) \in Nat /\ Age(n)' \in Nat /\ Age(n) <= Lag
  <2>1. Age(n)' <= Age(n) + 1 /\ Age(n) \in Nat /\ Age(n) <= Lag
    BY AgeTick, FreshAge
  <2>2. since'[n] \in Nat
    BY NodeTypes, Times DEF Tick
  <2>3. Age(n)' \in Nat
    BY <2>2 DEF Age
  <2> QED
    BY <2>1, <2>3
<1>2. /\ n \in Nodes /\ registerIn[n] \in Nat /\ registerIn[n] > 0
      /\ registerIn'[n] = registerIn[n] - 1
  <2>1. n \in Nodes /\ registerIn[n] \in 0..RegisterEvery
    BY AgeBound
  <2>2. registerIn'[n] = Sooner(registerIn[n]) /\ registerIn[n] # 0
    BY <2>1 DEF Tick, Quiet, RegistrationDue
  <2> QED
    BY <2>1, <2>2, Times DEF Sooner
<1>3. NextCycle(n) \in Nat /\ Work(n) \in Nat /\ CycleTime \in Nat /\ Lag \in Nat
  <2>1. Stations # {}
    OBVIOUS
  <2> QED
    BY <2>1, WorkBound, Lags
<1>4. CASE ToRegister(n)
  <2>1. Age(n)' + registerIn'[n] <= RegisterEvery
    BY <1>1, <1>2, <1>4, Times DEF ToRegister
  <2> QED
    BY <2>1 DEF ToRegister, FreshOf
<1>5. CASE ToBeRead(n)
  <2>1. /\ NextCycle(n)' = NextCycle(n) - 1 /\ n \notin todo' /\ ~Asking(n)'
    BY <1>5, TickWork DEF ToBeRead
  <2>2. NextCycle(n)' \in Nat
    <3>1. todo' = todo
      BY DEF Tick
    <3>2. NextCycle(n) >= 1
      <4>1. CASE pull.stage = "asked"
        <5>1. /\ pull.waited \in 0..NodeTimeout /\ pull.waited < NodeTimeout /\ pull.node # n
          BY <1>5, <4>1, PullForms DEF Tick, Quiet, TypeOK, Idle, ToBeRead, Asking
        <5>2. Share(todo \ {n}) \in Nat
          BY WorkBound
        <5>3. Work(n) = Share(todo \ {n}) + (NodeTimeout - pull.waited)
          BY <4>1, <5>1 DEF Work, Rest
        <5>4. Work(n) >= 1
          BY <5>1, <5>2, <5>3, Times
        <5> QED
          BY <5>4 DEF NextCycle
      <4>2. CASE pull.stage # "asked"
        <5>1. todo = {} /\ ~pullDue
          BY <4>2 DEF Tick, Quiet
        <5>2. Work(n) = 0
          BY <4>2, <5>1, IdleWork
        <5> QED
          BY <5>1, <5>2 DEF NextCycle
      <4> QED
        BY <4>1, <4>2
    <3> QED
      BY <1>3, <2>1, <3>2
  <2>3. row'[n].status = "active" /\ row'[n].seen = Older(row[n].seen, NodeTimeout)
    BY <1>2, <1>5, TickRow DEF ToBeRead, StaysActive
  <2>4. row[n].seen <= NodeTimeout /\ row[n].seen \in Nat
    BY <1>2, <1>3, <1>5, NodeTypes, Times DEF ToBeRead, StaysActive
  <2>5. row'[n].seen = row[n].seen + 1
    BY <2>3, <2>4, Times DEF Older, Absent
  <2>6. StaysActive(n)'
    <3>1. \/ row'[n].seen + NextCycle(n)' <= NodeTimeout
          \/ RegisterEvery <= NodeTimeout /\ row'[n].seen + registerIn'[n] <= RegisterEvery
      BY <1>2, <1>3, <1>5, <2>1, <2>4, <2>5, Times DEF ToBeRead, StaysActive
    <3> QED
      BY <2>3, <3>1 DEF StaysActive
  <2>7. Age(n)' + NextCycle(n)' + CycleTime <= Lag
    BY <1>1, <1>3, <1>5, <2>1, <2>2 DEF ToBeRead
  <2> QED
    BY <2>1, <2>6, <2>7 DEF ToBeRead, FreshOf
<1>6. CASE ToBeAsked(n)
  <2>1. ~Asking(n)
    BY <1>6 DEF ToBeAsked, Asking, Cycles
  <2>2. Work(n)' = Work(n) - 1 /\ n \in todo'
    BY <1>6, <2>1, TickWork DEF ToBeAsked
  <2>3. Age(n)' + Work(n)' + NodeTimeout <= Lag
    BY <1>1, <1>3, <1>6, <2>2, Times DEF ToBeAsked
  <2> QED
    BY <2>2, <2>3 DEF ToBeAsked, FreshOf
<1>7. CASE IsAsked(n)
  <2>1. /\ pull' = [pull EXCEPT !.waited = @ + 1] /\ pull.waited \in 0..NodeTimeout
        /\ pull = [stage |-> "asked", node |-> n, waited |-> pull.waited]
    BY <1>7, PullForms DEF Tick, IsAsked, TypeOK, Idle
  <2>2. pull'.stage = "asked" /\ pull'.node = n /\ pull'.waited = pull.waited + 1
    BY <2>1
  <2>3. Age(n)' + NodeTimeout <= Lag + (pull.waited + 1)
    BY <1>1, <1>3, <1>7, <2>1, Times DEF IsAsked
  <2> QED
    BY <2>2, <2>3 DEF IsAsked, FreshOf
<1>8. ~HasAnswered(n)
  BY DEF HasAnswered, Tick, Quiet, Idle
<1> QED
  BY <1>4, <1>5, <1>6, <1>7, <1>8 DEF FreshOf

Fresh == \A n \in Stations : FreshOf(n)

LEMMA FreshNext ==
  ASSUME TypeOK, Cycles, Refreshing, Fresh, [Next]_vars
  PROVE  Fresh'
<1> SUFFICES ASSUME NEW n \in Stations PROVE FreshOf(n)'
  BY DEF Fresh
<1>1. FreshOf(n)
  BY DEF Fresh
<1>2. CASE NodeStep
  BY <1>1, <1>2, FreshNode
<1>3. CASE ~NodeStep /\ mode'[n] = "on"
  <2>1. mode' = mode
    BY <1>3 DEF Next, PullStep, PullFromAllNodes, Ask, Answer, Store, HandlePullError,
      MaintenanceStep, MarkStaleNodesOffline, RemoveStaleStations, Tick, vars, nodeVars
  <2>2. CASE UNCHANGED vars
    BY <1>1, <2>2 DEF vars, nodeVars, serverVars, pullVars, FreshOf, ToRegister, ToBeRead,
      StaysActive, ToBeAsked, IsAsked, HasAnswered, Age, Work, Rest, Share, NextCycle, Asking
  <2> QED
    BY <1>1, <1>3, <2>1, <2>2, FreshRead, FreshAsk, FreshAnswer, FreshStore, FreshMaintenance,
      FreshTick DEF Next, PullStep
<1>4. CASE mode'[n] # "on"
  BY <1>4 DEF FreshOf
<1> QED
  BY <1>2, <1>3, <1>4

\* A station that its node keeps offering is listed, and its row is no older than
\* Lag, for any intervals and any timing of the two tasks, as long as there are
\* two nodes at the most or nodes register more often than they time out.
THEOREM UpListed == ASSUME Refreshing PROVE Spec => []UpIsListed
<1>1. Init => Cycles /\ Fresh
  <2> SUFFICES ASSUME Init PROVE Cycles /\ Fresh
    OBVIOUS
  <2>1. pull.stage = "idle" /\ \A n \in Stations : mode[n] = "down"
    BY NodesAssumption DEF Init, Idle
  <2> QED
    BY <2>1 DEF Cycles, Fresh, FreshOf
<1>2. TypeOK /\ Cycles /\ Fresh /\ [Next]_vars => (Cycles /\ Fresh)'
  BY CyclesNext, FreshNext
<1>3. TypeOK /\ Cycles /\ Fresh => UpIsListed
  <2> SUFFICES ASSUME TypeOK, Cycles, Fresh, NEW n \in Stations, mode[n] = "on", since[n] > Lag
               PROVE  station[n] \in 0..Lag
    BY DEF UpIsListed
  <2>1. Age(n) <= Lag /\ Lag \in Nat
    BY FreshAge DEF Fresh
  <2>2. station[n] \in 0..since[n]
    BY <2>1, NodeTypes DEF Age
  <2> QED
    BY <2>1, <2>2, NodeTypes DEF Age
<1> QED
  BY <1>1, <1>2, <1>3, TypeCorrect, PTL DEF Spec
=============================================================================
