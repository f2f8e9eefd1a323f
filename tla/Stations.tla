------------------------------- MODULE Stations -------------------------------
(***************************************************************************)
(* The handlers behind the gate that read and write stations and votes.    *)
(* Each statement sent to the database is a step of its own.  A column's   *)
(* value is the request that asked for it, None for a value from before.   *)
(***************************************************************************)
EXTENDS RequestGate

CONSTANTS
  Founder,         \* the owner of the one station there is
  Mounts, Mount,   \* paths, and the path of that station
  Here,            \* the address of the requests
  Nodes,           \* nodes that send votes; a node's key stands for an address
  Subnet           \* the subnet of an address

Ids == 1 .. Cardinality(Requests) + 1
Users == Links \cup {Key}
Addresses == Nodes \cup {Here}
Asked == Requests \cup {None}

Row == [owner : Users, mount : Mounts, name : Asked, private : Asked, playlist : Asked]
Vote == [from : Addresses, by : Requests]

\* What a request asks a handler for.
Act ==
  [op : {"create", "update", "playlist", "delete", "rate", "forward", "read", "receive",
         "cli", "none"},
   id : Ids, mount : Mounts, fields : SUBSET {"name", "private"},
   from : Addresses, voter : Users]

ASSUME StationsAssumption ==
  /\ Acts \subseteq Act /\ Mount \in Mounts /\ Founder \in Users
  /\ Subnet \in [Addresses -> Addresses]

VARIABLES
  step,            \* where a request is in its handler
  rows, nextId,    \* the table stations, and its sqlite_sequence
  votes,           \* the table ratings: one row for a station and a voter
  copy,            \* the station as the handler read it
  written,         \* requests whose statement has been executed
  base             \* those that were when the request read what it decided on

rowVars == <<step, rows, nextId, votes, copy, written, base>>

RowsTypeOK ==
  /\ step \in [Requests -> {"begin", "writing", "address", "subnet", "upsert",
                            "sending", "done"}]
  /\ rows \in [Ids -> Row \cup {None}] /\ nextId \in Nat
  /\ votes \in [Ids -> [Users -> Vote \cup {None}]]
  /\ copy \in [Requests -> Row \cup {None}]
  /\ written \subseteq Requests /\ base \in [Requests -> SUBSET Requests]

Init ==
  /\ GateInit
  /\ step = [r \in Requests |-> "begin"]
  /\ rows = [i \in Ids |->
       IF i = 1 THEN [owner |-> Founder, mount |-> Mount, name |-> None, private |-> None,
                      playlist |-> None]
       ELSE None]
  /\ nextId = 2
  /\ votes = [i \in Ids |-> [u \in Users |-> None]]
  /\ copy = [r \in Requests |-> None]
  /\ written = {} /\ base = [r \in Requests |-> {}]

-----------------------------------------------------------------------------
Op(r) == arrival[r].act.op
Id(r) == arrival[r].act.id
Station(r) == rows[Id(r)]

\* Who acts: the user in the context, or the voter another node names.
Actor(r) == IF Op(r) = "receive" THEN arrival[r].act.voter ELSE user[r]
From(r) == IF Op(r) = "receive" THEN arrival[r].act.from ELSE Here

Moves(r, from, to) ==
  /\ pc[r] = "handler" /\ Want(r) \notin {"token", "logout"} /\ Op(r) # "none"
  /\ step[r] = from
  /\ step' = [step EXCEPT ![r] = to]

\* No user in the context, an ill-formed path or body, a value a validator
\* refuses, or a proof of work that is wrong.
Reject(r) ==
  /\ \E from \in {"begin", "writing", "address"} : Moves(r, from, "done")
  /\ UNCHANGED <<rows, nextId, votes, copy, written, base>>

Has(r, ops) == Op(r) \in ops /\ (Op(r) \in {"receive", "cli"} \/ user[r] # None)

\* CreateStation: the mountpoint is UNIQUE and an id is never used again.
Taken(m) == \E i \in Ids : rows[i] # None /\ rows[i].mount = m

\* Mutant of NextFree: without AUTOINCREMENT an id is the largest plus one.
NextUsed(n) == IF \E i \in Ids : rows[i] # None
               THEN (CHOOSE i \in Ids : rows[i] # None
                       /\ \A j \in Ids : rows[j] # None => j <= i) + 1
               ELSE 1

NextFree(n) == n

Create(r) ==
  /\ Moves(r, "begin", "done") /\ Has(r, {"create"})
  /\ IF Taken(arrival[r].act.mount) THEN UNCHANGED <<rows, nextId, written>>
     ELSE /\ rows' = [rows EXCEPT ![NextFree(nextId)] =
                        [owner |-> user[r], mount |-> arrival[r].act.mount,
                         name |-> r, private |-> r, playlist |-> None]]
          /\ nextId' = nextId + 1
          /\ written' = written \cup {r}
  /\ UNCHANGED <<votes, copy, base>>

\* UpdateStation, DeleteStation and UpdatePlaylistConfig read the station ...
NotFound(r) == Station(r) = None
Forbidden(r) == Station(r) # None /\ Station(r).owner # user[r]

Open(r) ==
  /\ pc[r] = "handler" /\ Has(r, {"update", "delete", "playlist"})
  /\ Moves(r, "begin", IF NotFound(r) \/ Forbidden(r) THEN "done" ELSE "writing")
  /\ copy' = [copy EXCEPT ![r] = Station(r)]
  /\ base' = [base EXCEPT ![r] = written]
  /\ UNCHANGED <<rows, nextId, votes, written>>

\* Mutant of Merged: a field that is not in the body is written as empty.
Blank(r, f) == IF f \in arrival[r].act.fields THEN r ELSE None

\* A column as the body has it, or as it was read.
Merged(r, f) == IF f \in arrival[r].act.fields THEN r ELSE copy[r][f]

\* UPDATE changes the columns of a station that is still there.
Writes(r, name, private, playlist) ==
  rows' = IF NotFound(r) THEN rows
          ELSE [rows EXCEPT ![Id(r)] =
            [owner |-> Station(r).owner, mount |-> Station(r).mount, name |-> name,
             private |-> private, playlist |-> playlist]]

\* ... and write it later.  The external stream in the body is not written.
Update(r) ==
  /\ Moves(r, "writing", "done") /\ Op(r) = "update"
  /\ Writes(r, Merged(r, "name"), Merged(r, "private"), Station(r).playlist)
  /\ written' = written \cup {r}
  /\ UNCHANGED <<nextId, votes, copy, base>>

UpdatePlaylistConfig(r) ==
  /\ Moves(r, "writing", "done") /\ Op(r) = "playlist"
  /\ Writes(r, Station(r).name, Station(r).private, r)
  /\ written' = written \cup {r}
  /\ UNCHANGED <<nextId, votes, copy, base>>

\* The votes stay, and so does a broadcast on the mountpoint.
Delete(r) ==
  /\ Moves(r, "writing", "done") /\ Op(r) = "delete"
  /\ rows' = [rows EXCEPT ![Id(r)] = None]
  /\ written' = written \cup {r}
  /\ UNCHANGED <<nextId, votes, copy, base>>

\* cliDeleteStation, from a process of its own.
DeleteByHand(r) ==
  /\ Moves(r, "begin", "done") /\ Has(r, {"cli"})
  /\ rows' = [rows EXCEPT ![Id(r)] = None]
  /\ written' = written \cup {r}
  /\ UNCHANGED <<nextId, votes, copy, base>>

\* Credentials, the playlist script and one's own vote.
Read(r) ==
  /\ Moves(r, "begin", "done") /\ Has(r, {"read"})
  /\ UNCHANGED <<rows, nextId, votes, copy, written, base>>

-----------------------------------------------------------------------------
\* A vote is for a station that is there, and not from its owner.  One from
\* another node is not compared with others.
LookStation(r, op, to) ==
  /\ pc[r] = "handler" /\ Has(r, {op})
  /\ Moves(r, "begin", IF NotFound(r) \/ Station(r).owner = Actor(r) THEN "done" ELSE to)
  /\ UNCHANGED <<rows, nextId, votes, copy, written, base>>

SubmitRating(r) == LookStation(r, "rate", "address")
ReceiveFederatedRating(r) == LookStation(r, "receive", "upsert")

\* Mutant of Others: a voter's own row is what counts.
Own(r) == {Actor(r)}

Others(r) == Users \ {Actor(r)}

CheckIPv6Duplicate(r) ==
  /\ pc[r] = "handler"
  /\ Moves(r, "address",
       IF \E u \in Others(r) : votes[Id(r)][u] # None /\ votes[Id(r)][u].from = From(r)
       THEN "done" ELSE "subnet")
  /\ base' = [base EXCEPT ![r] = written]
  /\ UNCHANGED <<rows, nextId, votes, copy, written>>

CheckSubnetDuplicate(r) ==
  /\ pc[r] = "handler"
  /\ Moves(r, "subnet",
       IF \E u \in Others(r) : /\ votes[Id(r)][u] # None
                               /\ Subnet[votes[Id(r)][u].from] = Subnet[From(r)]
       THEN "done" ELSE "upsert")
  /\ base' = [base EXCEPT ![r] = written]
  /\ UNCHANGED <<rows, nextId, votes, copy, written>>

\* INSERT OR REPLACE, whether or not the station is still there.
UpsertRating(r) ==
  /\ Moves(r, "upsert", "done")
  /\ votes' = [votes EXCEPT ![Id(r)][Actor(r)] = [from |-> From(r), by |-> r]]
  /\ written' = written \cup {r}
  /\ UNCHANGED <<rows, nextId, copy, base>>

\* The vote for a station of another node is handed to that node.
SubmitFederatedRating(r) ==
  /\ Moves(r, "begin", "sending") /\ Has(r, {"forward"})
  /\ UNCHANGED <<rows, nextId, votes, copy, written, base>>

\* The node answers or does not.
ForwardRating(r) ==
  /\ Moves(r, "sending", "done")
  /\ UNCHANGED <<rows, nextId, votes, copy, written, base>>

Handle(r) ==
  \/ Reject(r) \/ Create(r) \/ Open(r) \/ Update(r) \/ UpdatePlaylistConfig(r) \/ Delete(r)
  \/ DeleteByHand(r) \/ Read(r) \/ SubmitRating(r) \/ ReceiveFederatedRating(r)
  \/ CheckIPv6Duplicate(r) \/ CheckSubnetDuplicate(r) \/ UpsertRating(r)
  \/ SubmitFederatedRating(r) \/ ForwardRating(r)

Next ==
  \/ GateNext /\ UNCHANGED rowVars
  \/ (\E r \in Requests : Handle(r)) /\ UNCHANGED gateVars

vars == <<gateVars, rowVars>>
Spec == Init /\ [][Next]_vars

-----------------------------------------------------------------------------
(***************************************************************************)
(* A station has one vote from an address.  Two users there can both have  *)
(* one only if their requests overlapped: neither had voted when the other *)
(* was compared (ratings.go:171-197, rating.go:127-160).                   *)
(***************************************************************************)
OneVotePerAddress ==
  \A i \in Ids, u, v \in Users :
    LET a == votes[i][u]
        b == votes[i][v]
    IN u # v /\ a # None /\ b # None /\ a.from = Here /\ b.from = Here
         => a.by \notin base[b.by] /\ b.by \notin base[a.by]

(***************************************************************************)
(* No owner has a vote on his station, although the handler looks at the   *)
(* station several statements before it votes, and votes outlive stations  *)
(* (ratings.go:150, 654; stations.go:791; schema.sql AUTOINCREMENT).       *)
(***************************************************************************)
OwnersDoNotVote ==
  \A i \in Ids, u \in Users : rows[i] # None /\ votes[i][u] # None => rows[i].owner # u

(***************************************************************************)
(* UpdateStation writes every column from its copy.  What an update has    *)
(* asked for is lost only to a later one that asks for the same column, or *)
(* to one that had read its copy before (stations.go:616, 713).            *)
(***************************************************************************)
LostUpdateNeedsOverlap ==
  \A r \in written : Op(r) = "update" /\ Station(r) # None =>
    \A f \in arrival[r].act.fields :
      \/ Station(r)[f] = r
      \/ \E q \in written \ {r} :
           /\ Op(q) = "update" /\ Id(q) = Id(r) /\ q \notin base[r]
           /\ f \in arrival[q].act.fields \/ r \notin base[q]
=============================================================================
