# Verification of yggradio

TLA+ models of yggradio, a federated radio server for the Yggdrasil network, with
the TLC runs that check them on small instances and the TLAPS proofs that hold for
instances of any size. Source references are to the repository's `src/` tree.

1. [The system](#1-the-system): components, state, operations, what is hard
2. [The modules](#2-the-modules): what models what, and how
3. [The runs](#3-the-runs): what is checked, bounds, fairness
4. [The proofs](#4-the-proofs): theorems, inductive invariants, what stays with TLC
5. [Where the code disagrees](#5-where-the-code-disagrees)
6. [What is not modelled](#6-what-is-not-modelled)
7. [Plan](#7-plan)

## 1. The system

Two programs. `cmd/yggradio` is one radio node: it takes audio from broadcasters
(source connections) and from external URLs, fans it out to listeners, serves an
HTTP API with a database behind it, and takes part in a federation as a client.
`cmd/yggradio-federation-server` is the federation's directory: nodes register
with it, it asks them for their stations, and it hands out the merged list.

```
 broadcaster --PUT/SOURCE--> HandleSource --TrySetSource--> +------------+
 external URL -> HLS/direct stream -> pipe --TrySetSource-> | Mountpoint | -> ring, bursts
 owner: start/stop broadcast --------------> streams, slot  |  one slot  | -> listeners
 tasks: monitor 60 s, cleanup and statistics 5 min -------> +------------+    -> HandleListener
                    \______________ stations.status, auto_start, listeners_count (SQLite, 1 connection)

 node n --register--> federation server --pull /stations--> node n      (radio node's client)
                      federation_nodes, federated_stations  --query--> federated_station_cache
                      maintenance every 5 min                          -> proxy -> listener
```

### Mountpoint: the source slot (`internal/streaming/mountpoint.go`, `source.go`)

* State: `m.source`, `m.sourceActive` behind `sourceMu`; one `readFromSource`
  goroutine per successful `TrySetSource`; `stations.status` in the database.
* Operations: `TrySetSource`, `RemoveSource`, the reader's loop and its deferred
  exit, `HandleSource`, `DisconnectSource`, `cleanupStaleConnections`.
* Interaction: the handler, the reader, an owner's request and a periodic task
  all change the slot, each under the lock for a moment; the database is
  written outside it.
* Hard: `RemoveSource` does not say whose source it removes; a reader takes
  `m.source` again in every iteration, so it may go on with a successor's
  source; its deferred exit clears `sourceActive` whoever is on the air; status
  writes interleave in any order and may fail.
* Correct when: one broadcaster at a time has the slot; an active slot has a
  reader on its source; no finished request's body stays in the slot; a row
  that says online is owed an offline by somebody who is still there; when all
  have gone the slot is free and the row says offline.

### Mountpoint: listeners (`mountpoint.go`, `listener.go`)

* State: the `listeners` map, `nextID`, a channel per listener, the ring of
  chunks, the init segment, `stations.listeners_count`.
* Operations: `AddListener` (with a burst goroutine), `RemoveListener`,
  `distributeToListeners`, `sendBurst`, `SetInitSegment`, `Close`,
  `HandleListener`, `updateStationStatistics`.
* Hard: who may close a channel (the listener's handler, the mountpoint) and
  who may still send on it (a distributor, the burst); the burst and the
  distributor write to the same channel; the reader of a replaced source may
  still distribute while its successor's does; the map is keyed by an ID that is
  not unique for ever; a write to a client has no timeout; counts are read and
  written in different steps.
* Correct when: no distributor ever meets a closed channel; no channel is
  closed twice; a streaming handler is reachable or is told to end; the stream
  has no hole and no repetition as far as the design promises; the count settles.

### External streams (`external_stream.go`, `icecast.go`, `api/handlers/stations.go`)

* State: `activeStreams` (mountpoint to cancel function), a goroutine and a pipe
  per stream, `stations.status`, `stations.auto_start`.
* Operations: `StartHLSStream`, `StartDirectStream` (with retries), `StopStream`,
  the monitor, the owner's `StartBroadcast` and `StopBroadcast`.
* Hard: a registry entry is replaced and deleted by key, not by stream; a
  cancelled stream is given 100 ms and never waited for; a `Write` on a pipe
  knows nothing of the context; stop is three steps while the monitor runs; one
  database connection serves everybody; an UPDATE that fails is only logged.
* Correct when: the registry names live goroutines; online is owed an offline or
  an UPDATE has failed; a writer is read; a cleared `auto_start` is obeyed; a
  cancelled stream ends.

### Streaming server (`icecast.go`, `cmd/yggradio/main.go`)

* State: the map of mountpoints (`sync.Map`), the requests that have a pointer
  to one, background tasks, shutdown, and what a dead process leaves in the rows.
* Operations: `GetOrCreate`, the routing of requests, `Start`, `Stop`,
  `CloseAll`, the tasks.
* Hard: `GetOrCreate` loads and stores in two steps; `MaxSourceClients` is
  compared long before the slot is asked for, and external streams, which it
  counts, are not compared with it; nothing resets `stations.status` after a crash.
* Correct when: a path has one mountpoint; the limit on sources is passed by
  nothing but an overlap or an external stream; after a restart the rows come to
  agree with the slots.

### Federated stream proxy (`proxy.go`, `remote_client.go`)

* State: `activeProxies` (key to session), a listener count per session, a
  global count, two workers per session.
* Operations: `ServeHTTP`, `getOrCreateSession`, `cleanupSession`, the metadata
  worker, the health monitor.
* Hard: a session is obtained before it is counted; cleanup finds sessions by
  key; the two limits are compared one after the other and counted later; a
  connection is made with the write lock held.
* Correct when: a session with listeners is not ended by another's departure;
  counts return to zero; limits hold.

### Federation server (`internal/federation_server`)

* State: `federation_nodes` (status, `last_seen`, `consecutive_failures`),
  `federated_stations` (`last_seen`), a pull task and a maintenance task.
* Operations: `RegisterNode`, `PullFromAllNodes` with one request after the
  other, `UpsertStation`, `HandlePullError`, `MarkStaleNodesOffline`,
  `RemoveStaleStations`, the listing.
* Hard: what a pull knows is stored after others have changed the rows; nodes
  are asked one by one and each may take the whole timeout; nodes go offline by
  a timeout that is shorter than the interval they register at, and only active
  ones are pulled; nothing deletes a station but its age.
* Correct when: dead nodes are dropped, stations that are gone leave the list,
  stations that stay are listed and fresh, each within a time that follows
  from the configuration.

### Federation client (`internal/federation_client`)

* State: `federated_station_cache`; registration, query, cleanup and metadata
  workers.
* Operations: `register`, `queryStations`, `DeleteFederatedStationsNotInList`,
  the cache's cleanup, the metadata poller, the provider that answers the
  server's pulls.
* Hard: pruning and refilling are separate statements that may fail; the worker
  of a proxy session writes back the whole row it has read, which may have been
  pruned since, whether the server still lists the station or not.
* Correct when: a station that is gone leaves the cache, too, once the client
  passes on no stream of it.

### Request gate (`internal/security`, `internal/api/middleware`, `internal/moderation`)

* State: nonces, the cache of verified messages, one-time tokens, rate limiters,
  failures and blocks of an address, magic links and cookies, the content filter
  and the proof of work in front of registrations and new stations.
* Operations: check and mark a nonce, validate a timestamp, issue and consume
  tokens, count failures, log in and out, expire and clean up.
* Hard: check-then-act on concurrent maps; windows of time that must match; a
  nonce is made of the text of the headers and a signature checked on what the text
  stands for; trackers of failures that are replaced or deleted while somebody
  counts on them.
* Correct when: what may be used once is used once, as it is written, for as long
  as it would be accepted; who is blocked has earned it.

### Stations, ratings, users (`internal/api/handlers`, `internal/database`)

* State: the tables `stations` and `ratings`, one SQL statement per method, one
  connection. `status`, `auto_start` and `listeners_count` belong to the
  streaming components.
* Operations: create, update and delete a station, its playlist settings; rate a
  station, hand a vote to another node, take one from there.
* Hard: a handler reads, decides and writes in separate statements; an update
  writes columns from a copy; votes outlive stations, and ids might be used again.
* Correct when: an address has one vote on a station and the owner none; an
  update that is lost has lost to one that was under way at the same time.

### Pure parts

HLS playlist parser, metadata parsers (ICY, ID3, Ogg), playlist generator,
sanitizers and validators, proof-of-work check, content filter, version and path
helpers: functions without state.

### Plumbing

Router, headers, compression, embedded web files, the TypeScript front end,
configuration and migrations: no state that outlives a request or a startup.

## 2. The modules

| Module | Models | Composed of |
|---|---|---|
| `ExclusiveSlot` | abstract: what a mountpoint promises broadcasters | |
| `SourceSlot` | `TrySetSource`, `RemoveSource`, `readFromSource` | |
| `SourceSession` | `HandleSource`, `DisconnectSource`, cleanup, `stations.status` | extends `SourceSlot`, implements `ExclusiveSlot` |
| `ListenerHub` | listeners, channels, ring, bursts, `Close` | |
| `ExternalStreams` | registry, stream goroutines, monitor, start and stop | extends `SourceSlot` |
| `SharedMountpoint` | streams and source connections on one mountpoint | extends `ExternalStreams`, instantiates `SourceSession` |
| `Federation` | nodes and federation server with a clock | |
| `FederationClient` | one node's cache of the listing | extends `Federation` |
| `StreamingServer` | the process: map of mountpoints, limits, requests, tasks, shutdown, crash | its slots are `ExclusiveSlot`s |
| `ProxySessions` | the proxy for federated streams: requests, sessions, monitors | implements `ExclusiveSlot` at each key |
| `RequestGate` | addresses, signatures, cookies, links, tokens in front of every handler | |
| `Stations` | the handlers for stations and votes | extends `RequestGate` |
| `...Proofs` | the theorems of section 4 | extend the module they are about; `ExternalStreamsProofs` extends `SharedMountpoint` and thereby both |
| `MC...` | constants and symmetry for TLC | |

Conventions. An action is one critical section, one database statement or one
network exchange. A goroutine is a function from its identity to where it is
(`handler`, `reader`, `stream`, `burst`, ...); an action that needs a goroutine in a
place says `Goes(x, from, to)`. The definitions whose comment starts with "Mutant
of" or "A faulty" are plausible bugs, used only to show that each property can
fail; no other definition uses them.

### SourceSlot and SourceSession

`source`, `active` are `m.source`, `m.sourceActive`. `reader[s]` is the goroutine
that `TrySetSource(s)` started and `reading[s]` the source it took in its present
iteration, which need not be `s`. `sourceMu` is held through `TrySetSource`,
`RemoveSource`, the reader's check and its deferred exit, so each of them is one
action, while `Read` is between two. `Closable` are the sources whose `Close`
ends a pending `Read` (pipes); the reader around a request's body has no `Close`.
`ended` are the sources whose peer is gone.

`handler[s]` follows `HandleSource` from `TrySetSource` on; `stopper` is
`DisconnectSource` with its check, its `RemoveSource` and its UPDATE as three
steps; `cleanup` is the five-minute task's check and UPDATE. With `DbFails` any
UPDATE may fail, which the code only logs. When a client leaves, `net/http` ends
its body and cancels its context at the same time (`HangUp`).

Abstract specification: `ExclusiveSlot`. At most one holder, a holder comes only
when there is none, and nobody comes back who has been there. The refinement
mapping takes the source of an active slot for the holder and the sources with a
reader for the served ones.

### ListenerHub

`Readers` are the `readFromSource` goroutines that run at once: when a source is
replaced, its reader may still distribute its last chunk (`mountpoint.go:135`,
`174-198`) while its successor's distributes the first. A chunk has two numbers, its
place among the `Read`s and its place in the ring, which agree as long as one
goroutine reads; `readAs` maps the second to the first. `hand[r]` is the chunk that
`r` distributes, in four steps: the ring under its lock (`RingWrite`), the map's
lock for reading (`FanBegin`), a send to each of the listeners in the map then
(`FanOut`), the lock given back (`FanEnd`). `beside[n]` is history: what the other
readers had in hand when chunk `n` was read. `Attach`, `RemoveFromMap` and `Close`
take the map's lock for writing and wait for every fan-out.

`sent[l]` is everything ever put into a listener's channel (an auxiliary history; the
channel itself is what is sent and not yet received), marked as init segment, burst or
live. `BurstSend` reads the ring with `ringBufferMu` held, which `RingWrite`
waits for. The handler takes an item (`Receive`) and is then "writing": `w.Write`
to the client returns (`Written`) or not, since the server has no write timeout
(`main.go:157`). `RemoveListener` is two steps, out of the map with the lock and
`close` without. A send on a closed channel or a second `close` sets `panicked`, and
the process stops. `IdOf` is `string(rune(n))`, one and the same character for every `n`
that is not a code point.

### ExternalStreams and SharedMountpoint

One station. `stream[t]` is the goroutine of one call of a Start method; the pipe
of its attempt `k` is the source `<<t, k>>` of `SourceSlot`. `registered` is the
registry's entry for the mountpoint, named by the stream whose cancel function it
holds. HLS and direct streams differ as in the code: a direct stream checks its
context and dials in every attempt, and writes the status after it has left the
registry, an HLS stream before. A segment is one chunk: one `Write` meets one
`Read`, so a `Write` without a reader blocks.

`SetStatus` and `SetAutoStart` are UPDATEs, and each of them may fail (`DbFails`),
which the code logs and passes over. `missed` is history: a goroutine of a stream has
tried to write offline over an online row and failed, and no write of offline has
succeeded since. The five-minute cleanup task is `CleanupCheck` and `CleanupMark`, for a
mountpoint that the map has already: a stream makes it before it can write online.

`DbFree` says that the pool's only connection (`db.go:39-42`) is not held by the
rows of the monitor's pass. `StreamLeft` bounds the number of starts by the
number of streams of the instance. Mixed HLS and direct streams of one station
arise when the owner changes the URL.

`SharedMountpoint` adds the source connections of `SourceSession` to the same slot
and column, whose UPDATEs may fail as well, and the step `WriteFails` that only they
can cause. There `Session` is an instance, so both modules speak about the same slot
variables.

### Federation and FederationClient

The clock ticks once per interval of pulls, which is also the interval of
queries (60 s by default); other intervals are counted in ticks. `Tick` is
possible only when nothing that is due is left (`Quiet`): tasks run at their
time, statements take no time, and the only thing that lasts is a request to a
node that does not answer, up to `NodeTimeout`. Rows carry ages instead of
times, and ages beyond the limit they are compared with are not told apart.

Nodes are told apart by their key. Each has one public station or none (`mode`);
`since` counts how long. A node that is down may be stopped or out of reach; it
registers at once if it was stopped, at its next interval if it was only out of
reach. Reachable nodes answer and register successfully.

The pull task reads the active nodes once (`todo`), then asks them one at a time,
in any order; the answer and its storing are two steps (`Answer`, `Store`), so the
maintenance task and the node itself come between. Maintenance is two statements.

In `FederationClient` any statement of a query may fail, and a query may find the
server out of reach. `worker[n]` is the metadata worker of the proxy session for the
station of `n` (`proxy.go:453-515`): it begins when the node answers a request for
the stream, whatever the server lists, reads the cached row and writes it back whole,
which may bring back a row that was deleted in between, and ends with its session or
when nothing has been read for 30 s (`ReadTimeout`). `quiet[n]` is the time that there
has been no worker. The metadata poll (`metadata_poller.go:99`) writes only what an
ICY header brings, and no node of this code sends one in answer to HEAD, so that it
is no action of the model (section 5, 29).

### StreamingServer

One process after the other: `Start`, `Stop` with its `CloseAll`, which closes the
mountpoints of the map one by one (`CloseMountpoint`), `Exit`, and `Crash` at any moment.
That `CloseAll` replaces the map in the end is part of `Exit`: nobody looks at the new
one, and what a handler does to the rows then it may do before. `http.Server.Shutdown` before it, which
takes no new requests and gives up after 30 s with handlers still running, is a
stretch of "up" in which no request comes. What a life leaves behind are the
two columns. A mountpoint object is named by the connection whose `GetOrCreate` made
it, so a path can have several in one life. `source[c]` and `listener[l]` are
the handlers with the path they are for and the pointer they keep; `Load` and
`Store` are the two halves of `GetOrCreate`. A mountpoint's slot is the
`ExclusiveSlot` that `SourceSession` implements: `Claim`, `Release`, and
`SlotFrees` for whatever else empties it (a reader's exit, an owner's stop).

`Streams` are those of the sources that are attempts of external streams. They start
whatever the limit says (`StreamStarts`), make a mountpoint and claim its slot like a
request and count as active sources from then on; they do not free the slot, which
their pipe's reader does, before or after the status is written. Every UPDATE of a
handler or a stream may fail.

`GetListenerCount` and the UPDATE with its result are two steps, in
`HandleListener`, in its deferred function (which counts before the listener is
out of the map), and in the statistics task. The tasks go from mountpoint to
mountpoint, and what they have read they write later (`task`).

`saw[c]` remembers the sources on the air when `c` was let in or started, and
`raced` the paths that two requests have looked up in vain together. Both are history
variables that only the properties read.

### ProxySessions

A session is named by the request that made it. `lock` is `activeProxiesMu` while
a request keeps it across its connection to the remote node; the short critical
sections are single actions that need it free. The two limits are read one after the
other (`PassGlobal`, `Admit`), under locks of their own. The two counts are changed
one after the other in both directions, as in `ServeHTTP`. `CleanupSession`, which
the last listener and the health monitor call, ends whatever session its key has.
Time is `idle`: since the last read less than a minute, more than one, more than two. Every client reads from a connection of its own;
the session's own connection is opened and never read.

### RequestGate and Stations

All requests come from one address. `pc[r]` follows a request through
`IPBlocker.IsBlocked`, `Authenticate` and `AuthenticateAny`, `Protect` and the
handler; a failure is a subroutine (`failing`, `storing`, `counting`) that comes
back to `after[r]`. What a signed request brings is the text of its headers, one of
`Nonces`, which is what a nonce is made of (`replay.go:77`); the signature is checked on
the bytes it stands for (`Decoded`), and since hex has two spellings of a letter,
several texts are one of the `Messages`. `Genuine` are those whose signature is right.
`sync.Map` loads and stores are steps of their own, and so
are a pointer to a failure tracker (`tracker[r]`) and the map's entry for it
(`current`). The clock counts half seconds, since a timestamp is compared in
whole seconds while the age of a nonce is not. The answer of the rate limiters is
left open at every place that asks them. Cleanups may run at any time and take
one entry at a time, look and delete in one step.

`Stations` gives each request an act: an operation, a station, the fields of its
body. Each SQL statement is a step. The value of a column is the request that
asked for it, so that a property can say whose update has been lost; `base[r]` are the
requests whose statements had been executed when `r` read what it decided on. The
routes, that is which act stands behind which gate, are in what the requests of a
behaviour bring along (`Arrivals`): behaviours begin either at the gate or behind
it, with a user who has been let in.

## 3. The runs

All runs finish within the five minutes set for each; the distinct states are
in the last column.

| Run | Instance | Shows | States |
|---|---|---|---|
| `SourceSession` | 2 connections, 1 stop request, failing UPDATEs | types; `OnlineIsOwed`, `SlotIsOwned`, `ActiveIsRead`, refinement of `ExclusiveSlot`, `Drains` | 117 k |
| `ListenerHub` | 2 listeners, 1 reader, an init segment, ring 1, channel 1, 1 chunk, symmetry | `OpenWhileListed`, `NoDoubleClose`, `StreamingIsServed` | 1.8 M |
| `ListenerBurst` | 1 listener, 2 readers at once, ring 3, burst 2, channel 1, 3 chunks | types; `PiecesInOrder`, `NoHole`, `ClosedLeaves` | 1.7 M |
| `ExternalStreams` | 1 HLS stream, 1 direct stream of 2 attempts, 1 start, 1 stop request, monitor, cleanup, failing UPDATEs | types; `NoDeadEntry`, `OnlineIsOwed`, `WriterIsRead`, `MonitorObeys`, `CancelledEnds`, `Settles` | 358 k |
| `SharedMountpoint` | 1 HLS and 1 direct stream, 1 connection, 1 stop request, monitor, cleanup, failing UPDATEs | `SharedOnlineIsOwed`, `WriterLearns` | 7.3 M |
| `Federation` | 2 nodes, 1 with a station; timeout 1, maintenance 1, TTL 5, 2 failures, registration 2 | `DeadIsDropped`, `GoneIsDelisted`, `UpIsListed` | 2.8 M |
| `FederationClient` | 1 node, timeout 1, maintenance 1, TTL 2, expiry 2, cleanup 2, a proxy worker that outlives its stream by 1 | types; `GoneIsForgotten` | 4.4 M |
| `StreamingServer` | 1 connection, 1 external stream, 1 listener, 2 paths, 1 source allowed, failing UPDATEs, any number of crashes and restarts | `OneMountpointPerPath`, `LimitNeedsOverlap`, `RowsSettle` | 945 k |
| `ProxySessions` | 3 requests for 1 station, limits 2, symmetry | types; `SessionIsOwed`, `LiveIsListed`, `LimitNeedsOverlap` | 2.9 M |
| `Stations` | 3 requests in 16 combinations, one of them with a message in two spellings; 5 half seconds, a window of 1 s, a block after 3 failures | `NonceOnce`, `BlockIsEarned`, `TokenOnce`, `OneVotePerAddress`, `OwnersDoNotVote`, `LostUpdateNeedsOverlap` | 2.1 M |
| `ListenerHubSendOnClosed` | 1 listener, 1 reader | violated: section 5, 1 | |
| `ExternalStreamsDuplicates` | 3 HLS streams, 1 owner and the monitor | violated: section 5, 2 | |

### What the properties say

* `OnlineIsOwed` (and `SharedOnlineIsOwed`): while the row says online, some
  handler or stream that has not returned has its own offline still to write, or
  somebody has tried to and the UPDATE has failed (`missed`, or a handler "failed").
  Status writes do interleave out of order, and the row can be offline on an
  active mountpoint; what cannot happen is an online that nobody takes back although
  nothing has failed.
* `SlotIsOwned`: the slot never holds the body of a request that is over,
  although `RemoveSource` removes whatever is there.
* `ActiveIsRead`: an active mountpoint is read by the reader of its source, also
  when streams and connections share it (theorem `SharedActiveRead`).
* `WriterIsRead`: a stream that writes to its pipe has the slot and a reader. It
  fails when streams and connections share a mountpoint: a reader of an ended
  connection may set the mountpoint inactive under the stream, and `RemoveSource`
  may empty the slot. What is left is `WriterLearns`: the writer's pipe is closed, so
  that its next `Write` fails, or it has the slot and is read for as long as the
  mountpoint is active. In the third case, the slot inactive and the pipe open, its
  `Write` blocks (section 5, 3).
* `Drains`: once every connection has ended, slot, readers and row come to rest,
  with failing UPDATEs repaired by the cleanup task.
* `StreamingIsServed`: a handler that streams is in the map or has its channel
  closed. As is `NoDoubleClose`, it is stated for IDs that are unique. The model
  has the collision (`IdOf`): in the code it takes a mountpoint that has had more
  than 55 295 listeners in its life and two of them in one second, which is part
  of the ID; the model has all of them in one second.
* `PiecesInOrder`: neither in its burst nor among its live chunks does a listener get
  one chunk twice, or one before another that was read before it. The exception is
  what the code allows: two chunks that two readers had in hand at once, the last of
  a replaced source and one of its successor, may come in either order, in the ring,
  in a channel or in both (section 5, 6).
* `NoHole`: what a listener hears, against the ring that wraps under a burst and for
  any sizes. Nothing that is written after it came is lost on it while its channel has
  room; and between its burst, which starts with the oldest chunk of the ring, and
  the moment it came no more is lost than the ring is longer than a burst: with the
  default sizes 208 chunks, as section 5 says, and not one more.
* `ClosedLeaves`: a handler whose channel was closed returns, if writes to its client
  return. A client that takes nothing may keep it for ever: the server sets no
  write timeout, so that this is a condition of the property and no fairness.
* `OneMountpointPerPath`: until the server stops, whoever has a pointer to a
  mountpoint has the one that is in the map, so that a listener hears the
  broadcaster of its path and `TrySetSource` keeps a second broadcaster off. The
  one exception is a race of two first requests in `GetOrCreate`.
* `LimitNeedsOverlap` (in `StreamingServer` and `ProxySessions`): the limits are compared long
  before anything is counted. They are passed only by requests each of which was let
  in before the other was on the air; a request that comes later is refused. In
  `StreamingServer` an external stream is let in by nobody: the limit is also passed by
  one that started when it was reached, which `StreamStarts` remembers in `saw`.
* `RowsSettle`: handlers and tasks overwrite each other's counts and statuses with
  stale ones, and a crash leaves rows online. Once clients keep still, the tasks make the
  row right for good of every path that the process has a mountpoint for. Of a path
  that nobody has used since the start the code corrects nothing (section 5).
* `SessionIsOwed`: a session in the proxy's map has a request that has got it and
  has not yet seen whether it was the last. Counting and cleaning overlap freely;
  what cannot happen is that everybody leaves the cleanup to somebody else.
* `LiveIsListed`: a session that is forgotten with its connection and goroutines
  still open would never end. The second look with the write lock prevents it.
* `NonceOnce`: of two requests with one message, in the same spelling, the second passes
  only if it looked before the first had stored the nonce, or more than the window of
  five minutes after that. The second case takes a message that was stamped no earlier
  than the second it was used in, or a request that was held up after its timestamp had
  been compared. Another spelling of the message has a nonce of its own (section 5, 30),
  and the property says so: `seen` has all earlier requests with the message, in
  whatever spelling, and `Nonce(q) # Nonce(r)` is one way to pass.
* `BlockIsEarned`: whoever is blocked has failed `Threshold` times within the window
  before, although trackers are made, lost, restarted and cleaned up concurrently.
* `TokenOnce`: two requests pass with one token only if both looked before either
  deleted it.
* `OneVotePerAddress`, `OwnersDoNotVote`, `LostUpdateNeedsOverlap`: what the statements
  of the handlers still guarantee, although each decides on what it read earlier.
  `OwnersDoNotVote` holds because an id is never used again (`AUTOINCREMENT`): with reused
  ids a vote that is late would land on the voter's own new station.
* `NoDeadEntry`: deleting by key leaves no entry without a goroutine, although it
  leaves goroutines without an entry (section 5).
* `MonitorObeys`: the monitor starts nothing on the strength of a flag that has
  been cleared since. It holds because its open rows keep the only connection,
  and not because of any lock: with two connections it is violated.
* `CancelledEnds`, `Settles`: hold while streams have the mountpoint for
  themselves; `Settles` although single UPDATEs fail, since the cleanup task repairs
  the row some time.
* `GoneIsForgotten`: a row in the cache has three sources of life, the server's
  listing, the queries and the worker of a proxy session. A station that is gone is
  forgotten when the time in which the server may list it and a cleanup may miss the row
  is over, and the client has not passed on its stream for `ExpireAfter + ExpireEvery`
  and a tick. While it does (a node may still have the stream of a station that is
  listed no more) the row may be refreshed for ever, or come back when it was pruned. If
  the node is down there is no stream: its worker lives on for `ReadTimeout` at most.
* `DeadIsDropped` within `NodeTimeout + MaintainEvery + 1`, `GoneIsDelisted`
  within `StationTTL + MaintainEvery + 1`, `GoneIsForgotten` within that plus
  `ExpireAfter + ExpireEvery` of the end of the station, and the time named above of
  the last worker. `UpIsListed` has a lag of a registration, the cycle of
  pulls that was under way then (`OthersTime`), and the one after it (`CycleTime`). The
  bounds are exact on the runs' instances: with one tick less TLC finds a violation
  of each.

### Bounds, and why they are enough

Two connections make every pair of handler, reader and successor; three (5.1 M
states) showed nothing else, and the proofs cover any number. One listener
shows all that its burst, its handler, the distributor and the shutdown can do to
one channel; a second shares the map and the IDs, for which one chunk is enough. The
ring of three with a burst of two is longer than a burst, so that a full ring leaves a
hole; the third chunk fills it, the first two readers hold at once, and the channel of
one fills up. That slots of the ring are overwritten takes a chunk more: TLC found the
same with two readers, a ring of two and a burst of one, and with one reader, five
chunks and a channel of two, and the proofs cover any sizes. Two streams make a replacement, the second attempt of the direct stream a retry
that overlaps it. In `Federation` the second node, which has no station, delays
the pulls of the first. `Horizon` (7 and 8) is no less than any bound on `since` that
a property names. TTL 5 is the least that lets `UpIsListed` hold (it needs
`StationTTL >= Lag`). In `StreamingServer` a connection and a stream make the race of
`GetOrCreate`, the limit of one, its overlap and its bypass; the second path lets the
limit be reached on another mountpoint. Three requests in `ProxySessions` are a first one
that leaves, one that comes while it does, and one that makes a new session under
the same key. Keys meet only in the counts and the lock, so that one is enough. The
kinds of `Stations` are listed in `MCStations`; a window of two half seconds and
a clock of five steps let a nonce be forgotten, a tracker start again and a block
end. Three failures are reached by one replay and one wrong signature, or by
refusals of three credentials.

The invariants proved in section 4 do not depend on these bounds.

### Fairness

Goroutines that can run do run: weak fairness of each step of a handler, a
reader, a stream, a burst and a periodic task. Nothing is assumed of clients,
owners and upstream servers: they need not connect, send, leave or end, nor take what
is written to them. A step that waits for a client (`Written`) is not fair.
Four strong assumptions:

* the cleanup task's UPDATE does not fail for ever (`SourceSession`,
  `ExternalStreams`; in `StreamingServer` the tasks' UPDATEs that fail change nothing
  and are left out);
* whoever waits for the write lock of the listeners' map gets it some time, although
  readers take it time and again (`RemoveFromMap` in `ListenerHub`): a waiting writer
  of a `sync.RWMutex` keeps new readers off;
* an UPDATE that waits for the database's connection gets it some time
  (`ExternalStreams`): `database/sql` hands it to a waiting request when the monitor
  gives it back between two passes;
* the tasks of `StreamingServer` reach every mountpoint of the map again and again,
  since each of their rounds goes through all of it.

The federation's properties are bounded by the clock and are invariants, which need
no fairness; so are those of the proxy, the gate and the handlers.

### Deadlock

The runs of `ListenerHub` (also `ListenerBurst` and `ListenerHubSendOnClosed`),
`ExternalStreamsDuplicates`, `ProxySessions`, `Stations` and `StreamingServer` switch the check off: with
every listener gone, every chunk sent, every stream or request used or the clock
at its end nothing is left to do, after a panic the process has stopped, and
nobody has to start one that is down.

## 4. The proofs

| Module | Theorem | States |
|---|---|---|
| `SourceSessionProofs` | `TypeCorrect`, `OnlineOwed`, `SlotOwned`, `ActiveRead`, `Refinement` | `TypeOK`, `OnlineIsOwed`, `SlotIsOwned`, `ActiveIsRead`, `ImplementsSlot` |
| `ListenerHubProofs` | `TypeCorrect`, `ListedIsOpen`, `ClosedOnce`, `Served`, `InOrder`, `HearsAll` | `TypeOK`, `OpenWhileListed`, `NoDoubleClose`, `StreamingIsServed`, `PiecesInOrder`, `NoHole` |
| `ExternalStreamsProofs` | `TypeCorrect`, `EntryIsAlive`, `OnlineOwed`, `MonitorObeyed`, `WriterRead` | `TypeOK`, `NoDeadEntry`, `OnlineIsOwed`, `MonitorObeys`, `WriterIsRead` |
| the same, of `SharedMountpoint` | `SharedTypeCorrect`, `SharedOnlineOwed`, `WriterLearned`, `SharedActiveRead`, `SharedRefinement` | `SharedTypeOK`, `SharedOnlineIsOwed`, `WriterLearns`, `Session!ActiveIsRead`, `Session!ImplementsSlot` |
| `FederationProofs` | `TypeCorrect`, `DeadDropped`, `GoneDelisted`, `UpListed` | `TypeOK`, `DeadIsDropped`, `GoneIsDelisted`, `UpIsListed` |
| `FederationClientProofs` | `ClientTypeCorrect`, `GoneForgotten` | `ClientTypeOK`, `GoneIsForgotten` |
| `StreamingServerProofs` | `OnePerPathKept`, `LimitKept` | `OneMountpointPerPath`, `LimitNeedsOverlap` |
| `ProxySessionsProofs` | `TypeCorrect`, `SessionOwed`, `LiveListed`, `LimitKept`, `Refinement` | `TypeOK`, `SessionIsOwed`, `LiveIsListed`, `LimitNeedsOverlap`, `ImplementsSlot(k)` |
| `StationsProofs` | `NonceIsStoredOnce`, `TokenIsSpentOnce`, `OwnersHaveNoVote`, `BlocksAreEarned`, `LostUpdatesOverlap`, `AddressesVoteOnce` | `NonceOnce`, `TokenOnce`, `OwnersDoNotVote`, `BlockIsEarned`, `LostUpdateNeedsOverlap`, `OneVotePerAddress` |

Assumptions are the ASSUMEs of the modules: sizes are positive, pipes are
sources, `None` is no source, the set of nodes is finite. Nothing else is
assumed of the constants: any number of connections, listeners, streams,
requests and nodes, any limits and intervals. `UpListed` alone has a hypothesis,
`Refreshing`, which is explained with it below.

* **SourceSession.** `SessionInv` adds to the three invariants that only
  connections are in the slot, that a connection has a reader exactly from its
  handler's claim on, and that a reader which has not started reads nothing. The
  last two are what makes `ActiveIsRead` inductive: when a handler claims the
  slot, the reader that starts cannot be on anybody else's source, and a reader
  whose own source is gone finds the slot empty or with its successor. The
  refinement follows from the invariant: an active source has been served.
* **ListenerHub.** `ChannelInv` follows a listener through its life: while its
  handler has not begun to remove it, it is in the map or `Close` has closed its
  channel (`ServedOrClosed`); once the handler is about to close the channel it is
  out of the map, so nobody else will (`ClosingIsOpen`). All of it rests on the
  map holding one listener per ID (`UnusedIds`, `DistinctIds`), hence on `IdsUnique`.
  `ListedIsOpen` needs none of that: its invariant, `OpenInv`, holds for any IDs.

  The other two theorems are about the ring and about what several readers do to it.
  `RingInv` says in closed form which chunk is in which slot: the last `RingSize` written,
  each at its number modulo `RingSize`. `HandInv` says what readers hold: a chunk stays in
  the hand of its reader until its fan-out is over, so that whatever is read meanwhile
  has it in `beside` (`HandsTell`), and it gets its number in the ring from there
  (`NumbersTell`). Hence of two chunks in the ring the earlier was read before the later, or
  the two were in hand together (`RingFollows`). `OrderInv` adds for each listener that the
  sequence sent so far is in that order, that a chunk still to be offered is not live
  yet, and that what the burst has still to send is above what it has sent: the ring
  does not change under it. `HoleInv` says of a listener in the map that has missed nothing
  that every chunk written since it came is live or still to be offered by the
  reader that has it (`SinceJoined`); that a burst under way has sent an interval that
  begins with the oldest chunk of the ring (`Sending`); and that one that is over
  comes within `Gap` of the chunk at which the listener came (`Settled`): it ended
  because it had sent `Burst` chunks of a ring of `RingSize`, or all there were.
* **ExternalStreams.** Each of the three properties is inductive next to `TypeOK`. An
  entry names a stream that has still to delete; an online row has a stream past
  its own write of online and before its write of offline, or was left by a stream's
  failed write, which `missed` says until a write of offline succeeds; the monitor is between
  its row and its start only while `auto_start` is set, because an UPDATE of it needs
  the connection that the monitor's rows hold. `WriterRead` has `PipeInv`: a reader that
  runs has the slot and reads what is in it, a pipe that has not been made is neither in
  the slot nor closed, and a stream that writes has slot, reader and an open pipe.
* **SharedMountpoint.** Here a reader may read somebody else's source, and the slot may be
  taken from under a stream. `LearnInv` keeps of `PipeInv` that a pipe not yet made is
  idle, and says of a writer that its pipe is closed or in the slot, with its reader at
  work while the mountpoint is active. `HoldInv` says that whoever still has to ask for the
  slot has never had it. That is all that `ActiveIsRead` and the refinement of
  `ExclusiveSlot` need of `SourceSession`, so that both carry over to the composition:
  streams do not break the exclusive slot for connections, nor connections for streams.
* **Federation.** `Budget`: a node that is asked or going to be has failures
  left, which bounds the counter (`consecutive_failures` grows at every failed
  pull, and only registration or a successful pull resets it). `AnswerIsFresh`:
  an answer is stored before the next tick. `RowsAge`: rows of a node that is gone
  are at least as old as its absence. `MaintenanceComes`: a row that is too old is
  within reach of the next maintenance. The two bounds follow by arithmetic.

  `UpListed` bounds from above what the others bound from below. `Fresh` says of a
  station that its node offers that its age and the time until the next answer about it
  never exceed `Lag` together, wherever the node is: it has still to register
  (`ToRegister`), the next cycle will read it from the list (`ToBeRead`), it is in the
  cycle under way (`ToBeAsked`), is being asked (`IsAsked`) or has answered
  (`HasAnswered`). `Cycles` says that a cycle asks a node once, and that a request which
  waits through a tick finds the next cycle due. `Refreshing` is what it takes: a TTL no
  shorter than `Lag`, since otherwise the server deletes the row by design; a `Horizon`
  above it, since otherwise `since` stops counting before; and two nodes at the most or a
  registration within each `NodeTimeout`. The last is a limit of the code and not of the
  proof: with three nodes and slower registrations maintenance may take the node off the
  list while the cycle before the next waits for the others (section 5, 12). The
  default configuration, which registers more slowly, has the theorem for two nodes.
* **FederationClient.** The same scheme one level up, on top of `GoneIsDelisted`:
  a query works on a listing younger than the last tick (`ListingIsFresh`), a cached
  row ages from the last time the server can have listed its station or from the end
  of its last worker (`CacheAges`), and the next cleanup finds it (`CleanupComes`). While there
  is a worker `quiet` is zero, and a node that is down has had none for as long as it is
  down, but for `ReadTimeout` (`WorkerIsFed`), which bounds the first by the second.

* **StreamingServer.** `OnePerPath` strengthens the property by what `GetOrCreate` is
  about to do: a request that has found no mountpoint still finds none, or its
  path has raced. Before the start there are no requests (`Blank`), which
  makes the first step of a life safe. Whoever is in a slot may be on the air (`SlotHeld`):
  a request until it has freed its slot, a stream until its pipe's reader has left,
  which may be after its last UPDATE. `LimitHolds` is stated for every set of
  holders and not only for all of them, so that it survives departures: when one
  claims the slot and the set is too large, the others are more than it can
  have seen (`SawFew`), so one of them is unseen, and that one cannot have seen the
  newcomer, who was not on the air. For an external stream `SawFew` says nothing; if it
  has seen fewer than the limit the same argument holds, and otherwise it is itself
  the exception that the property names.
* **ProxySessions.** `CountsAreRight` says of whom the two counts consist: a listener
  is counted in its session from `CountListener` to `UncountListener`
  (`Attached`), which bounds both from below by zero. `Sound` says that the request
  that connects keeps the lock and that its key is free, hence that no session is ever
  replaced in the map (`LiveIsListed`). `SessionIsOwed` follows with the counts: a request that
  sees others leave is not the last as long as one of them is attached, and that one
  still has to look. The limit has the argument of `StreamingServer`. `Refinement`
  reads the map at one key as an `ExclusiveSlot` whose holder is the session stored and
  whose served are those that were ever opened for the key: the request that connects
  has the lock, so that it stores into an empty place and under a name that is new,
  although looking, connecting and storing are three steps.
* **Stations.** A nonce is in the map or its use is a window ago (`Remembered`),
  and a request does not find it only in the latter case (`Unseen`); a
  request that has stored its nonce never comes back to where it might look
  (`Local`), wherever its failures lead. All this is said of nonces, hence of texts; of
  a message it follows for those that come in the same text, and the property
  leaves the others out by name, since for them it is false. A token that is
  spent is gone, and is made once (`TokenOf`). Ids in votes and rows are below `nextId`, so a new
  station has none (`RowInv`), and an owner who is about to vote has been found
  not to own that id, which will never have another owner.

  Blocks: the count of a tracker never exceeds the failures since its window began
  (`Covered`), although trackers are made, lost and started again between the steps of
  a request; who blocks has counted up to the threshold (`BlockInv`). Writes
  (`WriteInv`): a request remembers which writes it has seen (`base`). An update that has
  been written stands in the row, and in every copy read since, or has been overtaken
  by one it had not seen (`Stands`, `Overtaken`); a vote about to be written has been
  compared with every vote of its address in that base (`Compared`), and of two votes
  that both are there neither is in the base of the other.

TLC checked every inductive invariant as an invariant of small instances; `Fresh` and
`Cycles` also with three nodes that register once per tick, as far as 14 million states.
`SharedActiveRead`, `SharedRefinement` and the refinement of `ProxySessions` (with two
keys, too) were checked by TLC likewise, but are no properties of a run. TLC does not
take the third as it stands, an INSTANCE with a parameter in a temporal formula; the key
has to be put in by hand.

Every invariant and action property of a run has a theorem. Only model-checked is
liveness (`Drains`, `ClosedLeaves`, `RowsSettle`, `CancelledEnds`, `Settles`): it needs
ENABLED and induction over time under fairness, which are out of the prover's reach.

## 5. Where the code disagrees

Shown by a run:

1. `ListenerHubSendOnClosed`. `sendBurst` keeps the `*Listener`; when the client
   leaves during the burst, `RemoveListener` closes the channel and the next send
   panics. `mountpoint.go:316` says it is safe to close.
2. `ExternalStreamsDuplicates`. The deferred delete of a replaced stream removes its
   successor's entry (`external_stream.go:78`); the next start cancels nobody. Line 21
   says the map is there to prevent duplicates.

Met while modelling. They concern parts that no run refutes a sentence about; the
models have the behaviour unless stated otherwise.

3. Streams and connections on one mountpoint. The reader of an ended connection clears
   `sourceActive` while a stream has the slot; the stream's reader stops, nobody closes
   the pipe, and `pw.Write` blocks for ever, also after `StopStream`
   (`external_stream.go:400`). `WriterLearns` is what is left.
4. `mountpoint.go:123` says that a source to close in `TrySetSource` "should not
   happen"; it is the normal case after a reader has ended on its own.
5. The cleanup task writes offline after a check that is over
   (`icecast.go:388-391`): a row can be offline while its mountpoint is on the air,
   until the next status write.
6. The burst goroutine races the distributor (`mountpoint.go:299`, `448`): a live
   chunk can precede the init segment. The burst sends the oldest part of the
   ring (`mountpoint.go:256` against `62`): with the default sizes, 48 of 256, a hole
   of 208 chunks lies between the burst and the live stream of a full ring, which
   `NoHole` allows and bounds. And the reader of a replaced source may still be
   between `mountpoint.go:174` and `226` when that of its successor distributes: their
   chunks reach listeners in either order, which `PiecesInOrder` allows for these two
   and no others.
7. A listener that attaches after `Close` is never told to end (`mountpoint.go:283`,
   `364`). And `w.Write` to a client that takes nothing blocks for ever
   (`listener.go:115`, `WriteTimeout: 0` in `main.go:157`), so that its handler does not
   see a closed channel either.
8. The listener limit of `README.md:248` is not enforced anywhere.
9. `string(rune(n))` collides for `n` in 0xD800-0xDFFF and above 0x10FFFF
   (`mountpoint.go:287`): the newer listener replaces the older in the map.
10. The count written on disconnect includes the listener that leaves
    (`listener.go:88`), so "Live listener count" (`README.md:42`) is one too high until
    the next write.
11. `StopBroadcast` writes offline before `auto_start` (`stations.go:965-977`): the
    monitor may restart the stream in between, and the stop leaves it running.
12. Federation. The default `node_timeout` (60 s) is below the default
    `register_interval` (450 s), so nodes are offline to the server most of the
    time between registrations and pulled only for a while after each; `UpIsListed`
    shows what is left of freshness. With three nodes or more, dead nodes that
    flap can hold a cycle for so long that maintenance takes a node off before the
    next cycle reads the list.
13. Federation. `BlockNode` "prevents further registration" (`node_manager.go:205`), but
    `RegisterNode` and a successful pull would set the node active again. Nothing calls
    it; not modelled.
14. Federation. When the nodes cannot be read, `HandleStations` sends stations without
    addresses (`api_handlers.go:106-109`), and a client that recognises its own by
    address caches them (`query.go:78`). Not modelled.
15. Federation. `ON CONFLICT(source_node, mountpoint)` (`db.go:366`) does not cover
    `UNIQUE(uuid)`: a station that moves to another node cannot be cached while the
    old row lives, until it is pruned or expires. Not modelled.

16. Two first requests of one path may make two mountpoints (`mountpoint.go:473`): two
    broadcasters are on the air, and listeners hear one of them.
17. Nothing resets `stations.status` at startup (`main.go:132`): a row that a crash has
    left online stays online until somebody uses the path, which gives the
    cleanup task a mountpoint to look at.
18. `CloseAll` leaves the handlers of removed mountpoints with a slot and a map of
    listeners that nobody looks at again (`mountpoint.go:530`); the process ends soon after.
19. Proxy. `cleanupSession` of a late request closes whatever session its key
    has (`proxy.go:384`), which may be a newer one with listeners.
20. Proxy. The limit per address compares the number of all sessions in use
    (`proxy.go:412`), not those of the address.
21. Proxy. The metadata worker writes back the whole cached row it has read
    (`proxy.go:494-501`), and may thus refresh the row of a station that is listed no more,
    or bring it back after it was pruned. `GoneIsForgotten` counts from the last worker.
22. `IsBlocked` looks and unblocks in two steps (`ipblock.go:77`): the unblocking may lift
    a block that is newer than the one that had expired.
23. A nonce is forgotten one window after its use (`replay.go:106`), while a timestamp may
    be one window in the future: such a message passes again for a moment.
24. A signed message that is in the cache of verified ones passes with a context that has
    no user id (`auth.go:166`); handlers that need one answer as if nobody were
    logged in.
25. `UserRepository.GetOrCreate` reads and inserts (`user.go:86`): the second of two first
    requests gets an error.
26. `UpdateStation` logs "Updated external stream" (`stations.go:703`), but
    `StationRepository.Update` (`station.go:379`) writes name, description and privacy only.
27. Votes. The synthetic key of a user with a magic link is made of the local user id
    (`ratings.go:412`), so that users of two nodes share one vote on a third. A vote
    sent by a node has no time and no nonce: one that arrives late replaces a newer
    one. `ReceiveFederatedRating` looks at the first 1000 stations only
    (`ratings.go:621`).
28. `DeleteStation` (`stations.go:791`) leaves the votes and the broadcast on the mountpoint.
29. Federation. The metadata poll asks with HEAD and reads ICY headers
    (`metadata_poller.go:69`, `89-100`), but a HEAD request is answered without them
    (`icecast.go:250`, `listener.go:136-157`), so that it never writes anything. HEAD also answers 200 for any mountpoint in the map, on the air or not.
30. A nonce is made of the text of the headers (`replay.go:77-82`), while the key and the
    signature are verified as decoded bytes (`auth.go:178-193`): one signed message in
    two spellings of its hex digits has two nonces. A message passes once per text, as
    `NonceOnce` says.
31. The limit on sources (`icecast.go:184-187`) counts external streams
    (`source.go:413-415`) but does not hold them back (`external_stream.go:95-103`,
    `346-353`): they may pass it alone.
32. An UPDATE of `stations.status` that fails is only logged (`external_stream.go:121-123`,
    `364-366`, `stations.go:971-973`): the row may be online with nobody left who will
    correct it but the five-minute task.

## 6. What is not modelled

* `SetSource`, `DisconnectListener`, `BroadcastShutdown`, `Remove` of the manager, the
  manual triggers of the federation, `OptionalAuth`, `RequireAdmin`, `Reconnect` of the
  remote client: no caller, or no effect on the state modelled.
* The metadata channel of a mountpoint, bytes sent, formats of anything. The metadata
  request of a broadcaster, HEAD and OPTIONS.
* Validation and authentication in front of `HandleSource`: only that it may refuse.
* `StopAll` of the external streams at shutdown: its goroutines are in `ExternalStreams`,
  whose streams may be cancelled at any time, and the process in `StreamingServer`.
* The buckets of the rate limiters (their answer is open), permanent blocks (nothing
  makes one), deactivating a magic link.
* The proof of work and the content filter, except that they may refuse: functions
  without state, but for the difficulty, which counts what was asked for.
* In the federation: the per-IP rate limiter, pull history and audit rows; the
  metadata poll, which writes nothing (section 5, 29); the client's own station; a station that changes its uuid or its node; the way the
  driver writes times as text (comparisons in SQL assume a server in UTC).
* The HLS parser and proxy, metadata parsers, playlist generator: functions of their
  input, or one map behind one lock.
* The front end, configuration, migrations, headers and compression: no state that
  outlives a request or a startup.

## 7. Plan

Done:

1. `SourceSlot`, `SourceSession`, `ListenerHub` and their proofs: the core.
2. `ExternalStreams`, `SharedMountpoint` and proofs.
3. `Federation`, `FederationClient` and proofs.
4. `StreamingServer` with crash and restart, and proofs.
5. `ProxySessions` and proofs.
6. `RequestGate`, `Stations` and proofs.
7. Theorems for every invariant that a run checks.

Left, in this order:

8. A second version of `FederationClient` with stations that move and the client's own
   station: one of the hazards that no property covers.
9. `Playlists`: the HLS parser, the playlists generated and the check of leading zero
   bits as functions against reference definitions over small inputs.
10. An abstract specification of the users of a shared session, who may stay on one that
    is cancelled, for `ProxySessions` to implement; two keys when a property relates them.
11. Type theorems of `StreamingServer` and `Stations`, and that the slots of
    `StreamingServer` are those of `SourceSession` under the server's requests.
