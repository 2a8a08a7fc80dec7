# A verification of SkyAccel in TLA+

SkyAccel (this repository) accelerates user traffic over an overlay of nodes. A client connects
to the nearest node; the node packs the client's messages with others for the same path into
batches, sends them from node to node over QUIC tunnels, and the last node asks the origin and
sends the answer back the same way. A control plane on every node shares telemetry through etcd
and computes the paths.

This directory holds TLA+ modules for the parts of the system where concurrency, partial
failure or arithmetic at a boundary decide whether it works, the TLC runs that check them on
small instances, and proofs that TLAPS checks for every value of the constants.
`PROJECT.json` lists components, runs, mutants, the lines each definition models, findings,
hazards and theorems.

## 1. The system

### data-proxy: the path of a request

| Part | State | Operations | What is hard about it |
|---|---|---|---|
| entry server (`server/tcp-server.go`, `udp-server.go`) | `connChan`, worker pool, `udpSem` | accept, take a task, handle a request, give up after 10 s | a full queue; a timeout in the same instant as the answer |
| request ids (`util/req-id.go`) | a 32-bit counter | next id | wraps after 2^24, shares its high byte between clients |
| disaggregator (`disaggregator/`) | `waiters`: id to channel | Register, cleanup, Deliver | Deliver sends after it has unlocked; cleanup closes the channel |
| aggregators (`aggregator/aggregator.go`), one for requests and one for answers | batches per key, a heap of deadlines, `sendSem` | handle a message, check timeouts, send, evict | three goroutines, two kinds of lock, and reads outside them |
| packet (`tunnel-packet/`) | header with 4 hops and a position, payload | append, serialize, advance, parse | 16-bit lengths, positions off by one, a port that doubles as a flag |
| tunnel handler (`tunnel-handler.go`) | none | forward, submit to the origin, deliver | tells requests from answers and inner nodes from last ones |
| back sourcer (`backsourcer/`) | task queue | ask the origin, reverse the path | an index into the shortened path |
| tunnel manager (`tunnel-manager/tunnel-manager.go`) | one connection per address | look up, dial, write, close | closes by address, not by connection; dials under the lock |
| tunnel listener (`tunnel-manager/tunnel-listener.go`) | `streamSem` | accept a stream, handle its packet | a blocked stream keeps its slot |
| route cache (`server/routing.go` and the servers) | route and deadline per port | use, fetch, refresh behind the request | refreshes finish in any order; a failed one stores an empty route |
| listener management (`server/server-manager.go`) | `listenerMap`, `portMap` | start, run, stop, list | run reads the map later than start wrote it |

### control-plane

| Part | State | Operations | What is hard about it |
|---|---|---|---|
| telemetry store (`aggregator/node.go`, `sync/etcd_client/`) | etcd keys with leases | store a report, expire | reports stored by unordered goroutines; failed stores |
| routing graph (`main.go`, `routing/graph/`) | nodes, edges | load, watch, add, remove | a gap between Get and watch; deletions without a value; edges to unknown nodes |
| last-mile aggregates (`aggregator/edge.go`) | reports and their sums | add, delete, rebuild | rebuilds that overtake one another |
| path algorithms (`routing/core-domain/`) | flows and candidate paths of one request | k shortest, live-style, ONE-WAN, carousel greedy | weights that change under the search; flow allocated and released over random rounds |
| node selection (`routing/edge-domain/`) | none | Lyapunov, joint, EWMA, P2C scores and shares | two copies taken at different times; underflow; signs and weights |
| route API (`api/routing.go`, `routing/routing.go`) | none | choose an algorithm, answer | unknown names, unknown ports, searches that find nothing |

### data-plane

A window over the proxy's access log (`edge-domain/`), read again and again by one goroutine,
averaged and reported by another. Besides that, probes to other nodes and origins and readings of
CPU and memory, which are input and output.

The parts meet in few places. The entry server hands a message to the request aggregator and
waits at the disaggregator. The aggregator sends through the tunnel manager. The listener of the
next node calls the tunnel handler, which sends on, gives the message to the back sourcer, or
gives the answer to the disaggregator. The back sourcer hands its answer to the response
aggregator. The control plane meets the rest only through reports and routes.

## 2. The modules

Each module's header names the files it models, each variable carries the name of the field it
stands for, and `PROJECT.json` maps each definition to its lines. A step is what one goroutine
does between two points at which another can get in: a mutex operation, a channel operation, or
an access outside the lock that should guard it. Names ending in `_Something` that are commented
"Mutant" are deliberately wrong forms of the definition after them, and no specification uses
them: each shows that some property notices that mistake.

**`Aggregator`** models one worker. The handler (`handleMsg`) receives a message and sends it at
once, or finds or creates the batches of its key, appends and schedules. The timer
(`checkTimeout`) pops the expired heap items, serializes their batches and starts the sends. The
evictor (`evictStaleBatches`) copies the map, looks for old batches, and removes their items and
their key. `w.mu` is held across steps only by the evictor, and `b.mu` only by the handler;
`Locked` and `WMuFree` say when. The evictor's unlocked reads of `b.heapItem` are steps of their
own. Sizes are counted in bytes, with the 16-bit `PayloadLen`. A message is a record of what the
code looks at (id, key, port, length, the flag that asks for immediate sending), and a batch
holds messages instead of bytes. Workers share only their input channel, so one is enough.

**`EntryProxy`** models a request from the accepted connection to its answer: queue, worker pool,
UDP goroutines, id, route, Register, the wait with its timeout, cleanup, and the streams that
bring answers back and call Deliver in two steps (look up, then send). Everything between the
aggregator and the returning stream is a set of requests that are answered or lost.
`GenShortReqID` has one guard that the code does not: an id is not given out while the same id
is outstanding. It is the assumption that fewer than 2^24 requests of clients with one last octet
start while one of them is in progress (about 10 s); `OwnAnswer` needs it.

**`Relay`** models the header and the walk: how the entry node fills the header, how a node
decides between forwarding, asking the origin and delivering, and how the exit node reverses the
path. Any number of nodes handle packets in any order, packets may be lost, and messages for one
path may share a packet. A path longer than the four slots of the header is cut, as `SetHopIP`
does. The control plane does not limit its paths to four hops, so the properties about the walk
are stated for paths that fit (`FitsHeader`); longer ones must still settle, and end at their entry
node if they name a port (`NamesPort`). The routing key has addresses only, so requests to two ports
of one origin may share a packet, which has the port of the first.

**`TunnelManager`** models concurrent `SendPacket` calls: the look-up under the read lock, the
second look under the write lock, the dial that keeps it, the stream, the write, and
`CloseTunnel` by address. A connection may break at any time, and a peer may stop reading without
breaking it (`WaitsForPeer`).

**`GraphSync`** models one control plane's graph: the Get, the nodes loaded in any order, the
watch that starts at whatever revision etcd then has, its events, and restarts. etcd is a map
with leases that may expire at any time. `AddNode` is translated with its order of effects: an
edge to an unknown node is skipped, an edge that exists has only its weight replaced.
`EdgeRisk` is kept as the pair of the two terms that enter the weighted sum, so equal pairs give
equal weights.

**`ProxyService`** is the abstract specification of an entry node as its clients see it: a request
that is taken is answered once, with its own answer, or told of a timeout, or dropped; the process
goes down only after a timeout. `EntryProxy` implements it under the mapping `Status`, which tells
from the program counter and the answer of a handler how its request stands (`Service` is the
`INSTANCE`). TLC checks the whole of it with its liveness, TLAPS the safety part (section 5).

**`Listeners`** models the sockets on which clients are served: the configured ones opened at
start-up, where errors are ignored and the accept goroutine is started all the same; starts and
stops through the API, where the check, the bind and the entry in `listenerMap` are three steps;
and the goroutines that look their socket up when they first run. One entry per port serves both
protocols, so a second one replaces the first.

**`RouteCache`** models `routingMap`: a handler that finds no entry fetches the route itself, one
that finds an expired entry uses it and starts a refresh, fetches end in any order, and an error
stores a route without paths. The control plane is up, failing or hung, and changes. The number of
refreshing goroutines is bounded (`Refreshers`); the code has no bound, and a refresh that is not
started in the model only makes the liveness properties harder.

**`EntryPorts`** composes the two: requests come only in on sockets that a goroutine serves, and a
crash of the process ends everything.

**`RouteGraph`, `KShortest`, `FlowOptimization`, `OneWan`** model the path algorithms, and
**`RoutingAPI`** composes them with the request that selects one. Yen's algorithm takes one step per
spur node, because it reads weights through pointers into the live graph and a report may change
them between; the graph's nodes and edges do not change under it, as it holds its own list of
edges. The carousel greedy optimisation (`FlowOptimization`) asks `KShortest` for latencies, then
fills paths up to `FlowsPerDest` for each destination, drops the older half of them, and then in each
round drops the oldest path and searches for another one. Its depth-first search
is the set of paths that it can return (`Feasible`), because its order and its shuffles are random;
the same holds for the random paths and picks of `OneWan`. Costs and capacities are integers, scaled
where the code has decimals.

**`LastRouting`** models the choice of edge nodes for a user. The scores of the six algorithms are
computed in scaled integers. `math.Exp` is a constant function given as a table, of which the model
assumes only that it is positive and increasing (`ExpAssumption`); a softmax share is zero where the
exponent passes `SoftmaxLimit`, the point at which `exp` underflows. Nodes and aggregates are copied
one after the other, and reports may come between.

**`LastTelemetry`** models the two goroutines over the log of one edge node, **`EdgeAggregate`** the
reports in etcd and the aggregates of one control plane, with rebuilds in goroutines of their own,
and **`LastMile`** composes them over posts that may be lost or late. Time passes in ticks of five
seconds, the period of both tickers. A pass reads the log from the start of its end to wherever the
end then is, lines written meanwhile included, or fails and reads nothing. The load of the control
plane and its watch are two steps, and a report stored between them is not seen. An average is kept as
a fraction, without rounding.

The other modules are joined by what they assume of each other: `EntryProxy` assumes that a message
is answered or lost (`Relay`'s `EveryRequestSettles`, `Aggregator`'s `EventuallyOut`), `Relay` that a
send returns, of which `TunnelManager` shows how far it is so (`SendsWaitForPeerOnly`), and
`RoutingAPI` that a report changes only the weight of an edge that is there (`GraphSync`). They are not composed in one
state machine: their interfaces are single calls, and the product would be far out of TLC's reach.

## 3. The runs

| Run | Instance | What it shows |
|---|---|---|
| `agg_evict` | 1 key, 2 buckets, 3 messages, evictions, 1 send slot, 4 batches | the type invariant; a batch without a heap item is empty; held messages are scheduled or were evicted; a panic needs a popped batch; a message is in one place, and on its way from there unless its batch was evicted |
| `agg_flow` | 2 keys, 2 ports, 4 messages of every kind, 2 send slots, no eviction | packets are whole; a message that leaves under another port than its own is in a batch with the port of a message of its key; a packet without messages stands for one that fits in no batch; every message is handed to the tunnel or given up, unless sends that do not return hold every slot |
| `agg_purge` (violation) | 1 key, prompt goroutines | an idle batch that has just been filled is evicted with its message |
| `entry` | 2 TCP and 1 UDP requests, 2 ids, 2 workers, queue of 1 | own answers, no blocked Deliver, the one panic, every stream ends, and the refinement of `ProxyService`, with which every request ends |
| `relay` | 5 requests, 4 nodes, 1 origin with 2 ports, 2 messages in a packet | path followed, right origin and right entry node; every request settles, so no node panics |
| `relay_port` (violation) | 1 path without a port | the request travels as if it were an answer |
| `tunnel` | 4 senders, 2 addresses, 4 connections | the map is exact: one dial at a time, no leak, no failed connection handed out again; who may close a working connection; a send is held up only by its own peer |
| `graph_sync` | 2 nodes, 1 origin, 2 reports each, 2 waiting events, 1 restart | edges have both ends, the graph catches up with the store, weights converge |
| `graph_dead` (violation) | the same | an expired node stays in the graph |
| `routes` | all graphs over 7 edges for one destination, 3 graphs for several, 2 edge nodes with 7 kinds of machine; 1 change during a request | paths are simple paths of the graph, none is lost or listed twice, costs are sums of weights that were there, what live-style picks; flow, quota, score and bound of the carousel; ONE-WAN serves what it can; better nodes first, and where no node starves; every request is answered |
| `ports` | 1 port under both protocols, 3 ways to start, 3 API calls, 2 clients, a control plane that changes once | causes of a crash; open sockets are known, known ones are served; routed requests end while the control plane hangs; an outage is overcome |
| `lastmile` | 2 log lines, 2 nodes, 2 rebuilders, 1 fault (a report lost or late, a pass that fails) | averages lie between logged times and count a recent line no more often than it was read, what was logged is aggregated, aggregates catch up again and again |

**Bounds.** Three messages fill a batch and overflow it, which is when a batch is replaced while
the timer and the evictor are at work. `BatchMaxAge` is scaled to the length of a tick, so that
evictions meet live batches; one send slot makes the timer wait, and in `agg_flow` the second lets a
send that never returns be told from all of them. Two ids for three requests make
ids wrap, one queue slot makes a connection be refused. The paths have the lengths that the
header tells apart: one relay, two, and one too many; two run through the same nodes in opposite
directions. Three senders to one node allow one to dial, one to fail on the old connection and
one to use the new one. Two nodes whose reports change load and latency meet every branch of
`AddNode`; two waiting events let a report and an expiry be handled late. For one
destination, seven edges between a start, two relays and an origin, each absent, light but slow or
heavy but fast, give every branch of the searches, and `LiveMaxHops = 2` (the code has 10) lets a
path be too long; `DfsMaxHops = 2` does the same for ONE-WAN. For several destinations the graphs
have a shared relay, loads above the threshold and an edge in both directions, so that reverse
edges and penalties occur; `MaxAttempts`, `NumIterations` and `MaxPaths` are smaller than in the code
and only shorten the random rounds. The seven machines lie on both sides of each threshold of
the scores. A load of 270 percent and a latency of 690 ms together take the share of a node away,
and neither does alone. In `ports` the three starts
are nothing configured, a port that another process holds, and both protocols on one port. In
`lastmile` the end of the log holds one line, so that the second line pushes the first out. The
window is one tick (the code has two), so that lines grow old while the run still tells their copies
apart. An idle node makes a record of its last line with every pass, without end; the model instead
has the log fail to open once each line of the end has `MaxCopies = 2` records (`ReadEnough`), until
there is a new line. `AggregatesAreMeasured` would see a line counted twice before a tick has passed.
The bounds on time, batches, connections, events and
restarts only keep the instances finite. Where a finite supply of messages, requests or calls runs
out, the system stops, and those runs do not check deadlock; `graph_sync` does.

**Fairness.** `Aggregator`, `EntryProxy` and `TunnelManager` assume weak fairness of each
goroutine, which the Go scheduler gives a goroutine that stays runnable; its mutexes do not
starve a waiter. Time passes, tickers fire, and reads, dials and origin requests have deadlines.
These calls have none:

- `OpenUniStreamSync` and `stream.Write` in `SendPacket`, which wait for the peer's credit.
  `TunnelManager` does not assume that they return while the connection is up, nor `Aggregator` that
  `SendPacket` does; their liveness properties say what follows. `Relay` does assume that a packet
  under way arrives or is lost, and its `EveryRequestSettles` holds as far as that does: nodes whose
  stream handlers all wait for one another's credit would stop it.
- the `http.Post` for a route. `EntryProxy` assumes that it returns; `RouteCache` lets it hang.
- the send to `inputChan`, which `EntryProxy` assumes to return. The handler drains the channel while
  sends return. That a request leaves the tunnels at all matters in `EntryProxy` only because its guard
  on ids waits for it.

`Relay` needs only that some step is taken while one can be. `GraphSync` assumes
that the control plane handles its events (weak) and that a reporting node's stores succeed again
and again; this one is strong because the bound on waiting events, which etcd does not have,
disables it now and then. `EntryPorts` assumes weak fairness of
each goroutine, that deadlines pass, and that clients keep coming to a port that is served, which
`OutageIsOvercome` needs because only a request starts a refresh; a hung control plane need not
answer. `LastMile` assumes that tickers and goroutines go on, that the control plane starts, and that a post
under way arrives, but not that it arrives in time. `RoutingAPI` assumes that the handler of a request goes on. Other than
that, clients, failures, expiries and restarts are never assumed.

## 4. What the runs found

- **A filled batch is evicted** (`agg_purge`). `createTime` is the time of the last flush. A batch
  that was idle for `batchMaxAge` and has just received a message is removed from the heap and
  the map, and the message is never sent. The comment above the function says that buckets are
  purged "only when requests cease completely".
- **No port means answer** (`relay_port`). A path whose last hop has no port leaves port 0 in the
  header, which marks an answer. The README promises the port of `test_routing`.
- **A dead node stays** (`graph_dead`). The event of an expired key has no value, so the handler
  removes the node with the empty address. The README promises that the system "automatically
  switches to optimal paths".

Some properties state exactly how far the code goes, because the stronger form does not hold:

- `PanicOnlyInTimeoutRace` and `PanicOnlyOnLateAnswer` each name the one race that ends the
  process: the evictor meeting a batch that the timer has popped (the item's index is -1, or the item
  is gone at the second of two reads), and Deliver sending on a channel whose handler timed out in
  between.
- `InOnePlace` excepts the messages of a batch that the evictor has removed: they are in it, and
  nobody will send them. It is the loss that `agg_purge` shows a way to.
- `EmptyPacketHasCause`: `handleMsg` does not look at the result of its last append, so a message that
  fits in no batch is lost and the batch opened for it is sent with a header and nothing else.
- `EventuallyOut` and `SendsWaitForPeerOnly` except what a peer that does not read holds up, for
  `SendPacket` has no deadline.
- `KilledByStaleSender` says who may close a working connection: a sender that failed on its
  predecessor.
- `PortOfOwnKey` allows a batched message to leave under the port of another message of its key. The
  key of a batch has no port in it, and its header has the port of the message that opened it; the
  README says of a path's last hop "If "IP:Port" given → uses the specified destination port"
  (`src/README.md:154`).
- `RightEnds` says the same of the walk: the origin is asked at the port of some request over the same
  addresses. And a path that is too long for the header and names no port is taken for an answer at
  the node where the header ends, so its entry node is excepted.
- `CostsAreHonest` says that the cost of a path is the sum of its weights. `k-shortest_test.go:95-99`
  (and 132-135, 194-197) expects 1.2 times that sum, 2.4 for a path of weight 2.0; the code multiplies
  with `alpha`, which `k-shortest.go:36` sets to 1.
- `LiveStyleIsBest` says what `selectTopPaths` does: least latency among the paths that are not too
  long. The comment at `livenet.go:11-15` says "Prioritize paths with <=4 hops" and "Sort by raw RTT
  within each hop category", of which the code has neither.
- `ListedPathsAreFeasible`: the carousel's search walks edges that carry flow
  backwards, at no cost. A path may thus contain hops that are no edges, and the latency bound holds
  for paths of real edges only.
- `OffersAreFair` says that better nodes come first and that no node's share is zero, with two
  exceptions. The softmax of `lyapunov` can underflow to zero, but only where the load (which
  counts cores) is above 256 percent or the latency above 34 times the good one of its pair of continents. If it does
  for every node all shares are zero, where `src/README.md:361` says that they sum "to 1.0 across all paths"
  and `lyapunov-config.go:58,69` that the temperature works "without starving" any node. And `p2c.go:65`
  takes a load of 0 for an unknown one and counts it as 100 (`p2c_test.go:402-436` wants that), so an
  idle node ranks with a fully loaded one, although "lower CPU = higher weight".
- `EveryRequestAnswered` counts a recovered panic as an answer. `src/README.md:305` offers the
  algorithms `shortest`, `carousel-greed` and `lyapunov` for a path and `src/README.md:336` `ewma` for
  the last mile; the code knows none of these names there, and each ends in a nil call that gin
  recovers from.
- `CrashHasCause` names the three ways in which the goroutine of a TCP listener panics.
- `OutageIsOvercome`: an error is cached like a route and dropped requests
  follow until the deadline passes, though the previous route may have been good. One refresh at a
  time is modelled, next to the fetches of handlers that found no entry.
- `AggregatesCatchUp` says that the aggregates agree with the reports again and again, not from some
  time on: a rebuild that was overtaken may publish last, and a report stored between the load and the
  watch is not seen, each until the node's next report. As with `graph_dead`, a deletion names
  no node, so the aggregates of a node that is gone stay.
- `CaughtUp` excepts reports stored between Get and watch.
- `WeightsConverge` is about weights only. The load and the latency of an edge keep the values of
  its first report.
- `PacketIsWhole` holds for buffers below 64 KiB, such as the shipped 5120 bytes. The code does
  not enforce that limit; with `BufferSize = 70000` and two messages of 33000 bytes TLC finds it
  violated, because `PayloadLen` has 16 bits. No listed run does this.

Seen while reading, without a run: `k-shortest.go:136` speaks of the "first shortest path", but the
search stops expanding nodes as soon as the destination has a distance, before the last hops are
compared, so in the graph `Decoys` of `MCRouting` the three paths returned do not include the shortest;
the records of an idle edge node grow by a copy of the log's end
every five seconds, for all records are kept when none is recent; the EWMA router is built for each
request, so its averages have no history, although `ewma-based.go:12-20` speaks of one; several comments of
`carousel-greed.go` give other numbers than the code (three flows per destination against two, five
paths against three, "remove 90%" against one half, "average latency * 2" against 1.5), and the step
that says it removes the newest paths removes the oldest.

## 5. What is proved

The theorems hold for every value of the constants that satisfies the named assumption of the module
(`AggAssumption`, `EntryAssumption`, `TunnelAssumption`, `ReportsAssumption`, `PortsAssumption`,
`RelayAssumption`, `LastMileAssumption`: numbers have the right sign, `None` and the empty address are no values of the
system, paths are sequences of nodes that end at an origin). The bounds that keep TLC's instances
finite (`MaxTime`, `MaxBatches`, `MaxConns`, `PacketMax`...) are constants like the others, so
the theorems hold for each of their values. Every proof that a step keeps an invariant has one case
or one lemma per action.

### The aggregator (`AggregatorLists`, `AggregatorProofs`)

The invariants that the runs check of a worker are proved (`EmptyPacketHasCause` excepted), for any keys, ports and messages, batch
numbers, buffer size, timeout, age and number of send slots.

| Theorem | Statement |
|---|---|
| `TypeCorrect` | `Spec => []TypeOK` |
| `InductiveInvariant` | `Spec => [](TypeOK /\ Inductive)` |
| `FlushedIsEmpty` | `Spec => []UnscheduledIsEmpty` |
| `NothingForgotten` | `Spec => []HeldIsScheduled` |
| `PanicsOnlyInRace` | `Spec => []PanicOnlyInTimeoutRace` |
| `PortsComeFromOwnKey` | `Spec => []PortOfOwnKey` |
| `PacketsAreWhole` | `NoOverflow => (Spec => []PacketIsWhole)` |
| `MessagesStayInOnePlace` | `Spec => []InOnePlace` |

`TypeOK` is inductive: besides the types it says that each goroutine has what it needs where it
is. The others are not inductive by themselves.

- `Inductive` is for the next three. Its conjunct `ItemsAccounted` says that a batch that points to a
  heap item is in the heap, popped, or evicted, and so is the handler's new item in the moment before
  `b.heapItem` points to it. Without the second half the timer could pop an item between the push
  and the assignment, and the batch would then seem unaccounted for. `ItemsLeaveOnce` says that an item
  that was popped or evicted is not in the heap again while its batch points to it: between its two
  reads of `b.heapItem` the evictor does not come upon a new item of the same batch. `ListsFresh` says that no batch
  is in two places of the map or of the evictor's copy; that a batch the evictor has removed is in
  neither, except under the key it is about to delete; and that numbers of batches in lists are at most
  `Published`, so new batches are new to both. Without it the evictor could meet a batch whose item
  it has already removed, which would be a second cause of panic.
- `HeaderInv` is for `PortOfOwnKey`. It follows a message from the channel (it is no longer among the
  ones to be added) through the handler (the batch it has picked has a header of the message's key) and
  the batch to the packet. The header of a batch in any list was made for a message that was added
  before and does not travel alone; the fresh batches of `NewBatches` have it before they are in a list.
- `LengthInv` and `WholeInv` are for `PacketIsWhole`. `wp` is the header plus the running total of the
  sizes of the messages (`AddsUp`). `PayloadLen`, which the reset of a batch leaves stale, is current
  for every batch in the heap or popped, because a batch gets there only after an append and nobody
  empties it before the timer does: that is why `ItemInv` must know that a batch in the heap or popped
  has its heap item, which keeps the handler from pushing a second one. That the recursive sum of
  `SumSizes` is the end of any running total is shown by a least counterexample (`LeastNat`,
  `SumIsTotal`). The hypothesis `NoOverflow` says that the buffer's payload and every single message
  are below 2^16 bytes; section 4 says what happens otherwise. The shipped buffer has 5120 bytes and a
  UDP datagram at most 65507; the code sets no limit to a line read from a TCP client, so the
  hypothesis is a condition on the messages.
- `Tracked` and `OnceInv` are for `InOnePlace`: each message is at exactly one of seven stages (to be
  added, channel, handler, batch, serialized, packet, given up), and at one place of that stage. Each
  action moves a set of messages from one stage to another and leaves the rest (`Moved`, `Steady`). That
  makes the place unique (`PlacedAlways`, in `AggregatorLists`); that the message is on its way from
  there exactly if its batch is not evicted follows with `HeldIsScheduled` and `ItemsLeaveOnce`.

### The entry node (`EntryProofs`)

| Theorem | Statement |
|---|---|
| `AnswersAreOwn` | `Spec => [](OwnAnswer /\ TableIsExact)` |
| `SendsNeverBlock` | `Spec => []DeliverNeverBlocks` |
| `PanicsAreLateAnswers` | `Spec => []PanicOnlyOnLateAnswer` |
| `EntryImplementsService` | `Spec => Service!Safe`, the refinement of `ProxyService` without liveness |

They rest on one inductive invariant, `EntryInv`. `OwnAnswer` and `TableIsExact` are not inductive:
that a client gets its own answer depends on ids, and that ids do not clash depends on where answers
still are. `EntryInv` therefore adds

- `HandlerInv` and `QueueInv`: what a handler's program counter says of its id, answer and channel,
  and that the queue holds each connection once;
- `TransitInv`: the answer to a request is in one place (network, one stream, or the handler's
  channel), and a handler that has gone on while it is under way has timed out;
- `IdsDiffer`: no two requests that are being handled or under way have the same id. This is where the
  guard of `GenShortReqID` is used, and it is why a late answer finds its own waiter or none;
- `Paired`: what a stream has looked up, and what a channel holds, belongs to the same request.

Each action has a lemma that it preserves `EntryInv`. For the refinement, `Status` is computed from
program counter and answer, so a step that moves a handler between two labels of the same status is a
stutter (`StepRefines`); the panic of Deliver is the abstract `Crash`, which needs that some request
has timed out, and that is `PanicOnlyOnLateAnswer`'s argument again. The refinement together with its
liveness is checked by TLC (`ImplementsService` in the run `entry`).

### The walk of a packet (`RelayProofs`)

| Theorem | Statement |
|---|---|
| `RelayIsSound` | `Spec => []RelayInv` |
| `PacketsFollowTheirPath` | `Spec => []FollowsPath` |
| `RequestsReachTheirEnds` | `Spec => []RightEnds` |
| `ExitNodesDoNotPanic` | `Spec => []~panicked` |

for any nodes, origins, paths of any length, ports, batches and losses. `RelayInv` says of each request
that it is in one place and there once (`OnePlace`, `NotTwice`: two packets with the same request would
let it be handled twice), and, in `Agree`, what header it travels with there and which nodes it has
visited so far: on the way out the header of its own path and the nodes before `HopPos`; at the origin
and at the exit node all relays; on the way back the header of the reversed path. From this follows
what each test of `HandleQUICPacket` finds. Headers have four slots, so the walk is a case distinction
over path lengths 3, 4 and more; a path of two hops is given up when it is sent. The sequences in it
are short, and lemmas (`ShortSeqs`, `TuplePrefixes`, `ReturnOfHeader`, `WalkOfPath`) say what the
operators on them give.

### The tunnel manager (`TunnelProofs`)

| Theorem | Statement |
|---|---|
| `TunnelMapIsExact` | `Spec => []MapIsExact` |
| `ClosedByStaleSender` | `Spec => []KilledByStaleSender` |
| `EntriesNeverOverwritten` | `Spec => EntriesChangeSafely`: an entry is only set where there was none, to a new connection, and only emptied when its connection is closed (an action property) |

`TunnelInv` adds that an entry of the map is the newest connection to its address (`MapInv`), that a
sender dials only to an address without an entry, and what a sender's program counter says of its
connection (`SenderInv`): one that is about to close has a connection that is down. With the order of
the dials this makes the victim of a late `CloseTunnel` newer than the sender's own connection.

### The routing graph (`GraphSyncProofs`)

| Theorem | Statement |
|---|---|
| `GraphHasEnds` | `Spec => []EdgesHaveEnds` |
| `GraphCatchesUp` | `Spec => []CaughtUp` |
| `WeightsHaveLatestLatency` | `Spec => []LatencyIsLatest`: the weight of an edge has the latency of the report that the graph has of its near node, if that report still has the link |

`SyncInv` says of the waiting events that the last one of a node has the value of its key
(`EventsInv`), and of the graph that it has the stored report of every node for which nothing waits
(`GraphInv`). `CaughtUp` is the case in which nothing waits at all. `EdgesHaveEnds` is inductive only
because the event of an expired key removes the node with the empty address, which is no node:
`ReportsAssumption` says so.

### The listeners (`EntryPortsProofs`)

| Theorem | Statement |
|---|---|
| `SocketsAreSound` | `Spec => []SocketInv` |
| `CrashesHaveACause` | `Spec => []CrashHasCause` |
| `OpenSocketsStayKnown` | `Spec => []OpenSocketsAreKnown` |

for any ports, configurations and API calls. `SocketInv` adds that every socket has one opener and an
opener opens one (`OpenersInv`), where a socket is that is opened and not yet in the map (`PlacesInv`),
that the operating system binds a port once for each protocol (`BoundOnce`), and why a goroutine that
has not looked for its socket yet may fail to find it (`RunnersInv`): its port was never bound, or it
was and the map has lost it since.

### The last mile (`LastMileProofs`)

| Theorem | Statement |
|---|---|
| `AggregatesMeasured` | `Spec => []AggregatesAreMeasured` |

for any traffic, cities, window and tail of the log, any nodes and rebuilders, and any number of lost
and late reports and failed passes. The inductive invariant `MileInv` has a part for each half of the property.

- `LogInv` is about the node's log. A record of a line is of a city of that line (`Kept`). No pass is
  due while one is under way, and for a line that is recent, one written during the pass included, the
  records it has, the pass that will still read it (`Waits`) and the pass that is due (`Due`) are
  together at most its age and one (`CopiesInv`).
  Without the last two terms the bound is not inductive: a tick lets the line grow older and makes a
  pass due in the same step.
- `ReportsInv` follows a report from the node to the aggregates: the one being sent and the late one,
  etcd, the events, the cache, the lists of the rebuilds under way, and the averages are all `Measured`
  by the log as it is now. They stay so when the log grows, as a line is only ever added (`Later`), so it
  does not matter in which order reports arrive and rebuilds publish.

That a report is measured when it is made is a fact about weighted averages: a sum of products
`Copies * Round(rt)` lies between the least and the greatest time, multiplied by the sum of the copies
(`WeightedSum`). The sums are recursive functions. Their lemmas speak of the sequence of running totals
and go up along it with `UpTo`, which says that a set with 0 in it, closed under the next number, has all
numbers up to `n`; it follows from the well-foundedness of `<` (`LeastNumber`).

### Only model-checked

- All liveness properties, and with them the liveness of the refinement: fairness and `ENABLED` are out
  of the prover's reach.
- The properties of `RoutingAPI` and its algorithms: they are built from RECURSIVE operators, with which
  the prover cannot work, and say what recursive searches return on a graph.

## 6. What could follow

1. An abstract specification of the aggregator (a bag of messages from which packets leave), refined by
   `Aggregator`; its safety part is close to what `Tracked` says.
2. The averaging of a raw report in `aggregator/node.go`, in front of `GraphSync`, which would cover
   the ports that are grouped under one address.
3. The task queue of the back sourcer and the probe rounds of the data plane.

## 7. What is not modelled

- Not reached by the running program: `handleConnectionKeepAlive` and `directOriginProxy`
  (servers are built without keep-alive, the proxy has no caller), `aggregator_v2.go`, and the
  origin connection pool.
- Library code: QUIC, etcd, gin and the token bucket of the rate limiter. The modules keep what
  the code relies on: a connection may break, a packet may be lost, a lease may expire.
- Contents: bytes of messages, JSON, logging and configuration files. A value that cannot be
  parsed is skipped by the code and does not occur in the models, as all values are written by
  the system itself.
- Start-up of the embedded etcd member, whose data directory is removed at each start. `GraphSync`
  assumes that the other members keep the keys.
- Probing and node telemetry of the data plane (`probing/`, `collector/`, `report-info/`) and the reply
  with the probe tasks (`api/probing.go`): they read counters, time sockets and list nodes. What they
  produce is the telemetry that `GraphSync` takes from its environment.
- The averaging of a raw report (`aggregator/node.go`), the task queue and the sockets of the back
  sourcer: see section 6. The hazards that no property covers carry a note in `PROJECT.json`.
- The 95th percentile of a report, which nothing reads, and code without a caller: `selectTopPaths` of
  `k-shortest.go`, `GetEWMASummary`, `GetAggValue`.
