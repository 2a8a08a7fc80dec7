-------------------------- MODULE GraphSyncProofs ---------------------------
(***************************************************************************)
(* The safety theorems of GraphSync, for any nodes, origins and reports,   *)
(* any number of waiting events and any number of restarts.                *)
(***************************************************************************)
EXTENDS GraphSync, TLAPS

\* What a key of etcd, and a node of the graph, may hold.
Values == {None} \cup UNION {Reports[n] : n \in Nodes}
Events == [node : Nodes, value : Values]

GraphType ==
    /\ store \in [Nodes -> Values] /\ toLoad \in [Nodes -> Values]
    /\ nodes \in [Nodes -> Values]
    /\ events \in Seq(Events)
    /\ phase \in {"get", "load", "watch"}
    /\ heard \subseteq Nodes

\* The watch delivers what etcd holds: the last waiting event of a node has the value
\* of its key.  Without a watch nothing waits and no report counts as heard.
EventsInv ==
    /\ phase # "watch" => events = <<>> /\ heard = {}
    /\ \A i \in 1 .. Len(events) :
           (\A j \in 1 .. Len(events) : j > i => events[j].node # events[i].node)
               => events[i].value = store[events[i].node]

\* The graph has the report of a node for which nothing waits.
GraphInv ==
    \A n \in heard :
        store[n] # None /\ (\A i \in 1 .. Len(events) : events[i].node # n) => nodes[n] = store[n]

SyncInv == GraphType /\ EventsInv /\ GraphInv /\ EdgesHaveEnds

-----------------------------------------------------------------------------
LEMMA ValuesInclude ==
    /\ None \in Values /\ Nothing \in [Nodes -> Values]
    /\ \A n \in Nodes : Reports[n] \subseteq Values
  <1>1. None \in Values
    BY Zenon DEF Values
  <1>2. \A n \in Nodes : Reports[n] \subseteq Values
    BY Zenon DEF Values
  <1> QED
    BY <1>1, <1>2, Zenon DEF Nothing

LEMMA SyncInit == Init => SyncInv
  <1> SUFFICES ASSUME Init PROVE SyncInv
    BY Zenon
  <1>1. Nothing \in [Nodes -> Values] /\ <<>> \in Seq(Events) /\ Len(<<>>) = 0
    BY ValuesInclude
  <1>2. \A e \in EdgeIds : NoEdges[e] = None
    BY Zenon DEF NoEdges
  <1> QED
    BY <1>1, <1>2 DEF Init, SyncInv, GraphType, EventsInv, GraphInv, EdgesHaveEnds

\* A changed key: the event goes to the end of those that wait.
LEMMA ChangeKeepsInv ==
    ASSUME SyncInv, NEW n \in Nodes, NEW value \in Values, Change(n, value),
           heard' \in {heard, heard \cup {n}}, phase # "watch" => heard' = heard,
           UNCHANGED <<phase, toLoad, nodes, edges>>
    PROVE  SyncInv'
  <1> DEFINE ev == [node |-> n, value |-> value]
  <1>1. ev \in Events
    BY Zenon DEF Events
  <1>2. GraphType'
    BY <1>1 DEF SyncInv, GraphType, Change
  <1>3. EventsInv' /\ GraphInv'
    <2>1. CASE phase # "watch"
      BY <2>1 DEF SyncInv, EventsInv, GraphInv, Change
    <2>2. CASE phase = "watch"
      <3>1. events' = Append(events, ev) /\ store' = [store EXCEPT ![n] = value]
        BY <2>2, Zenon DEF Change
      <3>2. Len(events') = Len(events) + 1 /\ Len(events) \in Nat /\ events'[Len(events) + 1] = ev
        BY <1>1, <3>1 DEF SyncInv, GraphType
      <3>3. \A i \in 1 .. Len(events) : events'[i] = events[i] /\ events[i] \in Events
        BY <1>1, <3>1 DEF SyncInv, GraphType
      <3>4. ASSUME NEW i \in 1 .. Len(events'),
                   \A j \in 1 .. Len(events') : j > i => events'[j].node # events'[i].node
            PROVE  events'[i].value = store'[events'[i].node]
        <4>1. CASE i = Len(events) + 1
          BY <3>1, <3>2, <4>1 DEF SyncInv, GraphType
        <4>2. CASE i # Len(events) + 1
          <5>1. i \in 1 .. Len(events) /\ events'[i] = events[i] /\ events[i] \in Events
            BY <3>2, <3>3, <4>2
          <5>2. events[i].node # n
            BY <3>2, <3>4, <5>1
          <5>3. \A j \in 1 .. Len(events) : j > i => events[j].node # events[i].node
            BY <3>2, <3>3, <3>4, <5>1
          <5> QED
            BY <3>1, <5>1, <5>2, <5>3, Zenon DEF SyncInv, GraphType, EventsInv, Events
        <4> QED
          BY <4>1, <4>2, Zenon
      <3>5. EventsInv'
        BY <2>2, <3>4, Zenon DEF EventsInv
      <3>6. ASSUME NEW m \in heard', store'[m] # None,
                   \A i \in 1 .. Len(events') : events'[i].node # m
            PROVE  nodes[m] = store'[m]
        <4>1. m # n
          BY <3>2, <3>6
        <4>2. m \in heard /\ store'[m] = store[m]
          BY <3>1, <4>1 DEF SyncInv, GraphType
        <4>3. \A i \in 1 .. Len(events) : events[i].node # m
          BY <3>2, <3>3, <3>6
        <4> QED
          BY <3>6, <4>2, <4>3, Zenon DEF SyncInv, GraphInv
      <3> QED
        BY <3>5, <3>6, Zenon DEF GraphInv
    <2> QED
      BY <2>1, <2>2, Zenon
  <1>4. EdgesHaveEnds'
    BY Zenon DEF SyncInv, EdgesHaveEnds, Known
  <1> QED
    BY <1>2, <1>3, <1>4, Zenon DEF SyncInv

\* AddNode enters the node before its links, and a link only to a known far end.
LEMMA AddNodeKeepsEnds ==
    ASSUME SyncInv, NEW n \in Nodes, NEW tel \in Values, tel # None, AddNode(n, tel)
    PROVE  /\ nodes' \in [Nodes -> Values] /\ nodes' = [nodes EXCEPT ![n] = tel]
           /\ EdgesHaveEnds'
  <1>1. nodes' = [nodes EXCEPT ![n] = tel] /\ nodes' \in [Nodes -> Values]
    BY Zenon DEF AddNode, WithNode, SyncInv, GraphType
  <1>2. \A t \in Targets : Known(nodes, t) => Known(nodes', t)
    BY <1>1, Zenon DEF Known, SyncInv, GraphType
  <1>3. ASSUME NEW e \in EdgeIds, edges'[e] # None
        PROVE  nodes'[e[1]] # None /\ Known(nodes', e[2])
    <2>1. e[1] \in Nodes /\ e[2] \in Targets
      BY Zenon DEF EdgeIds
    <2>2. CASE e[1] = n /\ e[2] \in DOMAIN tel.links /\ Known(nodes', e[2])
      BY <1>1, <2>1, <2>2, Zenon DEF SyncInv, GraphType
    <2>3. CASE ~(e[1] = n /\ e[2] \in DOMAIN tel.links /\ Known(nodes', e[2]))
      <3>1. edges'[e] = edges[e]
        BY <2>3, Zenon DEF AddNode, WithLinks
      <3> QED
        BY <1>1, <1>2, <1>3, <2>1, <3>1, Zenon DEF SyncInv, GraphType, EdgesHaveEnds
    <2> QED
      BY <2>2, <2>3, Zenon
  <1> QED
    BY <1>1, <1>3, Zenon DEF EdgesHaveEnds

\* The event of a deleted key names no node: nothing is removed.
LEMMA RemoveNothing ==
    ASSUME SyncInv, RemoveNode("")
    PROVE  UNCHANGED nodes /\ EdgesHaveEnds'
  <1>1. "" \notin Nodes
    BY ReportsAssumption, Zenon
  <1>2. nodes' = nodes
    BY <1>1, Zenon DEF RemoveNode, SyncInv, GraphType
  <1>3. \A e \in EdgeIds : edges'[e] \in {edges[e], None}
    BY Zenon DEF RemoveNode
  <1> QED
    BY <1>2, <1>3, Zenon DEF SyncInv, EdgesHaveEnds, Known

\* A step of the control plane that leaves etcd and its events alone.
LEMMA LoadKeepsInv ==
    ASSUME SyncInv, NEW n \in Nodes, LoadNode(n)
    PROVE  SyncInv'
  <1>1. toLoad[n] \in Values /\ toLoad[n] # None /\ AddNode(n, toLoad[n])
    BY Zenon DEF LoadNode, SyncInv, GraphType
  <1>2. nodes' \in [Nodes -> Values] /\ EdgesHaveEnds'
    BY <1>1, AddNodeKeepsEnds, Zenon
  <1>3. GraphType'
    BY <1>2, ValuesInclude, Zenon DEF LoadNode, SyncInv, GraphType
  <1>4. EventsInv' /\ GraphInv'
    BY DEF LoadNode, SyncInv, EventsInv, GraphInv
  <1> QED
    BY <1>2, <1>3, <1>4, Zenon DEF SyncInv

\* Handling the first event: if no other of the same node waits, it had the value
\* that the key has now.
LEMMA HandleKeepsInv ==
    ASSUME SyncInv, HandleRoutingWatchEvent
    PROVE  SyncInv'
  <1> DEFINE ev == Head(events)
  <1>1. /\ ev = events[1] /\ ev \in Events /\ Len(events) \in Nat \ {0}
        /\ events' \in Seq(Events) /\ Len(events') = Len(events) - 1
        /\ \A i \in 1 .. Len(events') : events'[i] = events[i + 1]
    BY DEF HandleRoutingWatchEvent, SyncInv, GraphType
  <1>2. phase = "watch" /\ UNCHANGED <<store, phase, toLoad, heard>>
    BY Zenon DEF HandleRoutingWatchEvent
  <1>3. ev.node \in Nodes /\ ev.value \in Values
    BY <1>1, Zenon DEF Events
  <1>4. /\ nodes' \in [Nodes -> Values] /\ EdgesHaveEnds'
        /\ nodes' = IF ev.value = None THEN nodes ELSE [nodes EXCEPT ![ev.node] = ev.value]
    <2>1. CASE ev.value # None
      BY <1>3, <2>1, AddNodeKeepsEnds, Zenon DEF HandleRoutingWatchEvent, ParsedIP
    <2>2. CASE ev.value = None
      BY <2>2, RemoveNothing, Zenon DEF HandleRoutingWatchEvent, ParsedIP, SyncInv, GraphType
    <2> QED
      BY <2>1, <2>2, Zenon
  <1>5. GraphType'
    BY <1>1, <1>2, <1>4, Zenon DEF SyncInv, GraphType
  <1>6. EventsInv'
    <2> SUFFICES ASSUME NEW i \in 1 .. Len(events'),
                        \A j \in 1 .. Len(events') : j > i => events'[j].node # events'[i].node
                 PROVE  events'[i].value = store[events'[i].node]
      BY <1>2, Zenon DEF EventsInv
    <2>1. i + 1 \in 1 .. Len(events) /\ events'[i] = events[i + 1]
      BY <1>1
    <2>2. ASSUME NEW j \in 1 .. Len(events), j > i + 1
          PROVE  events[j].node # events[i + 1].node
      <3>1. j - 1 \in 1 .. Len(events') /\ j - 1 > i /\ events'[j - 1] = events[j]
        BY <1>1, <2>2
      <3> QED
        BY <2>1, <3>1, Zenon
    <2> QED
      BY <2>1, <2>2, Zenon DEF SyncInv, EventsInv
  <1>7. GraphInv'
    <2> SUFFICES ASSUME NEW n \in heard, store[n] # None,
                        \A i \in 1 .. Len(events') : events'[i].node # n
                 PROVE  nodes'[n] = store[n]
      BY <1>2, Zenon DEF GraphInv
    <2>1. \A j \in 1 .. Len(events) : j > 1 => events[j].node # n
      <3> SUFFICES ASSUME NEW j \in 1 .. Len(events), j > 1 PROVE events[j].node # n
        BY Zenon
      <3>1. j - 1 \in 1 .. Len(events') /\ events'[j - 1] = events[j]
        BY <1>1
      <3> QED
        BY <3>1, Zenon
    <2>2. CASE ev.node = n
      <3>1. ev.value = store[n]
        BY <1>1, <2>1, <2>2 DEF SyncInv, EventsInv
      <3> QED
        BY <1>3, <1>4, <2>2, <3>1, Zenon DEF SyncInv, GraphType
    <2>3. CASE ev.node # n
      <3>1. nodes[n] = store[n]
        BY <1>1, <2>1, <2>3 DEF SyncInv, GraphInv
      <3> QED
        BY <1>3, <1>4, <2>3, <3>1, Zenon DEF SyncInv, GraphType
    <2> QED
      BY <2>2, <2>3, Zenon
  <1> QED
    BY <1>4, <1>5, <1>6, <1>7, Zenon DEF SyncInv

LEMMA SyncStepKeepsInv == SyncInv /\ [Next]_vars => SyncInv'
  <1> SUFFICES ASSUME SyncInv, [Next]_vars PROVE SyncInv'
    BY Zenon
  <1>1. CASE UNCHANGED vars
    BY <1>1 DEF SyncInv, GraphType, EventsInv, GraphInv, EdgesHaveEnds, Known, vars
  <1>2. ASSUME NEW n \in Nodes, NEW tel \in Reports[n], Store(n, tel) PROVE SyncInv'
    <2>1. tel \in Values
      BY ValuesInclude, Zenon
    <2> QED
      BY <1>2, <2>1, ChangeKeepsInv, Zenon DEF Store
  <1>3. ASSUME NEW n \in Nodes, Expire(n) PROVE SyncInv'
    BY <1>3, ValuesInclude, ChangeKeepsInv, Zenon DEF Expire
  <1>4. CASE Settle
    BY <1>4 DEF Settle, SyncInv, GraphType, EventsInv, GraphInv, EdgesHaveEnds, Known
  <1>5. CASE GetPrefixAll
    <2>1. toLoad' \in [Nodes -> Values]
      BY <1>5, ValuesInclude, Zenon DEF GetPrefixAll, SyncInv, GraphType
    <2> QED
      BY <1>5, <2>1
      DEF GetPrefixAll, SyncInv, GraphType, EventsInv, GraphInv, EdgesHaveEnds, Known
  <1>6. CASE WatchPrefix
    BY <1>6 DEF WatchPrefix, SyncInv, GraphType, EventsInv, GraphInv, EdgesHaveEnds, Known
  <1>7. CASE Restart
    <2>1. Nothing \in [Nodes -> Values] /\ <<>> \in Seq(Events) /\ Len(<<>>) = 0
      BY ValuesInclude
    <2>2. \A e \in EdgeIds : edges'[e] = None
      BY <1>7, Zenon DEF Restart, NoEdges
    <2> QED
      BY <1>7, <2>1, <2>2
      DEF Restart, SyncInv, GraphType, EventsInv, GraphInv, EdgesHaveEnds
  <1> QED
    BY <1>1, <1>2, <1>3, <1>4, <1>5, <1>6, <1>7, LoadKeepsInv, HandleKeepsInv, Zenon DEF Next

LEMMA SyncInvAlways == Spec => []SyncInv
  BY SyncInit, SyncStepKeepsInv, PTL DEF Spec

-----------------------------------------------------------------------------
\* Whatever the order in which reports are loaded and events handled, no edge of the
\* graph starts at or leads to a node that the graph does not have.
THEOREM GraphHasEnds == Spec => []EdgesHaveEnds
  <1>1. SyncInv => EdgesHaveEnds
    BY Zenon DEF SyncInv
  <1> QED
    BY <1>1, SyncInvAlways, PTL

\* With every event handled, the graph has for each node heard under the present watch
\* the report that etcd has, however reports, expiries and restarts are interleaved.
THEOREM GraphCatchesUp == Spec => []CaughtUp
  <1>1. SyncInv => CaughtUp
    <2> SUFFICES ASSUME SyncInv, events = <<>>, NEW n \in heard, store[n] # None
                 PROVE  nodes[n] = store[n]
      BY Zenon DEF CaughtUp
    <2>1. Len(events) = 0
      BY Zenon
    <2> QED
      BY <2>1 DEF SyncInv, GraphInv
  <1> QED
    BY <1>1, SyncInvAlways, PTL

-----------------------------------------------------------------------------
\* The weight of an edge has the latency that the graph's report of its near node
\* gives, if that report still has the link: although an edge is only entered when its
\* far node is known, and only its weight is replaced later, no weight is older than
\* the report of the node that it starts from.
LatencyIsLatest ==
    \A e \in EdgeIds :
        edges[e] # None /\ e[2] \in DOMAIN nodes[e[1]].links =>
            edges[e].weight[2] = nodes[e[1]].links[e[2]]

\* An edge is a record with the three fields of AddNode.
IsEdge(x) == x = [weight |-> x.weight, load |-> x.load, latency |-> x.latency]
EdgesAreRecords == \A e \in EdgeIds : edges[e] # None => IsEdge(edges[e])

LEMMA RecordIsEdge ==
    ASSUME NEW w, NEW l, NEW t
    PROVE  IsEdge([weight |-> w, load |-> l, latency |-> t])
  BY Zenon DEF IsEdge

LEMMA AddNodeKeepsLatency ==
    ASSUME SyncInv, LatencyIsLatest, EdgesAreRecords,
           NEW n \in Nodes, NEW tel \in Values, tel # None, AddNode(n, tel)
    PROVE  LatencyIsLatest' /\ EdgesAreRecords'
  <1>1. nodes' = [nodes EXCEPT ![n] = tel] /\ EdgesHaveEnds'
    BY AddNodeKeepsEnds, Zenon
  <1>2. ASSUME NEW e \in EdgeIds, edges'[e] # None
        PROVE  /\ IsEdge(edges'[e])
               /\ e[2] \in DOMAIN nodes'[e[1]].links =>
                      edges'[e].weight[2] = nodes'[e[1]].links[e[2]]
    <2>1. e[1] \in Nodes /\ e[2] \in Targets
      BY Zenon DEF EdgeIds
    <2>2. CASE e[1] = n /\ e[2] \in DOMAIN tel.links /\ Known(nodes', e[2])
      <3> DEFINE load == OutLoad(nodes', e[2])
                 risk == EdgeRisk(load, tel.links[e[2]])
      <3>1. edges'[e] = IF edges[e] = None
                        THEN [weight |-> risk, load |-> load, latency |-> tel.links[e[2]]]
                        ELSE [edges[e] EXCEPT !.weight = risk]
        BY <2>2, Zenon DEF AddNode, WithLinks, UpdatedEdge
      <3>2. /\ edges'[e].weight = risk
            /\ IsEdge(edges'[e])
        <4>1. CASE edges[e] = None
          BY <3>1, <4>1, RecordIsEdge
        <4>2. CASE edges[e] # None
          <5> HIDE DEF risk
          <5>1. edges[e] = [weight |-> edges[e].weight, load |-> edges[e].load,
                            latency |-> edges[e].latency]
            BY <4>2, Zenon DEF EdgesAreRecords, IsEdge
          <5>2. edges'[e] = [weight |-> risk, load |-> edges[e].load, latency |-> edges[e].latency]
            BY <3>1, <4>2, <5>1, Zenon
          <5> QED
            BY <5>2, RecordIsEdge
        <4> QED
          BY <4>1, <4>2, Zenon
      <3>3. risk[2] = tel.links[e[2]]
        BY Zenon DEF EdgeRisk
      <3> QED
        BY <1>1, <2>2, <3>2, <3>3, Zenon DEF SyncInv, GraphType
    <2>3. CASE ~(e[1] = n /\ e[2] \in DOMAIN tel.links /\ Known(nodes', e[2]))
      <3>1. edges'[e] = edges[e]
        BY <2>3, Zenon DEF AddNode, WithLinks
      <3>2. e[1] # n => nodes'[e[1]] = nodes[e[1]]
        BY <1>1, <2>1, Zenon DEF SyncInv, GraphType
      <3>3. e[1] = n => nodes'[e[1]] = tel
        BY <1>1, Zenon DEF SyncInv, GraphType
      <3>4. Known(nodes', e[2])
        BY <1>1, <1>2, Zenon DEF EdgesHaveEnds
      <3> QED
        BY <1>2, <2>3, <3>1, <3>2, <3>3, <3>4, Zenon DEF LatencyIsLatest, EdgesAreRecords
    <2> QED
      BY <2>2, <2>3, Zenon
  <1> QED
    BY <1>2, Zenon DEF LatencyIsLatest, EdgesAreRecords

LEMMA StepKeepsLatency ==
    ASSUME SyncInv, LatencyIsLatest, EdgesAreRecords, [Next]_vars
    PROVE  LatencyIsLatest' /\ EdgesAreRecords'
  <1>1. CASE UNCHANGED <<nodes, edges>>
    BY <1>1, Zenon DEF LatencyIsLatest, EdgesAreRecords
  <1>2. ASSUME NEW n \in Nodes, LoadNode(n)
        PROVE  LatencyIsLatest' /\ EdgesAreRecords'
    BY <1>2, AddNodeKeepsLatency, Zenon DEF LoadNode, SyncInv, GraphType
  <1>3. CASE HandleRoutingWatchEvent
    <2> DEFINE ev == Head(events)
    <2>1. ev.node \in Nodes /\ ev.value \in Values
      <3>1. ev \in Events
        BY <1>3 DEF HandleRoutingWatchEvent, SyncInv, GraphType
      <3> QED
        BY <3>1, Zenon DEF Events
    <2>2. CASE ev.value # None
      BY <1>3, <2>1, <2>2, AddNodeKeepsLatency, Zenon DEF HandleRoutingWatchEvent, ParsedIP
    <2>3. CASE ev.value = None
      <3>1. RemoveNode("") /\ nodes' = nodes
        BY <1>3, <2>3, RemoveNothing, Zenon DEF HandleRoutingWatchEvent, ParsedIP
      <3>2. \A e \in EdgeIds : edges'[e] \in {edges[e], None}
        BY <3>1, Zenon DEF RemoveNode
      <3> QED
        BY <3>1, <3>2, Zenon DEF LatencyIsLatest, EdgesAreRecords
    <2> QED
      BY <2>2, <2>3, Zenon
  <1>4. CASE Restart
    <2>1. \A e \in EdgeIds : edges'[e] = None
      BY <1>4, Zenon DEF Restart, NoEdges
    <2> QED
      BY <2>1, Zenon DEF LatencyIsLatest, EdgesAreRecords
  <1> QED
    BY <1>1, <1>2, <1>3, <1>4, Zenon
    DEF Next, vars, Store, Expire, Settle, GetPrefixAll, WatchPrefix

\* Whatever the order of loads, events, expiries and restarts, AddNode leaves no edge
\* with a latency older than the report that the graph has of its near node.
THEOREM WeightsHaveLatestLatency == Spec => []LatencyIsLatest
  <1>1. Init => LatencyIsLatest /\ EdgesAreRecords
    BY Zenon DEF Init, NoEdges, LatencyIsLatest, EdgesAreRecords
  <1>2. /\ SyncInv /\ LatencyIsLatest /\ EdgesAreRecords /\ [Next]_vars
        => LatencyIsLatest' /\ EdgesAreRecords'
    BY StepKeepsLatency, Zenon
  <1> QED
    BY <1>1, <1>2, SyncInvAlways, PTL DEF Spec

=============================================================================
