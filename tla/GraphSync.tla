----------------------------- MODULE GraphSync -----------------------------
(***************************************************************************)
(* One control plane's copy of the network.  A node reports telemetry to   *)
(* the control plane beside it, which keeps the report in etcd under a     *)
(* lease; each control plane fills its routing graph from etcd, first with *)
(* one Get and then by the events of a watch.  The graph modelled here is  *)
(* that of one control plane; Store stands for all of them.                *)
(*                                                                         *)
(* A report reaches etcd in a goroutine of its own, so reports may be      *)
(* stored in any order: Store takes any report of the node until the       *)
(* telemetry has settled.  A store that fails changes nothing here.        *)
(***************************************************************************)
EXTENDS Integers, Sequences

CONSTANTS
    Nodes,        \* the public addresses of the forwarding nodes
    Sources,      \* the origins "ip:port" that nodes also measure
    Reports,      \* the reports a node may send: [Nodes -> SUBSET Telemetry]
    Settled,      \* the report each node repeats once its telemetry settles
    Reporting,    \* the nodes that never stop reporting
    MaxEvents,    \* bound: watch events that wait to be handled
    MaxRestarts,  \* bound: restarts of the control plane
    None          \* no value: a missing key, node or edge

Targets == Nodes \cup Sources

\* A node's address is not empty: its control plane has it from its configuration.
ASSUME ReportsAssumption ==
    /\ Reporting \subseteq Nodes /\ "" \notin Nodes
    /\ \A n \in Nodes : Settled[n] \in Reports[n]
    /\ \A n \in Nodes : \A r \in Reports[n] :
           r.cpu \in Nat /\ DOMAIN r.links \subseteq Targets \ {n}

VARIABLES
    store,      \* etcd: the value under each node's key
    events,     \* watch events not yet handled
    phase,      \* of the control plane: "get", "load", "watch"
    toLoad,     \* what GetPrefixAll returned and is still to be added
    nodes,      \* GraphManager.nodes
    edges,      \* GraphManager.edges
    heard,      \* nodes stored at least once under the present watch
    calm,       \* the telemetry no longer changes
    restarts    \* restarts so far

vars == <<store, events, phase, toLoad, nodes, edges, heard, calm, restarts>>

EdgeIds == {e \in Nodes \X Targets : e[1] # e[2]}
Nothing == [n \in Nodes |-> None]
NoEdges == [e \in EdgeIds |-> None]

-----------------------------------------------------------------------------
(* The graph. *)

\* Two edges weigh the same here when the load and the latency that enter the
\* weighted sum are the same; a load under 50 does not enter it, nor does loss.
EdgeRisk(cpu, latency) == <<IF cpu < 50 THEN 0 ELSE cpu, latency>>

\* A link is used when its far end is an origin or a node already known.
Known(ns, t) == t \in Sources \/ (t \in Nodes /\ ns[t] # None)

OutLoad(ns, t) == IF t \in Sources THEN 0 ELSE ns[t].cpu

\* Mutant: the node is not entered, only its links.
WithNode_Forgotten(ns, n, tel) == ns

WithNode(ns, n, tel) == [ns EXCEPT ![n] = tel]

\* Mutant: an edge that is there is left as it is.
UpdatedEdge_Not(old, risk) == old

\* An edge that is there only has its weight replaced.
UpdatedEdge(old, risk) == [old EXCEPT !.weight = risk]

WithLinks(ns, es, n, tel) ==
    [e \in EdgeIds |->
        IF e[1] = n /\ e[2] \in DOMAIN tel.links /\ Known(ns, e[2])
        THEN LET load == OutLoad(ns, e[2])
                 risk == EdgeRisk(load, tel.links[e[2]])
             IN  IF es[e] = None
                 THEN [weight |-> risk, load |-> load,
                       latency |-> tel.links[e[2]]]
                 ELSE UpdatedEdge(es[e], risk)
        ELSE es[e]]

AddNode(n, tel) ==
    /\ nodes' = WithNode(nodes, n, tel)
    /\ edges' = WithLinks(nodes', edges, n, tel)

RemoveNode(id) ==
    /\ nodes' = [n \in Nodes |-> IF n = id THEN None ELSE nodes[n]]
    /\ edges' = [e \in EdgeIds |-> IF id \in {e[1], e[2]} THEN None ELSE edges[e]]

-----------------------------------------------------------------------------
(* etcd. *)

\* A key changed: the store, and an event if a watch is running.
Change(n, value) ==
    /\ Len(events) < MaxEvents
    /\ store' = [store EXCEPT ![n] = value]
    /\ events' = IF phase = "watch"
                 THEN Append(events, [node |-> n, value |-> value])
                 ELSE events

\* DoClusterWeightedAvg stores a report with a fresh lease.
Store(n, tel) ==
    /\ tel \in IF calm THEN {Settled[n]} ELSE Reports[n]
    /\ Change(n, tel)
    /\ heard' = IF phase = "watch" THEN heard \cup {n} ELSE heard
    /\ UNCHANGED <<phase, toLoad, nodes, edges, calm, restarts>>

\* No report was stored for the length of the lease.
Expire(n) ==
    /\ store[n] # None
    /\ Change(n, None)
    /\ UNCHANGED <<phase, toLoad, nodes, edges, heard, calm, restarts>>

Settle ==
    /\ ~calm
    /\ calm' = TRUE
    /\ UNCHANGED <<store, events, phase, toLoad, nodes, edges, heard, restarts>>

-----------------------------------------------------------------------------
(* The control plane. *)

\* A Get that fails loads nothing, and the start goes on.
GetPrefixAll ==
    /\ phase = "get"
    /\ toLoad' \in {store, Nothing}
    /\ phase' = "load"
    /\ UNCHANGED <<store, events, nodes, edges, heard, calm, restarts>>

\* The map that was read is ranged over in any order.
LoadNode(n) ==
    /\ phase = "load"
    /\ toLoad[n] # None
    /\ AddNode(n, toLoad[n])
    /\ toLoad' = [toLoad EXCEPT ![n] = None]
    /\ UNCHANGED <<store, events, phase, heard, calm, restarts>>

\* The watch names no revision: it begins with the next change of a key.
WatchPrefix ==
    /\ phase = "load"
    /\ toLoad = Nothing
    /\ phase' = "watch"
    /\ UNCHANGED <<store, events, toLoad, nodes, edges, heard, calm, restarts>>

\* The address the handler parses from the event's value; the event of a
\* deleted key carries no value, and the parsed address is then empty.
ParsedIP(ev) == IF ev.value = None THEN "" ELSE ev.node

\* Mutant: only the first report of a node is handled.
HandleRoutingWatchEvent_OnlyNew ==
    /\ phase = "watch"
    /\ events # <<>>
    /\ LET ev == Head(events)
       IN  \/ ev.value # None /\ nodes[ev.node] = None /\ AddNode(ev.node, ev.value)
           \/ (ev.value = None \/ nodes[ev.node] # None) /\ UNCHANGED <<nodes, edges>>
    /\ events' = Tail(events)
    /\ UNCHANGED <<store, phase, toLoad, heard, calm, restarts>>

HandleRoutingWatchEvent ==
    /\ phase = "watch"
    /\ events # <<>>
    /\ LET ev == Head(events)
       IN  \/ ev.value # None /\ AddNode(ParsedIP(ev), ev.value)
           \/ ev.value = None /\ RemoveNode(ParsedIP(ev))
    /\ events' = Tail(events)
    /\ UNCHANGED <<store, phase, toLoad, heard, calm, restarts>>

\* The process ends and starts again; etcd's other members keep the keys.
Restart ==
    /\ restarts < MaxRestarts
    /\ restarts' = restarts + 1
    /\ phase' = "get"
    /\ nodes' = Nothing
    /\ edges' = NoEdges
    /\ toLoad' = Nothing
    /\ events' = <<>>
    /\ heard' = {}
    /\ UNCHANGED <<store, calm>>

-----------------------------------------------------------------------------
Init ==
    /\ store = Nothing
    /\ events = <<>>
    /\ phase = "get"
    /\ toLoad = Nothing
    /\ nodes = Nothing
    /\ edges = NoEdges
    /\ heard = {}
    /\ calm = FALSE
    /\ restarts = 0

Next ==
    \/ \E n \in Nodes : \E tel \in Reports[n] : Store(n, tel)
    \/ \E n \in Nodes : Expire(n)
    \/ Settle
    \/ GetPrefixAll
    \/ \E n \in Nodes : LoadNode(n)
    \/ WatchPrefix
    \/ HandleRoutingWatchEvent
    \/ Restart

Spec == Init /\ [][Next]_vars

(***************************************************************************)
(* The control plane keeps running its start and its watch loop; a node of *)
(* Reporting keeps storing reports.  The latter is strong fairness because *)
(* the bound on waiting events, which etcd does not have, disables Store   *)
(* now and then.                                                           *)
(***************************************************************************)
LiveSpec ==
    /\ Spec
    /\ WF_vars(GetPrefixAll) /\ WF_vars(WatchPrefix)
    /\ \A n \in Nodes : WF_vars(LoadNode(n))
    /\ WF_vars(HandleRoutingWatchEvent)
    /\ \A n \in Reporting : SF_vars(Store(n, Settled[n]))

\* The route searches look up both ends of an edge: whatever the order in which
\* reports are loaded and events handled, no edge of the graph starts at or
\* leads to a node that the graph does not have.
EdgesHaveEnds ==
    \A e \in EdgeIds : edges[e] # None => nodes[e[1]] # None /\ Known(nodes, e[2])

\* Every event is handled: the graph has, of each node that has reported under
\* the present watch and whose key is still there, the report that etcd has. A
\* report stored between the Get and the watch is excepted: it stays unseen
\* until the node's next one.
CaughtUp ==
    phase = "watch" /\ events = <<>> =>
        \A n \in heard : store[n] # None => nodes[n] = store[n]

\* README.md, "Automatic Fault Detection and Recovery": a node that has stopped
\* reporting, so that its key has expired and the watch has told the control
\* plane so, is no longer in the graph that routes are chosen from.
DeadNodeLeaves ==
    phase = "watch" /\ events = <<>> =>
        \A n \in heard : store[n] = None => nodes[n] = None

\* The weight of an edge is what the latest reports of both its ends give.
WeightCurrent(e) ==
    LET links == Settled[e[1]].links
    IN  /\ edges[e] # None
        /\ edges[e].weight =
               EdgeRisk(IF e[2] \in Sources THEN 0 ELSE Settled[e[2]].cpu, links[e[2]])

\* Once telemetry settles, the weight of every measured edge between reporting
\* nodes (or to an origin) becomes that of the settled reports and stays so,
\* although an edge to a node not yet known is skipped, an edge takes the far
\* node's load only when its near node reports, reports may be lost between Get
\* and watch, keys expire and the control plane restarts.
WeightsConverge ==
    <>calm => <>[](\A e \in EdgeIds :
        e[1] \in Reporting /\ e[2] \in (Reporting \cup Sources) \cap DOMAIN Settled[e[1]].links
            => WeightCurrent(e))
=============================================================================
