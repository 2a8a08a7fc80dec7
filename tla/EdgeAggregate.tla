--------------------------- MODULE EdgeAggregate ---------------------------
(***************************************************************************)
(* The latencies of all edge nodes at one control plane.  Each control     *)
(* plane keeps the report of the node beside it in etcd, under a lease     *)
(* (api/edge.go); all of them load what etcd holds when they start, then   *)
(* watch it (main.go), and rebuild their aggregates after each event, in a *)
(* goroutine of its own (aggregator/edge.go).                              *)
(***************************************************************************)
EXTENDS Integers, Sequences

CONSTANTS
    Nodes,        \* the addresses of the edge nodes
    MaxEvents,    \* bound: watch events that wait to be handled
    Rebuilders,   \* bound: the goroutines that can rebuild at a time, numbered
    None

VARIABLES
    store,     \* etcd: the report under each node's key: city -> [count, avg]
    events,    \* watch events not yet handled: [node, type, value]
    phase,     \* of the control plane: "get", "loaded", "watch"
    nodeLast,  \* GlobalStats.nodeLast
    rebuilds,  \* of each goroutine: [step, listed], the reports it has listed
    edgeAgg    \* GlobalStats.edgeAgg: <<city, node>> -> [count, avg]

NoReports == [n \in Nodes |-> None]

Rebuild(step, listed) == [step |-> step, listed |-> listed]

Init ==
    /\ events = <<>> /\ phase = "get"
    /\ nodeLast = NoReports /\ edgeAgg = <<>>
    /\ rebuilds = [g \in Rebuilders |-> Rebuild("idle", NoReports)]

-----------------------------------------------------------------------------
\* etcd.

Change(n, type, value) ==
    /\ Len(events) < MaxEvents
    /\ store' = [store EXCEPT ![n] = value]
    /\ events' = IF phase = "watch"
                 THEN Append(events, [node |-> n, type |-> type, value |-> value])
                 ELSE events
    /\ UNCHANGED <<phase, nodeLast, rebuilds, edgeAgg>>

\* PostLastReceive: the report replaces the one stored, with a new lease.
Put(n, report) == Change(n, IF store[n] = None THEN "CREATE" ELSE "UPDATE", report)

\* The lease ran out.  The event of a deletion has no value.
Expire(n) == store[n] # None /\ Change(n, "DELETE", None)

-----------------------------------------------------------------------------
\* The aggregates.

Times(q, k) == <<q[1] * k, q[2]>>
Over(q, k) == IF q[1] % k = 0 THEN <<q[1] \div k, q[2]>> ELSE <<q[1], q[2] * k>>

\* Mutant: the average is added as it is.
SumRT_Unweighted(s) == s.avg

\* SumRT: the average weighted with its count.
SumRT(s) == Times(s.avg, s.count)

\* A key names a city and a node, so no two reports meet under one.
Rebuilt(last) ==
    [k \in UNION {(DOMAIN last[n]) \X {n} : n \in {m \in Nodes : last[m] # None}} |->
        LET s == last[k[2]][k[1]]
        IN  [count |-> s.count, avg |-> IF s.count > 0 THEN Over(SumRT(s), s.count) ELSE <<0, 1>>]]

\* main: load and rebuild, which nobody sees before the API is there.  A Get that fails
\* loads nothing.
LoadReports ==
    /\ phase = "get"
    /\ nodeLast' \in {store, NoReports}
    /\ edgeAgg' = Rebuilt(nodeLast')
    /\ phase' = "loaded"
    /\ UNCHANGED <<store, events, rebuilds>>

\* The watch starts at the next change; what was stored since the Get is not seen.
WatchPrefix ==
    /\ phase = "loaded"
    /\ phase' = "watch"
    /\ UNCHANGED <<store, events, nodeLast, rebuilds, edgeAgg>>

\* Mutant: a report of a node that is known does not start a rebuild.
Rebuilds_NewNodes(e) == e.type # "UPDATE"

\* Every event that was understood starts a rebuild.
Rebuilds(e) == TRUE

\* HandleLastWatchEvent.  A deletion names no node: DelNode deletes nothing.
HandleLastWatchEvent ==
    LET idle == {g \in Rebuilders : rebuilds[g].step = "idle"}
        next == CHOOSE g \in idle : \A h \in idle : g <= h
        e == Head(events)
    IN  /\ events # <<>> /\ idle # {}
        /\ nodeLast' = IF e.type = "DELETE" THEN nodeLast ELSE [nodeLast EXCEPT ![e.node] = e.value]
        /\ rebuilds' = IF Rebuilds(e)
                       THEN [rebuilds EXCEPT ![next] = Rebuild("started", NoReports)]
                       ELSE rebuilds
        /\ events' = Tail(events)
        /\ UNCHANGED <<store, phase, edgeAgg>>

\* rebuildAggregate lists the reports under the read lock ...
ListReports(g) ==
    /\ rebuilds[g].step = "started"
    /\ rebuilds' = [rebuilds EXCEPT ![g] = Rebuild("listed", nodeLast)]
    /\ UNCHANGED <<store, events, phase, nodeLast, edgeAgg>>

\* ... and replaces the aggregates under the write lock; another may have done so since.
Publish(g) ==
    /\ rebuilds[g].step = "listed"
    /\ edgeAgg' = Rebuilt(rebuilds[g].listed)
    /\ rebuilds' = [rebuilds EXCEPT ![g] = Rebuild("idle", NoReports)]
    /\ UNCHANGED <<store, events, phase, nodeLast>>

\* Not started yet, or nothing to do.
Quiet == phase # "loaded" /\ events = <<>> /\ \A g \in Rebuilders : rebuilds[g].step = "idle"

=============================================================================
