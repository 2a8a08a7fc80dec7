----------------------------- MODULE KShortest -----------------------------
(***************************************************************************)
(* control-plane/routing/core-domain/k-shortest.go: Yen's algorithm over a *)
(* search that stops extending paths once the destination is reached.      *)
(* One call at a time; "query" is the call.  The edges are pointers into   *)
(* the routing graph, whose weights may change while the call runs: each   *)
(* search reads each edge once, so a step reads them at one moment.        *)
(*                                                                         *)
(* The edges come in the order of a Go map.  That order decides which of   *)
(* the equally cheap entries leaves a queue first, and is left open.       *)
(***************************************************************************)
EXTENDS RouteGraph

CONSTANT Inf  \* math.Inf(1)

VARIABLES
    edges,  \* the graph
    query,  \* the call: [start, end, k, by], by = "weight" or "latency"
    stage,  \* "idle", "first", "spur", "sort", "done", "failed"
    A,      \* the paths found: [hops, cost, rtt]
    B,      \* the queue of candidates
    at      \* <<i, j>>: the next spur node is hop j of A[i]

ksVars == <<query, stage, A, B, at>>

NoQuery == [start |-> "", end |-> "", k |-> 0, by |-> "weight"]

Init == query = NoQuery /\ stage = "idle" /\ A = <<>> /\ B = {} /\ at = <<1, 1>>

-----------------------------------------------------------------------------
\* findShortestPath.

EdgeCost(e) == IF query.by = "latency" THEN edges[e].latency ELSE edges[e].weight

\* The path p continued over edge e.
Extended(p, e) ==
    [hops |-> Append(p.hops, e[2]), cost |-> p.cost + EdgeCost(e), rtt |-> p.rtt + edges[e].latency]

\* The neighbours of the last node of p that p reaches more cheaply.
Relaxed(usable, dist, p) ==
    {Extended(p, e) : e \in {f \in usable : f[1] = Last(p.hops) /\ p.cost + EdgeCost(f) < dist[f[2]]}}

Reached(dist, end) == dist[end] # Inf

\* The distances once the entries in more are there.
Nearer(dist, more) ==
    [n \in DOMAIN dist |-> Min({dist[n]} \cup {q.cost : q \in {r \in more : Last(r.hops) = n}})]

\* The loop over the queue pq, whose entries stand for the path that prev gives.
\* Once the destination has a distance no node's neighbours are looked at.  The
\* result is the set of paths that the order of equal entries can lead to.
RECURSIVE Search(_, _, _, _)
Search(usable, end, dist, pq) ==
    LET skip(p) == Search(usable, end, dist, pq \ {p})
        relax(p, more) ==
            UNION {Search(usable, end, nearer, (pq \ {p}) \cup more) : nearer \in {Nearer(dist, more)}}
    IN  UNION {CASE p.cost > dist[Last(p.hops)] -> skip(p)
                 [] p.cost <= dist[Last(p.hops)] /\ Last(p.hops) = end -> {p}
                 [] p.cost <= dist[Last(p.hops)] /\ Last(p.hops) # end /\ Reached(dist, end) -> skip(p)
                 [] OTHER -> UNION {relax(p, more) : more \in {Relaxed(usable, dist, p)}} :
               p \in {q \in pq : \A r \in pq : q.cost <= r.cost}}

FindShortestPath(from, end, usable) ==
    Search(usable, end, [n \in NodesOf(edges) |-> IF n = from THEN 0 ELSE Inf],
           {[hops |-> <<from>>, cost |-> 0, rtt |-> 0]})

-----------------------------------------------------------------------------
\* yensAlgorithm.

\* Computing: the call.
Call(q) ==
    /\ stage = "idle"
    /\ query' = q /\ stage' = "first"
    /\ UNCHANGED <<edges, A, B, at>>

\* Both ends must be in the graph; then the first path.
FirstPath ==
    LET found == IF {query.start, query.end} \subseteq NodesOf(edges)
                 THEN FindShortestPath(query.start, query.end, DOMAIN edges)
                 ELSE {}
    IN  /\ stage = "first"
        /\ \/ found = {} /\ stage' = "failed" /\ UNCHANGED A
           \/ \E p \in found :
                  A' = <<p>> /\ stage' = IF query.k > 1 THEN "spur" ELSE "sort"
        /\ UNCHANGED <<edges, query, B, at>>

SharePrefix(hops, root) == Len(hops) >= Len(root) /\ SubSeq(hops, 1, Len(root)) = root

\* Mutant: only the path at hand, not every path found, closes its next edge.
SpurEdges_Own(root) ==
    LET spur == Last(root)
    IN  {e \in DOMAIN edges :
            /\ e[2] \notin ToSet(Front(root))
            /\ e[1] = spur => e[2] \notin ToSet(root) /\ e[2] # A[at[1]].hops[Len(root) + 1]}

\* The edges open to the search from the last node of root: none into root, and
\* from that node none that a path already found takes after root.
SpurEdges(root) ==
    LET spur == Last(root)
        taken == {A[i].hops[Len(root) + 1] :
                     i \in {n \in 1 .. Len(A) :
                               SharePrefix(A[n].hops, root) /\ Len(A[n].hops) > Len(root)}}
    IN  {e \in DOMAIN edges :
            /\ e[2] \notin ToSet(Front(root))
            /\ e[1] = spur => e[2] \notin ToSet(root) \cup taken}

\* Mutant: the cost of the root is left out.
Joined_SpurOnly(root, p) == [p EXCEPT !.hops = Front(root) \o @]

\* rootPath and spurPath, with calculatePathCost and calculatePathRTT of the root.
Joined(root, p) ==
    [hops |-> Front(root) \o p.hops,
     cost |-> p.cost + MapThenSumSet(EdgeCost, HopsOf(root)),
     rtt  |-> p.rtt + LatencyOf(edges, root)]

\* isPathInList, isPathInQueue
Known(c) == \E q \in ToSet(A) \cup B : q.hops = c.hops

\* One spur node: at most one new candidate.
Spur ==
    LET hops == A[at[1]].hops
        root == SubSeq(hops, 1, at[2])
        found == IF query.end \in ToSet(root) THEN {}
                 ELSE FindShortestPath(Last(root), query.end, SpurEdges(root))
    IN  /\ stage = "spur" /\ at[1] <= Len(A)
        /\ \/ found = {} /\ UNCHANGED B
           \/ \E p \in found :
                  LET c == Joined(root, p)
                  IN  B' = IF IsSimple(c.hops) /\ ~Known(c) THEN B \cup {c} ELSE B
        /\ at' = IF at[2] + 1 < Len(hops) THEN <<at[1], at[2] + 1>> ELSE <<at[1] + 1, 1>>
        /\ UNCHANGED <<edges, query, stage, A>>

\* The cheapest candidate joins A; without candidates the loop ends.
Select ==
    /\ stage = "spur" /\ at[1] > Len(A)
    /\ \/ B = {} /\ stage' = "sort" /\ UNCHANGED <<A, B, at>>
       \/ \E c \in B :
              /\ \A d \in B : c.cost <= d.cost
              /\ A' = Append(A, c) /\ B' = B \ {c} /\ at' = <<1, 1>>
              /\ stage' = IF Len(A') < query.k THEN "spur" ELSE "sort"
    /\ UNCHANGED <<edges, query>>

Sort ==
    /\ stage = "sort"
    /\ A' = ExchangeSort(A, [p \in ToSet(A) |-> p.cost])
    /\ stage' = "done"
    /\ UNCHANGED <<edges, query, B, at>>

\* The caller has taken the result.
Return ==
    /\ stage \in {"done", "failed"}
    /\ query' = NoQuery /\ stage' = "idle" /\ A' = <<>> /\ B' = {} /\ at' = <<1, 1>>
    /\ UNCHANGED edges

Next == FirstPath \/ Spur \/ Select \/ Sort

=============================================================================
