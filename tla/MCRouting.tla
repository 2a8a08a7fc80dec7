----------------------------- MODULE MCRouting -----------------------------
(***************************************************************************)
(* Instances of RoutingAPI for TLC.  One-destination requests meet every   *)
(* graph with these seven edges, each absent, light but slow or heavy but  *)
(* fast; the other requests meet a few graphs made for them.               *)
(***************************************************************************)
EXTENDS RoutingAPI

CONSTANTS s, a, b, t, x

Slots == {<<s, a>>, <<s, b>>, <<s, t>>, <<a, b>>, <<b, a>>, <<a, t>>, <<b, t>>}
Light == [weight |-> 1, latency |-> 3, load |-> 0]
Heavy == [weight |-> 3, latency |-> 1, load |-> 0]
AllGraphs ==
    {g \in UNION {[es -> {Light, Heavy}] : es \in SUBSET Slots} :
        \A e \in {<<a, b>>, <<b, a>>} \cap DOMAIN g : g[e] = Light}
Dense == [e \in Slots |-> Light]

Edge(latency, load) == [weight |-> latency, latency |-> latency, load |-> load]

\* Two far destinations behind a relay, also reached directly, one over a busy edge.
Fork == (<<s, a>> :> Edge(100, 0)) @@ (<<a, t>> :> Edge(200, 0)) @@ (<<a, b>> :> Edge(200, 0))
        @@ (<<s, t>> :> Edge(300, 0)) @@ (<<s, b>> :> Edge(200, 70))

\* A busy relay, a hot destination, and a slow way through the other one.
BusyFork == (<<s, a>> :> Edge(1, 70)) @@ (<<a, t>> :> Edge(2, 90)) @@ (<<a, b>> :> Edge(2, 0))
            @@ (<<s, t>> :> Edge(1, 80)) @@ (<<s, b>> :> Edge(10, 0)) @@ (<<b, t>> :> Edge(10, 0))

\* A destination beyond the other one, and an edge in both directions.
Chain == (<<s, a>> :> Edge(1, 0)) @@ (<<a, t>> :> Edge(1, 65)) @@ (<<t, a>> :> Edge(1, 0))
         @@ (<<s, t>> :> Edge(2, 65)) @@ (<<t, b>> :> Edge(2, 80))

\* The nearest relays have slow last hops to t, the farthest a fast one.
Decoys == (<<s, t>> :> Edge(10, 0)) @@ (<<s, a>> :> Edge(1, 0)) @@ (<<a, t>> :> Edge(9, 0))
          @@ (<<s, b>> :> Edge(2, 0)) @@ (<<b, t>> :> Edge(8, 0))
          @@ (<<s, x>> :> Edge(3, 0)) @@ (<<x, t>> :> Edge(1, 0))

Request(api, algorithm, to) == [api |-> api, algorithm |-> algorithm, start |-> s, to |-> to]

\* Cases of route requests, which need no nodes or aggregates.
OnGraphs(reqs, graphs) == [req : reqs, graph : graphs, nodes : {<<>>}, agg : {<<>>}]

MiddleCases ==
    OnGraphs({Request("middle", n, 80) : n \in {"", "live_style"}}, AllGraphs)
    \cup OnGraphs({Request("middle", "unknown", 80), Request("middle", "", 81)}, {Dense})
    \cup OnGraphs({Request("middle", "", 80)}, {Decoys})

MultiCases ==
    OnGraphs({Request("multi", n, to) :
                 n \in {"", "carousel-greedy", "unknown"}, to \in {<<t, b>>, <<x, t>>, <<t, t>>, <<x>>}},
             {Fork, BusyFork, Chain})

\* Edge nodes: idle, busy, unsteady, overloaded, with cores that have thresholds or not,
\* far.  Neither a load of 270 nor a latency of 690 takes the share of a node alone.
Node(usage, delta, cores, continent) ==
    [usage |-> usage, delta |-> delta, cores |-> cores, continent |-> continent]
Machines ==
    {Node(0, 0, 2, "Asia"), Node(1, 0, 2, "Asia"), Node(60, 0, 2, "Asia"), Node(270, 0, 2, "Asia"),
     Node(60, 30, 4, "Europe"), Node(1, 30, 4, "NorthAmerica"), Node(300, 0, 8, "Asia")}
SomeNodes == UNION {[ns -> Machines] : ns \in SUBSET {a, b}}
SomeAggregates == UNION {[ks -> {[count |-> 3, avg |-> d] : d \in {20, 690}}] :
                            ks \in SUBSET {<<s, a>>, <<s, b>>}}

LastReq(algorithm, weights) ==
    [api |-> "last", algorithm |-> algorithm, weights |-> weights, city |-> s, continent |-> "Asia"]
LastReqs ==
    {LastReq(n, None) : n \in {"", "latency_only", "cpu_only", "p2c", "ewma_based", "unknown"}}
    \cup {LastReq("joint_cpu_latency", w) : w \in {None, <<0, 0>>, <<0, 7>>, <<3, 7>>}}
LastCases == [req : LastReqs, graph : {<<>>}, nodes : SomeNodes, agg : SomeAggregates]
SomeLastChanges ==
    {[nodes |-> a :> Node(60, 0, 2, "Asia"), agg |-> <<>>],
     [nodes |-> <<>>, agg |-> <<s, a>> :> [count |-> 1, avg |-> 800]]}

\* math.Exp at the exponents that these machines and latencies lead to.
ExpTable ==
    (-2963 :> 52) @@ (-2000 :> 135) @@ (-1967 :> 140) @@ (-1838 :> 159) @@ (-967 :> 380) @@ (-750 :> 472)
    @@ (-134 :> 875) @@ (-34 :> 967) @@ (0 :> 1000) @@ (300 :> 1350) @@ (375 :> 1455)
    @@ (1000 :> 2718) @@ (2100 :> 8166) @@ (2466 :> 11775)
    @@ (6700 :> 812406) @@ (7000 :> 1096633) @@ (7800 :> 2440602) @@ (8000 :> 2980958)
    \* and those of a delay penalty of the wrong sign
    @@ (-7800 :> 1) @@ (-6700 :> 2) @@ (-2466 :> 85) @@ (-2100 :> 122) @@ (-300 :> 741) @@ (34 :> 1035) @@ (134 :> 1143)
Pairs == (<<"Asia", "NorthAmerica">> :> 60) @@ (<<"NorthAmerica", "Asia">> :> 60)

AllCases == MiddleCases \cup MultiCases \cup LastCases

Ports == 80 :> t
SomeChanges == {<<<<s, a>>, 3>>, <<<<a, t>>, 1>>}
=============================================================================
