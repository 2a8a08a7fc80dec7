----------------------------- MODULE RouteGraph -----------------------------
(***************************************************************************)
(* What the route searches of control-plane/routing/core-domain share: the *)
(* graph (the []*graph.Edge that GetEdges returns), paths, and the         *)
(* exchange sort they all use.  A graph is a function from its edges, as   *)
(* pairs of nodes, to [weight, latency, load].  GraphManager keeps one     *)
(* edge per pair, so there are no parallel edges.                          *)
(***************************************************************************)
EXTENDS Integers, Sequences, FiniteSets, SequencesExt, FiniteSetsExt, Functions

\* The nodes map that each solver builds from the edges.
NodesOf(g) == {e[1] : e \in DOMAIN g} \cup {e[2] : e \in DOMAIN g}

\* The hops of a path, as edges.
HopsOf(p) == {<<p[i], p[i + 1]>> : i \in 1 .. Len(p) - 1}

\* ~hasDuplicateNodes
IsSimple(p) == IsInjective(p)

\* The latency of a path whose hops are edges of g.
LatencyOf(g, p) == MapThenSumSet(LAMBDA e : g[e].latency, HopsOf(p))

\* The simple paths of g from s to t: the reference the searches are compared with.
SimplePaths(g, s, t) ==
    LET n == Cardinality(NodesOf(g))
        longer(q) == {Append(q, e[2]) : e \in {f \in DOMAIN g : f[1] = Last(q) /\ f[2] \notin ToSet(q)}}
        ofLength[m \in 1 .. n] ==
            IF m = 1 THEN {<<s>>} ELSE UNION {longer(q) : q \in ofLength[m - 1]}
    IN  {p \in UNION {ofLength[m] : m \in 1 .. n} : Last(p) = t}

Swap(s, i, j) == [s EXCEPT ![i] = s[j], ![j] = s[i]]

\* for i, for j > i: if s[j] < s[i], swap.  key gives the value compared.
\* The set around upTo[m - 1] makes TLC evaluate it once.
ExchangeSort(s, key) ==
    LET n == Len(s)
        compare(u, i, j) == IF i < j /\ key[u[j]] < key[u[i]] THEN Swap(u, i, j) ELSE u
        upTo[m \in 0 .. n * n] ==
            IF m = 0 THEN s
            ELSE CHOOSE r \in {compare(u, ((m - 1) \div n) + 1, ((m - 1) % n) + 1) :
                                  u \in {upTo[m - 1]}} : TRUE
    IN  upTo[n * n]

=============================================================================
