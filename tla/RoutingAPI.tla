---------------------------- MODULE RoutingAPI ----------------------------
(***************************************************************************)
(* The route API of the control plane (control-plane/api/routing.go) with  *)
(* the solver it selects (routing/routing.go): k-shortest paths, the       *)
(* live-style selection from them (livenet.go), ONE-WAN and the carousel   *)
(* greedy optimisation, which itself asks k-shortest paths for latencies;  *)
(* and the last-mile selection.                                            *)
(*                                                                         *)
(* One request at a time: requests share nothing but the routing graph.    *)
(* The solver works on pointers to the graph's edges, so a report that     *)
(* reaches the graph meanwhile (AddNode) changes weights under it.  The    *)
(* last-mile selection copies the nodes and the aggregates, one after the  *)
(* other, so a report may come between.                                    *)
(***************************************************************************)
EXTENDS RouteGraph

CONSTANTS
    Cases,           \* the requests and graphs: a set of [req, graph]
    SourceTargetMap, \* port -> the origin "ip:port" it stands for
    Changes,         \* <<edge, weight>>: weights that reports may set
    LastChanges,     \* [nodes, agg]: what reports may add to nodes and aggregates
    MaxChanges,      \* bound: changes while a request is worked on
    LiveMaxHops,     \* hops of a path that live_style accepts (10)
    Inf, FlowsPerDest, MaxAttempts, Alpha, MaxHops, BannedPenalty, DefaultTheta,
    MaxPaths, DfsMaxHops, PathsPerDest, NumIterations,
    Exp, SoftmaxLimit, PairGood, LocalNode, None

\* math.Exp is positive and increases.
ASSUME ExpAssumption ==
    /\ \A x \in DOMAIN Exp : Exp[x] > 0
    /\ \A x, y \in DOMAIN Exp : x < y => Exp[x] < Exp[y]

VARIABLES
    req,      \* the request: [api, algorithm, start, to]
    edges,    \* the routing graph
    was,      \* the graph when the request came
    changes,  \* changes so far
    reply,    \* [status, paths]
    query, stage, A, B, at,
    job, fstage, thetaL, effCap, flow, allPaths, usedPaths, destFlowCount, turn, freq, best, iters,
    task, ostage, candidates, solution, rounds,
    lstage, nodes, edgeAgg, nodeTel, offers

KS == INSTANCE KShortest
Flow == INSTANCE FlowOptimization
OW == INSTANCE OneWan
LR == INSTANCE LastRouting

ksVars == <<query, stage, A, B, at>>
flowVars == <<job, fstage, thetaL, effCap, flow, allPaths, usedPaths, destFlowCount, turn,
              freq, best, iters>>
oneWanVars == <<task, ostage, candidates, solution, rounds>>
lastVars == <<lstage, nodes, edgeAgg, nodeTel, offers>>
apiVars == <<req, was, changes, reply>>
solverVars == <<edges, ksVars, flowVars, oneWanVars>>
vars == <<apiVars, solverVars, lastVars>>

NoReply == [status |-> "none", paths |-> <<>>]
Reply(status, paths) == reply' = [status |-> status, paths |-> paths]

Init ==
    /\ \E c \in Cases : /\ req = c.req /\ edges = c.graph /\ was = c.graph
                        /\ nodes = c.nodes /\ edgeAgg = c.agg
    /\ changes = 0 /\ reply = NoReply
    /\ KS!Init /\ Flow!Init /\ OW!Init /\ LR!Init

Idle == stage = "idle" /\ fstage = "idle" /\ ostage = "idle"
Waiting == reply = NoReply

-----------------------------------------------------------------------------
\* One path from a start to an origin.

\* Algorithm names, and the paths they ask k-shortest for.
MiddleAlgorithm == IF req.algorithm = "" THEN "k_shortest" ELSE req.algorithm
KOf(algorithm) == IF algorithm = "k_shortest" THEN 3 ELSE 5

\* GetMiddleRoute, MiddleRouting: an unknown port is refused; an unknown algorithm
\* leaves Operate nil, and gin recovers from the panic.
GetMiddleRoute ==
    /\ req.api = "middle" /\ Waiting /\ Idle
    /\ IF req.to \notin DOMAIN SourceTargetMap
       THEN Reply("400", <<>>) /\ UNCHANGED <<edges, ksVars>>
       ELSE IF MiddleAlgorithm \notin {"k_shortest", "live_style"}
       THEN Reply("panic", <<>>) /\ UNCHANGED <<edges, ksVars>>
       ELSE /\ KS!Call([start |-> req.start, end |-> SourceTargetMap[req.to],
                        k |-> KOf(MiddleAlgorithm), by |-> "weight"])
            /\ UNCHANGED reply
    /\ UNCHANGED <<req, was, changes, flowVars, oneWanVars, lastVars>>

\* Mutant: the paths are cut before they are sorted.
SelectTopPaths_CutFirst(paths, count) ==
    LET cut == SubSeq(paths, 1, Min({count, Len(paths)}))
    IN  ExchangeSort(cut, [p \in ToSet(cut) |-> p.rtt])

\* livenet.go selectTopPaths: the count paths of least latency among those that
\* are not too long.
SelectTopPaths(paths, count) ==
    LET short == SelectSeq(paths, LAMBDA p : Len(p.hops) - 1 <= LiveMaxHops)
        sorted == ExchangeSort(short, [p \in ToSet(short) |-> p.rtt])
    IN  SubSeq(sorted, 1, Min({count, Len(sorted)}))

\* livenet.go Computing, once Yen's algorithm has returned.
LiveStyle == SelectTopPaths(A, 2)

\* The solver is done: the paths, or none after an error.
MiddleReply ==
    /\ req.api = "middle" /\ Waiting /\ stage \in {"done", "failed"}
    /\ Reply("200", CASE stage = "failed" -> <<>>
                      [] stage = "done" /\ MiddleAlgorithm = "k_shortest" -> A
                      [] stage = "done" /\ MiddleAlgorithm = "live_style" -> LiveStyle)
    /\ UNCHANGED <<req, was, changes, solverVars, lastVars>>

-----------------------------------------------------------------------------
\* Paths from a start to several destinations.

MultiAlgorithm == IF req.algorithm = "" THEN "onewan_multi" ELSE req.algorithm

\* GetMiddleRouteMulti, MiddleRoutingMulti.
GetMiddleRouteMulti ==
    /\ req.api = "multi" /\ Waiting /\ Idle
    /\ CASE MultiAlgorithm = "onewan_multi" ->
                OW!Begin(req.start, req.to) /\ UNCHANGED <<reply, flowVars>>
         [] MultiAlgorithm = "carousel-greedy" ->
                Flow!Begin(req.start, req.to) /\ UNCHANGED <<reply, oneWanVars>>
         [] OTHER -> Reply("200", <<>>) /\ UNCHANGED <<edges, flowVars, oneWanVars>>
    /\ UNCHANGED <<req, was, changes, ksVars, lastVars>>

\* computeThetaLForDestinations asks for three paths by latency ...
AskLatencies ==
    /\ fstage = "theta" /\ turn[1] <= Len(job.ends)
    /\ KS!Call([start |-> job.start, end |-> job.ends[turn[1]], k |-> 3, by |-> "latency"])
    /\ UNCHANGED <<apiVars, flowVars, oneWanVars, lastVars>>

\* ... and takes their costs.
TakeLatencies ==
    /\ fstage = "theta" /\ KS!Return
    /\ Flow!SetTheta(IF stage = "failed" THEN <<>> ELSE [i \in DOMAIN A |-> A[i].cost])
    /\ UNCHANGED <<apiVars, oneWanVars, lastVars>>

\* The paths of the best list or of the best pick, in the order of the destinations.
MultiReply ==
    /\ req.api = "multi" /\ Waiting
    /\ \/ "failed" \in {fstage, ostage} /\ Reply("200", <<>>)
       \/ fstage = "done" /\ Reply("200", best.paths)
       \/ ostage = "done" /\ Reply("200", FlattenSeq([i \in DOMAIN solution.picks |->
                                                         SetToSeq(solution.picks[i])]))
    /\ UNCHANGED <<req, was, changes, solverVars, lastVars>>

-----------------------------------------------------------------------------
\* The edge nodes for a user.

LastAlgorithms ==
    {"lyapunov", "latency_only", "cpu_only", "joint_cpu_latency", "p2c", "ewma_based"}

\* What GetLastRoute makes of the query: only the joint router is given weights.
LastRequest ==
    [req EXCEPT !.algorithm = IF @ = "" THEN "lyapunov" ELSE @,
                !.weights = IF req.algorithm = "joint_cpu_latency" /\ @ # None THEN @ ELSE <<5, 5>>]

\* An unknown algorithm again leaves Operate nil.
GetLastRoute ==
    /\ req.api = "last" /\ Waiting
    /\ LR!LookUp /\ UNCHANGED <<apiVars, solverVars>>

CopyNodes == LR!GetNodes /\ UNCHANGED <<apiVars, solverVars>>

ComputeLast ==
    /\ LastRequest.algorithm \in LastAlgorithms
    /\ LR!Compute(LastRequest)
    /\ UNCHANGED <<apiVars, solverVars>>

LastReply ==
    /\ req.api = "last" /\ Waiting
    /\ \/ lstage = "failed" /\ Reply("200", <<>>)
       \/ lstage = "done" /\ Reply("200", offers)
       \/ /\ lstage = "aggregates" /\ LastRequest.algorithm \notin LastAlgorithms
          /\ Reply("panic", <<>>)
    /\ UNCHANGED <<req, was, changes, solverVars, lastVars>>

\* A node's report reaches the graph, or the aggregates are rebuilt, between the copies.
ChangeLast ==
    /\ lstage \in {"nodes", "aggregates"} /\ changes < MaxChanges
    /\ \E c \in LastChanges : nodes' = c.nodes @@ nodes /\ edgeAgg' = c.agg @@ edgeAgg
    /\ changes' = changes + 1
    /\ UNCHANGED <<req, was, reply, solverVars, lstage, nodeTel, offers>>

-----------------------------------------------------------------------------
\* GraphManager.AddNode, for an edge that is there, while a search that reads weights
\* runs; the others read latencies and loads, which stay as they were (see GraphSync).
ChangeWeight ==
    /\ Waiting /\ stage # "idle" /\ query.by = "weight" /\ changes < MaxChanges
    /\ \E c \in Changes : c[1] \in DOMAIN edges /\ edges' = [edges EXCEPT ![c[1]].weight = c[2]]
    /\ changes' = changes + 1
    /\ UNCHANGED <<req, was, reply, ksVars, flowVars, oneWanVars, lastVars>>

KShortestStep == KS!Next /\ UNCHANGED <<apiVars, flowVars, oneWanVars, lastVars>>
FlowStep == Flow!Next /\ UNCHANGED <<apiVars, ksVars, oneWanVars, lastVars>>
OneWanStep == OW!Next /\ UNCHANGED <<apiVars, ksVars, flowVars, lastVars>>

Handle ==
    \/ GetMiddleRoute \/ MiddleReply \/ GetMiddleRouteMulti \/ MultiReply
    \/ AskLatencies \/ TakeLatencies \/ KShortestStep \/ FlowStep \/ OneWanStep
    \/ GetLastRoute \/ CopyNodes \/ ComputeLast \/ LastReply

Next == Handle \/ ChangeWeight \/ ChangeLast

Spec == Init /\ [][Next]_vars /\ WF_vars(Handle)

-----------------------------------------------------------------------------
\* Replies to one-destination requests.

Origin == SourceTargetMap[req.to]
Answered(api, algorithms) == req.api = api /\ reply.status = "200" /\ req.algorithm \in algorithms
HopsFound == {reply.paths[i].hops : i \in DOMAIN reply.paths}
AllRoutes == SimplePaths(edges, req.start, Origin)

\* The proxies forward along the hops of a reply.  Whatever the weights do while
\* Yen's algorithm runs, each path leads over edges of the graph from the start to
\* the origin without meeting a node twice, and no path comes twice.  The search
\* gives up shortest paths for speed but loses none: k_shortest returns three paths,
\* or every path that exists when there are fewer.
RoutesAreRoutes ==
    /\ Answered("middle", {"", "k_shortest", "live_style"}) =>
           HopsFound \subseteq AllRoutes /\ Cardinality(HopsFound) = Len(reply.paths)
    /\ Answered("middle", {"", "k_shortest"}) =>
           Len(reply.paths) = Min({3, Cardinality(AllRoutes)})

\* The Rtt of a path is the sum of weights that its edges had while the request was
\* worked on, although root and spur are added up at different times; paths come
\* in the order of that sum.  The sum is multiplied by alpha, which is 1 in
\* NewKShortestSolverWithLatency (k-shortest_test.go still expects a factor of 1.2).
CostsAreHonest ==
    Answered("middle", {"", "k_shortest"}) =>
        /\ \A p \in ToSet(reply.paths) :
               \E w \in [HopsOf(p.hops) -> {g[e].weight : g \in {was, edges}, e \in HopsOf(p.hops)}] :
                   /\ \A e \in HopsOf(p.hops) : w[e] \in {was[e].weight, edges[e].weight}
                   /\ p.cost = SumFunction(w)
        /\ \A i \in 1 .. Len(reply.paths) - 1 : reply.paths[i].cost <= reply.paths[i + 1].cost

\* live_style: where the graph has no more than the five paths it looks at, it
\* returns two paths of least latency among those that are not too long, as
\* selectTopPaths says of itself.  (The comment on LiveStyleSolver, livenet.go:11-15,
\* has paths of at most 4 hops come first and latency decide only among equals.)
LiveStyleIsBest ==
    LET short == {p \in AllRoutes : Len(p) - 1 <= LiveMaxHops}
    IN  Answered("middle", {"live_style"}) /\ Cardinality(AllRoutes) <= 5 =>
            /\ HopsFound \subseteq short /\ Len(reply.paths) = Min({2, Cardinality(short)})
            /\ \A p \in HopsFound, q \in short \ HopsFound : LatencyOf(edges, p) <= LatencyOf(edges, q)

-----------------------------------------------------------------------------
\* Replies to requests with several destinations.

\* The books of the carousel agree, although paths leave in another order than they
\* came, edges are banned and unbanned, and a path may have a hop that is no edge.
\* The flow of every edge is the number of listed paths over it; no path is listed
\* twice; and no destination has more than FlowsPerDest paths for each time it was
\* asked for.
FlowsMatchPaths ==
    LET over(e) == {i \in DOMAIN allPaths : e \in HopsOf(allPaths[i].path)}
        to(d) == {i \in DOMAIN allPaths : allPaths[i].dest = d}
    IN  /\ \A e \in DOMAIN flow : flow[e] = Cardinality(over(e))
        /\ usedPaths = {allPaths[i].path : i \in DOMAIN allPaths}
        /\ Cardinality(usedPaths) = Len(allPaths)
        /\ \A d \in DOMAIN destFlowCount :
               /\ destFlowCount[d] = Cardinality(to(d))
               /\ destFlowCount[d] <= FlowsPerDest * Cardinality({i \in DOMAIN job.ends : job.ends[i] = d})

\* The best score belongs to the list returned: it is what the list scores under the
\* flow of its own paths, not under flow that other paths left behind.
BestScoreIsItsOwn ==
    fstage = "done" =>
        best.score = Flow!Objective(best.paths,
            [e \in DOMAIN flow |->
                Cardinality({i \in DOMAIN best.paths : e \in HopsOf(best.paths[i].path)})])

\* What the search over reverse edges leaves of feasibility.  A hop of a listed path
\* that is no edge is the reverse of an edge that some path met so far leads over; and
\* a path that uses edges only, each in one direction, keeps the latency bound of its
\* destination, even one found over edges that carried a penalty.
ListedPathsAreFeasible ==
    LET met == DOMAIN freq \cup usedPaths
    IN  /\ \A p \in met : \A h \in HopsOf(p) \ DOMAIN edges :
               \E q \in met : <<h[2], h[1]>> \in HopsOf(q) \cap DOMAIN edges
        /\ \A i \in DOMAIN allPaths :
               LET p == allPaths[i].path
               IN  HopsOf(p) \subseteq {e \in DOMAIN edges : <<e[2], e[1]>> \notin DOMAIN edges} =>
                       Flow!Within(LatencyOf(edges, p), thetaL[allPaths[i].dest])

\* ONE-WAN answers with PathsPerDest different paths, or all its candidates, for
\* each destination that can be reached; the others do not stop it.
ReachableAreServed ==
    ostage = "done" =>
        \A d \in ToSet(req.to) \cap NodesOf(edges) :
            OW!Reachable(d) # {} =>
                \E i \in DOMAIN candidates :
                    /\ candidates[i].end = d
                    /\ solution.picks[i] \subseteq OW!Reachable(d)
                    /\ Cardinality(solution.picks[i]) =
                           Min({PathsPerDest, Cardinality(candidates[i].paths)})

\* Every node that was known when the nodes were copied is offered once, measured from
\* that city or not, and with a share that is not zero.  The exception is the softmax
\* of lyapunov: math.Exp underflows once the two penalties add up to 1490, which takes a
\* load, which counts cores, above 256 percent or a latency above 34 times the good one;
\* with such nodes only, every share is zero.  And the node that both counts favour is
\* favoured: one whose load is lower and whose latency from the user's city is lower, on
\* a like machine, is listed first and has no smaller share, whatever the algorithm and
\* the weights of the request.  Here the exception is p2c, which does not sort, and takes
\* a load of 0 for an unknown one.
OffersAreFair ==
    LET delay(n) == LR!Delay(req.city, n, 500)
        tel(i) == nodeTel[offers[i].node]
        known == {i \in DOMAIN offers : offers[i].node \in DOMAIN nodeTel}
        outdoes(n, m) == /\ nodeTel[n].usage < nodeTel[m].usage
                         /\ nodeTel[n].delta <= nodeTel[m].delta
                         /\ nodeTel[n].cores = nodeTel[m].cores
                         /\ nodeTel[n].continent = nodeTel[m].continent
                         /\ delay(n) < delay(m)
    IN  lstage = "done" =>
            /\ \A n \in DOMAIN nodeTel : Cardinality({i \in DOMAIN offers : offers[i].node = n}) = 1
            /\ \A i \in known :
                   offers[i].weight = 0 =>
                       /\ LastRequest.algorithm = "lyapunov"
                       /\ \/ tel(i).usage + tel(i).delta > 256
                          \/ delay(offers[i].node) > 34 * LR!GetLatencyConfig(req.continent, tel(i).continent)
            /\ \A i, j \in known :
                   /\ outdoes(offers[i].node, offers[j].node)
                   /\ LastRequest.algorithm = "p2c" => tel(i).usage > 0
                   =>
                       /\ i < j \/ LastRequest.algorithm = "p2c"
                       /\ offers[i].weight # None => offers[i].weight >= offers[j].weight

\* Every request is answered: the random searches give up after their attempts, and
\* the k-shortest loop ends with its candidates.  An algorithm that InitMiddleInterface
\* or InitLastInterface does not know, several names of src/README.md among them, ends in
\* a nil call that gin recovers from, which counts as an answer.
EveryRequestAnswered == <>(reply # NoReply)

=============================================================================
