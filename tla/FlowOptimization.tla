-------------------------- MODULE FlowOptimization --------------------------
(***************************************************************************)
(* control-plane/routing/core-domain/carousel-greed.go: paths from one     *)
(* start to several destinations, at most FlowsPerDest to each, under a    *)
(* latency bound per destination and a capacity per edge that shrinks with *)
(* the load of the node it leads to.  A greedy first list is taken apart   *)
(* and rebuilt, oldest path first, and the best list met is returned.      *)
(*                                                                         *)
(* Loads and latencies are integers, bounds and capacities are fractions   *)
(* <<num, den>>, scores are in units of 1/Unit, rounded down term by term. *)
(***************************************************************************)
EXTENDS RouteGraph

CONSTANTS
    FlowsPerDest,   \* flowsPerDest
    MaxAttempts,    \* flowsPerDest * 10
    Alpha,          \* alpha: iterations per path of the first list
    MaxHops,        \* maxHops: nodes on a path
    BannedPenalty,  \* bannedPenalty
    DefaultTheta    \* thetaL of a destination to which KSP finds no path

VARIABLES
    edges,          \* the graph
    job,            \* the call: [start, ends]; ends holds validEnds
    fstage,         \* "idle", "theta", "search", "iterate", "done", "failed"
    thetaL,         \* thetaLMap, of the destinations done so far
    effCap,         \* edge -> effCap
    flow,           \* edge -> flow
    allPaths,       \* list of [path, dest, latency], oldest first
    usedPaths,      \* paths that are taken
    destFlowCount,  \* destination -> number of its paths
    turn,           \* of the search: <<index into ends, paths found, attempts>>
    freq,           \* PathAccumulator.freq
    best,           \* [paths, score]: bestPaths, bestScore
    iters           \* iterations made, maxIter

flowVars == <<job, fstage, thetaL, effCap, flow, allPaths, usedPaths, destFlowCount, turn,
              freq, best, iters>>

Tu == 60
Unit == 12000
NoJob == [start |-> "", ends |-> <<>>]
Nowhere == [paths |-> <<>>, score |-> 0]
Empty == [x \in {} |-> 0]

Init ==
    /\ job = NoJob /\ fstage = "idle" /\ thetaL = Empty /\ effCap = Empty /\ flow = Empty
    /\ allPaths = <<>> /\ usedPaths = {} /\ destFlowCount = Empty /\ turn = <<1, 0, 0>>
    /\ freq = Empty /\ best = Nowhere /\ iters = <<0, 0>>

-----------------------------------------------------------------------------
\* Parameters.

\* The k-th of the loads in increasing order.
LoadAt(k) ==
    CHOOSE l \in {edges[e].load : e \in DOMAIN edges} :
        /\ Cardinality({e \in DOMAIN edges : edges[e].load < l}) < k
        /\ Cardinality({e \in DOMAIN edges : edges[e].load <= l}) >= k

\* computePercentile(90), in tenths.
Uhot10 ==
    LET n == Cardinality(DOMAIN edges)
        index10 == 9 * (n - 1)
        lower == index10 \div 10 + 1
    IN  IF lower + 1 > n THEN 10 * LoadAt(n)
        ELSE 10 * LoadAt(lower) + (index10 % 10) * (LoadAt(lower + 1) - LoadAt(lower))

\* computeThetaA: 1 below Tu, 0 from Uhot on, linear between.
ThetaA(load, hot10) ==
    LET over == 10 * Max({load - Tu, 0})
        range == hot10 - 10 * Tu
    IN  IF over = 0 THEN <<1, 1>>
        ELSE IF range <= over THEN <<0, 1>>
        ELSE <<range - over, range>>

\* buildResidualGraphWithCapacity: effCap = thetaA * capacity.
EffCaps(capacity) ==
    LET hot10 == Uhot10
    IN  [e \in DOMAIN edges |->
            LET theta == ThetaA(edges[e].load, hot10) IN <<theta[1] * capacity, theta[2]>>]

\* ComputingMulti, up to computeThetaLForDestinations.
Begin(start, ends) ==
    LET valid == SelectSeq(ends, LAMBDA d : d \in NodesOf(edges))
    IN  /\ fstage = "idle"
        /\ job' = [start |-> start, ends |-> valid]
        /\ fstage' = IF start \in NodesOf(edges) /\ valid # <<>> THEN "theta" ELSE "failed"
        /\ UNCHANGED <<edges, thetaL, effCap, flow, allPaths, usedPaths, destFlowCount, turn,
                       freq, best, iters>>

\* 1.5 times the average latency of the paths that KSP found.
Bound(latencies) == <<3 * FoldLeft(+, 0, latencies), 2 * Len(latencies)>>

\* computeThetaLForDestinations, one destination: KSP returned these latencies.
SetTheta(latencies) ==
    LET d == job.ends[turn[1]]
    IN  /\ fstage = "theta" /\ turn[1] <= Len(job.ends)
        /\ thetaL' = (d :> IF latencies = <<>> THEN <<DefaultTheta, 1>> ELSE Bound(latencies))
                     @@ thetaL
        /\ turn' = <<turn[1] + 1, 0, 0>>
        /\ UNCHANGED <<edges, job, fstage, effCap, flow, allPaths, usedPaths, destFlowCount,
                       freq, best, iters>>

BuildResidualGraph ==
    /\ fstage = "theta" /\ turn[1] > Len(job.ends)
    /\ effCap' = EffCaps(Len(job.ends) * FlowsPerDest)
    /\ flow' = [e \in DOMAIN edges |-> 0]
    /\ destFlowCount' = [d \in ToSet(job.ends) |-> 0]
    /\ turn' = <<1, 0, 0>> /\ fstage' = "search"
    /\ UNCHANGED <<edges, job, thetaL, allPaths, usedPaths, freq, best, iters>>

-----------------------------------------------------------------------------
\* The residual graph.  fl is the flow, ban the edges banned for the moment.

\* residual = effCap - flow > 0
HasResidual(e, fl) == effCap[e][1] > fl[e] * effCap[e][2]

Penalty(e, ban) == IF e \in ban THEN BannedPenalty ELSE 0

\* Mutant: any edge can be taken backwards.
ReverseArcs_Any(u, fl, ban) ==
    {[to |-> e[1], cost |-> Penalty(e, ban)] : e \in {f \in DOMAIN edges : f[2] = u}}

\* An edge that carries flow can be taken backwards, at no cost.
ReverseArcs(u, fl, ban) ==
    {[to |-> e[1], cost |-> Penalty(e, ban)] :
        e \in {f \in DOMAIN edges : f[2] = u /\ f[1] # u /\ fl[f] > 0}}

\* getSortedEdges, without the order.
Arcs(u, fl, ban) ==
    {[to |-> e[2], cost |-> edges[e].latency + Penalty(e, ban)] :
        e \in {f \in DOMAIN edges : f[1] = u /\ HasResidual(f, fl)}}
    \cup ReverseArcs(u, fl, ban)

Within(latency, bound) == latency * bound[2] <= bound[1]

\* The path stays within the bound over this arc too.
Affordable(latency, arc, t) == Within(latency + arc.cost, thetaL[t])

\* dfsPathSearch: the simple paths from the end of p to t within the bound.
RECURSIVE Feasible(_, _, _, _, _)
Feasible(p, latency, t, fl, ban) ==
    IF Last(p) = t THEN {[path |-> p, dest |-> t, latency |-> latency]}
    ELSE UNION {Feasible(Append(p, a.to), latency + a.cost, t, fl, ban) :
                   a \in {b \in Arcs(Last(p), fl, ban) :
                             /\ b.to \notin ToSet(p) /\ Len(p) < MaxHops
                             /\ Affordable(latency, b, t)}}

\* findFeasiblePathWithLatency.  The first attempt finds a path of least latency
\* that is not taken; the later ones search in random order and find any path.
FindFeasiblePath(t, fl, ban, used, attempt) ==
    LET all == IF \E e \in DOMAIN edges : e[1] = job.start
               THEN Feasible(<<job.start>>, 0, t, fl, ban) ELSE {}
        free == {p \in all : p.path \notin used}
    IN  IF attempt <= 1 THEN {p \in free : \A q \in free : p.latency <= q.latency} ELSE all

Allocate(fl, p) == [e \in DOMAIN fl |-> IF e \in HopsOf(p) THEN fl[e] + 1 ELSE fl[e]]

\* Mutant: only the first hop is released.
Release_First(fl, p) ==
    [e \in DOMAIN fl |-> IF e = <<p[1], p[2]>> THEN Max({fl[e] - 1, 0}) ELSE fl[e]]

Release(fl, p) == [e \in DOMAIN fl |-> IF e \in HopsOf(p) THEN Max({fl[e] - 1, 0}) ELSE fl[e]]

-----------------------------------------------------------------------------
\* The first list.

NextDest == turn' = <<turn[1] + 1, 0, 0>>

\* One attempt for the destination whose turn it is.
Attempt ==
    LET d == job.ends[turn[1]]
        tries == turn[3] + 1
    IN  /\ fstage = "search" /\ turn[1] <= Len(job.ends)
        /\ LET found == FindFeasiblePath(d, flow, {}, usedPaths, tries)
           IN  \/ found = {} /\ NextDest
                  /\ UNCHANGED <<flow, allPaths, usedPaths, destFlowCount>>
               \/ \E p \in found :
                     \/ /\ p.path \in usedPaths
                        /\ IF tries < MaxAttempts THEN turn' = [turn EXCEPT ![3] = tries] ELSE NextDest
                        /\ UNCHANGED <<flow, allPaths, usedPaths, destFlowCount>>
                     \/ /\ p.path \notin usedPaths
                        /\ allPaths' = Append(allPaths, p) /\ usedPaths' = usedPaths \cup {p.path}
                        /\ destFlowCount' = [destFlowCount EXCEPT ![d] = @ + 1]
                        /\ flow' = Allocate(flow, p.path)
                        /\ IF turn[2] + 1 < FlowsPerDest /\ tries < MaxAttempts
                           THEN turn' = <<turn[1], turn[2] + 1, tries>> ELSE NextDest
        /\ UNCHANGED <<edges, job, fstage, thetaL, effCap, freq, best, iters>>

\* objective: 10 a path, 1/n for an edge used n times, -0.1 a unit of latency, and
\* for every use of an edge the share of its capacity that is in use.
Objective(paths, fl) ==
    LET users(e) == {i \in 1 .. Len(paths) : e \in HopsOf(paths[i].path)}
        used == UNION {HopsOf(paths[i].path) : i \in 1 .. Len(paths)}
        latency == FoldLeft(LAMBDA x, p : x + p.latency, 0, paths)
        congestion(e) == IF e \in DOMAIN fl /\ effCap[e][1] > 0
                         THEN Cardinality(users(e)) * ((Unit * fl[e] * effCap[e][2]) \div effCap[e][1])
                         ELSE 0
    IN  IF paths = <<>> THEN 0
        ELSE 10 * Unit * Len(paths)
             + MapThenSumSet(LAMBDA e : Unit \div Cardinality(users(e)), used)
             - (Unit * latency) \div 10
             - MapThenSumSet(congestion, used)

\* Mutant: the flows of the removed paths are not released.
Without_KeepsFlow(n) == flow

\* The flow once the n oldest paths are released.
Without(n) ==
    LET fl[i \in 0 .. n] == IF i = 0 THEN flow ELSE Release(fl[i - 1], allPaths[i].path)
    IN  fl[n]

\* Steps 3 to 6: remember the list as the best one, take out its older half.
StartIterations ==
    LET n == Len(allPaths)
        out == n \div 2
    IN  /\ fstage = "search" /\ turn[1] > Len(job.ends)
        /\ IF n = 0
           THEN fstage' = "failed"
                /\ UNCHANGED <<flow, allPaths, usedPaths, destFlowCount, freq, best, iters>>
           ELSE /\ fstage' = "iterate" /\ iters' = <<0, Alpha * n>>
                /\ freq' = [p \in {allPaths[i].path : i \in 1 .. n} |-> 1]
                /\ best' = [paths |-> allPaths, score |-> Objective(allPaths, flow)]
                /\ allPaths' = SubSeq(allPaths, out + 1, n)
                /\ usedPaths' = usedPaths \ {allPaths[i].path : i \in 1 .. out}
                /\ flow' = Without(out)
                /\ destFlowCount' = [d \in DOMAIN destFlowCount |->
                       destFlowCount[d] - Cardinality({i \in 1 .. out : allPaths[i].dest = d})]
        /\ UNCHANGED <<edges, job, thetaL, effCap, turn>>

-----------------------------------------------------------------------------
\* The iterations.

\* Step 11: a list with a higher score becomes the best one.
KeepBest(paths, fl) ==
    best' = IF paths # <<>> /\ Objective(paths, fl) > best.score
            THEN [paths |-> paths, score |-> Objective(paths, fl)] ELSE best

\* GetMostFrequent: the first in map order, hence any.
MostFrequent == {p \in DOMAIN freq : \A q \in DOMAIN freq : freq[q] <= freq[p]}

\* The destinations that may get another path.
Open(count) == {d \in ToSet(job.ends) : count[d] < FlowsPerDest}

\* The taken paths once this one has left the list.
Freed(path) == usedPaths \ {path}

\* Steps 7 to 11.  The oldest path leaves; with the edges of a most frequent path
\* and the first edge of the oldest one banned, the destinations are tried in a
\* random order until one of them has a path that is not taken.
Iterate ==
    LET old == Head(allPaths)
        fl == Without(1)
        used == Freed(old.path)
        count == [destFlowCount EXCEPT ![old.dest] = @ - 1]
    IN  /\ fstage = "iterate" /\ iters[1] < iters[2] /\ allPaths # <<>>
        /\ iters' = [iters EXCEPT ![1] = @ + 1]
        /\ \E top \in MostFrequent :
           LET ban == HopsOf(top) \cup HopsOf(SubSeq(old.path, 1, Min({2, Len(old.path)})))
               found == [d \in Open(count) |-> FindFeasiblePath(d, fl, ban, used, iters[1] + 1)]
           IN  \/ /\ \A d \in Open(count) :
                         found[d] = {} \/ \E p \in found[d] : p.path \in used
                  /\ allPaths' = Tail(allPaths) /\ usedPaths' = used
                  /\ flow' = fl /\ destFlowCount' = count
                  /\ UNCHANGED freq
               \/ \E d \in Open(count) : \E p \in found[d] :
                  /\ p.path \notin used
                  /\ allPaths' = Append(Tail(allPaths), p) /\ usedPaths' = used \cup {p.path}
                  /\ flow' = Allocate(fl, p.path) /\ destFlowCount' = [count EXCEPT ![d] = @ + 1]
                  /\ freq' = (p.path :> IF p.path \in DOMAIN freq THEN freq[p.path] + 1 ELSE 1) @@ freq
        /\ KeepBest(allPaths', flow')
        /\ UNCHANGED <<edges, job, fstage, thetaL, effCap, turn>>

Finish ==
    /\ fstage = "iterate" /\ (iters[1] = iters[2] \/ allPaths = <<>>)
    /\ fstage' = "done"
    /\ UNCHANGED <<edges, job, thetaL, effCap, flow, allPaths, usedPaths, destFlowCount, turn,
                   freq, best, iters>>

Next == BuildResidualGraph \/ Attempt \/ StartIterations \/ Iterate \/ Finish

=============================================================================
