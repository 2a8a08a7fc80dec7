---------------------------- MODULE LastRouting ----------------------------
(***************************************************************************)
(* The last-mile selection of control-plane/routing/edge-domain: by which  *)
(* edge nodes a user should enter, from the CPU load of the nodes and the  *)
(* latency that the user's city had at each of them.  LastRouting looks up *)
(* the user's address, copies the graph's nodes, then the aggregates, and  *)
(* scores every node by the algorithm of the request.                      *)
(*                                                                         *)
(* Scores are integers: percent and milliseconds where only these are      *)
(* added, thousandths where math.Exp is; Exp is its table.                 *)
(***************************************************************************)
EXTENDS Integers, Sequences, FiniteSets, SequencesExt, Functions

CONSTANTS
    Exp,           \* math.Exp in thousandths, at exponents in thousandths
    SoftmaxLimit,  \* the score from which math.Exp(-score / softmaxTemp) is zero
    PairGood,      \* ContinentPairConfigs: pairs of continents -> good latency
    LocalNode,     \* the control plane's own address
    None

VARIABLES
    lstage,    \* of the request: "idle", "nodes", "aggregates", "done", "failed"
    nodes,     \* GraphManager.nodes: node -> [usage, delta, cores, continent]
    edgeAgg,   \* GlobalStats.edgeAgg: <<city, node>> -> [count, avg]
    nodeTel,   \* the solver's copy of nodes
    offers     \* the paths computed: a sequence of [node, score, weight]

Init == lstage = "idle" /\ nodeTel = <<>> /\ offers = <<>>

\* GetIPInfo answers or fails.
LookUp ==
    /\ lstage = "idle"
    /\ lstage' \in {"nodes", "failed"}
    /\ UNCHANGED <<nodes, edgeAgg, nodeTel, offers>>

\* g.GetNodes
GetNodes ==
    /\ lstage = "nodes"
    /\ nodeTel' = nodes /\ lstage' = "aggregates"
    /\ UNCHANGED <<nodes, edgeAgg, offers>>

-----------------------------------------------------------------------------
\* The latency of a city's users at a node.

GetNodeRT(city, n) ==
    IF <<city, n>> \in DOMAIN edgeAgg THEN edgeAgg[<<city, n>>] ELSE [count |-> 1, avg |-> 50]

\* unknown: the latency taken when there is an entry that counts nothing.
Delay(city, n, unknown) ==
    LET stats == GetNodeRT(city, n)
        delay == IF stats.count > 0 THEN stats.avg ELSE unknown
    IN  IF delay > 0 THEN delay ELSE 100

\* The load of a node; one that is negative counts as unknown.
Usage(n, unknown) == IF nodeTel[n].usage < 0 THEN unknown ELSE nodeTel[n].usage

-----------------------------------------------------------------------------
\* The scores.  Lower is better.

\* SetWeights without the division by the total, which orders nothing.
SetWeights(cpu, latency) ==
    CASE cpu > 0 /\ latency > 0 -> <<cpu, latency>>
      [] cpu = 0 /\ latency > 0 -> <<0, 1>>
      [] latency = 0 /\ cpu > 0 -> <<1, 0>>
      [] OTHER -> <<1, 1>>

\* InitLastInterface: the weights that a request of the joint router asks for.
JointWeights(r) ==
    CASE r.algorithm = "latency_only" -> SetWeights(0, 1)
      [] r.algorithm = "cpu_only" -> SetWeights(1, 0)
      [] OTHER -> SetWeights(r.weights[1], r.weights[2])

JointScore(r, n) ==
    LET w == JointWeights(r) IN w[1] * Usage(n, 100) + w[2] * Delay(r.city, n, 500)

\* updateEWMA, with alpha 0.5: the router is made for one request, so there is never
\* an average to continue.
UpdateEWMA(current, x) == IF current = None THEN x ELSE (x + current) \div 2

\* Twice the combined score: lambda is 0.5.
EwmaScore(r, n) == UpdateEWMA(None, Usage(n, 100)) + UpdateEWMA(None, Delay(r.city, n, 100))

GetCPUThresholds(cores) ==
    IF cores = 4 THEN [mid |-> 80, sensitivity |-> 3000] ELSE [mid |-> 60, sensitivity |-> 2000]

GetLatencyConfig(from, to) ==
    CASE <<from, to>> \in DOMAIN PairGood -> PairGood[<<from, to>>]
      [] <<from, to>> \notin DOMAIN PairGood /\ from # to -> 60
      [] OTHER -> 20

ComputeCPUPenalty(load, cores) ==
    LET c == GetCPUThresholds(cores) IN Exp[(c.sensitivity * (load - c.mid)) \div c.mid]

\* Mutant: a latency above the threshold earns the node a bonus.
ComputeDelayPenalty_Bonus(delay, good) == Exp[-((200 * (delay - good)) \div good)]

ComputeDelayPenalty(delay, good) == Exp[(200 * (delay - good)) \div good]

LyapunovScore(r, n) ==
    ComputeCPUPenalty(Usage(n, 0) + nodeTel[n].delta, nodeTel[n].cores)
    + ComputeDelayPenalty(Delay(r.city, n, 500), GetLatencyConfig(r.continent, nodeTel[n].continent))

\* A node without telemetry can only be the local one, taken when there is no other.
P2CLoad(n) == IF n \in DOMAIN nodeTel /\ nodeTel[n].usage > 0 THEN nodeTel[n].usage ELSE 100

ScoreOf(r, n) ==
    CASE r.algorithm = "lyapunov" -> LyapunovScore(r, n)
      [] r.algorithm \in {"joint_cpu_latency", "latency_only", "cpu_only"} -> JointScore(r, n)
      [] r.algorithm = "ewma_based" -> EwmaScore(r, n)
      [] r.algorithm = "p2c" -> P2CLoad(n)

-----------------------------------------------------------------------------
\* The offers.

\* 1 / x, in millionths.
OneOver(x) == IF x > 0 THEN 1000000 \div x ELSE 1000000

\* Of a softmax weight only this is kept: it falls as the score rises, and from
\* SoftmaxLimit on it is zero.
SoftmaxWeight(score) == IF score < SoftmaxLimit THEN SoftmaxLimit - score ELSE 0

\* Shares before they are divided by their sum; the joint router gives none.
WeightOf(algorithm, score) ==
    CASE algorithm = "lyapunov" -> SoftmaxWeight(score)
      [] algorithm \in {"ewma_based", "p2c"} -> OneOver(score)
      [] OTHER -> None

\* All nodes, or the local one, which only P2C offers without telemetry.
Candidates(r) ==
    IF DOMAIN nodeTel # {} THEN DOMAIN nodeTel
    ELSE IF r.algorithm = "p2c" THEN {LocalNode} ELSE {}

\* The map of nodes is ranged over in any order, and sorting leaves ties in any
\* order; P2C does not sort.
Offers(r) ==
    LET offer(n) == [node |-> n, score |-> ScoreOf(r, n), weight |-> WeightOf(r.algorithm, ScoreOf(r, n))]
        all == {offer(n) : n \in Candidates(r)}
    IN  {s \in [1 .. Cardinality(all) -> all] :
            /\ IsInjective(s)
            /\ r.algorithm = "p2c" \/ \A i, j \in DOMAIN s : i < j => s[i].score <= s[j].score}

\* a.GetAggMap, then Computing on the two copies.
Compute(r) ==
    /\ lstage = "aggregates"
    /\ offers' \in Offers(r)
    /\ lstage' = "done"
    /\ UNCHANGED <<nodes, edgeAgg, nodeTel>>

=============================================================================
