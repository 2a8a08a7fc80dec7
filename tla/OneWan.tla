------------------------------- MODULE OneWan -------------------------------
(***************************************************************************)
(* control-plane/routing/core-domain/onewan-multi.go: for every            *)
(* destination random simple paths as candidates, then repeatedly a random *)
(* pick of PathsPerDest of them, of which the pick with the least score is *)
(* returned.                                                               *)
(***************************************************************************)
EXTENDS RouteGraph

CONSTANTS
    MaxPaths,       \* maxPaths: candidates per destination
    DfsMaxHops,     \* maxHops of randomDFSPaths
    PathsPerDest,   \* pathsPerDest
    NumIterations   \* numIterations

VARIABLES
    edges,       \* the graph
    task,        \* the call: [start, ends], ends the destinations still to do
    ostage,      \* "idle", "generate", "select", "done", "failed"
    candidates,  \* allCandidates: a sequence of [end, paths]
    solution,    \* the best pick: [picks, score]
    rounds       \* picks made

oneWanVars == <<task, ostage, candidates, solution, rounds>>

LoadWeight == 5
NoTask == [start |-> "", ends |-> <<>>]
NoSolution == [picks |-> <<>>, score |-> 0]

Init ==
    /\ task = NoTask /\ ostage = "idle" /\ candidates = <<>>
    /\ solution = NoSolution /\ rounds = 0

\* ComputingMulti: the start must be in the graph.
Begin(start, ends) ==
    /\ ostage = "idle"
    /\ task' = [start |-> start, ends |-> ends]
    /\ ostage' = IF start \in NodesOf(edges) THEN "generate" ELSE "failed"
    /\ UNCHANGED <<edges, candidates, solution, rounds>>

\* dfsRandomPath backtracks: it finds a path if there is one, and may find any.
Reachable(end) ==
    {p \in SimplePaths(edges, task.start, end) : Len(p) - 1 <= DfsMaxHops}

\* Mutant: a destination that is not reached ends the loop.
SkipDestination_Stop == ostage' = "select"

SkipDestination == UNCHANGED ostage

\* What randomDFSPaths may collect: the paths found in its attempts, which may be the
\* same ones again, up to MaxPaths.
RandomDFSPaths(end) ==
    IF Reachable(end) = {} THEN {{}}
    ELSE {some \in SUBSET Reachable(end) : Cardinality(some) \in 1 .. MaxPaths}

\* generateCandidatePaths, one destination.
GenerateCandidates ==
    LET end == Head(task.ends)
    IN  /\ ostage = "generate" /\ task.ends # <<>>
        /\ task' = [task EXCEPT !.ends = Tail(@)]
        /\ \E paths \in IF end \in NodesOf(edges) THEN RandomDFSPaths(end) ELSE {{}} :
              \/ paths = {} /\ SkipDestination /\ UNCHANGED candidates
              \/ /\ paths # {} /\ UNCHANGED ostage
                 /\ candidates' = Append(candidates, [end |-> end, paths |-> paths])
        /\ UNCHANGED <<edges, solution, rounds>>

EndGenerate ==
    /\ ostage = "generate" /\ task.ends = <<>>
    /\ ostage' = IF candidates = <<>> THEN "failed" ELSE "select"
    /\ UNCHANGED <<edges, task, candidates, solution, rounds>>

\* The latency of the paths picked, and for every edge the square of its uses,
\* weighted with its load.
Score(picks) ==
    LET uses(e) == Cardinality({<<i, p>> \in (1 .. Len(picks)) \X UNION ToSet(picks) :
                                   p \in picks[i] /\ e \in HopsOf(p)})
        latency(i) == MapThenSumSet(LAMBDA p : LatencyOf(edges, p), picks[i])
    IN  MapThenSumSet(latency, 1 .. Len(picks))
        + MapThenSumSet(LAMBDA e : uses(e) * uses(e) * Max({edges[e].load, 1}) * LoadWeight,
                        DOMAIN edges)

\* PathsPerDest different candidates, or all of them.
Picks(paths) == {ps \in SUBSET paths : Cardinality(ps) = Min({PathsPerDest, Cardinality(paths)})}

Better(score) == score < solution.score

\* Mutant: only a pick that is better counts.
NextRound_OnlyBetter == rounds' = IF solution' # solution THEN rounds + 1 ELSE rounds

NextRound == rounds' = rounds + 1

\* beamSearchSelection, one iteration.
PickPaths ==
    /\ ostage = "select" /\ rounds < NumIterations
    /\ \E picks \in [1 .. Len(candidates) -> UNION {Picks(candidates[i].paths) : i \in 1 .. Len(candidates)}] :
           /\ \A i \in 1 .. Len(candidates) : picks[i] \in Picks(candidates[i].paths)
           /\ solution' = IF rounds = 0 \/ Better(Score(picks))
                          THEN [picks |-> picks, score |-> Score(picks)] ELSE solution
    /\ NextRound
    /\ ostage' = IF rounds' = NumIterations THEN "done" ELSE "select"
    /\ UNCHANGED <<edges, task, candidates>>

Next == GenerateCandidates \/ EndGenerate \/ PickPaths

=============================================================================
