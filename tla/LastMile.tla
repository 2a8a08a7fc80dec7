------------------------------ MODULE LastMile ------------------------------
(***************************************************************************)
(* From the log of one edge node to the aggregates of a control plane:     *)
(* LastTelemetry composed with EdgeAggregate over HTTP and etcd.  The      *)
(* other nodes only hold the report that etcd has of them at first.        *)
(***************************************************************************)
EXTENDS Integers, Sequences

CONSTANTS
    Cities, Traffic, TailLines, Window, MaxCopies, None,
    Nodes, MaxEvents, Rebuilders,
    Here,         \* the node whose log is modelled
    PeerReport,   \* what etcd holds for the other nodes at first
    MaxFaults     \* bound: reports lost or late, passes that fail

\* A line of the log names its client's city, or none, and a time that is not negative.
ASSUME LastMileAssumption ==
    /\ Traffic \in Seq(SUBSET [cities : SUBSET Cities, rt : Nat])
    /\ TailLines \in Nat \ {0} /\ {Window, MaxCopies} \subseteq Nat
    /\ Here \in Nodes

VARIABLES
    log, reading, records, readDue, reportDue, post,
    store, events, phase, nodeLast, rebuilds, edgeAgg,
    late,    \* a report the sender gave up on that is still on its way
    faults   \* faults so far

T == INSTANCE LastTelemetry
A == INSTANCE EdgeAggregate

telemetryVars == <<log, reading, records, readDue, reportDue, post>>
aggregateVars == <<store, events, phase, nodeLast, rebuilds, edgeAgg>>
netVars == <<late, faults>>
vars == <<telemetryVars, aggregateVars, netVars>>

Init ==
    /\ T!Init
    /\ A!Init
    /\ store = [n \in Nodes |-> IF n = Here THEN None ELSE PeerReport]
    /\ late = None /\ faults = 0

-----------------------------------------------------------------------------
Log == T!Log /\ UNCHANGED <<aggregateVars, netVars>>

\* What the control plane does by itself takes less than a tick, and a request whose
\* client has left is stored in that time or never.
Tick ==
    /\ A!Quiet /\ T!Tick
    /\ late' = None
    /\ UNCHANGED <<aggregateVars, faults>>

Read == (T!BeginRead \/ T!ReadLine \/ T!EndRead) /\ UNCHANGED <<aggregateVars, netVars>>

ReadError ==
    /\ T!ReadError
    /\ IF T!ReadEnough THEN faults' = faults ELSE faults < MaxFaults /\ faults' = faults + 1
    /\ UNCHANGED <<aggregateVars, late>>

Calculate == T!Calculate /\ UNCHANGED <<aggregateVars, netVars>>

\* The POST reaches PostLastReceive, which stores the report.
Deliver == T!Posted /\ A!Put(Here, post) /\ UNCHANGED netVars

\* The client gives up after ten seconds, or the Put fails, to which PostLastReceive
\* answers 200.  The control plane may have the request still, and store it later.
GiveUp ==
    /\ faults < MaxFaults /\ late = None
    /\ T!Posted
    /\ late' = post /\ faults' = faults + 1
    /\ UNCHANGED aggregateVars

DeliverLate ==
    /\ late # None
    /\ A!Put(Here, late)
    /\ late' = None
    /\ UNCHANGED <<telemetryVars, faults>>

\* The node reports every five seconds and its lease is a minute, so with few faults
\* only the keys of other nodes expire.
Expire == \E n \in Nodes \ {Here} : A!Expire(n) /\ UNCHANGED <<telemetryVars, netVars>>

Start == (A!LoadReports \/ A!WatchPrefix) /\ UNCHANGED <<telemetryVars, netVars>>
Handle == A!HandleLastWatchEvent /\ UNCHANGED <<telemetryVars, netVars>>
Rebuild(g) == (A!ListReports(g) \/ A!Publish(g)) /\ UNCHANGED <<telemetryVars, netVars>>

\* What goes on by itself.
Step == Start \/ Read \/ ReadError \/ Handle \/ (\E g \in Rebuilders : Rebuild(g)) \/ Tick \/ Calculate

Next == Step \/ Log \/ Deliver \/ GiveUp \/ DeliverLate \/ Expire

\* Tickers tick and goroutines go on: between two ticks there is little to do, so it
\* is enough that some step is taken.  The control plane is started, and a POST under way
\* is answered.  Clients need not come.
Fairness == WF_vars(Step) /\ WF_vars(Start) /\ WF_vars(Deliver)

Spec == Init /\ [][Next]_vars /\ Fairness

-----------------------------------------------------------------------------
\* The average that routes are chosen by is one of the log: for each city it lies
\* between the least and the greatest connect time of the city's lines, although
\* lines are counted several times, averaged, weighted and averaged again.  A time
\* under half a millisecond may count as one.  readLatestLogs reads the same lines
\* again and again, but while a line is recent it is counted at most once for each
\* tick that has passed since, and once more.
AggregatesAreMeasured ==
    /\ \A k \in DOMAIN edgeAgg :
           k[2] = Here =>
               LET lines == {i \in DOMAIN log : k[1] \in log[i].cities}
                   avg == edgeAgg[k].avg
               IN  /\ \E i \in lines : T!Round(log[i].rt) * avg[2] <= avg[1]
                   /\ avg[1] <= avg[2] \/ \E i \in lines : avg[1] <= T!Round(log[i].rt) * avg[2]
    /\ \A i \in DOMAIN log : log[i].age <= Window => Len(records[i]) <= log[i].age + 1

\* A client that was served is seen: when the log comes to rest, the cities of its end
\* have an aggregate for good, although reports were lost and all lines have grown old.
LoggedIsAggregated ==
    <>[](\A i \in T!LogEnd : log[i].cities # {} =>
            \E city \in log[i].cities : <<city, Here>> \in DOMAIN edgeAgg)

\* Rebuilds overtake each other, and the older one may publish last; the next reports
\* make up for it, as for a report that was stored between the load and the watch: again
\* and again the aggregates are those of the reports received, and the report received
\* from the node is the one that etcd holds.
AggregatesCatchUp ==
    []<>(/\ edgeAgg = A!Rebuilt(nodeLast)
         /\ nodeLast[Here] = store[Here])

=============================================================================
