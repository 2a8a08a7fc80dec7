---------------------------- MODULE MCGraphSync ----------------------------
(***************************************************************************)
(* An instance of GraphSync for TLC: two nodes measure each other, one of  *)
(* them an origin too.  The load of b crosses the threshold of EdgeRisk.   *)
(***************************************************************************)
EXTENDS GraphSync, TLC

CONSTANTS a, b, origin

TwoNodes == {a, b}
OneOrigin == {origin}

QuietA == [cpu |-> 20, links |-> (b :> 10) @@ (origin :> 30)]
SlowA == [cpu |-> 20, links |-> b :> 40]
QuietB == [cpu |-> 20, links |-> a :> 10]
BusyB == [cpu |-> 60, links |-> a :> 10]

TwoReports == (a :> {QuietA, SlowA}) @@ (b :> {QuietB, BusyB})
SettledReports == (a :> QuietA) @@ (b :> BusyB)
=============================================================================
