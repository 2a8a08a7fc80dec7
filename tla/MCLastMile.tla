----------------------------- MODULE MCLastMile -----------------------------
(***************************************************************************)
(* An instance of LastMile for TLC: a slow client of a city, or one whose  *)
(* address has no city, then a fast client of the city.                    *)
(***************************************************************************)
EXTENDS LastMile, TLC

CONSTANTS c1, n1, n2

Clients ==
    <<{[cities |-> {c1}, rt |-> 404], [cities |-> {}, rt |-> 20]}, {[cities |-> {c1}, rt |-> 3]}>>
Peer == c1 :> [count |-> 2, avg |-> <<30, 1>>]
=============================================================================
