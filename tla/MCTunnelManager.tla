-------------------------- MODULE MCTunnelManager --------------------------
(***************************************************************************)
(* An instance of TunnelManager for TLC: four senders, three of them to    *)
(* one node.                                                               *)
(***************************************************************************)
EXTENDS TunnelManager

CONSTANTS s1, s2, s3, s4, a1, a2

Targets == [s \in Senders |-> IF s = s4 THEN a2 ELSE a1]

=============================================================================
