---------------------------- MODULE MCEntryPorts ----------------------------
(***************************************************************************)
(* Instances of EntryPorts for TLC: one port, served under one protocol or *)
(* both, with and without another process on it.                           *)
(***************************************************************************)
EXTENDS EntryPorts, TLC

CONSTANTS p1, c1, c2, stopTcp, startTcp, startUdp

On(proto) == [proto |-> proto, port |-> p1]
Start(ls, held) == [config |-> ls, taken |-> held]
SomeStarts ==
    {Start(<<>>, {}), Start(<<On("tcp")>>, {<<"tcp", p1>>}), Start(<<On("tcp"), On("udp")>>, {})}
Kinds == (stopTcp :> [kind |-> "stop", proto |-> "tcp", port |-> p1])
         @@ (startTcp :> [kind |-> "start", proto |-> "tcp", port |-> p1])
         @@ (startUdp :> [kind |-> "start", proto |-> "udp", port |-> p1])
ProtocolOf == (c1 :> "tcp") @@ (c2 :> "udp")
OnePort == [c \in Conns |-> p1]
NoTestPaths == [p \in {} |-> 0]
TwoPlans == {<<2>>, <<4, 2>>}
=============================================================================
