------------------------------ MODULE MCRelay ------------------------------
(***************************************************************************)
(* Instances of Relay for TLC: paths of every length that the header tells *)
(* apart, sharing nodes in opposite directions.                            *)
(***************************************************************************)
EXTENDS Relay

CONSTANTS A, B, C, D, O

Request(path, port, len) == [path |-> path, port |-> port, listenPort |-> 80, len |-> len]

\* Two requests over one path to two ports of its origin and one over the reverse of
\* part of it, an empty datagram, and a path longer than the header.
Paths == {Request(<<A, B, C, O>>, 82, 200), Request(<<A, B, C, O>>, 83, 200),
          Request(<<C, B, O>>, 82, 200), Request(<<B, A, O>>, 82, 0),
          Request(<<A, B, C, D, O>>, 82, 200)}

\* A path that names no port.
NoPort == {Request(<<A, B, O>>, 0, 200)}

=============================================================================
