---------------------------- MODULE MCEntryProxy ----------------------------
(***************************************************************************)
(* Instances of EntryProxy for TLC.  The id space (2^24 sequence numbers)  *)
(* is scaled down so that ids are reused.                                  *)
(***************************************************************************)
EXTENDS EntryProxy

CONSTANTS t1, t2, t3, u1

\* All clients share the last octet of their address, so that ids can meet.
OneSegment == [c \in Reqs |-> 7]

=============================================================================
