--------------------------- MODULE TunnelManager ---------------------------
(***************************************************************************)
(* data-proxy/tunnel-manager/tunnel-manager.go: the QUIC connections to    *)
(* other nodes, one per address, dialled on demand and shared by every     *)
(* goroutine that sends a packet.  Senders look a connection up, use it    *)
(* without the lock, and close it when it fails.                           *)
(***************************************************************************)
EXTENDS Integers, FiniteSets

CONSTANTS
    Senders,   \* calls of SendPacket
    Addrs,     \* addresses of other nodes
    Addr,      \* sender -> address it sends to
    MaxConns   \* bound: connections dialled in a behaviour

Conns == 1 .. MaxConns

ASSUME TunnelAssumption == Addr \in [Senders -> Addrs] /\ MaxConns \in Nat

VARIABLES
    tunnels,  \* m.tunnels: address -> connection, 0 when there is none
    dialled,  \* number of connections dialled
    peer,     \* connection -> the address it was dialled to
    open,     \* connections that are up
    mu,       \* senders that hold m.mu for writing (while they dial)
    pc,       \* sender -> where it is
    conn,     \* sender -> the connection it got
    killed    \* history: connections that CloseTunnel closed while they were up

vars == <<tunnels, dialled, peer, open, mu, pc, conn, killed>>

Init ==
    /\ tunnels = [a \in Addrs |-> 0] /\ dialled = 0 /\ peer = [c \in Conns |-> 0]
    /\ open = {} /\ mu = {} /\ pc = [s \in Senders |-> "start"]
    /\ conn = [s \in Senders |-> 0] /\ killed = {}

Goto(s, label) == pc' = [pc EXCEPT ![s] = label]
Use(s, c) == conn' = [conn EXCEPT ![s] = c] /\ Goto(s, "open")

-----------------------------------------------------------------------------
\* GetOrCreateTunnel, under m.mu.RLock.
Lookup(s) ==
    LET c == tunnels[Addr[s]]
    IN  /\ pc[s] = "start" /\ mu = {}
        /\ IF c # 0 THEN Use(s, c) ELSE Goto(s, "lock") /\ UNCHANGED conn
        /\ UNCHANGED <<tunnels, dialled, peer, open, mu, killed>>

\* Mutant: the map is not read again under the lock.
LockAndRecheck_Blind(s) ==
    /\ pc[s] = "lock" /\ mu = {} /\ mu' = {s} /\ Goto(s, "dial")
    /\ UNCHANGED <<tunnels, dialled, peer, open, conn, killed>>

\* m.mu.Lock(); another sender may have dialled meanwhile.
LockAndRecheck(s) ==
    LET c == tunnels[Addr[s]]
    IN  /\ pc[s] = "lock" /\ mu = {}
        /\ IF c # 0 THEN Use(s, c) /\ UNCHANGED mu
                    ELSE mu' = {s} /\ Goto(s, "dial") /\ UNCHANGED conn
        /\ UNCHANGED <<tunnels, dialled, peer, open, killed>>

\* quic.Dial, with m.mu held.
DialOk(s) ==
    LET c == dialled + 1
    IN  /\ pc[s] = "dial" /\ c \in Conns
        /\ dialled' = c /\ peer' = [peer EXCEPT ![c] = Addr[s]] /\ open' = open \cup {c}
        /\ tunnels' = [tunnels EXCEPT ![Addr[s]] = c]
        /\ Use(s, c) /\ mu' = {}
        /\ UNCHANGED killed

\* Mutant: the error path does not unlock.
DialError_KeepsLock(s) ==
    /\ pc[s] = "dial" /\ Goto(s, "failed")
    /\ UNCHANGED <<tunnels, dialled, peer, open, mu, conn, killed>>

DialError(s) ==
    /\ pc[s] = "dial" /\ mu' = {} /\ Goto(s, "failed")
    /\ UNCHANGED <<tunnels, dialled, peer, open, conn, killed>>

-----------------------------------------------------------------------------
\* SendPacket.

\* OpenUniStreamSync, without a deadline: on a connection that is up it takes as long as
\* the peer gives no credit for another stream (see WaitsForPeer); it fails when the
\* connection is down.
OpenUniStream(s) ==
    /\ pc[s] = "open" /\ Goto(s, IF conn[s] \in open THEN "write" ELSE "close")
    /\ UNCHANGED <<tunnels, dialled, peer, open, mu, conn, killed>>

\* Mutant: the test of the error is inverted.
Write_Inverted(s) ==
    /\ pc[s] = "write" /\ Goto(s, IF conn[s] \in open THEN "close" ELSE "sent")
    /\ UNCHANGED <<tunnels, dialled, peer, open, mu, conn, killed>>

\* stream.Write, without a deadline either: it waits for the peer's flow control.
Write(s) ==
    /\ pc[s] = "write" /\ Goto(s, IF conn[s] \in open THEN "sent" ELSE "close")
    /\ UNCHANGED <<tunnels, dialled, peer, open, mu, conn, killed>>

\* conn.CloseWithError; delete(m.tunnels, addr)
Drop(c, a) == tunnels' = [tunnels EXCEPT ![a] = 0] /\ open' = open \ {c}

\* CloseTunnel, under m.mu: it closes the connection that the map holds for the
\* address now, which need not be the one that failed.
CloseTunnel(s) ==
    LET c == tunnels[Addr[s]]
    IN  /\ pc[s] = "close" /\ mu = {}
        /\ IF c # 0
           THEN Drop(c, Addr[s]) /\ killed' = killed \cup ({c} \cap open)
           ELSE UNCHANGED <<tunnels, open, killed>>
        /\ Goto(s, "failed")
        /\ UNCHANGED <<dialled, peer, mu, conn>>

\* The peer goes away or the connection times out.
Break(c) ==
    /\ c \in open /\ open' = open \ {c}
    /\ UNCHANGED <<tunnels, dialled, peer, mu, pc, conn, killed>>

-----------------------------------------------------------------------------
SenderStep(s) ==
    \/ Lookup(s) \/ LockAndRecheck(s) \/ DialOk(s) \/ DialError(s)
    \/ OpenUniStream(s) \/ Write(s) \/ CloseTunnel(s)

Next == (\E s \in Senders : SenderStep(s)) \/ (\E c \in open : Break(c))

Spec == Init /\ [][Next]_vars

\* The sender is in a call that only the peer can end: its connection is up, and it has
\* no credit for a stream or for more bytes.
WaitsForPeer(s) == pc[s] \in {"open", "write"} /\ conn[s] \in open

\* Dialling ends (QUIC handshakes time out), m.mu is fair to a waiting writer, and calls
\* on a connection that is down fail.  That a peer ever gives credit is not assumed.
LiveSpec == Spec /\ \A s \in Senders : WF_vars(~WaitsForPeer(s) /\ SenderStep(s))

\* m.tunnels is exact.  One sender dials at a time; a connection that is up is the one
\* the map has for the address it was dialled to, so none is leaked or shared by two
\* addresses; and the connection a sender has failed on is not handed out again: the
\* next SendPacket to that node dials anew.
MapIsExact ==
    /\ mu = {s \in Senders : pc[s] = "dial"} /\ \A s, t \in mu : s = t
    /\ \A c \in open : tunnels[peer[c]] = c
    /\ \A s \in Senders : pc[s] = "failed" /\ conn[s] # 0 => tunnels[Addr[s]] # conn[s]

\* A connection that works is closed only by a sender that failed on an older
\* connection to the same address.
KilledByStaleSender ==
    \A c \in killed : \E s \in Senders :
        pc[s] = "failed" /\ conn[s] # 0 /\ conn[s] < c /\ Addr[s] = peer[c]

\* SendPacket has no deadline, but only its own peer can hold it up: a call returns, or
\* waits for credit on a connection that is up.  Neither the lock held during a dial nor
\* a sender that waits for its peer, whatever that one does, blocks another for ever;
\* and when the connection goes down, those that wait on it return.
SendsWaitForPeerOnly ==
    \A s \in Senders : pc[s] # "start" ~> pc[s] \in {"sent", "failed"} \/ WaitsForPeer(s)

=============================================================================
