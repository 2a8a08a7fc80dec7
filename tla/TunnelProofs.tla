---------------------------- MODULE TunnelProofs ----------------------------
(***************************************************************************)
(* The safety theorems of TunnelManager, for any number of senders,        *)
(* addresses and connections.                                              *)
(***************************************************************************)
EXTENDS TunnelManager, TLAPS

Labels == {"start", "lock", "dial", "open", "write", "close", "sent", "failed"}

\* The connections that have been dialled are numbered in the order of the dials.
Dialled == 1 .. dialled

TunnelType ==
    /\ dialled \in 0 .. MaxConns
    /\ tunnels \in [Addrs -> 0 .. dialled]
    /\ peer \in [Conns -> Addrs \cup {0}] /\ \A c \in Dialled : peer[c] \in Addrs
    /\ open \subseteq Dialled /\ killed \subseteq Dialled
    /\ mu \subseteq Senders
    /\ pc \in [Senders -> Labels]
    /\ conn \in [Senders -> 0 .. dialled]

\* The map: an entry is the newest connection to its address, and every connection
\* that is up has one.  A sender dials only to an address without an entry.
MapInv ==
    /\ \A a \in Addrs : tunnels[a] # 0 => peer[tunnels[a]] = a
    /\ \A c \in Dialled : tunnels[peer[c]] # 0 => c <= tunnels[peer[c]]
    /\ \A c \in open : tunnels[peer[c]] = c
    /\ \A s \in Senders : pc[s] = "dial" => tunnels[Addr[s]] = 0

\* Senders: what the program counter says of the lock and of the sender's connection.
SenderInv ==
    /\ mu = {s \in Senders : pc[s] = "dial"} /\ \A s, t \in mu : s = t
    /\ \A s \in Senders :
           /\ pc[s] \in {"start", "lock", "dial"} => conn[s] = 0
           /\ conn[s] # 0 => peer[conn[s]] = Addr[s]
           /\ pc[s] \in {"open", "write", "close"} => conn[s] # 0
           /\ pc[s] = "close" => conn[s] \notin open
           /\ pc[s] = "failed" /\ conn[s] # 0 => tunnels[Addr[s]] # conn[s]

TunnelInv == TunnelType /\ MapInv /\ SenderInv /\ KilledByStaleSender

-----------------------------------------------------------------------------
LEMMA TunnelInit == Init => TunnelInv
  BY TunnelAssumption
  DEF Init, TunnelInv, TunnelType, MapInv, SenderInv, KilledByStaleSender, Labels, Conns, Dialled

\* Steps that move the program counter of one sender, which does not hold the lock
\* before or after, and change nothing else.
LEMMA OnlyPcMoves ==
    ASSUME TunnelInv, NEW s \in Senders, NEW l \in {"lock", "write", "close", "sent"},
           Goto(s, l), pc[s] \in Labels \ {"dial", "failed"},
           l = "lock" => pc[s] = "start",
           l \in {"write", "close"} => conn[s] # 0,
           l = "close" => conn[s] \notin open,
           UNCHANGED <<tunnels, dialled, peer, open, mu, conn, killed>>
    PROVE  TunnelInv'
  <1>1. TunnelType'
    BY Zenon DEF TunnelInv, TunnelType, Goto, Dialled, Labels
  <1>2. MapInv'
    BY Zenon DEF TunnelInv, TunnelType, MapInv, Goto, Dialled
  <1>3. SenderInv'
    BY DEF TunnelInv, TunnelType, SenderInv, Goto, Dialled
  <1>4. KilledByStaleSender'
    BY Zenon DEF TunnelInv, TunnelType, KilledByStaleSender, Goto
  <1> QED
    BY <1>1, <1>2, <1>3, <1>4, Zenon DEF TunnelInv

\* A sender that finds a connection in the map takes it.
LEMMA UseKeepsInv ==
    ASSUME TunnelInv, NEW s \in Senders, pc[s] \in {"start", "lock"},
           tunnels[Addr[s]] # 0, Use(s, tunnels[Addr[s]]),
           UNCHANGED <<tunnels, dialled, peer, open, mu, killed>>
    PROVE  TunnelInv'
  <1>1. Addr[s] \in Addrs
    BY TunnelAssumption, Zenon
  <1>2. TunnelType'
    BY <1>1, Zenon DEF TunnelInv, TunnelType, Use, Goto, Dialled, Labels
  <1>3. MapInv'
    BY Zenon DEF TunnelInv, TunnelType, MapInv, Use, Goto, Dialled
  <1>4. SenderInv'
    BY <1>1 DEF TunnelInv, TunnelType, MapInv, SenderInv, Use, Goto, Dialled
  <1>5. KilledByStaleSender'
    BY Zenon DEF TunnelInv, TunnelType, KilledByStaleSender, Use, Goto
  <1> QED
    BY <1>2, <1>3, <1>4, <1>5, Zenon DEF TunnelInv

\* A sender that finds none under the lock keeps it and dials.
LEMMA LockKeepsInv ==
    ASSUME TunnelInv, NEW s \in Senders, pc[s] = "lock", mu = {}, tunnels[Addr[s]] = 0,
           mu' = {s}, Goto(s, "dial"),
           UNCHANGED <<tunnels, dialled, peer, open, conn, killed>>
    PROVE  TunnelInv'
  <1>1. TunnelType'
    BY Zenon DEF TunnelInv, TunnelType, Goto, Dialled, Labels
  <1>2. MapInv'
    BY Zenon DEF TunnelInv, TunnelType, MapInv, Goto, Dialled
  <1>3. SenderInv'
    BY DEF TunnelInv, TunnelType, SenderInv, Goto, Dialled
  <1>4. KilledByStaleSender'
    BY Zenon DEF TunnelInv, TunnelType, KilledByStaleSender, Goto
  <1> QED
    BY <1>1, <1>2, <1>3, <1>4, Zenon DEF TunnelInv

\* The new connection is the newest to its address, and no other one to it is up.
LEMMA DialOkKeepsInv ==
    ASSUME TunnelInv, NEW s \in Senders, DialOk(s)
    PROVE  TunnelInv'
  <1> DEFINE c == dialled + 1
  <1>1. /\ Addr[s] \in Addrs /\ c \in Conns /\ dialled' = c /\ c \notin Dialled
        /\ Dialled' = Dialled \cup {c} /\ dialled \in Nat /\ MaxConns \in Nat
    BY TunnelAssumption DEF DialOk, TunnelInv, TunnelType, Dialled, Conns
  <1>2. TunnelType'
    BY <1>1 DEF TunnelInv, TunnelType, DialOk, Use, Goto, Dialled, Labels, Conns
  <1>3. \A d \in Dialled : peer'[d] = peer[d]
    BY <1>1 DEF TunnelInv, TunnelType, DialOk, Conns
  <1>4. peer'[c] = Addr[s] /\ tunnels'[Addr[s]] = c
    BY <1>1, Zenon DEF TunnelInv, TunnelType, DialOk
  <1>5. tunnels[Addr[s]] = 0 /\ \A d \in open : peer[d] # Addr[s]
    BY <1>1 DEF TunnelInv, TunnelType, MapInv, DialOk, Dialled
  <1>6. MapInv'
    <2>1. \A a \in Addrs : tunnels'[a] # 0 => peer'[tunnels'[a]] = a
      BY <1>1, <1>3, <1>4 DEF TunnelInv, TunnelType, MapInv, DialOk, Dialled
    <2>2. \A d \in Dialled' : tunnels'[peer'[d]] # 0 => d <= tunnels'[peer'[d]]
      BY <1>1, <1>3, <1>4 DEF TunnelInv, TunnelType, MapInv, DialOk, Dialled
    <2>3. \A d \in open' : tunnels'[peer'[d]] = d
      BY <1>1, <1>3, <1>4, <1>5 DEF TunnelInv, TunnelType, MapInv, DialOk, Dialled
    <2>4. \A t \in Senders : pc'[t] = "dial" => tunnels'[Addr[t]] = 0
      BY <1>1 DEF TunnelInv, TunnelType, SenderInv, DialOk, Use, Goto
    <2> QED
      BY <2>1, <2>2, <2>3, <2>4, Zenon DEF MapInv
  <1>7. SenderInv'
    <2>1. mu' = {t \in Senders : pc'[t] = "dial"} /\ \A t, u \in mu' : t = u
      BY DEF TunnelInv, TunnelType, SenderInv, DialOk, Use, Goto
    <2>2. ASSUME NEW t \in Senders, t # s
          PROVE  /\ pc'[t] = pc[t] /\ conn'[t] = conn[t] /\ conn[t] # c
                 /\ conn[t] # 0 => peer'[conn[t]] = peer[conn[t]]
      BY <1>1, <1>3, <2>2 DEF TunnelInv, TunnelType, DialOk, Use, Goto, Dialled
    <2>3. pc'[s] = "open" /\ conn'[s] = c
      BY Zenon DEF TunnelInv, TunnelType, DialOk, Use, Goto
    <2>4. ASSUME NEW t \in Senders
          PROVE  /\ pc'[t] \in {"start", "lock", "dial"} => conn'[t] = 0
                 /\ conn'[t] # 0 => peer'[conn'[t]] = Addr[t]
                 /\ pc'[t] \in {"open", "write", "close"} => conn'[t] # 0
                 /\ pc'[t] = "close" => conn'[t] \notin open'
                 /\ pc'[t] = "failed" /\ conn'[t] # 0 => tunnels'[Addr[t]] # conn'[t]
      <3>1. CASE t = s
        BY <1>1, <1>4, <2>3, <3>1
      <3>2. CASE t # s
        BY <1>1, <2>2, <3>2, TunnelAssumption DEF TunnelInv, TunnelType, SenderInv, DialOk
      <3> QED
        BY <3>1, <3>2, Zenon
    <2> QED
      BY <2>1, <2>4, Zenon DEF SenderInv
  <1>8. KilledByStaleSender'
    <2> SUFFICES ASSUME NEW d \in killed
                 PROVE  \E t \in Senders : /\ pc'[t] = "failed" /\ conn'[t] # 0
                                           /\ conn'[t] < d /\ Addr[t] = peer'[d]
      BY Zenon DEF KilledByStaleSender, DialOk
    <2>1. PICK t \in Senders : pc[t] = "failed" /\ conn[t] # 0 /\ conn[t] < d /\ Addr[t] = peer[d]
      BY Zenon DEF TunnelInv, KilledByStaleSender
    <2>2. t # s /\ pc'[t] = pc[t] /\ conn'[t] = conn[t]
      BY <2>1, Zenon DEF TunnelInv, TunnelType, DialOk, Use, Goto
    <2> QED
      BY <1>3, <2>1, <2>2, Zenon DEF TunnelInv, TunnelType
  <1> QED
    BY <1>2, <1>6, <1>7, <1>8, Zenon DEF TunnelInv

\* A failed dial leaves the sender without a connection.
LEMMA DialErrorKeepsInv ==
    ASSUME TunnelInv, NEW s \in Senders, DialError(s)
    PROVE  TunnelInv'
  <1>1. TunnelType'
    BY Zenon DEF TunnelInv, TunnelType, DialError, Goto, Dialled, Labels
  <1>2. MapInv'
    BY Zenon DEF TunnelInv, TunnelType, MapInv, DialError, Goto, Dialled
  <1>3. SenderInv'
    BY DEF TunnelInv, TunnelType, SenderInv, DialError, Goto, Dialled
  <1>4. KilledByStaleSender'
    BY Zenon DEF TunnelInv, TunnelType, KilledByStaleSender, DialError, Goto
  <1> QED
    BY <1>1, <1>2, <1>3, <1>4 DEF TunnelInv

\* CloseTunnel takes the entry of the address out of the map, whatever it is.  If it
\* was up, it is newer than the connection that the sender failed on.
LEMMA CloseTunnelKeepsInv ==
    ASSUME TunnelInv, NEW s \in Senders, CloseTunnel(s)
    PROVE  TunnelInv'
  <1> DEFINE c == tunnels[Addr[s]]
  <1>1. /\ Addr[s] \in Addrs /\ c \in 0 .. dialled /\ conn[s] \in Dialled
        /\ conn[s] \notin open /\ peer[conn[s]] = Addr[s] /\ dialled \in Nat
    BY TunnelAssumption DEF CloseTunnel, TunnelInv, TunnelType, SenderInv, Dialled
  <1>2. tunnels' = [tunnels EXCEPT ![Addr[s]] = 0] /\ open' = open \ {c}
    BY <1>1 DEF TunnelInv, TunnelType, CloseTunnel, Drop, Dialled
  <1>3. TunnelType'
    <2>1. killed' \subseteq Dialled
      BY Zenon DEF TunnelInv, TunnelType, CloseTunnel, Dialled
    <2>2. tunnels' \in [Addrs -> 0 .. dialled] /\ open' \subseteq Dialled
      BY <1>1, <1>2 DEF TunnelInv, TunnelType
    <2>3. pc' \in [Senders -> Labels] /\ UNCHANGED <<dialled, peer, mu, conn>>
      BY Zenon DEF TunnelInv, TunnelType, CloseTunnel, Goto, Labels
    <2> QED
      BY <2>1, <2>2, <2>3, Zenon DEF TunnelInv, TunnelType, Dialled
  <1>4. MapInv'
    <2>1. \A d \in open' : peer[d] # Addr[s]
      BY <1>1, <1>2, Zenon DEF TunnelInv, TunnelType, MapInv
    <2> QED
      BY <1>1, <1>2, <2>1 DEF TunnelInv, TunnelType, MapInv, CloseTunnel, Goto, Dialled
  <1>5. SenderInv'
    <2>1. mu' = {t \in Senders : pc'[t] = "dial"} /\ \A t, u \in mu' : t = u
      BY Zenon DEF TunnelInv, TunnelType, SenderInv, CloseTunnel, Goto
    <2>2. pc'[s] = "failed" /\ tunnels'[Addr[s]] = 0
      BY <1>1, <1>2, Zenon DEF TunnelInv, TunnelType, CloseTunnel, Goto
    <2>3. \A t \in Senders \ {s} : pc'[t] = pc[t]
      BY Zenon DEF TunnelInv, TunnelType, CloseTunnel, Goto
    <2>4. \A t \in Senders : tunnels'[Addr[t]] \in {tunnels[Addr[t]], 0}
      BY <1>1, <1>2, TunnelAssumption, Zenon DEF TunnelInv, TunnelType
    <2>5. UNCHANGED <<conn, peer>>
      BY Zenon DEF CloseTunnel
    <2> QED
      BY <1>1, <1>2, <2>1, <2>2, <2>3, <2>4, <2>5 DEF TunnelInv, TunnelType, SenderInv
  <1>6. KilledByStaleSender'
    <2> SUFFICES ASSUME NEW d \in killed'
                 PROVE  \E t \in Senders : /\ pc'[t] = "failed" /\ conn'[t] # 0
                                           /\ conn'[t] < d /\ Addr[t] = peer'[d]
      BY Zenon DEF KilledByStaleSender
    <2>1. CASE d \in killed
      <3>1. PICK t \in Senders :
                pc[t] = "failed" /\ conn[t] # 0 /\ conn[t] < d /\ Addr[t] = peer[d]
        BY <2>1, Zenon DEF TunnelInv, KilledByStaleSender
      <3> QED
        BY <3>1, Zenon DEF TunnelInv, TunnelType, CloseTunnel, Goto
    <2>2. CASE d \notin killed
      <3>1. d = c /\ c # 0 /\ c \in open
        BY <2>2, Zenon DEF CloseTunnel
      <3>2. peer[d] = Addr[s] /\ conn[s] < d /\ conn[s] # 0
        BY <1>1, <3>1 DEF TunnelInv, TunnelType, MapInv, Dialled
      <3>3. pc'[s] = "failed" /\ conn'[s] = conn[s] /\ peer' = peer
        BY Zenon DEF TunnelInv, TunnelType, CloseTunnel, Goto
      <3> QED
        BY <3>2, <3>3, Zenon
    <2> QED
      BY <2>1, <2>2, Zenon
  <1> QED
    BY <1>3, <1>4, <1>5, <1>6 DEF TunnelInv

LEMMA BreakKeepsInv ==
    ASSUME TunnelInv, NEW c \in open, Break(c)
    PROVE  TunnelInv'
  BY ZenonT(60) DEF TunnelInv, TunnelType, MapInv, SenderInv, KilledByStaleSender, Break, Dialled

LEMMA TunnelStepKeepsInv == TunnelInv /\ [Next]_vars => TunnelInv'
  <1> SUFFICES ASSUME TunnelInv, [Next]_vars PROVE TunnelInv'
    BY ZenonT(60)
  <1>1. CASE UNCHANGED vars
    BY <1>1 DEF TunnelInv, TunnelType, MapInv, SenderInv, KilledByStaleSender, vars, Dialled
  <1>2. ASSUME NEW s \in Senders, Lookup(s) PROVE TunnelInv'
    <2>1. CASE tunnels[Addr[s]] # 0
      BY <1>2, <2>1, UseKeepsInv, Zenon DEF Lookup
    <2>2. CASE tunnels[Addr[s]] = 0
      BY <1>2, <2>2, OnlyPcMoves, Zenon DEF Lookup, Labels
    <2> QED
      BY <2>1, <2>2, Zenon
  <1>3. ASSUME NEW s \in Senders, LockAndRecheck(s) PROVE TunnelInv'
    <2>1. CASE tunnels[Addr[s]] # 0
      BY <1>3, <2>1, UseKeepsInv, Zenon DEF LockAndRecheck
    <2>2. CASE tunnels[Addr[s]] = 0
      BY <1>3, <2>2, LockKeepsInv, Zenon DEF LockAndRecheck
    <2> QED
      BY <2>1, <2>2
  <1>4. ASSUME NEW s \in Senders, OpenUniStream(s) PROVE TunnelInv'
    BY <1>4, OnlyPcMoves, Zenon DEF OpenUniStream, TunnelInv, SenderInv, Labels
  <1>5. ASSUME NEW s \in Senders, Write(s) PROVE TunnelInv'
    BY <1>5, OnlyPcMoves, Zenon DEF Write, TunnelInv, SenderInv, Labels
  <1> QED
    BY <1>1, <1>2, <1>3, <1>4, <1>5, DialOkKeepsInv, DialErrorKeepsInv, CloseTunnelKeepsInv,
       BreakKeepsInv, Zenon
    DEF Next, SenderStep

LEMMA TunnelInvAlways == Spec => []TunnelInv
  BY TunnelInit, TunnelStepKeepsInv, PTL DEF Spec

-----------------------------------------------------------------------------
\* m.tunnels is exact for any number of senders and nodes: one sender dials at a time,
\* no connection that is up is missing from the map or under a wrong address, and one
\* that a sender failed on is not handed out again.
THEOREM TunnelMapIsExact == Spec => []MapIsExact
  <1>1. TunnelInv => MapIsExact
    BY Zenon DEF TunnelInv, MapInv, SenderInv, MapIsExact
  <1> QED
    BY <1>1, TunnelInvAlways, PTL

\* CloseTunnel closes a connection that works only for a sender that failed on an
\* older one to the same node: the close by address is never worse than that.
THEOREM ClosedByStaleSender == Spec => []KilledByStaleSender
  <1>1. TunnelInv => KilledByStaleSender
    BY Zenon DEF TunnelInv
  <1> QED
    BY <1>1, TunnelInvAlways, PTL

\* A connection that is up is replaced in the map only after it has gone down: a step
\* that changes an entry either fills an empty one, with a newer connection than any
\* before, or empties it.
EntriesChangeSafely ==
    [][\A a \in Addrs : tunnels'[a] # tunnels[a] =>
           \/ tunnels[a] = 0 /\ tunnels'[a] > dialled
           \/ tunnels'[a] = 0 /\ tunnels[a] \notin open']_vars

\* GetOrCreateTunnel and CloseTunnel never replace the connection of an
\* address by another one: an entry of m.tunnels is emptied before it is set again.
THEOREM EntriesNeverOverwritten == Spec => EntriesChangeSafely
  <1>1. TunnelInv /\ [Next]_vars =>
            [\A a \in Addrs : tunnels'[a] # tunnels[a] =>
                 \/ tunnels[a] = 0 /\ tunnels'[a] > dialled
                 \/ tunnels'[a] = 0 /\ tunnels[a] \notin open']_vars
    <2> SUFFICES ASSUME TunnelInv, Next, NEW a \in Addrs, tunnels'[a] # tunnels[a]
                 PROVE  \/ tunnels[a] = 0 /\ tunnels'[a] > dialled
                        \/ tunnels'[a] = 0 /\ tunnels[a] \notin open'
      BY Zenon
    <2>1. PICK s \in Senders : DialOk(s) \/ CloseTunnel(s)
      BY Zenon DEF Next, SenderStep, Lookup, LockAndRecheck, DialError, OpenUniStream, Write, Break
    <2>2. Addr[s] \in Addrs
      BY TunnelAssumption, Zenon
    <2>3. CASE DialOk(s)
      BY <2>2, <2>3 DEF DialOk, TunnelInv, TunnelType, MapInv
    <2>4. CASE CloseTunnel(s)
      BY <2>2, <2>4, Zenon DEF CloseTunnel, Drop, TunnelInv, TunnelType
    <2> QED
      BY <2>1, <2>3, <2>4, Zenon
  <1> QED
    BY <1>1, TunnelInvAlways, PTL DEF Spec, EntriesChangeSafely

=============================================================================
