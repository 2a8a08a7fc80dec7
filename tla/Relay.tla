------------------------------- MODULE Relay -------------------------------
(***************************************************************************)
(* The walk of a packet over the data-proxy nodes of its path and back:    *)
(* the header written by the aggregator (tunnel-packet.go), the handler of *)
(* received packets (tunnel-handler.go) and the origin request at the exit *)
(* node (backsourcer.go).                                                  *)
(*                                                                         *)
(* A path is a sequence of addresses: the entry node, relays, the exit     *)
(* node, the origin.  The header holds the first MaxHops of them, numbered *)
(* from 0, and the index HopPos of the node the packet is sent to.  A      *)
(* request carries the origin's port; port 0 marks an answer.              *)
(***************************************************************************)
EXTENDS Integers, Sequences

CONSTANTS
    Nodes,        \* addresses of proxy nodes
    Origins,      \* addresses of origin servers
    Reqs,         \* requests: [path, port, listenPort, len]; port 0 when the path has none
    PacketMax,    \* bound: messages in one packet
    Zero          \* an empty header slot, 0.0.0.0

MaxHops == 4

ASSUME RelayAssumption ==
    /\ Zero \notin Nodes \cup Origins /\ Nodes \cap Origins = {}
    /\ \A r \in Reqs : /\ r.path \in Seq(Nodes \cup Origins) /\ Len(r.path) >= 2
                       /\ \A i \in 1 .. Len(r.path) - 1 : r.path[i] \in Nodes
                       /\ r.path[Len(r.path)] \in Origins

VARIABLES
    toSend,    \* requests the entry nodes have not sent
    inFlight,  \* packets on their way to node "to"
    tasks,     \* BackSourceTasks of the exit nodes
    contacted, \* history: <<request, origin, port>> of each origin request
    answers,   \* answers in the exit nodes' response aggregators
    delivered, \* history: <<request, node>> of each Deliver
    visits,    \* history: request -> nodes that handled its packets
    lost,      \* requests given up: a send failed, the origin did, or a packet was refused
    panicked   \* a request made a node panic

vars == <<toSend, inFlight, tasks, contacted, answers, delivered, visits, lost, panicked>>

Init ==
    /\ toSend = Reqs /\ inFlight = {} /\ tasks = {} /\ contacted = {} /\ answers = {}
    /\ delivered = {} /\ visits = [r \in Reqs |-> <<>>] /\ lost = {} /\ panicked = FALSE

-----------------------------------------------------------------------------
\* SetHopIP for each hop: the slots that are filled, the rest zero.
HopIPs(hops) == [i \in 0 .. MaxHops - 1 |-> IF i < Len(hops) THEN hops[i + 1] ELSE Zero]

\* The messages of one packet, in order; the aggregator packs by routing key.
Batches(pending, key) ==
    {s \in UNION {[1 .. n -> pending] : n \in 1 .. PacketMax} :
        \A i, j \in DOMAIN s : key[s[i]] = key[s[j]] /\ (s[i] = s[j] => i = j)}

Members(s) == {s[i] : i \in DOMAIN s}

\* Packet of subs for the hops, with HopPos 1, on its way to the second hop.
NewPacket(hops, port, subs) ==
    [hopIP |-> HopIPs(hops), hopPos |-> 1, port |-> port, subs |-> subs, to |-> hops[2]]

\* Send pkt, or give its requests up when the node it goes to is not there.
Send(pkt) ==
    IF pkt.to \in Nodes
    THEN inFlight' = inFlight \cup {pkt} /\ UNCHANGED lost
    ELSE lost' = lost \cup Members(pkt.subs) /\ UNCHANGED inFlight

\* The entry node sends requests with one routing key; a small one goes alone.
\* The header gets the port of the first of them.  "IP:Port" as second hop is no
\* address: nothing is sent.
SendRequests(rs) ==
    LET first == rs[1]
    IN  /\ Len(rs) = 1 \/ \A r \in Members(rs) : r.len # 0
        /\ toSend' = toSend \ Members(rs)
        /\ IF Len(first.path) = 2 /\ first.port # 0
           THEN lost' = lost \cup Members(rs) /\ UNCHANGED inFlight
           ELSE Send(NewPacket(first.path, first.port, rs))
        /\ UNCHANGED <<tasks, contacted, answers, delivered, visits, panicked>>

\* SendPacket failed, or the tunnel broke with the packet in it.
LosePacket(p) ==
    /\ inFlight' = inFlight \ {p} /\ lost' = lost \cup Members(p.subs)
    /\ UNCHANGED <<toSend, tasks, contacted, answers, delivered, visits, panicked>>

-----------------------------------------------------------------------------
\* HandleQUICPacket.

\* Mutant: the first relay takes itself for the exit node.
RequestAtLastHop_First(p) == p.hopPos >= 1

\* isLastHop of a request: the next hop is the origin.
RequestAtLastHop(p) ==
    \/ p.hopPos = 2
    \/ p.hopPos + 2 < MaxHops /\ p.hopIP[p.hopPos + 2] = Zero

\* isLastHop of an answer: there is no next hop.
AnswerAtLastHop(p) ==
    \/ p.hopPos = MaxHops - 1
    \/ p.hopPos + 1 < MaxHops /\ p.hopIP[p.hopPos + 1] = Zero

\* Parse: the sub-packets.  Its loop ends at the first failed read, and reading
\* no bytes at the end of the payload fails, so an empty last message is left out.
Parse(subs) ==
    LET n == Len(subs) IN IF subs[n].len = 0 THEN SubSeq(subs, 1, n - 1) ELSE subs

\* What the handler of p at its node adds to the node history.
Visit(p) ==
    visits' = [r \in Reqs |-> IF r \in Members(p.subs) THEN Append(visits[r], p.to) ELSE visits[r]]

\* The packet sent on: AdvanceRawHop, and the next address.
Forwarded(p) ==
    [p EXCEPT !.hopPos = IF @ < MaxHops - 1 THEN @ + 1 ELSE @, !.to = p.hopIP[p.hopPos + 1]]

Forward(p) ==
    /\ IF p.port # 0 THEN ~RequestAtLastHop(p) ELSE ~AnswerAtLastHop(p)
    /\ LET q == Forwarded(p)
       IN  IF q.to \in Nodes
           THEN inFlight' = (inFlight \ {p}) \cup {q} /\ UNCHANGED lost
           ELSE inFlight' = inFlight \ {p} /\ lost' = lost \cup Members(p.subs)
    /\ Visit(p)
    /\ UNCHANGED <<toSend, tasks, contacted, answers, delivered, panicked>>

\* The exit node submits the requests to the back-sourcer.
SubmitTasks(p) ==
    LET origin == p.hopIP[p.hopPos + 1]
        taken == IF origin = Zero THEN {} ELSE Members(Parse(p.subs))
    IN  /\ p.port # 0 /\ RequestAtLastHop(p)
        /\ inFlight' = inFlight \ {p}
        /\ tasks' = tasks \cup
              {[hopIP |-> p.hopIP, origin |-> origin, port |-> p.port, req |-> r] : r \in taken}
        /\ lost' = lost \cup (Members(p.subs) \ taken)
        /\ Visit(p)
        /\ UNCHANGED <<toSend, contacted, answers, delivered, panicked>>

\* The entry node hands the answers to the disaggregator.  They are not empty
\* (OriginFails), so Parse returns all of them.
DeliverAnswers(p) ==
    /\ p.port = 0 /\ AnswerAtLastHop(p)
    /\ inFlight' = inFlight \ {p}
    /\ delivered' = delivered \cup {<<r, p.to>> : r \in Members(p.subs)}
    /\ Visit(p)
    /\ UNCHANGED <<toSend, tasks, contacted, answers, lost, panicked>>

-----------------------------------------------------------------------------
\* doOriginRequest.

\* The loop from the last slot to the first, which skips the empty ones.
Collect(hops, h) == IF h = Zero THEN hops ELSE Append(hops, h)
SetHops(hopIP) == Collect(Collect(Collect(Collect(<<>>, hopIP[3]), hopIP[2]), hopIP[1]), hopIP[0])

\* Mutant: the origin is not taken off the way back.
ReturnHops_WithOrigin(hopIP) == SetHops(hopIP)

\* The hops that are set, reversed, without the origin.
ReturnHops(hopIP) ==
    LET set == SetHops(hopIP)
    IN  IF Len(set) > 1 THEN Tail(set) ELSE set

\* The origin answers: the answer goes to the response aggregator, whose next hop
\* hops[1] must exist.
OriginAnswers(t) ==
    LET hops == ReturnHops(t.hopIP)
    IN  /\ tasks' = tasks \ {t}
        /\ contacted' = contacted \cup {<<t.req, t.origin, t.port>>}
        /\ IF Len(hops) < 2
           THEN panicked' = TRUE /\ UNCHANGED answers
           ELSE answers' = answers \cup {[hops |-> hops, req |-> t.req]} /\ UNCHANGED panicked
        /\ UNCHANGED <<toSend, inFlight, delivered, visits, lost>>

\* DoRequest fails or the response is empty.
OriginFails(t) ==
    /\ tasks' = tasks \ {t}
    /\ contacted' = contacted \cup {<<t.req, t.origin, t.port>>}
    /\ lost' = lost \cup {t.req}
    /\ UNCHANGED <<toSend, inFlight, answers, delivered, visits, panicked>>

\* Mutant: answers wait until a packet is full.
SendAnswers_WhenFull(as) ==
    /\ Len(as) = PacketMax /\ answers' = answers \ Members(as)
    /\ Send(NewPacket(as[1].hops, 0, [i \in DOMAIN as |-> as[i].req]))
    /\ UNCHANGED <<toSend, tasks, contacted, delivered, visits, panicked>>

\* The exit node sends answers with one routing key, port 0.
SendAnswers(as) ==
    /\ answers' = answers \ Members(as)
    /\ Send(NewPacket(as[1].hops, 0, [i \in DOMAIN as |-> as[i].req]))
    /\ UNCHANGED <<toSend, tasks, contacted, delivered, visits, panicked>>

-----------------------------------------------------------------------------
Next ==
    /\ ~panicked
    /\ \/ \E p \in inFlight :
              LosePacket(p) \/ Forward(p) \/ SubmitTasks(p) \/ DeliverAnswers(p)
       \/ \E t \in tasks : OriginAnswers(t) \/ OriginFails(t)
       \/ \E as \in Batches(answers, [a \in answers |-> a.hops]) : SendAnswers(as)
       \/ \E rs \in Batches(toSend, [r \in toSend |-> r.path]) : SendRequests(rs)

Spec == Init /\ [][Next]_vars

\* Every goroutine that can proceed does; dialing and reading from the origin
\* have timeouts, and an idle aggregator's batch is sent at its deadline.  That a packet
\* under way arrives or is lost is an assumption on the nodes: SendPacket waits without
\* a deadline for a next node that takes no streams (TunnelManager, WaitsForPeer), and
\* a node whose handlers all wait so takes none.
LiveSpec == Spec /\ WF_vars(Next)

-----------------------------------------------------------------------------
\* The header can hold the path.  The routes of the control plane are not bounded
\* to it (see the README).
FitsHeader(r) == Len(r.path) <= MaxHops

\* The nodes that have to handle r's packets: up to the exit node, and back.
Walk(r) ==
    LET n == Len(r.path)
    IN  SubSeq(r.path, 2, n - 1) \o [i \in 1 .. n - 2 |-> r.path[n - 1 - i]]

IsPrefix(s, t) == Len(s) <= Len(t) /\ s = SubSeq(t, 1, Len(s))

\* However requests are batched, a packet is on its way to the hop that HopPos points
\* to, inside the header; one whose path fits the header visits the nodes of the path
\* in order, and the same nodes in reverse with the answer.
FollowsPath ==
    /\ \A p \in inFlight : p.hopPos \in 1 .. MaxHops - 1 /\ p.to = p.hopIP[p.hopPos]
    /\ \A r \in Reqs : FitsHeader(r) => IsPrefix(visits[r], Walk(r))

\* Every request over r's addresses names a port; the routing key leaves the ports out.
NamesPort(r) == \A q \in Reqs : q.path = r.path => q.port # 0

\* A request whose path fits the header is put to the origin of its path, at the port
\* of a request over the same addresses (its own, unless they share a batch); and only
\* the entry node of its own request gets an answer, after the whole walk.  A path that
\* is too long keeps its entry node if it names a port; without one, the request is
\* taken for an answer where the header ends.
RightEnds ==
    /\ \A c \in contacted :
           FitsHeader(c[1]) => /\ c[2] = c[1].path[Len(c[1].path)]
                               /\ \E q \in Reqs : q.path = c[1].path /\ q.port = c[3]
    /\ \A d \in delivered :
           /\ FitsHeader(d[1]) \/ NamesPort(d[1]) => d[2] = Head(d[1].path)
           /\ FitsHeader(d[1]) => visits[d[1]] = Walk(d[1])

\* If nodes take the packets sent to them, every request is answered at its entry node or
\* given up (unless it is too long and names no port): none circulates, and no node panics on the way (the index hops[1] of
\* doOriginRequest is in range).
EveryRequestSettles ==
    \A r \in Reqs :
        FitsHeader(r) \/ NamesPort(r) =>
            (r \notin toSend ~> r \in lost \/ <<r, Head(r.path)>> \in delivered)

\* README.md:153: a path with "only IP given" "uses the test_routing port as
\* destination port": the header carries the port the client connected to.
DefaultPort ==
    \A p \in inFlight : \A r \in Members(p.subs) :
        r \notin {c[1] : c \in contacted} /\ r.port = 0 => p.port = r.listenPort

=============================================================================
