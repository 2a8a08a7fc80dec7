----------------------------- MODULE EntryProxy -----------------------------
(***************************************************************************)
(* Requests at the entry node of data-proxy, from the accepted connection  *)
(* to the answer: the TCP worker pool and the UDP read loop                *)
(* (server/tcp-server.go, server/udp-server.go), the table of waiting      *)
(* requests (disaggregator.go) and the streams that bring answers          *)
(* (tunnel-listener.go, tunnel-handler.go).                                *)
(*                                                                         *)
(* A request is its client connection or datagram c.  Its 32-bit userID is *)
(* id[c]; the message sent into the tunnels, and the answer that comes     *)
(* back, are named c too and carry id[c].  The aggregator, the relays and  *)
(* the origin are the set "network" of requests they have not settled.     *)
(***************************************************************************)
EXTENDS Integers, Sequences, FiniteSets

CONSTANTS
    TCP, UDP,      \* TCP connections and UDP datagrams of the clients
    Segment,       \* request -> last octet of the client's IP
    IdSpace,       \* values of the sequence number in an id (2^24)
    Workers,       \* goroutines of the TCP pool
    MaxPending,    \* capacity of connChan
    UdpSlots,      \* capacity of udpSem
    StreamSlots,   \* capacity of streamSem
    PacketMax,     \* bound: answers in one packet
    None           \* no request, no answer

Reqs == TCP \cup UDP
Ids == {Segment[c] : c \in Reqs} \X (0 .. IdSpace - 1)

ASSUME EntryAssumption ==
    /\ None \notin Reqs /\ None \notin Ids /\ TCP \cap UDP = {}
    /\ "timeout" \notin Reqs \cup {None}
    /\ Segment \in [Reqs -> Nat]
    /\ {IdSpace, Workers, UdpSlots, StreamSlots, PacketMax} \subseteq Nat \ {0}
    /\ MaxPending \in Nat

VARIABLES
    connChan, \* accepted TCP connections that wait for a worker
    pc,       \* request -> where its handler is
    reqSeq,   \* the sequence counter of GenShortReqID
    id,       \* request -> reqID
    waiters,  \* d.waiters: id -> the request whose channel it maps to
    waitCh,   \* request -> the answer in the one-slot channel of its Register
    closed,   \* requests whose channel is closed
    answer,   \* request -> the answer written to the client, or "timeout"
    network,  \* requests sent and neither answered nor lost
    streams,  \* stream goroutines that deliver the answers of a packet
    panicked  \* a send on a closed channel ended the process

serverVars == <<connChan, pc, reqSeq, id, answer>>
tableVars == <<waiters, waitCh, closed>>
tunnelVars == <<network, streams>>
vars == <<serverVars, tableVars, tunnelVars, panicked>>

Init ==
    /\ connChan = <<>> /\ pc = [c \in Reqs |-> "new"] /\ reqSeq = 0
    /\ id = [c \in Reqs |-> None] /\ answer = [c \in Reqs |-> None]
    /\ waiters = [i \in Ids |-> None] /\ waitCh = [c \in Reqs |-> None] /\ closed = {}
    /\ network = {} /\ streams = {} /\ panicked = FALSE

\* The requests that a handler goroutine is working on.
Running == {c \in Reqs : pc[c] \notin {"new", "queued", "done"}}

\* The answers that stream s has still to deliver.
Undelivered(s) == s.rest \cup ({s.cur} \ {None})

\* The requests whose id is still of use: a handler may register or clean up with
\* it, or an answer with it may still come.
Outstanding ==
    {c \in Running : id[c] # None} \cup network \cup UNION {Undelivered(s) : s \in streams}

Goto(c, label) == pc' = [pc EXCEPT ![c] = label]

-----------------------------------------------------------------------------
\* Accepting work.

\* StartServerRun (TCP): hand the connection to the pool, or close it when the
\* queue is full.
Accept(c) ==
    /\ c \in TCP /\ pc[c] = "new"
    /\ IF Len(connChan) < MaxPending
       THEN connChan' = Append(connChan, c) /\ Goto(c, "queued")
       ELSE UNCHANGED connChan /\ Goto(c, "done")
    /\ UNCHANGED <<reqSeq, id, answer, tableVars, tunnelVars, panicked>>

\* A worker takes a connection.
TakeTask ==
    /\ connChan # <<>> /\ Cardinality(Running \cap TCP) < Workers
    /\ connChan' = Tail(connChan) /\ Goto(Head(connChan), "begin")
    /\ UNCHANGED <<reqSeq, id, answer, tableVars, tunnelVars, panicked>>

\* StartServerRun (UDP): once udpSem has room, a goroutine handles the datagram,
\* or the rate limiter turns it away.
ReadFromUDP(c) ==
    /\ c \in UDP /\ pc[c] = "new" /\ Cardinality(Running \cap UDP) < UdpSlots
    /\ Goto(c, "begin") \/ Goto(c, "done")
    /\ UNCHANGED <<connChan, reqSeq, id, answer, tableVars, tunnelVars, panicked>>

-----------------------------------------------------------------------------
\* handleConnection and handleUDPConnection.

\* (ipSegment << 24) | (seq & 0xFFFFFF)
NewId(c, n) == <<Segment[c], n % IdSpace>>

\* Mutant: the counter is not updated atomically, and an update may be lost.
GenShortReqID_LostUpdate(c) ==
    /\ pc[c] = "begin" /\ reqSeq' \in {reqSeq, reqSeq + 1}
    /\ id' = [id EXCEPT ![c] = NewId(c, reqSeq + 1)]
    /\ Goto(c, IF c \in TCP THEN "read" ELSE "route")
    /\ UNCHANGED <<connChan, answer, tableVars, tunnelVars, panicked>>

\* GenShortReqID.  The second conjunct is an assumption on the load: fewer than
\* IdSpace requests come from clients with one last octet while one of them is
\* outstanding.
GenShortReqID(c) ==
    /\ pc[c] = "begin"
    /\ \A d \in Outstanding : id[d] # NewId(c, reqSeq + 1)
    /\ reqSeq' = reqSeq + 1
    /\ id' = [id EXCEPT ![c] = NewId(c, reqSeq + 1)]
    /\ Goto(c, IF c \in TCP THEN "read" ELSE "route")
    /\ UNCHANGED <<connChan, answer, tableVars, tunnelVars, panicked>>

\* Read the client's line; on an error or the read deadline, return.
ReadRequest(c) ==
    /\ pc[c] = "read" /\ (Goto(c, "route") \/ Goto(c, "done"))
    /\ UNCHANGED <<connChan, reqSeq, id, answer, tableVars, tunnelVars, panicked>>

\* Choose a path (see RouteCache); without one, return.  A datagram whose path is
\* short is relayed to the origin directly, without a waiter.
ChooseRoute(c) ==
    /\ pc[c] = "route" /\ (Goto(c, "register") \/ Goto(c, "done"))
    /\ UNCHANGED <<connChan, reqSeq, id, answer, tableVars, tunnelVars, panicked>>

\* GlobalDisagg.Register: a fresh channel, in the table under the id.
Register(c) ==
    /\ pc[c] = "register"
    /\ waiters' = [waiters EXCEPT ![id[c]] = c]
    /\ Goto(c, "add")
    /\ UNCHANGED <<connChan, reqSeq, id, answer, waitCh, closed, tunnelVars, panicked>>

\* GlobalAggRequest.AddToBatch.
AddToBatch(c) ==
    /\ pc[c] = "add"
    /\ network' = network \cup {c}
    /\ Goto(c, "wait")
    /\ UNCHANGED <<connChan, reqSeq, id, answer, tableVars, streams, panicked>>

\* Mutant: the handler selects again after it has written the answer.
GetAnswer_Again(c) ==
    /\ pc[c] = "wait" /\ waitCh[c] # None
    /\ answer' = [answer EXCEPT ![c] = waitCh[c]]
    /\ waitCh' = [waitCh EXCEPT ![c] = None]
    /\ UNCHANGED <<connChan, pc, reqSeq, id, waiters, closed, tunnelVars, panicked>>

\* The select: an answer, written to the client.  The channel is closed by this
\* handler's own cleanup only, so the branch for a closed channel is not taken.
GetAnswer(c) ==
    /\ pc[c] = "wait" /\ waitCh[c] # None
    /\ answer' = [answer EXCEPT ![c] = waitCh[c]]
    /\ waitCh' = [waitCh EXCEPT ![c] = None]
    /\ Goto(c, "cleanup")
    /\ UNCHANGED <<connChan, reqSeq, id, waiters, closed, tunnelVars, panicked>>

\* The select: proxyTimeout.
Timeout(c) ==
    /\ pc[c] = "wait"
    /\ answer' = [answer EXCEPT ![c] = "timeout"]
    /\ Goto(c, "cleanup")
    /\ UNCHANGED <<connChan, reqSeq, id, tableVars, tunnelVars, panicked>>

\* cleanup: whatever the table holds under the id is deleted, the handler's own
\* channel is closed.
Unregister(c) ==
    /\ waiters' = [waiters EXCEPT ![id[c]] = None]
    /\ closed' = closed \cup {c}

\* The deferred cleanup, and the end of the handler.
Cleanup(c) ==
    /\ pc[c] = "cleanup"
    /\ Unregister(c)
    /\ Goto(c, "done")
    /\ UNCHANGED <<connChan, reqSeq, id, answer, waitCh, tunnelVars, panicked>>

-----------------------------------------------------------------------------
\* The tunnels: requests are lost (a send fails, the origin errs, a batch is
\* evicted) or answered, several of them in one packet; each packet is a stream
\* of its own, so packets are unordered.

Lose(c) ==
    /\ c \in network /\ network' = network \ {c}
    /\ UNCHANGED <<serverVars, tableVars, streams, panicked>>

\* handleConn accepts the stream of a packet that answers the requests cs.
AcceptUniStream(cs) ==
    /\ cs # {} /\ cs \subseteq network /\ Cardinality(cs) <= PacketMax
    /\ Cardinality(streams) < StreamSlots
    /\ network' = network \ cs
    /\ streams' = streams \cup {[rest |-> cs, cur |-> None, ch |-> None]}
    /\ UNCHANGED <<serverVars, tableVars, panicked>>

\* Mutant: the goroutine does not return after its last answer.
Advance_Stays(s) == streams' = (streams \ {s}) \cup {[s EXCEPT !.cur = None, !.ch = None]}

\* The stream after its current answer: the next one, or the end of the goroutine
\* and its streamSem slot.
Advance(s) ==
    streams' = (streams \ {s}) \cup
        (IF s.rest = {} THEN {} ELSE {[s EXCEPT !.cur = None, !.ch = None]})

\* Deliver, under d.mu.RLock: look the id up; an answer nobody waits for is dropped.
DeliverLookup(s, c) ==
    LET t == [s EXCEPT !.rest = @ \ {c}, !.cur = c]
    IN  /\ s.cur = None /\ c \in s.rest
        /\ IF waiters[id[c]] # None
           THEN streams' = (streams \ {s}) \cup {[t EXCEPT !.ch = waiters[id[c]]]}
           ELSE streams' = (streams \ {s}) \cup
                    (IF t.rest = {} THEN {} ELSE {[t EXCEPT !.cur = None]})
        /\ UNCHANGED <<serverVars, tableVars, network, panicked>>

\* Deliver: ch <- data, without the lock.  It waits while the slot is taken, and
\* panics when the channel has been closed meanwhile.
DeliverSend(s) ==
    /\ s.cur # None
    /\ \/ /\ s.ch \in closed /\ panicked' = TRUE
          /\ UNCHANGED <<waitCh, streams>>
       \/ /\ s.ch \notin closed /\ waitCh[s.ch] = None
          /\ waitCh' = [waitCh EXCEPT ![s.ch] = s.cur]
          /\ Advance(s)
          /\ UNCHANGED panicked
    /\ UNCHANGED <<serverVars, waiters, closed, network>>

-----------------------------------------------------------------------------
HandlerStep(c) ==
    \/ GenShortReqID(c) \/ ReadRequest(c) \/ ChooseRoute(c) \/ Register(c)
    \/ AddToBatch(c) \/ GetAnswer(c) \/ Timeout(c) \/ Cleanup(c)

StreamStep(s) == DeliverSend(s) \/ \E c \in s.rest : DeliverLookup(s, c)

TunnelStep(c) == Lose(c) \/ \E cs \in SUBSET network : c \in cs /\ AcceptUniStream(cs)

Next ==
    /\ ~panicked
    /\ \/ \E c \in Reqs : Accept(c) \/ ReadFromUDP(c) \/ HandlerStep(c) \/ TunnelStep(c)
       \/ TakeTask
       \/ \E s \in streams : StreamStep(s)

Spec == Init /\ [][Next]_vars

\* Goroutines that can proceed do; reads and waits have deadlines (10 s).  Three things
\* have no deadline in the code and are assumed to end: the http.Post to the local
\* control plane in ChooseRoute; AddToBatch, whose inputChan is drained while sends return
\* (Aggregator, EventuallyOut); and the stay of a request in the tunnels, which only
\* matters because the guard of GenShortReqID waits for the id to be free.
LiveSpec ==
    /\ Spec
    /\ WF_vars(~panicked /\ TakeTask)
    /\ \A c \in Reqs : WF_vars(~panicked /\ HandlerStep(c)) /\ WF_vars(~panicked /\ TunnelStep(c))
    /\ WF_vars(~panicked /\ \E s \in streams : StreamStep(s))

-----------------------------------------------------------------------------
Labels == {"new", "queued", "begin", "read", "route", "register", "add", "wait",
           "cleanup", "done"}

\* The state has the shape of the Go structs.  A stream holds a channel exactly
\* when it holds an answer for it, and ends with its last answer.
TypeOK ==
    /\ connChan \in Seq(TCP) /\ pc \in [Reqs -> Labels] /\ reqSeq \in Nat
    /\ id \in [Reqs -> Ids \cup {None}] /\ waiters \in [Ids -> Reqs \cup {None}]
    /\ waitCh \in [Reqs -> Reqs \cup {None}] /\ closed \subseteq Reqs
    /\ answer \in [Reqs -> Reqs \cup {None, "timeout"}]
    /\ network \subseteq Reqs /\ panicked \in BOOLEAN
    /\ streams \subseteq [rest : SUBSET Reqs, cur : Reqs \cup {None}, ch : Reqs \cup {None}]
    /\ \A s \in streams : (s.cur = None <=> s.ch = None) /\ (s.cur = None => s.rest # {})

Registered(c) == pc[c] \in {"add", "wait", "cleanup"}

\* The table holds exactly the handlers between Register and cleanup: no cleanup
\* (which deletes by id) removes another request's waiter, none is left behind.
TableIsExact ==
    \A i \in Ids, c \in Reqs : waiters[i] = c <=> Registered(c) /\ id[c] = i

\* A client is given the answer to its own request, whatever the order of
\* answers, timeouts and new requests that reuse an id.
OwnAnswer == \A c \in Reqs : answer[c] \in {None, "timeout", c}

\* A stream never waits on a full channel: ch <- data finds the slot empty.
DeliverNeverBlocks == \A s \in streams : s.ch # None => waitCh[s.ch] = None

\* Deliver panics only on an answer that its handler stopped waiting for between
\* Deliver's look-up and its send.
PanicOnlyOnLateAnswer ==
    panicked => \E s \in streams : s.ch \in closed /\ answer[s.ch] = "timeout"

\* Every stream goroutine returns, which frees its streamSem slot.
EveryStreamEnds == streams # {} ~> streams = {} \/ panicked

-----------------------------------------------------------------------------
\* What a client sees of its request.
Status ==
    [c \in Reqs |->
        CASE answer[c] = c -> "answered"
          [] answer[c] = "timeout" -> "timeout"
          [] answer[c] \notin {None, "timeout", c} -> "foreign"
          [] answer[c] = None /\ pc[c] = "new" -> "new"
          [] answer[c] = None /\ pc[c] = "done" -> "dropped"
          [] OTHER -> "open"]

Service == INSTANCE ProxyService WITH Requests <- Reqs, status <- Status, down <- panicked

\* The entry node is a ProxyService: whatever the queues, ids, streams and timeouts do,
\* each request is taken, answered or timed out or dropped once, and left alone then.
ImplementsService == Service!Spec

=============================================================================
