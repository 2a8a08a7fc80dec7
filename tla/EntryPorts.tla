----------------------------- MODULE EntryPorts -----------------------------
(***************************************************************************)
(* The two halves of data-proxy's client side together: the goroutines of  *)
(* Listeners accept connections and datagrams, whose handlers look up      *)
(* their routes in RouteCache.  A crash of the process ends both.          *)
(***************************************************************************)
EXTENDS Integers, Sequences, FiniteSets

CONSTANTS
    Ports, Starts, Ops, OpOf, None,
    Conns, ProtoOf, PortOf, TestPathMap, Plans, MaxFaults, Refreshers

\* Configured listeners and API calls name a protocol and a port; a socket is no None,
\* and the index of a configured listener is no API call.
Protocols == {"tcp", "udp"}
Sockets == [by : Nat \cup Ops, proto : Protocols, port : Ports]

ASSUME PortsAssumption ==
    /\ \A st \in Starts : st.config \in Seq([proto : Protocols, port : Ports])
    /\ OpOf \in [Ops -> [kind : {"start", "stop"}, proto : Protocols, port : Ports]]
    /\ Ops \cap Nat = {} /\ None \notin Sockets

VARIABLES
    config, taken, boot, opc, opening, listenerMap, opened, open, runners, crashed,
    cpc, routeInfo, routingMap, fetches, health

L == INSTANCE Listeners
R == INSTANCE RouteCache

listenerVars == <<config, taken, boot, opc, opening, listenerMap, opened, open, runners, crashed>>
cacheVars == <<cpc, routeInfo, routingMap, fetches, health>>
vars == <<listenerVars, cacheVars>>

Init == L!Init /\ R!Init

\* A goroutine of StartServerRun accepts from an open socket.
Accept(c) ==
    /\ \E l \in L!Served : l.proto = ProtoOf[c] /\ l.port = PortOf[c]
    /\ R!Take(c) /\ UNCHANGED listenerVars

Boot == L!BootStep /\ UNCHANGED cacheVars
Api(o) == L!ApiStep(o) /\ UNCHANGED cacheVars
RunnerStart == L!RunnerStep /\ UNCHANGED cacheVars
Handler(c) == R!HandlerStep(c) /\ UNCHANGED listenerVars
Fetching(f) == R!FetchStep(f) /\ UNCHANGED listenerVars
Outside == R!Environment /\ UNCHANGED listenerVars
Expiry(p) == R!Expire(p) /\ UNCHANGED listenerVars

Next ==
    /\ ~crashed
    /\ \/ Boot \/ RunnerStart \/ Outside
       \/ \E o \in Ops : Api(o)
       \/ \E c \in Conns : Accept(c) \/ Handler(c)
       \/ \E f \in Conns \cup Refreshers : Fetching(f)

\* Goroutines that can proceed do, deadlines pass, and clients keep coming.  Nothing
\* makes an operator call the API or a hung control plane answer.
Spec ==
    /\ Init /\ [][Next]_vars
    /\ WF_vars(~crashed /\ Boot) /\ WF_vars(~crashed /\ RunnerStart)
    /\ \A p \in Ports : WF_vars(~crashed /\ Expiry(p))
    /\ \A c \in Conns : WF_vars(~crashed /\ Accept(c)) /\ WF_vars(~crashed /\ Handler(c))
    /\ \A f \in Conns \cup Refreshers : WF_vars(~crashed /\ Fetching(f))

-----------------------------------------------------------------------------
\* The process ends only if a configured TCP port could not be bound at start-up, or
\* a port had a UDP socket too, or was stopped: the goroutine of a TCP server then
\* finds no TCP listener in the shared map.
CrashHasCause ==
    crashed =>
        \/ \E i \in DOMAIN config :
               config[i].proto = "tcp" /\ ~ \E s \in opened : s.by = i
        \/ \E r, s \in opened : r.port = s.port /\ r.proto # s.proto
        \/ opened # open

\* An open socket can be closed through the API (it is in the map, or about to be),
\* unless a socket of the other protocol took over its port.
OpenSocketsAreKnown ==
    \A s \in open :
        \/ listenerMap[s.port] = s
        \/ s = boot[2] \/ \E o \in Ops : opening[o] = s
        \/ \E r \in opened : r.port = s.port /\ r.proto # s.proto

\* The socket that is in the map comes to have a goroutine that accepts from it, or
\* leaves the map, however starts and stops of its port are interleaved.
MappedSocketIsServed ==
    \A p \in Ports :
        listenerMap[p] # None ~> listenerMap[p] = None \/ listenerMap[p] \in L!Served \/ crashed

\* Once a port has a route, its requests end without the control plane, even when
\* that hangs; only a request that found no route waits for it.
RoutedRequestsEnd ==
    \A c \in Conns :
        cpc[c] = "lookup" /\ routingMap[PortOf[c]] # None ~> cpc[c] \in R!Ended \/ crashed

\* An outage is overcome: with the control plane up for good and the port served,
\* the cache comes to hold a current route and keeps it, although empty and late
\* replies are cached too.
OutageIsOvercome ==
    \A c \in Conns :
        <>[](health[1] = "up" /\ \E l \in L!Served : l.proto = ProtoOf[c] /\ l.port = PortOf[c])
        => <>[](crashed \/ (routingMap[PortOf[c]] # None
                            /\ routingMap[PortOf[c]].info # R!NoPaths))

=============================================================================
