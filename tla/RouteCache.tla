----------------------------- MODULE RouteCache -----------------------------
(***************************************************************************)
(* The routes that the handlers of data-proxy use (routingMap in           *)
(* server/handler.go, read and written by handleConnection and             *)
(* handleUDPConnection) and their source, GetRoutingFromControlPlane       *)
(* (server/routing.go).  An expired route is used once more while a        *)
(* goroutine fetches a new one.                                            *)
(*                                                                         *)
(* A route is the list of its paths, of which only the numbers of hops     *)
(* matter here.  An error gives a route without paths, which is cached     *)
(* like any other.                                                         *)
(***************************************************************************)
EXTENDS Integers, Sequences, FiniteSets

CONSTANTS
    Ports,       \* ports that have routes
    Conns,       \* client connections, each used again when its request has ended
    ProtoOf,     \* connection -> "tcp" or "udp"
    PortOf,      \* connection -> port
    TestPathMap, \* port -> the route of a configured test path
    Plans,       \* routes that the control plane may answer with
    MaxFaults,   \* bound: changes of the control plane's health
    Refreshers,  \* bound: refreshing goroutines at a time
    None

VARIABLES
    cpc,        \* connection -> where its handler is
    routeInfo,  \* connection -> the route it was given
    routingMap, \* port -> [info, fresh]; fresh until the deadline
    fetches,    \* who fetches -> [port, reply]
    health      \* <<"up", "failing" or "hung", changes so far>>

cacheVars == <<cpc, routeInfo, routingMap, fetches, health>>

NoPaths == <<>>

Init ==
    /\ cpc = [c \in Conns |-> "new"] /\ routeInfo = [c \in Conns |-> NoPaths]
    /\ routingMap = [p \in Ports |-> None]
    /\ fetches = [f \in Conns \cup Refreshers |-> None]
    /\ \E h \in {"up", "failing", "hung"} : health = <<h, 0>>

\* No request, or how the last one left: into the tunnels (see EntryProxy), straight
\* to the origin, or dropped for want of a path.
Ended == {"new", "tunnel", "direct", "dropped"}

Goto(c, label) == cpc' = [cpc EXCEPT ![c] = label]
Fetch(p) == [port |-> p, reply |-> None]

-----------------------------------------------------------------------------
\* The handler takes a connection or datagram.
Take(c) ==
    /\ cpc[c] \in Ended /\ Goto(c, "lookup")
    /\ UNCHANGED <<routeInfo, routingMap, fetches, health>>

\* Without an entry the handler fetches the route itself.
LookupMissing(c) ==
    /\ cpc[c] = "lookup" /\ routingMap[PortOf[c]] = None
    /\ fetches' = [fetches EXCEPT ![c] = Fetch(PortOf[c])]
    /\ Goto(c, "fetch")
    /\ UNCHANGED <<routeInfo, routingMap, health>>

\* Mutant: an expired entry is used without a refresh.
Refresh_Never(p) == UNCHANGED fetches

\* The refreshing goroutine; none is started beyond the bound.
Refresh(p) ==
    LET free == {f \in Refreshers : fetches[f] = None}
    IN  IF free = {} THEN UNCHANGED fetches
        ELSE \E f \in free : fetches' = [fetches EXCEPT ![f] = Fetch(p)]

\* Mutant: an expired entry is treated like a missing one.
LookupFound_Waits(c) ==
    LET entry == routingMap[PortOf[c]]
    IN  /\ cpc[c] = "lookup" /\ entry # None
        /\ IF entry.fresh
           THEN /\ routeInfo' = [routeInfo EXCEPT ![c] = entry.info]
                /\ Goto(c, "choose") /\ UNCHANGED fetches
           ELSE /\ fetches' = [fetches EXCEPT ![c] = Fetch(PortOf[c])]
                /\ Goto(c, "fetch") /\ UNCHANGED routeInfo
        /\ UNCHANGED <<routingMap, health>>

\* An entry is used, expired or not.
LookupFound(c) ==
    LET entry == routingMap[PortOf[c]]
    IN  /\ cpc[c] = "lookup" /\ entry # None
        /\ routeInfo' = [routeInfo EXCEPT ![c] = entry.info]
        /\ IF entry.fresh THEN UNCHANGED fetches ELSE Refresh(PortOf[c])
        /\ Goto(c, "choose")
        /\ UNCHANGED <<routingMap, health>>

\* GetRoutingFromControlPlane: a test path, or the control plane's answer, or no
\* path after an error.  http.Post has no deadline: a hung server holds it.
Answer(f) ==
    LET p == fetches[f].port
        local == p \in DOMAIN TestPathMap
        replies == IF local THEN {TestPathMap[p]} ELSE IF health[1] = "failing" THEN {NoPaths} ELSE Plans
    IN  /\ fetches[f] # None /\ fetches[f].reply = None /\ (local \/ health[1] # "hung")
        /\ \E r \in replies : fetches' = [fetches EXCEPT ![f].reply = r]
        /\ UNCHANGED <<cpc, routeInfo, routingMap, health>>

\* The answer becomes the entry, for the time routeTimeout.
Store(f) ==
    /\ fetches[f] # None /\ fetches[f].reply # None
    /\ routingMap' = [routingMap EXCEPT ![fetches[f].port] = [info |-> fetches[f].reply, fresh |-> TRUE]]
    /\ fetches' = [fetches EXCEPT ![f] = None]
    /\ IF f \in Conns
       THEN Goto(f, "choose") /\ routeInfo' = [routeInfo EXCEPT ![f] = fetches[f].reply]
       ELSE UNCHANGED <<cpc, routeInfo>>
    /\ UNCHANGED health

\* TCP sends any path into the tunnels, preferring one with more than two hops; UDP
\* takes the first path, and goes straight to the origin when that is short.
WayOf(proto, paths) ==
    IF paths = <<>> THEN "dropped"
    ELSE IF proto = "udp" /\ Head(paths) <= 2 THEN "direct" ELSE "tunnel"

Choose(c) ==
    /\ cpc[c] = "choose"
    /\ Goto(c, WayOf(ProtoOf[c], routeInfo[c]))
    /\ routeInfo' = [routeInfo EXCEPT ![c] = NoPaths]
    /\ UNCHANGED <<routingMap, fetches, health>>

-----------------------------------------------------------------------------
\* routeTimeout passes.
Expire(p) ==
    /\ routingMap[p] # None /\ routingMap[p].fresh
    /\ routingMap' = [routingMap EXCEPT ![p].fresh = FALSE]
    /\ UNCHANGED <<cpc, routeInfo, fetches, health>>

\* The control plane fails, hangs or recovers.
ChangeHealth ==
    /\ health[2] < MaxFaults
    /\ \E h \in {"up", "failing", "hung"} \ {health[1]} : health' = <<h, health[2] + 1>>
    /\ UNCHANGED <<cpc, routeInfo, routingMap, fetches>>

HandlerStep(c) == LookupMissing(c) \/ LookupFound(c) \/ Choose(c)
FetchStep(f) == Answer(f) \/ Store(f)
Environment == ChangeHealth \/ \E p \in Ports : Expire(p)

=============================================================================
