-------------------------- MODULE EntryPortsProofs --------------------------
(***************************************************************************)
(* The safety theorems of EntryPorts about the sockets on which clients    *)
(* are served, for any ports, configuration and API calls.                 *)
(***************************************************************************)
EXTENDS EntryPorts, TLAPS

CallLabels == {"new", "listen", "register", "200", "409", "500", "panic"}

PortsType ==
    /\ config \in Seq([proto : Protocols, port : Ports])
    /\ boot = <<boot[1], boot[2]>> /\ boot[1] \in Nat \ {0} /\ boot[2] \in Sockets \cup {None}
    /\ opc \in [Ops -> CallLabels]
    /\ opening \in [Ops -> Sockets \cup {None}]
    /\ listenerMap \in [Ports -> Sockets \cup {None}]
    /\ opened \subseteq Sockets /\ open \subseteq opened
    /\ runners \subseteq [by : Nat \cup Ops, proto : Protocols, port : Ports,
                          at : Sockets \cup {None}]

\* A socket that is opened is new: its opener opens one only.
OpenersInv ==
    \A s \in opened :
        /\ s.by \in Nat => s.by < boot[1] \/ s = boot[2]
        /\ s.by \in Ops => opc[s.by] \notin {"new", "listen"}

\* Sockets that are opened and not yet entered, and those that are in the map.
PlacesInv ==
    /\ boot[2] # None => boot[2] \in open /\ boot[2].by = boot[1]
    /\ \A o \in Ops :
           /\ opc[o] = "register" => opening[o] # None
           /\ opening[o] # None => opening[o] \in open /\ opening[o].by = o /\ opc[o] = "register"
    /\ \A p \in Ports :
           LET l == listenerMap[p]
           IN  l # None => /\ l \in open /\ l.port = p
                           /\ l.by \in Nat => l.by < boot[1]
                           /\ l.by \in Ops => opc[l.by] # "register"

\* The operating system binds a port once for each protocol.
BoundOnce == \A s, t \in open : s.proto = t.proto /\ s.port = t.port => s = t

\* A goroutine of a configured listener that could not be bound.
Unbound(r) ==
    /\ r.by \in DOMAIN config /\ r.by < boot[1] /\ config[r.by].proto = r.proto
    /\ \A s \in opened : s.by # r.by

\* A goroutine whose socket was entered, and after which the port lost its entry only
\* by a stop.
Entered(r) ==
    /\ \E s \in opened : s.port = r.port /\ s.proto = r.proto
    /\ listenerMap[r.port] # None \/ opened # open

RunnersInv == \A r \in runners : r.at = None => Unbound(r) \/ Entered(r)

SocketInv ==
    /\ PortsType /\ OpenersInv /\ PlacesInv /\ BoundOnce /\ RunnersInv
    /\ CrashHasCause /\ OpenSocketsAreKnown

-----------------------------------------------------------------------------
LEMMA SocketInit == Init => SocketInv
  <1> SUFFICES ASSUME Init PROVE SocketInv
    BY Zenon
  <1>1. PICK st \in Starts : config = st.config
    BY Zenon DEF Init, L!Init
  <1>2. config \in Seq([proto : Protocols, port : Ports])
    BY <1>1, PortsAssumption, Zenon
  <1>3. PortsType
    <2>1. boot = <<boot[1], boot[2]>> /\ boot[1] = 1 /\ boot[2] = None
      BY Zenon DEF Init, L!Init
    <2>2. opc \in [Ops -> CallLabels]
      BY Zenon DEF Init, L!Init, CallLabels
    <2>3. opening \in [Ops -> Sockets \cup {None}] /\ listenerMap \in [Ports -> Sockets \cup {None}]
      BY Zenon DEF Init, L!Init
    <2>4. opened = {} /\ open = {} /\ runners = {}
      BY Zenon DEF Init, L!Init
    <2> QED
      BY <1>2, <2>1, <2>2, <2>3, <2>4 DEF PortsType
  <1> QED
    BY <1>3, Zenon DEF Init, L!Init, SocketInv, OpenersInv, PlacesInv, BoundOnce, RunnersInv,
                CrashHasCause, OpenSocketsAreKnown

\* A socket that is opened, whose opener keeps it.
LEMMA BindKeepsInv ==
    ASSUME SocketInv, ~crashed, NEW s \in Sockets, L!CanBind(s), L!Bind(s), s \notin opened,
           UNCHANGED <<config, listenerMap, runners, crashed>>,
           \/ /\ s.by = boot[1] /\ boot[2] = None /\ boot' = <<boot[1], s>>
              /\ UNCHANGED <<opc, opening>>
           \/ /\ s.by \in Ops /\ opc[s.by] = "listen" /\ UNCHANGED boot
              /\ opc' = [opc EXCEPT ![s.by] = "register"]
              /\ opening' = [opening EXCEPT ![s.by] = s]
    PROVE  SocketInv'
  <1>1. open' = open \cup {s} /\ opened' = opened \cup {s} /\ s # None
    BY PortsAssumption, Zenon DEF L!Bind
  <1>2. boot'[1] = boot[1] /\ boot[1] \in Nat
    BY DEF SocketInv, PortsType
  <1>3. PortsType'
    BY <1>1 DEF SocketInv, PortsType, CallLabels
  <1>4. OpenersInv'
    BY <1>1, <1>2, PortsAssumption DEF SocketInv, PortsType, OpenersInv
  <1>5. PlacesInv'
    <2>1. boot'[2] # None => boot'[2] \in open' /\ boot'[2].by = boot'[1]
      BY <1>1, <1>2 DEF SocketInv, PortsType, PlacesInv
    <2>2. ASSUME NEW o \in Ops
          PROVE  /\ opc'[o] = "register" => opening'[o] # None
                 /\ opening'[o] # None =>
                        opening'[o] \in open' /\ opening'[o].by = o /\ opc'[o] = "register"
      BY <1>1 DEF SocketInv, PortsType, PlacesInv
    <2>3. ASSUME NEW p \in Ports, listenerMap[p] # None
          PROVE  LET l == listenerMap[p]
                 IN  /\ l \in open' /\ l.port = p
                     /\ l.by \in Nat => l.by < boot'[1]
                     /\ l.by \in Ops => opc'[l.by] # "register"
      <3>1. listenerMap[p] \in opened
        BY <2>3, Zenon DEF SocketInv, PortsType, PlacesInv
      <3>2. listenerMap[p].by \in Ops => opc[listenerMap[p].by] \notin {"listen", "register"}
        BY <2>3, <3>1, Zenon DEF SocketInv, OpenersInv, PlacesInv
      <3> QED
        BY <1>1, <1>2, <2>3, <3>2 DEF SocketInv, PortsType, PlacesInv
    <2> QED
      BY <2>1, <2>2, <2>3, Zenon DEF PlacesInv
  <1>6. BoundOnce'
    BY <1>1 DEF SocketInv, BoundOnce, L!CanBind
  <1>7. RunnersInv'
    <2> SUFFICES ASSUME NEW r \in runners, r.at = None PROVE Unbound(r)' \/ Entered(r)'
      BY Zenon DEF RunnersInv
    <2>1. CASE Unbound(r)
      <3>1. r.by \in Nat /\ r.by < boot[1]
        BY <2>1 DEF Unbound, SocketInv, PortsType
      <3>2. s.by # r.by
        BY <1>2, <3>1, PortsAssumption
      <3> QED
        BY <1>1, <1>2, <2>1, <3>2, Zenon DEF Unbound
    <2>2. CASE Entered(r)
      <3>1. opened # open => opened' # open'
        <4> SUFFICES ASSUME opened # open PROVE opened' # open'
          BY Zenon
        <4>1. PICK t \in opened : t \notin open
          BY Zenon DEF SocketInv, PortsType
        <4> QED
          BY <1>1, <4>1, Zenon
      <3> QED
        BY <1>1, <2>2, <3>1, Zenon DEF Entered
    <2> QED
      BY <2>1, <2>2, Zenon DEF SocketInv, RunnersInv
  <1>8. CrashHasCause'
    BY Zenon DEF CrashHasCause
  <1>9. OpenSocketsAreKnown'
    <2> SUFFICES ASSUME NEW t \in open'
                 PROVE  \/ listenerMap'[t.port] = t
                        \/ t = boot'[2] \/ \E o \in Ops : opening'[o] = t
                        \/ \E r \in opened' : r.port = t.port /\ r.proto # t.proto
      BY Zenon DEF OpenSocketsAreKnown
    <2>1. CASE t = s
      BY <2>1 DEF SocketInv, PortsType
    <2>2. CASE t \in open
      <3>1. t = boot[2] => t = boot'[2]
        BY <2>2, PortsAssumption, Zenon DEF SocketInv, PortsType
      <3>2. \A o \in Ops : opening[o] = t => opening'[o] = t
        BY <2>2, PortsAssumption DEF SocketInv, PortsType, PlacesInv
      <3> QED
        BY <1>1, <2>2, <3>1, <3>2, Zenon DEF SocketInv, OpenSocketsAreKnown
    <2> QED
      BY <1>1, <2>1, <2>2, Zenon
  <1> QED
    BY <1>3, <1>4, <1>5, <1>6, <1>7, <1>8, <1>9, Zenon DEF SocketInv

\* No socket of the configured listener that comes next was opened.
LEMMA BootSocketIsNew ==
    ASSUME SocketInv, L!Booting, boot[2] = None
    PROVE  /\ boot[1] \in DOMAIN config /\ L!BootSocket \in Sockets
           /\ \A s \in opened : s.by # boot[1]
  <1>1. boot[1] \in DOMAIN config
    BY DEF SocketInv, PortsType, L!Booting
  <1>2. config[boot[1]] \in [proto : Protocols, port : Ports]
    <2> DEFINE Configured == [proto : Protocols, port : Ports]
    <2>1. config \in Seq(Configured)
      BY Zenon DEF SocketInv, PortsType
    <2> HIDE DEF Configured
    <2>2. config[boot[1]] \in Configured
      BY <1>1, <2>1
    <2> QED
      BY <2>2, Zenon DEF Configured
  <1>3. L!BootSocket \in Sockets
    BY <1>2, Zenon DEF SocketInv, PortsType, L!BootSocket, Sockets
  <1>4. \A s \in opened : s.by # boot[1]
    BY PortsAssumption DEF SocketInv, PortsType, OpenersInv
  <1> QED
    BY <1>1, <1>3, <1>4, Zenon

LEMMA BootListenKeepsInv ==
    ASSUME SocketInv, ~crashed, L!BootListen
    PROVE  SocketInv'
  <1> DEFINE s == L!BootSocket
  <1>1. /\ boot[1] \in DOMAIN config /\ s \in Sockets /\ s.by = boot[1]
        /\ s.proto = config[boot[1]].proto
        /\ \A t \in opened : t.by # boot[1]
    BY BootSocketIsNew, Zenon DEF L!BootListen, L!BootSocket
  <1>2. CASE L!CanBind(s)
    <2>1. s \notin opened
      BY <1>1, Zenon
    <2> HIDE DEF s
    <2> QED
      BY <1>1, <1>2, <2>1, BindKeepsInv, Zenon DEF L!BootListen, s
  <1>3. CASE ~L!CanBind(s)
    <2> PICK new \in {L!Runner(boot[1], s)} : TRUE
      BY Zenon
    <2>1. /\ boot' = <<boot[1] + 1, None>> /\ runners' = runners \cup {new}
          /\ boot[1] \in Nat \ {0}
          /\ UNCHANGED <<config, opc, opening, listenerMap, opened, open, crashed>>
      BY <1>3, Zenon DEF L!BootListen, SocketInv, PortsType
    <2>2. /\ new.by = boot[1] /\ new.proto = s.proto
          /\ new \in [by : Nat \cup Ops, proto : Protocols, port : Ports, at : Sockets \cup {None}]
      BY <1>1, <2>1 DEF L!Runner, Sockets
    <2> HIDE DEF s
    <2>3. PortsType'
      BY <2>1, <2>2 DEF SocketInv, PortsType
    <2>4. OpenersInv' /\ PlacesInv' /\ BoundOnce'
      BY <2>1, PortsAssumption, <1>1 DEF SocketInv, PortsType, OpenersInv, PlacesInv, BoundOnce
    <2>5. RunnersInv'
      <3>1. Unbound(new)'
        BY <1>1, <2>1, <2>2 DEF Unbound
      <3>2. ASSUME NEW r \in runners, r.at = None PROVE Unbound(r)' \/ Entered(r)'
        <4>1. CASE Unbound(r)
          BY <2>1, <4>1 DEF Unbound, SocketInv, PortsType
        <4>2. CASE Entered(r)
          BY <2>1, <4>2, Zenon DEF Entered
        <4> QED
          BY <3>2, <4>1, <4>2, Zenon DEF SocketInv, RunnersInv
      <3> QED
        BY <2>1, <3>1, <3>2, Zenon DEF RunnersInv
    <2>6. CrashHasCause' /\ OpenSocketsAreKnown'
      BY <2>1 DEF L!BootListen, SocketInv, PortsType, CrashHasCause, OpenSocketsAreKnown
    <2> QED
      BY <2>3, <2>4, <2>5, <2>6, Zenon DEF SocketInv
  <1> QED
    BY <1>2, <1>3, Zenon

\* A socket that enters the map, in place of the one that was there: that one is of
\* the other protocol, since both are open.
LEMMA EnterKeepsInv ==
    ASSUME SocketInv, ~crashed, NEW s \in open, NEW by \in Nat \cup Ops, L!Enter(by, s),
           UNCHANGED <<config, opened, open, crashed>>,
           \/ /\ s = boot[2] /\ boot' = <<boot[1] + 1, None>> /\ UNCHANGED <<opc, opening>>
           \/ /\ by \in Ops /\ opc[by] = "register" /\ s = opening[by] /\ UNCHANGED boot
              /\ opc' = [opc EXCEPT ![by] = "200"] /\ opening' = [opening EXCEPT ![by] = None]
    PROVE  SocketInv'
  <1> PICK new \in {L!Runner(by, s)} : TRUE
    BY Zenon
  <1>1. /\ listenerMap' = [listenerMap EXCEPT ![s.port] = s]
        /\ runners' = runners \cup {new}
    BY Zenon DEF L!Enter
  <1>2. s \in Sockets /\ s # None /\ s.port \in Ports /\ s.proto \in Protocols
    BY PortsAssumption DEF SocketInv, PortsType, Sockets
  <1>3. /\ new.port = s.port /\ new.proto = s.proto
        /\ new \in [by : Nat \cup Ops, proto : Protocols, port : Ports, at : Sockets \cup {None}]
    BY <1>2 DEF L!Runner
  <1>4. boot[1] \in Nat \ {0} /\ boot'[1] \in Nat \ {0} /\ boot'[1] >= boot[1]
    BY DEF SocketInv, PortsType
  <1>5. PortsType'
    BY <1>1, <1>2, <1>3, <1>4 DEF SocketInv, PortsType, CallLabels
  <1>6. \/ s.by \in Nat /\ s.by < boot'[1] /\ s.by \notin Ops
        \/ s.by \in Ops /\ opc'[s.by] = "200" /\ s.by \notin Nat
    BY <1>2, <1>4, PortsAssumption DEF SocketInv, PortsType, PlacesInv
  <1>7. OpenersInv'
    BY <1>4, PortsAssumption DEF SocketInv, PortsType, OpenersInv, PlacesInv
  <1>8. PlacesInv'
    <2>1. boot'[2] # None => boot'[2] \in open' /\ boot'[2].by = boot'[1]
      BY DEF SocketInv, PortsType, PlacesInv
    <2>2. ASSUME NEW o \in Ops
          PROVE  /\ opc'[o] = "register" => opening'[o] # None
                 /\ opening'[o] # None =>
                        opening'[o] \in open' /\ opening'[o].by = o /\ opc'[o] = "register"
      BY DEF SocketInv, PortsType, PlacesInv
    <2>3. ASSUME NEW p \in Ports, listenerMap'[p] # None
          PROVE  LET l == listenerMap'[p]
                 IN  /\ l \in open' /\ l.port = p
                     /\ l.by \in Nat => l.by < boot'[1]
                     /\ l.by \in Ops => opc'[l.by] # "register"
      <3>1. CASE p = s.port
        BY <1>1, <1>6, <3>1, Zenon DEF SocketInv, PortsType
      <3>2. CASE p # s.port
        <4>1. listenerMap'[p] = listenerMap[p]
          BY <1>1, <3>2, Zenon DEF SocketInv, PortsType
        <4>2. \A o \in Ops : opc[o] # "register" => opc'[o] # "register"
          BY Zenon DEF SocketInv, PortsType
        <4> QED
          BY <1>4, <2>3, <4>1, <4>2 DEF SocketInv, PortsType, PlacesInv
      <3> QED
        BY <3>1, <3>2, Zenon
    <2> QED
      BY <2>1, <2>2, <2>3, Zenon DEF PlacesInv
  <1>9. BoundOnce'
    BY Zenon DEF SocketInv, BoundOnce
  <1>10. RunnersInv'
    <2>1. \A p \in Ports : listenerMap[p] # None => listenerMap'[p] # None
      BY <1>1, <1>2, Zenon DEF SocketInv, PortsType
    <2>2. Entered(new)'
      BY <1>1, <1>2, <1>3, Zenon DEF Entered, SocketInv, PortsType
    <2>3. ASSUME NEW r \in runners, r.at = None PROVE Unbound(r)' \/ Entered(r)'
      <3>1. CASE Unbound(r)
        BY <1>4, <3>1 DEF Unbound, SocketInv, PortsType
      <3>2. CASE Entered(r)
        BY <2>1, <3>2, Zenon DEF Entered, SocketInv, PortsType
      <3> QED
        BY <2>3, <3>1, <3>2, Zenon DEF SocketInv, RunnersInv
    <2> QED
      BY <1>1, <2>2, <2>3, Zenon DEF RunnersInv
  <1>11. CrashHasCause'
    BY Zenon DEF CrashHasCause
  <1>12. OpenSocketsAreKnown'
    <2> SUFFICES ASSUME NEW t \in open
                 PROVE  \/ listenerMap'[t.port] = t
                        \/ t = boot'[2] \/ \E o \in Ops : opening'[o] = t
                        \/ \E r \in opened' : r.port = t.port /\ r.proto # t.proto
      BY Zenon DEF OpenSocketsAreKnown
    <2>1. CASE t = s
      BY <1>1, <1>2, <2>1, Zenon DEF SocketInv, PortsType
    <2>2. CASE t # s /\ t.port = s.port
      BY <2>2, Zenon DEF SocketInv, PortsType, BoundOnce
    <2>3. CASE t # s /\ t.port # s.port
      <3>1. listenerMap[t.port] = t => listenerMap'[t.port] = t
        BY <1>1, <2>3, Zenon DEF SocketInv, PortsType, Sockets
      <3>2. \A o \in Ops : opening[o] = t => opening'[o] = t
        BY <2>3, Zenon DEF SocketInv, PortsType
      <3> QED
        BY <2>3, <3>1, <3>2, Zenon DEF SocketInv, OpenSocketsAreKnown
    <2> QED
      BY <2>1, <2>2, <2>3, Zenon
  <1> QED
    BY <1>5, <1>7, <1>8, <1>9, <1>10, <1>11, <1>12, Zenon DEF SocketInv

\* A step of an API call that opens and enters no socket.
LEMMA CallKeepsInv ==
    ASSUME SocketInv, ~crashed, NEW o \in Ops, opc[o] \in {"new", "listen"},
           NEW label \in CallLabels \ {"new", "register"}, label = "listen" => opc[o] = "new",
           opc' = [opc EXCEPT ![o] = label],
           UNCHANGED <<config, boot, opening, listenerMap, opened, open, runners, crashed>>
    PROVE  SocketInv'
  <1>1. PortsType'
    BY Zenon DEF SocketInv, PortsType
  <1>2. \A c \in Ops : (opc'[c] = "register") <=> (opc[c] = "register")
    BY Zenon DEF SocketInv, PortsType
  <1>3. \A c \in Ops : opc'[c] \in {"new", "listen"} => opc[c] \in {"new", "listen"}
    BY Zenon DEF SocketInv, PortsType
  <1>4. OpenersInv'
    BY <1>3, Zenon DEF SocketInv, OpenersInv
  <1>5. PlacesInv'
    BY <1>2, Zenon DEF SocketInv, PlacesInv
  <1>6. BoundOnce' /\ CrashHasCause' /\ OpenSocketsAreKnown'
    BY Zenon DEF SocketInv, BoundOnce, CrashHasCause, OpenSocketsAreKnown
  <1>7. RunnersInv'
    BY Zenon DEF SocketInv, RunnersInv, Unbound, Entered
  <1> QED
    BY <1>1, <1>4, <1>5, <1>6, <1>7, Zenon DEF SocketInv

\* A stop closes the socket of the map's entry; no other place refers to that socket.
LEMMA CloseKeepsInv ==
    ASSUME SocketInv, ~crashed, NEW o \in Ops, opc[o] = "new", NEW p \in Ports,
           listenerMap[p] # None, L!Close(p), opc' = [opc EXCEPT ![o] = "200"],
           UNCHANGED <<config, boot, opening, opened, runners, crashed>>
    PROVE  SocketInv'
  <1> PICK l \in {listenerMap[p]} : TRUE
    BY Zenon
  <1>1. open' = open \ {l} /\ listenerMap' = [listenerMap EXCEPT ![p] = None]
    BY Zenon DEF L!Close
  <1>2. /\ l \in open /\ l \in opened /\ l.port = p /\ l # boot[2]
        /\ \A c \in Ops : opening[c] # l
    BY DEF SocketInv, PortsType, PlacesInv
  <1>3. PortsType'
    BY <1>1, Zenon DEF SocketInv, PortsType, CallLabels
  <1>4. OpenersInv'
    BY Zenon DEF SocketInv, PortsType, OpenersInv
  <1>5. \A q \in Ports : listenerMap'[q] # None =>
            q # p /\ listenerMap'[q] = listenerMap[q] /\ listenerMap[q] # l
    BY <1>1, <1>2 DEF SocketInv, PortsType, PlacesInv
  <1>6. \A c \in Ops : (opc'[c] = "register") <=> (opc[c] = "register")
    BY Zenon DEF SocketInv, PortsType
  <1>7. PlacesInv'
    BY <1>1, <1>2, <1>5, <1>6 DEF SocketInv, PlacesInv
  <1>8. BoundOnce'
    BY <1>1, Zenon DEF SocketInv, BoundOnce
  <1>9. opened' # open'
    BY <1>1, <1>2, Zenon
  <1>10. RunnersInv'
    BY <1>9, Zenon DEF SocketInv, RunnersInv, Unbound, Entered
  <1>11. CrashHasCause'
    BY Zenon DEF CrashHasCause
  <1>12. OpenSocketsAreKnown'
    <2>1. \A t \in open' : listenerMap[t.port] = t => listenerMap'[t.port] = t
      BY <1>1, <1>2, Zenon DEF SocketInv, PortsType, Sockets
    <2> QED
      BY <1>1, <2>1, Zenon DEF SocketInv, OpenSocketsAreKnown
  <1> QED
    BY <1>3, <1>4, <1>7, <1>8, <1>10, <1>11, <1>12, Zenon DEF SocketInv

\* A goroutine that looks its socket up.  One that finds none of its protocol was never
\* bound, or finds the other protocol's socket, or its port was stopped.
LEMMA RunnerKeepsInv ==
    ASSUME SocketInv, ~crashed, NEW r \in runners, L!RunnerLooksUp(r)
    PROVE  SocketInv'
  <1> PICK l \in {listenerMap[r.port]} : TRUE
    BY Zenon
  <1>1. /\ r.at = None /\ r.port \in Ports /\ r.proto \in Protocols
        /\ r \in [by : Nat \cup Ops, proto : Protocols, port : Ports, at : Sockets \cup {None}]
    BY Zenon DEF L!RunnerLooksUp, SocketInv, PortsType
  <1>2. UNCHANGED <<config, boot, opc, opening, listenerMap, opened, open>>
    BY Zenon DEF L!RunnerLooksUp
  <1>3. OpenersInv' /\ PlacesInv' /\ BoundOnce' /\ OpenSocketsAreKnown'
    BY <1>2 DEF SocketInv, OpenersInv, PlacesInv, BoundOnce, OpenSocketsAreKnown
  <1>4. CASE l # None /\ l.proto = r.proto
    <2>1. runners' = (runners \ {r}) \cup {[r EXCEPT !.at = l]} /\ UNCHANGED crashed
      BY <1>4, Zenon DEF L!RunnerLooksUp
    <2>2. l \in Sockets /\ l # None /\ [r EXCEPT !.at = l].at = l
      BY <1>1, <1>4, Zenon DEF SocketInv, PortsType
    <2>3. PortsType'
      BY <1>1, <1>2, <2>1, <2>2 DEF SocketInv, PortsType
    <2>4. RunnersInv'
      BY <1>2, <2>1, <2>2, Zenon DEF SocketInv, RunnersInv, Unbound, Entered
    <2>5. CrashHasCause'
      BY <2>1, Zenon DEF CrashHasCause
    <2> QED
      BY <1>3, <2>3, <2>4, <2>5, Zenon DEF SocketInv
  <1>5. CASE ~(l # None /\ l.proto = r.proto)
    <2>1. runners' = runners \ {r} /\ (crashed' => r.proto = "tcp")
      BY <1>5, Zenon DEF L!RunnerLooksUp
    <2>2. PortsType'
      BY <1>2, <2>1, Zenon DEF SocketInv, PortsType
    <2>3. RunnersInv'
      BY <1>2, <2>1, Zenon DEF SocketInv, RunnersInv, Unbound, Entered
    <2>4. CrashHasCause'
      <3> SUFFICES ASSUME r.proto = "tcp" PROVE CrashHasCause'
        BY <2>1, Zenon DEF CrashHasCause
      <3>1. CASE Unbound(r)
        BY <1>2, <3>1, Zenon DEF Unbound, CrashHasCause
      <3>2. CASE Entered(r) /\ listenerMap[r.port] = None
        BY <1>2, <3>2, Zenon DEF Entered, CrashHasCause
      <3>3. CASE Entered(r) /\ listenerMap[r.port] # None
        <4>1. l \in opened /\ l.port = r.port /\ l.proto # r.proto
          BY <1>1, <1>5, <3>3 DEF SocketInv, PortsType, PlacesInv
        <4> QED
          BY <1>2, <3>3, <4>1 DEF Entered, CrashHasCause
      <3> QED
        BY <1>1, <3>1, <3>2, <3>3, Zenon DEF SocketInv, RunnersInv
    <2> QED
      BY <1>3, <2>2, <2>3, <2>4 DEF SocketInv
  <1> QED
    BY <1>4, <1>5, Zenon

-----------------------------------------------------------------------------
LEMMA ApiKeepsInv ==
    ASSUME SocketInv, ~crashed, NEW o \in Ops, L!ApiStep(o)
    PROVE  SocketInv'
  <1>1. OpOf[o].proto \in Protocols /\ OpOf[o].port \in Ports
    BY PortsAssumption, Zenon
  <1>2. CASE L!StartCheck(o)
    <2> PICK label \in {IF OpOf[o].port \in L!portMap THEN "409" ELSE "listen"} : TRUE
      BY Zenon
    <2>1. /\ label \in {"409", "listen"} /\ opc[o] = "new" /\ opc' = [opc EXCEPT ![o] = label]
          /\ UNCHANGED <<config, boot, opening, listenerMap, opened, open, runners, crashed>>
      BY <1>2, Zenon DEF L!StartCheck, L!Call
    <2> QED
      BY <2>1, CallKeepsInv, Zenon DEF CallLabels
  <1>3. CASE L!StartListen(o)
    <2> PICK s \in {[by |-> o, proto |-> OpOf[o].proto, port |-> OpOf[o].port]} : TRUE
      BY Zenon
    <2>1. s \in Sockets /\ s.by = o /\ opc[o] = "listen"
      BY <1>1, <1>3 DEF Sockets, L!StartListen, L!Call
    <2>2. s \notin opened
      BY <2>1, Zenon DEF SocketInv, OpenersInv
    <2>3. CASE L!CanBind(s)
      <3>1. /\ L!Bind(s) /\ opc' = [opc EXCEPT ![s.by] = "register"]
            /\ opening' = [opening EXCEPT ![s.by] = s]
            /\ UNCHANGED <<config, boot, listenerMap, runners, crashed>>
        BY <1>3, <2>1, <2>3, Zenon DEF L!StartListen
      <3> QED
        BY <2>1, <2>2, <2>3, <3>1, BindKeepsInv, Zenon
    <2>4. CASE ~L!CanBind(s)
      <3>1. /\ opc' = [opc EXCEPT ![o] = "500"]
            /\ UNCHANGED <<config, boot, opening, listenerMap, opened, open, runners, crashed>>
        BY <1>3, <2>4, Zenon DEF L!StartListen
      <3> QED
        BY <2>1, <3>1, CallKeepsInv, Zenon DEF CallLabels
    <2> QED
      BY <2>3, <2>4, Zenon
  <1>4. CASE L!StartRegister(o)
    <2> PICK s \in {opening[o]} : TRUE
      BY Zenon
    <2>1. opc[o] = "register" /\ s = opening[o] /\ s \in open
      BY <1>4, Zenon DEF L!StartRegister, L!Call, SocketInv, PlacesInv
    <2>2. /\ L!Enter(o, s) /\ opc' = [opc EXCEPT ![o] = "200"]
          /\ opening' = [opening EXCEPT ![o] = None]
          /\ UNCHANGED <<config, boot, opened, open, crashed>>
      BY <1>4, Zenon DEF L!StartRegister
    <2> QED
      BY <2>1, <2>2, EnterKeepsInv, Zenon
  <1>5. CASE L!StopServer(o)
    <2>1. opc[o] = "new" /\ UNCHANGED <<config, boot, opening, opened, runners, crashed>>
      BY <1>5, Zenon DEF L!StopServer, L!Call
    <2>2. \/ /\ listenerMap[OpOf[o].port] # None /\ L!Close(OpOf[o].port)
             /\ opc' = [opc EXCEPT ![o] = "200"]
          \/ UNCHANGED <<open, listenerMap>> /\ opc' = [opc EXCEPT ![o] = "200"]
          \/ UNCHANGED <<open, listenerMap>> /\ opc' = [opc EXCEPT ![o] = "panic"]
      BY <1>5, Zenon DEF L!StopServer
    <2> QED
      BY <1>1, <2>1, <2>2, CloseKeepsInv, CallKeepsInv, Zenon DEF CallLabels
  <1> QED
    BY <1>2, <1>3, <1>4, <1>5, Zenon DEF L!ApiStep

LEMMA SocketsStep == SocketInv /\ [Next]_vars => SocketInv'
  <1> SUFFICES ASSUME SocketInv, [Next]_vars PROVE SocketInv'
    BY Zenon
  <1>1. CASE UNCHANGED listenerVars
    BY <1>1 DEF listenerVars, SocketInv, PortsType, OpenersInv, PlacesInv, BoundOnce, RunnersInv,
                Unbound, Entered, CrashHasCause, OpenSocketsAreKnown
  <1>2. CASE ~crashed /\ L!BootListen
    BY <1>2, BootListenKeepsInv, Zenon
  <1>3. CASE ~crashed /\ L!BootRegister
    <2> PICK s \in {boot[2]} : TRUE
      BY Zenon
    <2>1. s \in open /\ boot[1] \in Nat
      BY <1>3, Zenon DEF L!BootRegister, SocketInv, PortsType, PlacesInv
    <2>2. PICK by \in {boot[1]} : TRUE
      BY Zenon
    <2>3. /\ L!Enter(by, s) /\ boot' = <<boot[1] + 1, None>>
          /\ UNCHANGED <<config, opc, opening, opened, open, crashed>>
      BY <1>3, Zenon DEF L!BootRegister
    <2> QED
      BY <1>3, <2>1, <2>3, EnterKeepsInv, Zenon
  <1>4. CASE ~crashed /\ \E o \in Ops : L!ApiStep(o)
    BY <1>4, ApiKeepsInv, Zenon
  <1>5. CASE ~crashed /\ L!RunnerStep
    BY <1>5, RunnerKeepsInv, Zenon DEF L!RunnerStep
  <1> QED
    BY <1>1, <1>2, <1>3, <1>4, <1>5, Zenon DEF Next, vars, Boot, Api, RunnerStart, Accept, Handler,
       Fetching, Outside, L!BootStep

\* The inductive invariant holds in every reachable state.
THEOREM SocketsAreSound == Spec => []SocketInv
  BY SocketInit, SocketsStep, PTL DEF Spec

\* The process of data-proxy ends by a goroutine of a TCP server only if a configured
\* TCP port could not be bound, or a port had both protocols, or a stop closed a
\* socket: for any configuration, calls and interleaving of main.go, the API and the
\* goroutines of StartServerRun.
THEOREM CrashesHaveACause == Spec => []CrashHasCause
  <1>1. SocketInv => CrashHasCause
    BY Zenon DEF SocketInv
  <1> QED
    BY <1>1, SocketsAreSound, PTL

\* No open socket is forgotten by listenerMap unless one of the other protocol took
\* over its port, whatever the calls that start and stop servers do at once.
THEOREM OpenSocketsStayKnown == Spec => []OpenSocketsAreKnown
  <1>1. SocketInv => OpenSocketsAreKnown
    BY Zenon DEF SocketInv
  <1> QED
    BY <1>1, SocketsAreSound, PTL

=============================================================================
