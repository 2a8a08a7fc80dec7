----------------------------- MODULE Listeners -----------------------------
(***************************************************************************)
(* The ports on which data-proxy serves clients: opened at start-up from   *)
(* the configuration (main.go), opened and closed through the management   *)
(* API (server/server-manager.go), each served by a goroutine of           *)
(* StartServerRun (server/tcp-server.go, server/udp-server.go).            *)
(*                                                                         *)
(* A socket is [by, proto, port]: the call that opened it, its protocol    *)
(* and its port.  TCP and UDP have port spaces of their own, but one entry *)
(* of listenerMap.  portMap is written together with listenerMap, under    *)
(* listenerMu, and holds the ports that have an entry.                     *)
(***************************************************************************)
EXTENDS Integers, Sequences, FiniteSets

CONSTANTS
    Ports,    \* ports in play
    Starts,   \* [config, taken] at start-up: the listeners section, a sequence of
              \* [proto, port], and the <<proto, port>> that other processes hold
    Ops,      \* API calls
    OpOf,     \* API call -> [kind, proto, port], kind "start" or "stop"
    None      \* no socket

VARIABLES
    config,      \* Config_.Listeners
    taken,       \* sockets of other processes
    boot,        \* <<index into config, socket to be entered>>
    opc,         \* API call -> where it is, in the end its reply
    opening,     \* API call -> the socket it has opened and not entered
    listenerMap, \* port -> the socket entered last
    opened,      \* every socket that was ever opened
    open,        \* those that are open
    runners,     \* goroutines of StartServerRun: [by, proto, port, at]
    crashed      \* a panic outside the API ended the process

listenerVars == <<config, taken, boot, opc, opening, listenerMap, opened, open, runners, crashed>>

Init ==
    /\ \E st \in Starts : config = st.config /\ taken = st.taken
    /\ boot = <<1, None>>
    /\ opc = [o \in Ops |-> "new"] /\ opening = [o \in Ops |-> None]
    /\ listenerMap = [p \in Ports |-> None] /\ opened = {} /\ open = {}
    /\ runners = {} /\ crashed = FALSE

portMap == {p \in Ports : listenerMap[p] # None}

\* net.Listen, net.ListenUDP: fails while the port is in use under that protocol.
CanBind(s) ==
    <<s.proto, s.port>> \notin taken /\ \A l \in open : <<l.proto, l.port>> # <<s.proto, s.port>>
Bind(s) == open' = open \cup {s} /\ opened' = opened \cup {s}

\* go StartServerRun: the goroutine looks the socket up when it runs.
Runner(by, l) == [by |-> by, proto |-> l.proto, port |-> l.port, at |-> None]

\* The two assignments under listenerMu, and the goroutine.
Enter(by, s) ==
    /\ listenerMap' = [listenerMap EXCEPT ![s.port] = s]
    /\ runners' = runners \cup {Runner(by, s)}

-----------------------------------------------------------------------------
\* main.go: the configured listeners, one by one; errors are ignored.

Booting == boot[1] <= Len(config)
BootSocket == [by |-> boot[1], proto |-> config[boot[1]].proto, port |-> config[boot[1]].port]

BootListen ==
    /\ Booting /\ boot[2] = None
    /\ IF CanBind(BootSocket)
       THEN Bind(BootSocket) /\ boot' = <<boot[1], BootSocket>> /\ UNCHANGED runners
       ELSE /\ boot' = <<boot[1] + 1, None>>
            /\ runners' = runners \cup {Runner(boot[1], BootSocket)}
            /\ UNCHANGED <<open, opened>>
    /\ UNCHANGED <<config, taken, opc, opening, listenerMap, crashed>>

BootRegister ==
    /\ Booting /\ boot[2] # None
    /\ Enter(boot[1], boot[2]) /\ boot' = <<boot[1] + 1, None>>
    /\ UNCHANGED <<config, taken, opc, opening, opened, open, crashed>>

-----------------------------------------------------------------------------
\* The API, which is up once all configured listeners have been started.

Call(o, kind, label) == ~Booting /\ OpOf[o].kind = kind /\ opc[o] = label

\* POST /tcp/start: the check of portMap ...
StartCheck(o) ==
    /\ Call(o, "start", "new")
    /\ opc' = [opc EXCEPT ![o] = IF OpOf[o].port \in portMap THEN "409" ELSE "listen"]
    /\ UNCHANGED <<config, taken, boot, opening, listenerMap, opened, open, runners, crashed>>

\* Mutant: the goroutine is started before the socket is in the map.
StartListen_RunsFirst(o) ==
    LET s == [by |-> o, proto |-> OpOf[o].proto, port |-> OpOf[o].port]
    IN  /\ Call(o, "start", "listen") /\ CanBind(s)
        /\ Bind(s) /\ opc' = [opc EXCEPT ![o] = "register"] /\ opening' = [opening EXCEPT ![o] = s]
        /\ runners' = runners \cup {Runner(o, s)}
        /\ UNCHANGED <<config, taken, boot, listenerMap, crashed>>

\* ... StartServerWithMgr, before the lock ...
StartListen(o) ==
    LET s == [by |-> o, proto |-> OpOf[o].proto, port |-> OpOf[o].port]
    IN  /\ Call(o, "start", "listen")
        /\ IF CanBind(s)
           THEN Bind(s) /\ opc' = [opc EXCEPT ![o] = "register"] /\ opening' = [opening EXCEPT ![o] = s]
           ELSE opc' = [opc EXCEPT ![o] = "500"] /\ UNCHANGED <<opening, open, opened>>
        /\ UNCHANGED <<config, taken, boot, listenerMap, runners, crashed>>

\* Mutant: the goroutine is started only for a port that had no entry.
StartRegister_NewPort(o) ==
    /\ Call(o, "start", "register")
    /\ listenerMap' = [listenerMap EXCEPT ![OpOf[o].port] = opening[o]]
    /\ runners' = IF \E r \in runners : r.port = OpOf[o].port THEN runners
                  ELSE runners \cup {Runner(o, opening[o])}
    /\ opc' = [opc EXCEPT ![o] = "200"] /\ opening' = [opening EXCEPT ![o] = None]
    /\ UNCHANGED <<config, taken, boot, opened, open, crashed>>

\* ... and under the lock.
StartRegister(o) ==
    /\ Call(o, "start", "register")
    /\ Enter(o, opening[o])
    /\ opc' = [opc EXCEPT ![o] = "200"] /\ opening' = [opening EXCEPT ![o] = None]
    /\ UNCHANGED <<config, taken, boot, opened, open, crashed>>

\* Mutant: the entry is deleted, the socket stays open.
Close_EntryOnly(p) == listenerMap' = [listenerMap EXCEPT ![p] = None] /\ UNCHANGED open

\* Close, and the entries of the port deleted.
Close(p) == open' = open \ {listenerMap[p]} /\ listenerMap' = [listenerMap EXCEPT ![p] = None]

\* DELETE /tcp/stop.  A port without a socket of the protocol is left alone, except
\* that TCP takes a UDP socket for a listener: gin recovers from the panic.
StopServer(o) ==
    LET l == listenerMap[OpOf[o].port]
    IN  /\ Call(o, "stop", "new")
        /\ IF l # None /\ l.proto = OpOf[o].proto
           THEN Close(OpOf[o].port) /\ opc' = [opc EXCEPT ![o] = "200"]
           ELSE /\ opc' = [opc EXCEPT ![o] =
                       IF l # None /\ OpOf[o].proto = "tcp" THEN "panic" ELSE "200"]
                /\ UNCHANGED <<open, listenerMap>>
        /\ UNCHANGED <<config, taken, boot, opening, opened, runners, crashed>>

-----------------------------------------------------------------------------
\* StartServerRun looks its socket up.  Without one of its protocol, TCP panics and
\* UDP returns.
RunnerLooksUp(r) ==
    LET l == listenerMap[r.port]
    IN  /\ r \in runners /\ r.at = None
        /\ IF l # None /\ l.proto = r.proto
           THEN runners' = (runners \ {r}) \cup {[r EXCEPT !.at = l]} /\ UNCHANGED crashed
           ELSE runners' = runners \ {r} /\ crashed' = (r.proto = "tcp")
        /\ UNCHANGED <<config, taken, boot, opc, opening, listenerMap, opened, open>>

\* The sockets that some goroutine accepts from.  A goroutine whose socket was
\* closed goes on asking it and gets errors.
Served == {r.at : r \in runners} \cap open

BootStep == BootListen \/ BootRegister
ApiStep(o) == StartCheck(o) \/ StartListen(o) \/ StartRegister(o) \/ StopServer(o)
RunnerStep == \E r \in runners : RunnerLooksUp(r)

=============================================================================
