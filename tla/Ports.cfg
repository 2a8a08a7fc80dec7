SPECIFICATION Spec
CONSTANTS
    p1 = p1
    c1 = c1
    c2 = c2
    stopTcp = stopTcp
    startTcp = startTcp
    startUdp = startUdp
    None = None
    Ports = {p1}
    Starts <- SomeStarts
    Ops = {stopTcp, startTcp, startUdp}
    OpOf <- Kinds
    Conns = {c1, c2}
    ProtoOf <- ProtocolOf
    PortOf <- OnePort
    TestPathMap <- NoTestPaths
    Plans <- TwoPlans
    MaxFaults = 1
    Refreshers = {1}
INVARIANTS CrashHasCause OpenSocketsAreKnown
PROPERTIES MappedSocketIsServed RoutedRequestsEnd OutageIsOvercome
CHECK_DEADLOCK FALSE
