SPECIFICATION LiveSpec
CONSTANTS
    s1 = s1
    s2 = s2
    s3 = s3
    s4 = s4
    a1 = a1
    a2 = a2
    Senders = {s1, s2, s3, s4}
    Addrs = {a1, a2}
    Addr <- Targets
    MaxConns = 4
INVARIANTS
    MapIsExact
    KilledByStaleSender
PROPERTIES
    SendsWaitForPeerOnly
CHECK_DEADLOCK FALSE
