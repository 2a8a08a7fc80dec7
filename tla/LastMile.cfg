CONSTANTS
    c1 = c1
    n1 = n1
    n2 = n2
    None = None
    Cities = {c1}
    Traffic <- Clients
    TailLines = 1
    Window = 1
    MaxCopies = 2
    Nodes = {n1, n2}
    MaxEvents = 1
    Rebuilders = {1, 2}
    Here = n1
    PeerReport <- Peer
    MaxFaults = 1
SPECIFICATION Spec
INVARIANT AggregatesAreMeasured
PROPERTIES LoggedIsAggregated AggregatesCatchUp
CHECK_DEADLOCK FALSE
