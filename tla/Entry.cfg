SPECIFICATION LiveSpec
CONSTANTS
    t1 = t1
    t2 = t2
    t3 = t3
    u1 = u1
    TCP = {t1, t2}
    UDP = {u1}
    Segment <- OneSegment
    IdSpace = 2
    Workers = 2
    MaxPending = 1
    UdpSlots = 1
    StreamSlots = 2
    PacketMax = 2
    None = None
INVARIANTS
    OwnAnswer
    DeliverNeverBlocks
    PanicOnlyOnLateAnswer
PROPERTIES
    EveryStreamEnds
    ImplementsService
CHECK_DEADLOCK FALSE
