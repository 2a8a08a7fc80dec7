SPECIFICATION LiveSpec
CONSTANTS
    k1 = k1
    k2 = k2
    None = None
    Keys = {k1, k2}
    Ports = {80, 81}
    Msgs <- FlowMsgs
    BatchNum <- OneBucket
    BufferSize = 300
    BatchTimeout = 50
    BatchMaxAge = 1000
    SendSlots = 2
    ClockTick = 50
    MaxTime = 0
    MaxBatches = 4
INVARIANTS
    PacketIsWhole
    PortOfOwnKey
    EmptyPacketHasCause
PROPERTIES
    EventuallyOut
CHECK_DEADLOCK FALSE
