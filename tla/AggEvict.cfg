SPECIFICATION Spec
CONSTANTS
    k1 = k1
    k2 = k2
    None = None
    Keys = {k1}
    Ports = {80}
    Msgs <- OneKeyMsgs
    BatchNum <- TwoBuckets
    BufferSize = 300
    BatchTimeout = 50
    BatchMaxAge = 50
    SendSlots = 1
    ClockTick = 50
    MaxTime = 100
    MaxBatches = 4
INVARIANTS
    TypeOK
    UnscheduledIsEmpty
    HeldIsScheduled
    PanicOnlyInTimeoutRace
    InOnePlace
CHECK_DEADLOCK FALSE
