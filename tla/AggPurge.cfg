SPECIFICATION PromptSpec
CONSTANTS
    k1 = k1
    k2 = k2
    None = None
    Keys = {k1}
    Ports = {80}
    Msgs <- OneKeyMsgs
    BatchNum <- OneBucket
    BufferSize = 300
    BatchTimeout = 50
    BatchMaxAge = 50
    SendSlots = 1
    ClockTick = 50
    MaxTime = 150
    MaxBatches = 4
INVARIANT PurgedOnlyWhenQuiet
CHECK_DEADLOCK FALSE
