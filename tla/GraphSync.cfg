CONSTANTS
    a = a
    b = b
    origin = origin
    None = None
    Nodes <- TwoNodes
    Sources <- OneOrigin
    Reports <- TwoReports
    Settled <- SettledReports
    Reporting <- TwoNodes
    MaxEvents = 2
    MaxRestarts = 1
SPECIFICATION LiveSpec
INVARIANTS EdgesHaveEnds CaughtUp
PROPERTY WeightsConverge
