SPECIFICATION LiveSpec
CONSTANTS
    A = A
    B = B
    C = C
    D = D
    O = O
    Nodes = {A, B, C, D}
    Origins = {O}
    Reqs <- Paths
    PacketMax = 2
    Zero = Zero
INVARIANTS
    FollowsPath
    RightEnds
PROPERTIES
    EveryRequestSettles
CHECK_DEADLOCK FALSE
