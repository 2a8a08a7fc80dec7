SPECIFICATION Spec
CONSTANTS
    A = A
    B = B
    C = C
    D = D
    O = O
    Nodes = {A, B, C, D}
    Origins = {O}
    Reqs <- NoPort
    PacketMax = 2
    Zero = Zero
INVARIANTS
    DefaultPort
CHECK_DEADLOCK FALSE
