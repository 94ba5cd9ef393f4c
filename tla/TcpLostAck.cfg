CONSTANTS
    NKids = 1
    Backlog = 2
    MaxRtx = 2
    Worlds <- LostAck
SPECIFICATION TcpSpec
INVARIANTS
    AbortNeedsLoss
CHECK_DEADLOCK FALSE
