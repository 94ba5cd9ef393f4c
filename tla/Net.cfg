CONSTANTS
    NKids = 1
    Backlog = 2
    MaxRtx = 1
    Worlds <- Networks
SPECIFICATION PartSpec
INVARIANTS
    TcpInOrder TcpKeepsUnacked IpExact LinksExact
CHECK_DEADLOCK FALSE
