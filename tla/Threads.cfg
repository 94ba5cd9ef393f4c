SPECIFICATION PartSpec
CONSTANTS
    Slots = {s0, s1, s2, s3}
    Main = s0
    Nil = Nil
    MaxTid = 5
    ExitTabN = 5
    TidBound = 3
    Statuses = {0, 7}
    Maps = {m0, m1, m2}
SYMMETRY Interchangeable
INVARIANTS
    TableExact NoLostWakeup WaitMeansGone WaitGetsStatus
    SpaceExact
CHECK_DEADLOCK FALSE
