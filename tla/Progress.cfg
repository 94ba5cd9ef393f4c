SPECIFICATION PartSpec
CONSTANTS
    Nil = Nil
    Threads = {"t1", "t2"}
    Sigs = {2, 9, 11, 14}
    Fatal = {2, 9, 11}
    Masks = {{}, {2, 9}, {2, 14}}
    Actions <- Asked
    Ops <- Calls
    MaxCalls <- Bound
INVARIANTS
    DriversExact MaskUnwinds ByteStream FrameOnce LeaseGranted TelnetExact
PROPERTIES
    StartupEnds WaitersReturn WorkGetsDone
CHECK_DEADLOCK FALSE
