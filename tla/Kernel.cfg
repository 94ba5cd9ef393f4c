SPECIFICATION PartSpec
CONSTANTS
    Nil = Nil
    fileA = fileA
    fileB = fileB
    dirD = dirD
    Threads = {"t1", "t2", "t3"}
    Blocks = {0, 1, 2}
    Bufs = {"b1", "b2"}
    Vals = {0, 1}
    Loads <- Workloads
    MapLoads <- Machines
    Callers = {"t1", "t2"}
    PmmPages = 3
    Caches <- SlabSizes
    Hdr = 2
    Page = 8
    HeapMax = 24
    Sizes = {1, 2, 4, 7}
    MaxLive = 3
INVARIANTS
    CacheExact CacheHoldsWrites KfsExact
    HeapGivesOnce LoadsExact MapsExact 
CHECK_DEADLOCK FALSE
