CONSTANTS
    t1 = t1
    t2 = t2
    t3 = t3
    Thread = {t1, t2, t3}
    Home <- mcHome
    MemoryNumber = 1
    ComputeNumber = 2
    Size = {1, 2}
    kChunkSize = 2
    Chunks = 9
    Reserved = 1
    CacheLimit = 5
    MaxCalls <- mcCalls
SPECIFICATION FairSpec
CHECK_DEADLOCK FALSE
INVARIANTS
    NoWaitCycle
    BarriersHold
    Disjoint
    Placed
    DirectoryRuns
PROPERTIES
    AllStart
    AllocEnds
