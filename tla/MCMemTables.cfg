CONSTANTS
    w1 = w1
    w2 = w2
    f1 = f1
    f2 = f2
    c1 = c1
    c2 = c2
    k1 = k1
    k2 = k2
    Writer = {w1, w2}
    Flusher = {f1, f2}
    Compactor = {c1, c2}
    Key = {k1, k2}
    MEMTABLE_SEQ_SIZE = 2
    Immutable_StopWritesTrigger = 2
    kL0_SlowdownWritesTrigger = 1
    kL0_StopWritesTrigger = 3
    MaxTables = 5
    Workload <- mcWorkload
SPECIFICATION Spec
SYMMETRY Threads
CHECK_DEADLOCK FALSE
INVARIANTS
    TypeOK
    WriterHasTable
    FilesComplete
    NothingLost
    TiersOrdered
    Backlog
    WaiterHasWaker
