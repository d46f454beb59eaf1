CONSTANTS
    c1 = c1
    c2 = c2
    n1 = n1
    n2 = n2
    v1 = v1
    v2 = v2
    Client = {c1, c2}
    Node = {n1, n2}
    MemNode = MemNode
    Key = {1, 3}
    Value = {v1}
    NoValue = NoValue
    Leaf = {1, 2, 3}
    Head = 1
    LeafNodeCapacity = 1
    MaxNodeCapacity = 2
    KeyMax = 4
    CallerValue = {NoValue}
    Straddle <- mcStraddle
    FPOf <- mcFPOf
    NodeOf <- mcNodeOf
    HomeOf <- mcHomeOf
SPECIFICATION FairSpec
PROPERTIES
    ReadTerminates
    LockReleased
    IndexCatchesUp
