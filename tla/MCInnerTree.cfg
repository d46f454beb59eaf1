CONSTANTS
    c1 = c1
    c2 = c2
    Client = {c1, c2}
    MaxKey = 4
    Wanted = {1}
    InnerNodeCapacity = 2
    MaxNodes = 10
    MaxLeaves = 5
SPECIFICATION FairSpec
INVARIANTS TypeOK AssertsHold SearchSound NeverRight VersionTells
PROPERTIES Implements OperationsEnd
CHECK_DEADLOCK FALSE
