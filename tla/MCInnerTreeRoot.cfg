CONSTANTS
    c1 = c1
    c2 = c2
    Client = {c1, c2}
    MaxKey = 4
    Wanted = {2, 4}
    InnerNodeCapacity = 2
    MaxNodes = 10
    MaxLeaves = 5
SPECIFICATION Spec
SYMMETRY Clients
INVARIANT RootUnchanged
CHECK_DEADLOCK FALSE
