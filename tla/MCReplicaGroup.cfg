CONSTANTS
    c1 = c1
    c2 = c2
    r1 = r1
    r2 = r2
    r3 = r3
    Client = {c1, c2}
    Replica = {r1, r2, r3}
    Writer = c1
    Quorum = 2
    MaxCalls <- mcCalls
    MaxCrashes = 1
SPECIFICATION Spec
SYMMETRY Replicas
CHECK_DEADLOCK FALSE
INVARIANTS
    CountsOwn
    OneWinner
    ReadSeesWrite
