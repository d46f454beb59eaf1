CONSTANTS
    t1 = t1
    t2 = t2
    t3 = t3
    k1 = k1
    k2 = k2
    Thread = {t1, t2, t3}
    Key = {k1, k2}
    Sides <- mcMixed
    MaxOps <- mcOnce
    TicketMod = 4
    FirstTicket = 3
    MaxHandover = 1
    FreedIs = {TRUE, FALSE}
    Null = Null
SPECIFICATION FairSpec
CHECK_DEADLOCK FALSE
INVARIANTS Exclusive KeyHeld DelegatedKey
PROPERTY Completes
