INIT Init
NEXT Next
CONSTANTS
    r1 = r1
    r2 = r2
    r3 = r3
    k1 = k1
    k2 = k2
    k3 = k3
    NoKey = NoKey
    Requests <- MCRequests
    Keys <- MCKeys
    Ttl = 2
    MaxEntries = 2
    AdminOn = TRUE
    LogCapacity = 2
    MaxTime = 2
SYMMETRY Symmetry
INVARIANTS
    HitsFresh
    BlockHolds
    LogComplete
CHECK_DEADLOCK FALSE
