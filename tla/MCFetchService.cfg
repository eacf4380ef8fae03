INIT Init
NEXT Next
CONSTANTS
    c1 = c1
    c2 = c2
    c3 = c3
    u1 = u1
    u2 = u2
    None = None
    Calls <- MCCalls
    Bridges <- BothSides
    Cancellable <- AnyDropped
    Urls <- MCUrls
    MaxInflight = 1
SYMMETRY Symmetry
INVARIANTS
    TypeOK
    WaiterCountExact
    SingleFlight
    InflightServed
    NoOrphanFetch
CHECK_DEADLOCK FALSE
