SPECIFICATION Spec
CONSTANTS
    p1 = p1
    p2 = p2
    Procs <- MCProcs
    MaxId = 3
    Sizes <- MCSizes
    ChunkSizes <- MCChunkSizes
    MaxStream = 3
    InlineMax = 2
    RequestBudget = 2
    GlobalBudget = 3
    U64 = 16
SYMMETRY Symmetry
INVARIANTS
    TypeOK
    HotBytesAccounted
    LiveSpillReadable
    IdsNotShared
PROPERTIES
    ImplementsHotBudget
