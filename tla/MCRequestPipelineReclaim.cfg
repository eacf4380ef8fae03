INIT Init
NEXT Next
CONSTANTS
    r1 = r1
    r2 = r2
    a = a
    b = b
    Body = Body
    Requests <- MCRequests
    Urls <- MCUrls
    ImageSize <- MCImageSize
    Overhead = 1
    MaxRefs = 2
    MaxFetches = 1
    InlineMax = 5
    RequestBudget = 5
    GlobalBudget = 6
SYMMETRY Symmetry
INVARIANTS
    EndedReclaimed
CHECK_DEADLOCK FALSE
