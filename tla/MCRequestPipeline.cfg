SPECIFICATION Spec
CONSTANTS
    r1 = r1
    r2 = r2
    a = a
    b = b
    Body = Body
    Requests <- MCRequests
    Urls <- MCUrls
    ImageSize <- MCImageSize
    Overhead = 1
    MaxRefs = 2
    MaxFetches = 1
    InlineMax = 5
    RequestBudget = 5
    GlobalBudget = 6
INVARIANTS
    SuccessReleasesAll
    NoReadAfterRemove
    FailClosed
PROPERTIES
    RequestsEnd
    KeepsHotBudget
CHECK_DEADLOCK FALSE
