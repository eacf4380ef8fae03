SPECIFICATION Spec
CONSTANTS
    Images <- MCImages
    Facts <- MCFacts
    Requests <- MCRequests
INVARIANTS
    InlineOnlyIfRefused
    HostsInOrder
    LargestKept
    TypesTrue
    OneUrlPerItem
PROPERTIES
    UrlsLeadToTheirImage
CHECK_DEADLOCK FALSE
