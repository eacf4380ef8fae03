SPECIFICATION Spec
CONSTANTS
    c1 = c1
    c2 = c2
    c3 = c3
    u1 = u1
    u2 = u2
    None = None
    Calls <- TwoCalls
    Bridges <- BothSides
    Cancellable <- DroppedOnRequestSide
    Urls <- MCUrls
    MaxInflight = 1
PROPERTIES
    WaitersAnswered
CHECK_DEADLOCK FALSE
