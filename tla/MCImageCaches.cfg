SPECIFICATION Spec
CONSTANTS
    request = request
    response = response
    q1 = q1
    q2 = q2
    p1 = p1
    u1 = u1
    u2 = u2
    u3 = u3
    png = png
    webp = webp
    NoFile = NoFile
    Torn = Torn
    Services <- MCServices
    Calls <- MCCalls
    ServiceOf <- MCServiceOf
    Urls <- MCUrls
    Asked <- MCAsked
    Starts <- MCStarts
    Images <- MCImages
    Size <- MCSize
    MaxMemory = 3
    MaxDisk = 3
    Ttl = 1
    MaxTime = 1
SYMMETRY Symmetry
INVARIANTS
    MemoryBytesExact
    DiskWithinLimit
PROPERTIES
    MemoryKeepsRecent
    ReadsWhole
CHECK_DEADLOCK FALSE
