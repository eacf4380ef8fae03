SPECIFICATION Spec
CONSTANTS
    BlobLengths <- MCBlobLengths
    ReadBytes = 6
    TextLengths <- MCTextLengths
    ChunkChars = 8
    Rooms <- MCRooms
INVARIANTS
    EncodedAsWhole
    DecodedAsDeclared
PROPERTIES
    StreamsEnd
CHECK_DEADLOCK FALSE
