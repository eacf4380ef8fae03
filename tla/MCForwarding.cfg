SPECIFICATION Spec
CONSTANTS
    Absent = Absent
    Blank = Blank
    NotArray = NotArray
    Requests <- MCRequests
    DefaultBase = "plain"
    EditsDomains = {"edits"}
    B64Domains = {"edits", "plain"}
    MaxReferenceImages = 2
    Answers <- MCAnswers
INVARIANTS
    PairFitsSize
    ReferenceImagesKept
    ReadOutputStaysHere
    GrsaiReplyFaithful
CHECK_DEADLOCK FALSE
