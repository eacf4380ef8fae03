SPECIFICATION PollSpec
CONSTANTS
    PollInterval = 1
    MaxPollTime = 4
    RequestTimeout = 2
    MaxFailures = 2
INVARIANTS
    GivesUpAfterRow
    EndsInTime
    TimeoutHasNoResult
PROPERTIES
    PollingEnds
CHECK_DEADLOCK FALSE
