SPECIFICATION FairSpec
CONSTANTS
    Gated = TRUE
    MaxWrites = 3
    MaxRuns = 3
    MaxFaults = 3
CHECK_DEADLOCK FALSE
INVARIANTS AllOrNothing BaselineTrue
PROPERTIES NoContentLost GivenBack
