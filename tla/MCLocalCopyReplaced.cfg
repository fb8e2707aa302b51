SPECIFICATION Spec
CONSTANTS
    Gated = TRUE
    MaxWrites = 3
    MaxRuns = 3
    MaxFaults = 3
CHECK_DEADLOCK FALSE
PROPERTIES NoEditReplaced
