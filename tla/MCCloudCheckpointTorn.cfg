SPECIFICATION Spec
CONSTANTS
    outer = outer
    inner = inner
    file = file
    later = later
    Root = Root
    Gone = Gone
    Id <- MCId
    Folder <- MCFolder
    NameOf <- MCNameOf
    Start <- MCStart
    Threshold = 1
    Retries = 1
    MaxOps = 1
    MaxFaults = 0
INVARIANT TrustedIsTrue
