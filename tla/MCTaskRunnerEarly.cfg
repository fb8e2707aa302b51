SPECIFICATION Spec
CONSTANTS
    t1 = t1
    t2 = t2
    f1 = f1
    f2 = f2
    f3 = f3
    f4 = f4
    cycle = cycle
    user = user
    NoTask = NoTask
    NoId = NoId
    Task <- MCTask
    FileId <- MCFileId
    Thread <- MCThread
    Cycle = cycle
    SizeOf <- SizesDiffer
    HashComparable = TRUE
    MaxAttempts = 1
    MaxVerify = 3
    MaxReplay = 2
    MaxFaults = 1
    MaxContents = 2
    MaxAsks = 2
INVARIANT OneCopy
CHECK_DEADLOCK FALSE
