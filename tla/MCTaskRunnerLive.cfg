SPECIFICATION FairSpec
CONSTANTS
    t1 = t1
    t2 = t2
    f1 = f1
    f2 = f2
    f3 = f3
    f4 = f4
    cycle = cycle
    user = user
    NoTask = NoTask
    NoId = NoId
    Task <- OneTask
    FileId <- MCFileId
    Thread <- MCThread
    Cycle = cycle
    SizeOf <- SizesDiffer
    HashComparable = TRUE
    MaxAttempts = 1
    MaxVerify = 3
    MaxReplay = 2
    MaxFaults = 4
    MaxContents = 1
    MaxAsks = 1
INVARIANT UploadBudget
PROPERTY Settles
CHECK_DEADLOCK FALSE
