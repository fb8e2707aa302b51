SPECIFICATION Spec
CONSTANTS
    boot = boot
    user = user
    w1 = w1
    w2 = w2
    Caller <- MCCaller
    Boot = boot
    Worker <- MCWorker
    NoThread = NoThread
    FailureHistory = 1
    MaxRequests = 3
    MaxFaults = 1
    MaxFolderSyncs = 1
CHECK_DEADLOCK FALSE
INVARIANTS
    HonestAnswer
