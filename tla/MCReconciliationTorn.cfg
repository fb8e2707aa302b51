SPECIFICATION Spec
CONSTANTS
    i1 = i1
    i2 = i2
    i3 = i3
    NoId = NoId
    Name <- MCName
    Path <- MCPath
    Dirs <- MCDirs
    Id <- MCId
    Torn = TRUE
    MaxOps = 1
    MaxFaults = 0
CHECK_DEADLOCK FALSE
PROPERTIES RenamesAreNotDeletes
