SPECIFICATION FairSpec
CONSTANTS
    window_cmd = window_cmd
    settings_cmd = settings_cmd
    NoOwner = NoOwner
    Account = window_cmd
    Settings = settings_cmd
    Owner <- MCOwner
    Caller <- MCCaller
    MaxEngines = 2
    MaxTokens = 2
    MaxSwitches = 3
    MaxFaults = 1
CHECK_DEADLOCK FALSE
INVARIANT EnginesTakeTurns
INVARIANT DiskNotBehind
PROPERTY SwitchEnds
