SPECIFICATION FairSpec
CONSTANTS
    g1 = g1
    g2 = g2
    g3 = g3
    Guard <- MCGuard
    Name <- MCName
    Path <- MCPath
INVARIANTS
    TypeOK
    LeaseExclusion
    AccountingExact
    QuiescentAfterWait
    NoLostWakeup
PROPERTY
    ShutdownCompletes
CHECK_DEADLOCK FALSE
