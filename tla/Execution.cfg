SPECIFICATION FairSpec
CONSTANTS
    MaxAttempts = 3
    MaxFaults = 3
CHECK_DEADLOCK FALSE
INVARIANTS
    TypeOK
    OneEffect
    SuccessMeansEffect
PROPERTIES
    EveryAttemptEnds
    SettlementSpec
