SPECIFICATION FairSpec
CONSTANTS
    Chats = {c1, c2}
    NoChat = none
    MaxUpdates = 2
    MaxDeliveries = 4
    MaxFaults = 1
CHECK_DEADLOCK FALSE
INVARIANTS
    TypeOK
    HandledAgainOnlyUnmarked
    DroppedOnlyWhenOvertaken
PROPERTIES
    LastProcessedGrows
    EveryUpdateEnds
    SerialSpec
