SPECIFICATION Spec
CONSTANTS
    Users = {alice}
    NoUser = nobody
    Targets = {b1, b2}
    NoTarget = none
    MaxPlans = 1
    Drafts <- CancelDrafts
    MaxUpdates = 5
    MaxFaults = 1
CHECK_DEADLOCK FALSE
CONSTRAINT PicksAndConfirms
INVARIANTS
    DoneIsTrue
