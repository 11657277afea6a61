SPECIFICATION Spec
CONSTANTS
    Users = {alice}
    NoUser = nobody
    Targets = {b1, b2}
    NoTarget = none
    MaxPlans = 1
    Drafts <- CancelDrafts
    MaxUpdates = 4
    MaxFaults = 0
CHECK_DEADLOCK FALSE
INVARIANTS ExecutesWhatWasTapped
