SPECIFICATION Spec
CONSTANTS
    Users = {alice, bob}
    NoUser = nobody
    Targets = {b1}
    NoTarget = none
    MaxPlans = 2
    Drafts <- OtherDrafts
    MaxUpdates = 3
    MaxFaults = 1
CHECK_DEADLOCK FALSE
SYMMETRY UserSymmetry
INVARIANTS
    RunsAreConsented
    RetiredStaysRetired
    PromisesKept
PROPERTIES
    GateSpec
    LastProcessedGrows
