SPECIFICATION Spec
CONSTANTS
    Users = {alice}
    NoUser = nobody
    Targets = {b1, b2}
    NoTarget = none
    MaxPlans = 1
    Drafts <- CancelDrafts
    MaxUpdates = 4
    MaxFaults = 1
INVARIANTS
    TypeOK
    RunsAreConsented
    OneEffectPerPlan
    LateConfirmNeverRuns
    DoneMeansEffect
    PromisesKept
CHECK_DEADLOCK FALSE
PROPERTIES
    RunIsOfStoredPlan
    GateSpec
