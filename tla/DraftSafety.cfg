SPECIFICATION Spec
CONSTANTS
    Chats = {c1, c2}
    MaxAnswers = 3
    MaxDrafts = 3
    MaxFaults = 2
CHECK_DEADLOCK FALSE
SYMMETRY ChatSymmetry
INVARIANTS
    TypeOK
    NoStrayHeartbeat
PROPERTIES
    ReturnedAnswersStay
