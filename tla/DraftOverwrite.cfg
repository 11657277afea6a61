SPECIFICATION Spec
CONSTANTS
    Chats = {c1, c2}
    MaxAnswers = 2
    MaxDrafts = 3
    MaxFaults = 0
CHECK_DEADLOCK FALSE
INVARIANTS AnswerIsShown
