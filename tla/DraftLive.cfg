SPECIFICATION FairSpec
CONSTANTS
    Chats = {c1, c2}
    MaxAnswers = 2
    MaxDrafts = 2
    MaxFaults = 1
CHECK_DEADLOCK FALSE
PROPERTIES EveryAnswerEnds
