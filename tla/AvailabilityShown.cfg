SPECIFICATION Spec
CONSTANTS
    DayLength = 6
    SlotLength = 2
    Span = 2
    Calendars <- MCCalendars
    Requests <- MCRequests
CHECK_DEADLOCK FALSE
INVARIANTS RemovedSlotsGo
