---------------------------- MODULE MCAvailability ----------------------------
EXTENDS Availability

\* Slots of one and of two units in two days of six, some across midnight
\* and at the edges of the date range: calendars of two slots, and a few of
\* three that touch, overlap and repeat one another.
Slot == {Between(t, t + n) : t \in -1..11, n \in {1, 2}} \ {Between(-1, 0)}
Crowded == {{Between(0, 4), Between(1, 2), Between(3, 5)},
            {Between(0, 1), Between(1, 3), Between(3, 4)},
            {Between(4, 5), Between(5, 6), Between(7, 9)}}
MCCalendars == {{s, t} : s \in Slot, t \in Slot} \cup Crowded \cup {{}}

\* None, one, several that touch, overlap or contain one another, inverted.
MCBreaks == {{}, {Between(2, 3)}, {Between(1, 2), Between(2, 4)},
             {Between(1, 4), Between(2, 3)}, {Between(3, 2)}}

\* All days, one of them, and weekdays the date range does not have.
MCWeekdays == {{}, {1}, {2}}

MCRequests ==
    [hours : {Between(0, 5), Between(1, 4), Between(4, 1)},
     breaks : MCBreaks, close : {NoRange}, weekdays : MCWeekdays]
    \cup
    [hours : {NoRange}, breaks : MCBreaks,
     close : {NoRange, Between(1, 3), Between(3, 3)}, weekdays : MCWeekdays]
=============================================================================
