---------------------------- MODULE BookingSearch ----------------------------
(***************************************************************************)
(* The searches of the Bookably adapter and of the handlers that call it,  *)
(* as functions of a plan's parameters and of what the API returned: which *)
(* interval is asked for, and what is made of the answer.  An interval is  *)
(* a pair of instants, both included.  offset is the provider's local time *)
(* minus UTC; it does not change (no daylight saving time).                *)
(***************************************************************************)
EXTENDS DateWords, SequencesExt

Minimum(a, b) == IF a < b THEN a ELSE b

FirstOf(n, items) == SubSeq(items, 1, Minimum(n, Len(items)))

\* What sorting by time may make of the items at some places of a list:
\* sort.Slice leaves items of the same time in any order.
ChronologiesOf(items, places) ==
    {sorted \in {[i \in DOMAIN at |-> items[at[i]]] : at \in SetToSeqs(places)} :
        \A i, j \in DOMAIN sorted : i < j => ~(sorted[j].at < sorted[i].at)}

Chronologies(items) == ChronologiesOf(items, DOMAIN items)

LocalDay(t, offset)   == (t + offset) \div DayLength
DayStart(day, offset) == day * DayLength - offset

\* Mutant: the last day ends where it begins.
DayEndsAtMidnight(day, offset) == DayStart(day, offset)

DayEnd(day, offset) == DayStart(day + 1, offset) - 1

\* Cancellations read a time without a zone as the provider's ...
parseCancelApproximateTime(time, offset) ==
    IF time.form = "utc" THEN time.at ELSE time.at - offset

\* ... all other requests read it as UTC.
parseOptionalDateTimeUTC(time) == time.at

-----------------------------------------------------------------------------
(***************************************************************************)
(* The booking to cancel.                                                  *)
(***************************************************************************)

maxCancelSearchRange == 31 * DayLength
MaxCandidates == 3

dayBoundsInLocation(t, offset) ==
    <<DayStart(LocalDay(t, offset), offset), DayEnd(LocalDay(t, offset), offset)>>

clampCancelFilterRange(interval) ==
    <<interval[1], Minimum(interval[2], interval[1] + maxCancelSearchRange)>>

\* No interval if the dates are inverted.
parseCancelDateRangeInLocation(range, offset) ==
    IF range[1] > range[2]
    THEN {}
    ELSE {<<DayStart(range[1], offset), DayEnd(range[2], offset)>>}

buildCancelFilter(params, now, offset) ==
    IF params.approx # {}
    THEN {dayBoundsInLocation(parseCancelApproximateTime(time, offset), offset) :
              time \in params.approx}
    ELSE IF params.range # {}
    THEN {clampCancelFilterRange(interval) :
              interval \in UNION {parseCancelDateRangeInLocation(range, offset) :
                                      range \in params.range}}
    ELSE {<<now, now + maxCancelSearchRange>>}

\* Mutant: the difference is not made absolute.
NotMuchLater(at, reference) == at - reference <= 6 * Hour

cancelTimeMatches(at, reference) ==
    at - reference \in -6 * Hour .. 6 * Hour

\* A time without a clock is its day's midnight here: buildCancelFilter calls
\* every time exact.
IsMatch(b, params, offset) ==
    IF params.booking # {}
    THEN b.id \in params.booking
    ELSE /\ params.client \subseteq b.names
         /\ \A time \in params.approx :
               cancelTimeMatches(b.at, parseCancelApproximateTime(time, offset))

\* The bookings that match, sorted by time; of the one that is named, the first.
CancelMatches(params, bookings, offset) ==
    LET sorted == ChronologiesOf(bookings,
                      {i \in DOMAIN bookings : IsMatch(bookings[i], params, offset)})
    IN  IF params.booking = {} THEN sorted ELSE {FirstOf(1, matches) : matches \in sorted}

-----------------------------------------------------------------------------
(***************************************************************************)
(* The list of bookings.                                                   *)
(***************************************************************************)

ListDays(params, today) ==
    IF params.range # {}
    THEN CHOOSE range \in params.range : TRUE
    ELSE IF params.status = "past"
    THEN <<today - 6, today>>
    ELSE <<today, today + 6>>

clampedToWeek(params) ==
    \E range \in params.range : range[2] - range[1] + 1 > 7

buildBookingFilter(params, now, offset) ==
    LET days == ListDays(params, LocalDay(now, offset))
        last == IF clampedToWeek(params) THEN days[1] + 6 ELSE days[2]
    IN  <<DayStart(days[1], offset), DayEnd(last, offset)>>

-----------------------------------------------------------------------------
(***************************************************************************)
(* Services and slots.                                                     *)
(***************************************************************************)

defaultSlotsWindow == 7 * DayLength
MaxResults == 2

\* Where the search for slots starts: notBefore is the first of the plan's
\* not_before, preferred_at and preferred_date.
SearchFrom(params, now) ==
    IF params.notBefore = {} THEN now
    ELSE parseOptionalDateTimeUTC(CHOOSE time \in params.notBefore : TRUE)

ServicesNamed(name, services) == {service \in services : name \in service.names}

\* Mutant: the slots are cut before they are sorted.
FindSlotsUnsorted(slots) == Chronologies(FirstOf(MaxResults, slots))

\* FindSlots, once the API has listed the slots in some order.
FindSlots(slots) == {FirstOf(MaxResults, sorted) : sorted \in Chronologies(slots)}
==============================================================================
