----------------------------- MODULE Availability -----------------------------
(***************************************************************************)
(* An availability change (set_working_hours, add_break, close_range): the *)
(* preview that bookably.PreviewAvailabilityChange computes from the slots *)
(* and bookings of the date range, and the schedule that the bot's         *)
(* executor commits when the plan is confirmed.  The preview counts the    *)
(* slots that go and come; what is committed is the opening time of whole  *)
(* days, computed apart; in between clients go on booking.                 *)
(*                                                                         *)
(* Time is counted in units from the midnight that starts the date range;  *)
(* every day has DayLength units: a change to or from daylight saving time *)
(* within the range is left out, and so are clocks that do not parse.      *)
(*                                                                         *)
(* External: the calendar of the Bookably API, which lists booked slots    *)
(* with the free ones (as the one of adapter_test.go does).                *)
(***************************************************************************)
EXTENDS Integers, FiniteSets, SequencesExt

CONSTANTS
    DayLength,  \* units in a day
    SlotLength, \* defaultSlotDuration
    Span,       \* days in the date range
    Calendars,  \* sets of slots the calendar may hold in that range
    Requests    \* parameters the interpreter may have found

Days == 0..(Span - 1)

\* Intervals of time, and minuteRanges within a day.
Interval == [start : Int, end : Int]
Between(from, to) == [start |-> from, end |-> to]
NoRange == Between(-1, -1)

\* ActionParams: working hours or NoRange, break_slot with breaks, the time
\* range to close or NoRange, and the weekdays ({}: all).  Day d of the
\* range is weekday d.  The breaks are a list, and the clocks of the working
\* hours lie within a day (parseClock).
Request == [hours : Interval, breaks : SUBSET Interval, close : Interval,
            weekdays : SUBSET Nat]

ASSUME AvailabilityAssumption ==
    /\ DayLength \in Nat \ {0} /\ SlotLength \in Nat \ {0} /\ Span \in 1..7
    /\ \A c \in Calendars : c \subseteq Interval /\ IsFiniteSet(c)
    /\ \A c \in Calendars : \A s \in c :
         s.start < s.end /\ s.start < Span * DayLength /\ s.end > 0
    /\ Requests \subseteq Request
    /\ \A r \in Requests :
         /\ IsFiniteSet(r.breaks)
         /\ r.hours # NoRange =>
              {r.hours.start, r.hours.end} \subseteq 0..(DayLength - 1)

VARIABLES
    slots,    \* the calendar
    bookings, \* its booked slots
    request,  \* the parameters of the plan
    step,     \* how far the plan has come
    preview   \* the preview, with the payload kept in the pending plan

vars == <<slots, bookings, request, step, preview>>

NoPreview == [added |-> {}, removed |-> {}, conflicts |-> {},
              days |-> [d \in {} |-> <<>>], create |-> {}, delete |-> {}]

-----------------------------------------------------------------------------
(***************************************************************************)
(* Intervals.                                                              *)
(***************************************************************************)

\* Half-open: slots that touch a window do not overlap it.
overlapsAny(s, windows) ==
    \E v \in windows : s.start < v.end /\ s.end > v.start

\* By start, then by end.
Earlier(r, s) == r.start < s.start \/ (r.start = s.start /\ r.end < s.end)

\* Mutant: the end of the later range wins.
JoinLast(r, s) == Between(r.start, s.end)

Meets(r, s) == s.start <= r.end
Join(r, s) == Between(r.start, IF s.end > r.end THEN s.end ELSE r.end)

\* One step of mergeMinuteRanges: r joins the last range or follows it.
Extend(merged, r) ==
    IF merged # <<>> /\ Meets(Last(merged), r)
      THEN Append(Front(merged), Join(Last(merged), r))
      ELSE Append(merged, r)

\* The ranges by start and end.
Sorted(ranges) ==
    CHOOSE s \in [1..Cardinality(ranges) -> ranges] :
        /\ ToSet(s) = ranges
        /\ \A i, j \in DOMAIN s : i < j => Earlier(s[i], s[j])

\* What has become of the first i of the sorted ranges.
Merging(sorted) ==
    LET merged[i \in 0..Len(sorted)] ==
          IF i = 0 THEN <<>> ELSE Extend(merged[i - 1], sorted[i])
    IN  merged

\* Ranges that are empty or inverted are left out.
mergeMinuteRanges(ranges) ==
    LET sorted == Sorted({r \in ranges : r.start < r.end})
    IN  Merging(sorted)[Len(sorted)]

\* What a cut leaves of a range.
Remains(r, cut) ==
    IF overlapsAny(r, {cut})
      THEN {s \in {Between(r.start, cut.start), Between(cut.end, r.end)} :
              s.start < s.end}
      ELSE {r}

\* What is left of the ranges after the first i cuts.
Cutting(ranges, cuts) ==
    LET left[i \in 0..Len(cuts)] ==
          IF i = 0 THEN ranges
                   ELSE UNION {Remains(r, cuts[i]) : r \in left[i - 1]}
    IN  left

subtractMinuteRanges(base, cuts) ==
    LET sorted == mergeMinuteRanges(cuts)
        left   == Cutting(ToSet(mergeMinuteRanges(base)), sorted)
    IN  mergeMinuteRanges(left[Len(sorted)])

-----------------------------------------------------------------------------
(***************************************************************************)
(* The preview.                                                            *)
(***************************************************************************)

selectedDays == {d \in Days : request.weekdays = {} \/ d \in request.weekdays}

At(d, range) == Between(d * DayLength + range.start, d * DayLength + range.end)

setsHours  == request.hours # NoRange
addsBreaks == ~setsHours /\ request.breaks # {}

\* The time range to close; the whole day without one.
closedRange ==
    IF request.close = NoRange THEN Between(0, DayLength) ELSE request.close

inferSlotDuration ==
    LET shorter == {s.end - s.start : s \in slots} \cap 1..SlotLength
    IN  CHOOSE n \in shorter \cup {SlotLength} :
          \A m \in shorter \cup {SlotLength} : n <= m

\* The breaks of the selected weekdays; a range is closed on every day.
buildBreakWindows == {At(d, b) : d \in selectedDays, b \in request.breaks}
buildCloseWindows == {At(d, closedRange) : d \in Days}

\* Mutant: a slot that overlaps a break is offered all the same.
WithBreaks(s) == TRUE

BetweenBreaks(s) == ~overlapsAny(s, buildBreakWindows)

\* The slots of the working hours, one after the other, breaks left out.
buildWorkingHoursSlots ==
    LET n == inferSlotDuration
        starts == {t \in request.hours.start..(request.hours.end - n) :
                     (t - request.hours.start) % n = 0}
    IN  {s \in {At(d, Between(t, t + n)) : d \in selectedDays, t \in starts} :
           BetweenBreaks(s)}

\* Inverted ranges, and breaks outside the working hours, are refused; those
\* of weekdays outside the date range are not looked at.
IsRefused ==
    IF setsHours
      THEN \/ request.hours.end <= request.hours.start /\ selectedDays # {}
           \/ \E b \in request.breaks :
                /\ selectedDays # {}
                /\ \/ b.end <= b.start
                   \/ b.start < request.hours.start
                   \/ b.end > request.hours.end
    ELSE IF addsBreaks
      THEN selectedDays # {} /\ \E b \in request.breaks : b.end <= b.start
      ELSE closedRange.end <= closedRange.start

removedSlots ==
    IF setsHours       THEN slots \ buildWorkingHoursSlots
    ELSE IF addsBreaks THEN {s \in slots : overlapsAny(s, buildBreakWindows)}
                       ELSE {s \in slots : overlapsAny(s, buildCloseWindows)}

\* Mutant: slots that exist are created again.
addedRegardless == IF setsHours THEN buildWorkingHoursSlots ELSE {}

addedSlots == IF setsHours THEN buildWorkingHoursSlots \ slots ELSE {}

\* Mutant: a booking that starts with the slot is missed.
StartsAfter(b, s) == s.start < b.start /\ b.start < s.end

StartsIn(b, s) == s.start <= b.start /\ b.start < s.end

findConflicts(removed) ==
    {b \in bookings : \E s \in removed : StartsIn(b, s)}

\* An interval that lies in day d; one that ends at midnight does not.
IsWithin(s, d) == s.start \div DayLength = d /\ s.end \div DayLength = d

\* The opening time of a day: its slots and bookings.
buildBaselineRanges(d) ==
    {Between(s.start % DayLength, s.end % DayLength) :
       s \in {s \in slots \cup bookings : IsWithin(s, d)}}

buildAvailabilityExecutionRanges(d) ==
    IF setsHours       THEN subtractMinuteRanges({request.hours}, request.breaks)
    ELSE IF addsBreaks THEN subtractMinuteRanges(buildBaselineRanges(d),
                                                 request.breaks)
                       ELSE subtractMinuteRanges(buildBaselineRanges(d),
                                                 {closedRange})

\* The message of the preview, and the payload stored with the plan.
PreviewAvailabilityChange ==
    /\ step = "asked"
    /\ \/ IsRefused /\ step' = "refused" /\ UNCHANGED preview
       \/ /\ ~IsRefused
          /\ step' = "shown"
          /\ preview' = [added |-> addedSlots, removed |-> removedSlots,
                         conflicts |-> findConflicts(removedSlots),
                         days |-> [d \in selectedDays |->
                                     buildAvailabilityExecutionRanges(d)],
                         create |-> addedSlots, delete |-> removedSlots]
    /\ UNCHANGED <<slots, bookings, request>>

-----------------------------------------------------------------------------
(***************************************************************************)
(* The commit.                                                             *)
(***************************************************************************)

\* External: a client books a free slot before the plan is confirmed.
ClientBooks(s) ==
    /\ step \in {"asked", "shown"}
    /\ s \in slots \ bookings
    /\ bookings' = bookings \cup {s}
    /\ UNCHANGED <<slots, request, step, preview>>

\* The payload with opening times goes first; slots to create and to delete
\* are committed only when there is none; with neither, nothing is sent.
HasDays      == DOMAIN preview.days # {}
HasSlotLists == preview.create \cup preview.delete # {}

executeDirectBookably ==
    /\ step = "shown"
    /\ step' = CASE HasDays                  -> "days sent"
                 [] ~HasDays /\ HasSlotLists -> "slots sent"
                 [] OTHER                    -> "nothing sent"
    /\ UNCHANGED <<slots, bookings, request, preview>>

Init ==
    /\ slots \in Calendars
    /\ bookings \in SUBSET slots
    /\ request \in Requests
    /\ step = "asked"
    /\ preview = NoPreview

Next ==
    \/ PreviewAvailabilityChange
    \/ executeDirectBookably
    \/ \E s \in slots : ClientBooks(s)

Spec == Init /\ [][Next]_vars

-----------------------------------------------------------------------------
(***************************************************************************)
(* Properties.                                                             *)
(***************************************************************************)

TypeOK ==
    /\ slots \in Calendars /\ bookings \subseteq slots /\ request \in Requests
    /\ step \in {"asked", "refused", "shown", "days sent", "slots sent",
                 "nothing sent"}
    /\ preview.removed \subseteq slots
    /\ preview.added \cap slots = {}
    /\ DOMAIN preview.days \subseteq Days
    /\ \A d \in DOMAIN preview.days : \A i \in DOMAIN preview.days[d] :
         LET r == preview.days[d][i]
         IN  0 <= r.start /\ r.start < r.end /\ r.end <= DayLength

\* The units of time in a set of ranges.
Units(ranges) == UNION {r.start..(r.end - 1) : r \in ranges}

\* What must be open on day d: the working hours, or the time of the day's
\* slots, without the breaks or the closed range.
Opening(d) ==
    IF setsHours       THEN Units({request.hours}) \ Units(request.breaks)
    ELSE Units(buildBaselineRanges(d)) \
           Units(IF addsBreaks THEN request.breaks ELSE {closedRange})

\* The opening times that merging and subtracting ranges arrive at are those
\* and no others, whatever overlaps, touches or repeats, and each is written
\* as a list of ranges in order that neither overlap nor touch (commit).
OpeningIsExact ==
    \A d \in DOMAIN preview.days :
        LET ranges == preview.days[d]
        IN  /\ Units(ToSet(ranges)) = Opening(d)
            /\ \A i \in 1..(Len(ranges) - 1) :
                 ranges[i].end < ranges[i + 1].start

\* Day d stays open for the whole of s.
StaysOpen(s, d) ==
    \E i \in DOMAIN preview.days[d] :
        LET open == At(d, preview.days[d][i])
        IN  open.start <= s.start /\ s.end <= open.end

\* A slot within a day that is rewritten, and that the preview does not count
\* as removed, stays open: the two computations agree on what is kept, and a
\* client who books it after the preview keeps the booking.
KeptSlotsStayOpen ==
    \A d \in DOMAIN preview.days : \A s \in slots :
        IsWithin(s, d) /\ s \notin preview.removed => StaysOpen(s, d)

\* Of a slot booked when the preview was made, within a day that is rewritten
\* and not left open for it, the preview warns.
LostBookingsAreNamed ==
    [][step' = "shown" /\ step = "asked" =>
         \A d \in DOMAIN preview'.days : \A b \in bookings :
             IsWithin(b, d) /\ ~StaysOpen(b, d)' => b \in preview'.conflicts]_vars

\* What README.md says: the preview shows what will change.  A slot of a day
\* that it counts as removed is on a day whose opening times are rewritten.
RemovedSlotsGo ==
    step = "days sent" =>
        \A s \in preview.removed, d \in Days :
            IsWithin(s, d) => d \in DOMAIN preview.days
=============================================================================
