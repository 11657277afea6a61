------------------------------ MODULE DateWords ------------------------------
(***************************************************************************)
(* What the bot reads out of the words of a request to cancel a booking    *)
(* when the model's reply says nothing of its date: the rules of           *)
(* enrichCancelParamsFromMessage and the expressions they use.             *)
(*                                                                         *)
(* Times are minutes, dates are days counted from the start of the year    *)
(* 2000 in a calendar of twelve months of thirty days.  An optional value  *)
(* is a set with at most one element.                                      *)
(***************************************************************************)
EXTENDS Integers, Sequences

Hour        == 60
DayLength   == 24 * Hour
MonthLength == 30
YearLength  == 12 * MonthLength

Date(year, month, day) ==
    (year - 2000) * YearLength + (month - 1) * MonthLength + day - 1
YearOf(date) == 2000 + date \div YearLength

\* A text is its numbers, the mark between each and the next (a letter is
\* "word"), and the words for a day.  Numbers from 0 to 9 have two digits.
Marks == {".", "/", ":", " ", "word"}
Words == {"today", "tomorrow", "day after tomorrow"}

NoText == [numbers |-> <<>>, marks |-> <<>>, words |-> {}]

\* The leftmost of some places in a text.
Leftmost(S) == {i \in S : \A j \in S : i <= j}

reCancelNumericDate(text) ==
    Leftmost({i \in DOMAIN text.marks :
                /\ text.marks[i] \in {".", "/"}
                /\ text.numbers[i] <= 99 /\ text.numbers[i + 1] <= 99})

reCancelClock(text) ==
    Leftmost({i \in DOMAIN text.marks :
                /\ text.marks[i] \in {":", ".", " "}
                /\ text.numbers[i] <= 23 /\ text.numbers[i + 1] <= 59})

\* reCancelTextDate has no operator: it ends in \b, which in Go is a border
\* of ASCII words, after a Cyrillic letter, so that it matches no date.

\* The year behind a date of two numbers, the first of them at place i.
WrittenYear(text, i) ==
    {IF text.numbers[j + 1] < 100 THEN 2000 + text.numbers[j + 1]
                                  ELSE text.numbers[j + 1] :
        j \in {j \in DOMAIN text.marks \cap {i + 1} :
                 text.marks[j] \in {".", "/"} /\ text.numbers[j + 1] <= 9999}}

\* A date without a year that is over for more than a month is next year's.
NextOccurrence(date, now) ==
    IF date * DayLength < now - MonthLength * DayLength
    THEN date + YearLength
    ELSE date

NumericDate(text, now) ==
    {LET year == WrittenYear(text, i)
         dateIn(y) == Date(y, text.numbers[i + 1], text.numbers[i])
     IN  IF year = {} THEN NextOccurrence(dateIn(YearOf(now \div DayLength)), now)
                      ELSE dateIn(CHOOSE y \in year : TRUE) :
        i \in {i \in reCancelNumericDate(text) :
                 text.numbers[i] \in 1..31 /\ text.numbers[i + 1] \in 1..12}}

\* The Russian word for the day after tomorrow contains the one for tomorrow.
ContainsWord(text, word) ==
    \/ word \in text.words
    \/ word = "tomorrow" /\ "day after tomorrow" \in text.words

WordDate(text, today) ==
    CASE ContainsWord(text, "today") -> {today}
      [] ~ContainsWord(text, "today") /\ ContainsWord(text, "tomorrow") -> {today + 1}
      [] OTHER -> {}

\* now is the provider's local time.
parseCancelDateFromText(text, now) ==
    IF NumericDate(text, now) # {}
    THEN NumericDate(text, now)
    ELSE WordDate(text, now \div DayLength)

ClockIn(text) ==
    {text.numbers[i] * Hour + text.numbers[i + 1] : i \in reCancelClock(text)}

hasCancelDateContext(params) == params.approx # {} \/ params.range # {}

\* The times of a plan: in UTC, in the provider's local time, or a date.
UTC(t) == [at |-> t, form |-> "utc"]

enrichCancelParamsFromMessage(params, text, now, offset) ==
    LET date == parseCancelDateFromText(text, now + offset)
    IN  IF hasCancelDateContext(params)
        THEN params
        ELSE [params EXCEPT
                !.range  = {<<d, d>> : d \in date},
                !.approx = {UTC(d * DayLength + clock - offset) :
                               d \in date, clock \in ClockIn(text)}]

-----------------------------------------------------------------------------
(***************************************************************************)
(* What a reader takes a text for, to compare the rules with.              *)
(***************************************************************************)

IsText(text) ==
    /\ text.numbers \in Seq(Nat) /\ text.marks \in Seq(Marks)
    /\ text.marks = <<>> \/ Len(text.marks) < Len(text.numbers)
    /\ text.words \subseteq Words

IsDateMark(text, i) == i \in DOMAIN text.marks /\ text.marks[i] \in {".", "/"}

\* A day and a month, and not a month and a year.
DatePlaces(text) ==
    {i \in DOMAIN text.marks :
        /\ IsDateMark(text, i) /\ ~IsDateMark(text, i - 1)
        /\ text.numbers[i] \in 1..31 /\ text.numbers[i + 1] \in 1..12}

DateAt(text, i, now) ==
    LET day     == text.numbers[i]
        month   == text.numbers[i + 1]
        written == WrittenYear(text, i)
    IN  IF written = {} THEN NextOccurrence(Date(YearOf(now \div DayLength), month, day), now)
                        ELSE Date(CHOOSE year \in written : TRUE, month, day)

DaysAhead == [word \in Words |-> CASE word = "today" -> 0
                                    [] word = "tomorrow" -> 1
                                    [] word = "day after tomorrow" -> 2]

DatesSaid(text, now) ==
    {DateAt(text, i, now) : i \in DatePlaces(text)}
    \cup {now \div DayLength + DaysAhead[word] : word \in text.words}

ClocksSaid(text) ==
    {text.numbers[i] * Hour + text.numbers[i + 1] :
        i \in {i \in DOMAIN text.marks :
                 text.marks[i] = ":" /\ text.numbers[i] <= 23 /\ text.numbers[i + 1] <= 59}}

\* Texts that the rules read as a reader does: at most one date and one clock,
\* which goes with a date, and nothing that only looks like one.  Not the word
\* for the day after tomorrow, no fraction, and no two numbers with a full stop
\* or a space between them that pass for an hour and its minutes.
PlainlyWritten(text, now) ==
    /\ "day after tomorrow" \notin text.words
    /\ \A d, e \in DatesSaid(text, now) : d = e
    /\ \A c, d \in ClocksSaid(text) : c = d
    /\ ClocksSaid(text) # {} => DatesSaid(text, now) # {}
    /\ \A i \in DOMAIN text.marks :
          /\ IsDateMark(text, i) => i \in DatePlaces(text) \/ i - 1 \in DatePlaces(text)
          /\ text.marks[i] \in {".", " "} =>
                text.numbers[i] > 23 \/ text.numbers[i + 1] > 59
==============================================================================
