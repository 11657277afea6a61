------------------------------ MODULE MCAnswering ------------------------------
(***************************************************************************)
(* Two providers, three hours ahead of UTC and ten behind, and a guest.    *)
(* It is 21 January 2000 (day 20), eight o'clock in UTC; behind, it is the  *)
(* evening of the day before.                                              *)
(* Booking 7 was this morning; booking 8 was to be, and was cancelled.      *)
(***************************************************************************)
EXTENDS Answering

CONSTANTS ahead, behind, anna, boris, guest

MCUsers     == {anna, boris, guest}
MCProviders == {ahead, behind}
MCProviderOf == [u \in MCUsers |-> CASE u = anna -> ahead
                                     [] u = boris -> behind
                                     [] u = guest -> NoProvider]
MCOffsetOf == [p \in MCProviders |-> IF p = ahead THEN 3 * Hour ELSE -10 * Hour]
MCNow == 20 * DayLength + 8 * Hour

At(p, day, minute) == day * DayLength + minute - MCOffsetOf[p]

Booking(id, p, name, day, minute) ==
    [id |-> id, provider |-> p, names |-> {name}, at |-> At(p, day, minute)]
MCBookings ==
    {Booking(1, ahead, "ivan", 21, 30), Booking(2, ahead, "ivan", 21, 12 * Hour),
     Booking(3, ahead, "ivan", 21, 18 * Hour), Booking(4, ahead, "ivan", 24, 15 * Hour),
     Booking(5, ahead, "olga", 21, 15 * Hour), Booking(6, behind, "ivan", 20, 22 * Hour),
     Booking(7, ahead, "ivan", 20, 9 * Hour), Booking(8, behind, "ivan", 19, 9 * Hour)}

massage  == 21
manicure == 22
sauna    == 23

MCServices ==
    {[id |-> massage, provider |-> ahead, names |-> {"massage", "m"}],
     [id |-> manicure, provider |-> ahead, names |-> {"manicure", "m"}],
     [id |-> sauna, provider |-> behind, names |-> {"sauna"}]}

Slot(id, service, p, day, minute) ==
    [id |-> id, service |-> service, at |-> At(p, day, minute)]
MCSlots ==
    {Slot(11, massage, ahead, 21, 9 * Hour), Slot(12, massage, ahead, 21, 11 * Hour),
     Slot(13, massage, ahead, 22, 9 * Hour), Slot(14, sauna, behind, 21, 8 * Hour)}

\* Booking 3 is made and the sauna's slot taken while the bot searches, or
\* booking 2 is cancelled, or one of two massages given up.
MCChanging == {x \in MCBookings \cup MCServices \cup MCSlots : x.id \in {2, 3, 11, manicure}}
MCCalendar == {x \in MCBookings \cup MCServices \cup MCSlots : x.id \notin {3, 8}}

-----------------------------------------------------------------------------
Text(numbers, marks, words) == [numbers |-> numbers, marks |-> marks, words |-> words]
Today         == Text(<<>>, <<>>, {"today"})
Tomorrow      == Text(<<>>, <<>>, {"tomorrow"})
AfterTomorrow == Text(<<>>, <<>>, {"day after tomorrow"})
SlashedNoon   == Text(<<22, 1, 12, 0>>, <<"/", "word", ":">>, {})
DottedDate    == Text(<<25, 1, 2000>>, <<".", ".">>, {})

Local(day, minute) == [at |-> day * DayLength + minute, form |-> "local"]

NoWish == NoMessage.wish
Ivan(days, clock) == [client |-> {"ivan"}, days |-> days, clock |-> clock]

Means(intent, params) ==
    [intent |-> intent, sure |-> TRUE, asks |-> FALSE, params |-> params]
Asks(reply) == [reply EXCEPT !.asks = TRUE]

Writes(user, text, wish, reply) ==
    [from |-> user, looks |-> "ordinary", text |-> text, wish |-> wish, reply |-> reply]
Looks(user, looks) == [Writes(user, NoText, NoWish, NoMessage.reply) EXCEPT !.looks = looks]

CancelIvan == [NoParams EXCEPT !.client = {"ivan"}]
Cancel(user, text, wish, params) == Writes(user, text, wish, Means("cancel", params))

Cancellations ==
    {Cancel(anna, Today, Ivan({20}, {}), CancelIvan),
     Cancel(anna, Tomorrow, Ivan({21}, {}), CancelIvan),
     Cancel(boris, Tomorrow, Ivan({20}, {}), CancelIvan),
     Cancel(anna, AfterTomorrow, Ivan({22}, {}), CancelIvan),
     Cancel(anna, DottedDate, Ivan({24}, {}), CancelIvan),
     Cancel(anna, NoText, Ivan({}, {}), CancelIvan),
     Cancel(anna, NoText, Ivan({21}, {12 * Hour}),
            [CancelIvan EXCEPT !.approx = {Local(21, 12 * Hour)}]),
     Cancel(anna, NoText, Ivan({24}, {}), [NoParams EXCEPT !.booking = {4}]),
     Cancel(anna, NoText, Ivan({21}, {}), [CancelIvan EXCEPT !.range = {<<24, 21>>}]),
     Writes(anna, SlashedNoon, Ivan({21}, {12 * Hour}), Asks(Means("cancel", CancelIvan)))}

Request(user, intent, params) == Writes(user, NoText, NoWish, Means(intent, params))

Requests ==
    {Request(anna, "list", [NoParams EXCEPT !.range = {<<18, 30>>}]),
     Request(boris, "list", [NoParams EXCEPT !.status = "past"]),
     Request(boris, "list", [NoParams EXCEPT !.status = "past", !.range = {<<19, 20>>}]),
     Request(anna, "create", [NoParams EXCEPT !.serviceName = {"massage"},
                                           !.notBefore = {UTC(At(ahead, 21, 0))}]),
     Request(anna, "create", [NoParams EXCEPT !.serviceName = {"m"}]),
     Request(anna, "create", NoParams),
     Request(boris, "create", [NoParams EXCEPT !.service = {sauna},
                                            !.notBefore = {Local(21, 9 * Hour)}]),
     Request(anna, "find", [NoParams EXCEPT !.service = {massage}]),
     Request(anna, "find", [NoParams EXCEPT !.serviceName = {"massage"}])}

Others ==
    {Looks(anna, "injection"), Looks(anna, "agenda"),
     Writes(guest, NoText, NoWish, Means("list", NoParams)),
     Writes(anna, NoText, NoWish, Asks(Means("list", NoParams))),
     Writes(anna, NoText, NoWish, [Means("list", NoParams) EXCEPT !.sure = FALSE])}

MCMessages == Cancellations \cup Requests \cup Others
==============================================================================
