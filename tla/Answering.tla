------------------------------- MODULE Answering -------------------------------
(***************************************************************************)
(* What one chat is told about bookings and slots: handleMessage from the  *)
(* arrival of a message to its answer, with the provider's resolution, the *)
(* model's stream (LLMStream), the searches of the adapter (BookingSearch) *)
(* made of single reads from the API (BookablyClient), the cache of        *)
(* services, and clients who book and cancel meanwhile.  ChatAgent models  *)
(* the same handler as far as plans, keyboards and saves are concerned,    *)
(* and takes any answer as possible; here the answer is the subject, and   *)
(* the plan it leaves in the session is not kept.  The chat's mutex lets   *)
(* one message be handled at a time.                                       *)
(*                                                                         *)
(* External, from how src/ uses it: the Bookably API lists what there is   *)
(* at the instant it answers, bookings by time and page by page.           *)
(***************************************************************************)
EXTENDS BookingSearch, BookablyClient, LLMStream, FiniteSets

CONSTANTS
    Users, NoUser, Providers, NoProvider,
    ProviderOf,  \* the provider a user is, if any
    OffsetOf,    \* a provider's local time minus UTC
    Bookings,    \* [id, provider, names (what its client's name contains), at]
    Services,    \* [id, provider, names (what its title contains)]
    Slots,       \* [id, service, at]
    Calendar,    \* what is booked, offered and free at first
    Changing,    \* what of all this may change
    Messages,    \* what users may write, with what they mean and the reply
    Now,         \* the time, which does not move within a run
    PageSize,    \* bookings on a page
    Refusals,    \* the errors with which the API answers
    MaxMessages, \* bound: messages
    MaxChanges,  \* bound: bookings made and cancelled, slots and services changed
    MaxFaults    \* bound: failures of calls, deadlines

ASSUME UsersAssumption ==
    /\ NoUser \notin Users /\ NoProvider \notin Providers
    /\ ProviderOf \in [Users -> Providers \cup {NoProvider}]
    /\ OffsetOf \in [Providers -> Int]

ASSUME DataAssumption ==
    /\ IsFiniteSet(Bookings) /\ IsFiniteSet(Slots)
    /\ \A x \in Bookings \cup Slots : x.at \in Int
    /\ \A b, c \in Bookings : b.id \in Int /\ (b.id = c.id => b = c)
    /\ Calendar \cup Changing \subseteq Bookings \cup Services \cup Slots
    /\ Refusals \subseteq Statuses \ {"ok", "timeout"}
    /\ PageSize \in Nat \ {0} /\ Now \in Nat

NoParams == [client |-> {}, booking |-> {}, approx |-> {}, range |-> {},
             service |-> {}, serviceName |-> {}, notBefore |-> {},
             status |-> "upcoming"]

\* Optional values are sets with at most one element; times are numbers.
IsParams(params) ==
    /\ DOMAIN params = DOMAIN NoParams
    /\ \A r, q \in params.range : r \in Int \X Int /\ r = q
    /\ \A t, u \in params.notBefore : t.at \in Int /\ t = u
    /\ \A t, u \in params.approx : t.at \in Int /\ t = u
    /\ \A n, m \in params.serviceName : n = m

\* A message that is given to the model has a reply with one of its intents.
ASSUME MessagesAssumption ==
    \A m \in Messages :
        /\ m.from \in Users
        /\ m.looks \in {"injection", "agenda", "ordinary"}
        /\ m.looks = "ordinary" =>
             /\ m.reply.intent \in {"unknown", "list", "find", "create", "cancel"}
             /\ IsParams(m.reply.params) /\ IsText(m.text)

ASSUME BoundsAssumption ==
    MaxMessages \in Nat /\ MaxChanges \in Nat /\ MaxFaults \in Nat

VARIABLES
    session, \* the stored session: user and provider
    s,       \* the handler's copy
    msg,     \* the message being handled
    pc,      \* the handler's next step
    live,    \* the handler's context has not ended
    plan,    \* the plan it acts on
    search,  \* what it looks for and has found
    answer,  \* what it is about to say
    cache,   \* per provider, the services kept in Redis, if any
    there,   \* the bookings confirmed, the slots free, the services active
    kept,    \* of these, those that were there since the message arrived
    seen,    \* and those that were there at some time since
    received, changes, faults

handler == <<s, msg, pc, live, plan, search, answer>>
history == <<kept, seen>>
bounds  == <<received, changes, faults>>
vars == <<session, handler, call, stream, model, cache, there, history, bounds>>

NoPlan   == [intent |-> "none", params |-> NoParams]
NoSearch == [provider |-> NoProvider, interval |-> <<0, 0>>, cursor |-> {},
             found |-> <<>>, service |-> {}]
NoAnswer == [kind |-> "none", items |-> <<>>]
NoSession == [user |-> NoUser, provider |-> NoProvider]
NoMessage == [from |-> NoUser, looks |-> "none", text |-> NoText,
              wish |-> [client |-> {}, days |-> {}, clock |-> {}],
              reply |-> [intent |-> "none", sure |-> FALSE, asks |-> FALSE,
                         params |-> NoParams]]

\* The steps that wait for the API, and for what.
Reads == {"me", "services", "profile", "zone", "bookings", "resolve", "slots"}
PCs   == {"idle", "typing", "interpret", "reply"} \cup Reads

Session == [user : Users \cup {NoUser}, provider : Providers \cup {NoProvider}]

TypeOK ==
    /\ session \in Session /\ s \in Session
    /\ msg \in Messages \cup {NoMessage}
    /\ pc \in PCs /\ live \in BOOLEAN
    /\ plan.intent \in {"none", "unknown", "list", "find", "create", "cancel"}
    /\ search.provider \in Providers \cup {NoProvider}
    /\ CallTypeOK /\ (call.stage # "idle") = (pc \in Reads)
    /\ StreamTypeOK /\ (stream.open => pc = "interpret")
    /\ \A p \in Providers : cache[p] \subseteq SUBSET Services /\ Cardinality(cache[p]) <= 1
    /\ kept \subseteq there \/ pc = "idle"
    /\ seen \subseteq Bookings \cup Services \cup Slots
    /\ received \in 0..MaxMessages /\ changes \in 0..MaxChanges
    /\ faults \in 0..MaxFaults

Init ==
    /\ session = NoSession /\ s = NoSession /\ msg = NoMessage
    /\ pc = "idle" /\ live = TRUE /\ plan = NoPlan /\ search = NoSearch
    /\ answer = NoAnswer
    /\ CallInit /\ StreamInit
    /\ cache = [p \in Providers |-> {}]
    /\ there = Calendar /\ kept = {} /\ seen = {}
    /\ received = 0 /\ changes = 0 /\ faults = 0

Fault == faults < MaxFaults /\ faults' = faults + 1
Calm  == faults' = faults

Offset == OffsetOf[s.provider]
Items(found) == {found[i] : i \in DOMAIN found}

-----------------------------------------------------------------------------
(***************************************************************************)
(* The world outside.                                                      *)
(***************************************************************************)

\* A client books or cancels, a slot is taken or freed, a service is switched
\* on or off.
Change(x) ==
    /\ changes < MaxChanges /\ changes' = changes + 1
    /\ there' = (there \ {x}) \cup ({x} \ there)
    /\ IF pc = "idle" THEN UNCHANGED history
       ELSE kept' = kept \cap there' /\ seen' = seen \cup there'
    /\ UNCHANGED <<session, handler, call, stream, model, cache, received, faults>>

\* The worker's time is over.
Deadline ==
    /\ pc # "idle" /\ live /\ Fault
    /\ live' = FALSE
    /\ UNCHANGED <<session, s, msg, pc, plan, search, answer, call, stream, model,
                   cache, there, history, received, changes>>

\* Bookings come in the order of their time.
Before(a, b) == a.at < b.at \/ (a.at = b.at /\ a.id < b.id)
Within(interval, at) == interval[1] <= at /\ at <= interval[2]

\* What may be cancelled is upcoming, whatever the reply says.
StatusAsked == IF plan.intent = "cancel" THEN "upcoming" ELSE plan.params.status

\* Mutant: bookings of the interval are asked for, past or ahead.
AnyDirection(at) == TRUE

\* GetBookings always sends a direction: "past" for a list of past bookings,
\* "future" for all others, and to find the booking to cancel; what the API
\* makes of it is read from its name.
InDirection(at) == (at < Now) = (StatusAsked = "past")

BookingsAsked ==
    {b \in Bookings :
        /\ b.provider = ProviderOf[s.user]
        /\ Within(search.interval, b.at) /\ InDirection(b.at)
        /\ StatusAsked # "all" => (b \in there) = (StatusAsked # "past")
        /\ \A c \in search.cursor : Before(c, b)}

Page == {b \in BookingsAsked : Cardinality({a \in BookingsAsked : Before(a, b)}) < PageSize}

\* A page's cursor is its last booking; the last page may have none, and an
\* empty page has none or the one that was asked for.
NextCursors ==
    IF Page = {}
    THEN {{}, search.cursor}
    ELSE {{b \in Page : \A a \in Page \ {b} : Before(a, b)}}
         \cup {{} : p \in {Page} \cap {BookingsAsked}}

\* What the API may answer, by the step that waits for it.
Bodies ==
    LET of(items) == {[items |-> items, next |-> {}]}
    IN  CASE pc = "me"       -> of({ProviderOf[s.user]} \ {NoProvider})
          [] pc \in {"services", "resolve"} ->
                 of({v \in Services \cap there : v.provider = search.provider})
          [] pc \in {"profile", "zone"} -> of({OffsetOf[search.provider]})
          [] pc = "slots"    ->
                 of({x \in Slots \cap there :
                       x.service \in search.service /\ Within(search.interval, x.at)})
          [] pc = "bookings" -> [items : {Page}, next : NextCursors]

\* One step of the client that makes the read.
CallStep ==
    /\ pc \in Reads
    /\ \/ live /\ Calm /\ call.stage = "send" /\ \E body \in Bodies : Answered("ok", body)
       \/ live /\ Fault /\ \E status \in Refusals : Answered(status, NoBody)
       \/ live /\ Calm /\ RetryLater
       \/ live /\ Fault /\ RetryRefused
       \/ Fault /\ \E status \in {"upstream", "timeout"} : SendFails(status)
       \/ ~live /\ Calm /\ (SendFails("timeout") \/ PauseInterrupted)
       \/ Calm /\ (PauseEnds \/ ReadWhole)
       \/ Fault /\ ReadCut
    /\ UNCHANGED <<session, handler, stream, model, cache, there, history, received, changes>>

\* One step of the stream of the model's reply.
StreamStep ==
    /\ \/ live /\ Calm /\ model.sent < Pieces /\ ModelSends("piece")
       \/ live /\ Calm /\ model.sent = Pieces /\ ModelSends("done")
       \/ live /\ Fault /\ \E event \in {"note", "bad", "done"} : ModelSends(event)
       \/ Calm /\ BlankLine
       \/ Fault /\ StreamEnds
       \/ Fault /\ \E verdict \in {"upstream", "timeout"} : StreamFails(verdict)
       \/ ~live /\ Calm /\ StreamFails("timeout")
    /\ UNCHANGED <<session, handler, call, cache, there, history, received, changes>>

-----------------------------------------------------------------------------
(***************************************************************************)
(* The handler.                                                            *)
(***************************************************************************)

Go(to) == pc' = to /\ StartCall /\ UNCHANGED answer

\* The reply is composed; the read before it, if any, is over.
Say(kind, items) ==
    /\ pc' = "reply" /\ EndCall
    /\ answer' = [kind |-> kind, items |-> items]

\* errorKind: a rate limit is an upstream error to the user.
errorKind(status) == IF status = "rate_limit" THEN "upstream" ELSE status

SayError(status) == Say(errorKind(status), <<>>)

Failed(step) == pc = step /\ call.stage = "over" /\ call.status # "ok"
Got(step)    == pc = step /\ call.stage = "over" /\ call.status = "ok"

\* Mutant: the next user of the chat inherits the provider.
ProviderStays(m) == session.provider

ProviderAtFirst(m) ==
    IF session.user \in Users \ {m.from} THEN NoProvider ELSE session.provider

Receive(m) ==
    /\ pc = "idle" /\ received < MaxMessages
    /\ received' = received + 1
    /\ msg' = m /\ live' = TRUE /\ kept' = there /\ seen' = there
    /\ s' = [user |-> m.from, provider |-> ProviderAtFirst(m)]
    /\ IF ProviderAtFirst(m) = NoProvider
       THEN Go("me")
       ELSE pc' = "typing" /\ UNCHANGED <<call, answer>>
    /\ UNCHANGED <<session, plan, search, stream, model, cache, there, changes, faults>>

\* Steps of the handler leave these alone.
QuietButFaults == UNCHANGED <<session, msg, live, there, history, received, changes>>
Quiet == QuietButFaults /\ UNCHANGED faults

\* readServicesCache: what is kept may have expired or be out of reach.
CacheHit(provider) == cache[provider] # {}

\* hydrateSessionProviderInfo and GetProviderInfo.
MeReturned ==
    /\ Got("me")
    /\ IF call.body.items = {}
       THEN Say("forbidden", <<>>) /\ UNCHANGED search
       ELSE \E provider \in call.body.items :
               /\ search' = [search EXCEPT !.provider = provider]
               /\ \/ Go("services")
                  \/ CacheHit(provider) /\ Go("profile")
    /\ UNCHANGED <<s, plan, stream, model, cache>> /\ Quiet

\* writeServicesCache: an error of Redis is ignored.
ServicesKept ==
    \/ Calm /\ cache' = [cache EXCEPT ![search.provider] = {call.body.items}]
    \/ Fault /\ UNCHANGED cache

ServicesReturned ==
    /\ Got("services")
    /\ ServicesKept /\ Go("profile")
    /\ UNCHANGED <<s, plan, search, stream, model>> /\ QuietButFaults

ProfileReturned ==
    /\ Got("profile")
    /\ s' = [s EXCEPT !.provider = search.provider]
    /\ pc' = "typing" /\ EndCall
    /\ UNCHANGED <<plan, search, answer, stream, model, cache>> /\ Quiet

ReadFailed ==
    /\ \E step \in Reads : Failed(step)
    /\ SayError(call.status)
    /\ UNCHANGED <<s, plan, search, stream, model, cache>> /\ Quiet

SearchFor(p, interval, service) ==
    search' = [NoSearch EXCEPT !.provider = s.provider, !.interval = interval,
                               !.service = service]

Refuse(status) == Say(status, <<>>) /\ UNCHANGED search

\* FindSlots asks for a week of slots of one service.
StartSlots(p, service) ==
    LET from == SearchFrom(p.params, Now)
    IN  SearchFor(p, <<from, from + defaultSlotsWindow>>, {service}) /\ Go("slots")

resolveServiceByName(p, services) ==
    LET matches == UNION {ServicesNamed(name, services) : name \in p.params.serviceName}
    IN  CASE matches = {} -> Refuse("not_found")
          [] Cardinality(matches) = 1 -> \E v \in matches : StartSlots(p, v.id)
          [] OTHER -> Refuse("conflict")

StartList(p) ==
    SearchFor(p, buildBookingFilter(p.params, Now, Offset), {}) /\ Go("bookings")

\* buildSlotSearchRequest: only the service's identifier counts.
StartFind(p) ==
    \/ p.params.service = {} /\ Refuse("validation")
    \/ \E service \in p.params.service : StartSlots(p, service)

\* PreviewBookingCreate: the service's name counts if it has no identifier.
StartCreate(p) ==
    \/ \E service \in p.params.service : StartSlots(p, service)
    \/ /\ p.params.service = {}
       /\ \/ p.params.serviceName = {} /\ Refuse("validation")
          \/ p.params.serviceName # {} /\ SearchFor(p, <<0, 0>>, {}) /\ Go("resolve")
          \/ /\ p.params.serviceName # {}
             /\ \E services \in cache[s.provider] : resolveServiceByName(p, services)

\* loadProviderLocation comes before anything else of PreviewBookingCancel.
StartCancel(p) == SearchFor(p, <<0, 0>>, {}) /\ Go("zone")

NeedsClarification(p) ==
    msg.reply.asks /\ ~(p.intent = "cancel" /\ hasCancelDateContext(p.params))

\* handleMessage, from a plan to its handler.
ActOn(p) ==
    /\ plan' = p
    /\ CASE p.intent = "unknown" -> Refuse("unknown")
         [] p.intent # "unknown" /\ NeedsClarification(p) -> Refuse("question")
         [] p.intent = "list" /\ ~NeedsClarification(p) -> StartList(p)
         [] p.intent = "find" /\ ~NeedsClarification(p) -> StartFind(p)
         [] p.intent = "create" /\ ~NeedsClarification(p) -> StartCreate(p)
         [] p.intent = "cancel" /\ ~NeedsClarification(p) -> StartCancel(p)

\* heuristicActionPlan: the coming week, for the usual question about it.
Agenda ==
    LET today == LocalDay(Now, Offset)
    IN  [intent |-> "list", params |-> [NoParams EXCEPT !.range = {<<today, today + 6>>}]]

Unknown == [intent |-> "unknown", params |-> NoParams]

\* ParseActionPlan, then the date from the message's own words.
PlanFromReply ==
    IF ReplyIsWhole /\ msg.reply.sure
    THEN [intent |-> msg.reply.intent,
          params |-> IF msg.reply.intent = "cancel"
                     THEN enrichCancelParamsFromMessage(msg.reply.params, msg.text, Now, Offset)
                     ELSE msg.reply.params]
    ELSE Unknown

\* The message is recognised without the model, or the model is asked.
Interpret ==
    /\ pc = "typing" /\ live
    /\ CASE msg.looks = "injection" -> ActOn(Unknown) /\ UNCHANGED <<stream, model>>
         [] msg.looks = "agenda"    -> ActOn(Agenda) /\ UNCHANGED <<stream, model>>
         [] msg.looks = "ordinary"  -> /\ Ask /\ pc' = "interpret"
                                       /\ UNCHANGED <<plan, search, call, answer>>
    /\ UNCHANGED <<s, cache>> /\ Quiet

Interpreted ==
    /\ pc = "interpret" /\ ~stream.open
    /\ IF stream.verdict = "ok"
       THEN ActOn(PlanFromReply)
       ELSE SayError(stream.verdict) /\ UNCHANGED <<plan, search>>
    /\ UNCHANGED <<s, stream, model, cache>> /\ Quiet

\* PreviewBookingCancel, once it has the provider's time zone.
ZoneReturned ==
    /\ Got("zone")
    /\ LET filter == UNION {buildCancelFilter(plan.params, Now, offset) :
                               offset \in call.body.items}
       IN  IF filter = {}
           THEN Refuse("validation")
           ELSE /\ \E interval \in filter : SearchFor(plan, interval, {})
                /\ Go("bookings")
    /\ UNCHANGED <<s, plan, stream, model, cache>> /\ Quiet

\* Mutant: the cursor of the last page is followed, too.
OnlyEmptyCursorIsLast(next) == next = {}

\* Mutant: one page is enough.
OnePage(next) == TRUE

LastPage(next) == next = {} \/ next = search.cursor

SayMatches(matches) ==
    CASE Len(matches) = 0 -> Say("not_found", <<>>)
      [] Len(matches) = 1 -> Say("selected", matches)
      [] OTHER -> Say("candidates", FirstOf(MaxCandidates, matches))

\* GetBookings sorts what it has found; PreviewBookingCancel sorts what matches.
SayBookings(found) ==
    \/ plan.intent = "list" /\ \E sorted \in Chronologies(found) : Say("list", sorted)
    \/ /\ plan.intent = "cancel"
       /\ \E matches \in CancelMatches(plan.params, found, Offset) : SayMatches(matches)

\* The bookings of a page are listed in their order.
Listings(page) ==
    {listed \in SetToSeqs(page) :
        \A i, j \in DOMAIN listed : i < j => Before(listed[i], listed[j])}

\* The loop of GetBookings.
BookingsReturned ==
    /\ Got("bookings")
    /\ \E listed \in Listings(call.body.items) :
          LET found == search.found \o listed
          IN  /\ search' = [search EXCEPT !.found = found, !.cursor = call.body.next]
              /\ IF LastPage(call.body.next) THEN SayBookings(found) ELSE Go("bookings")
    /\ UNCHANGED <<s, plan, stream, model, cache>> /\ Quiet

ServicesListed ==
    /\ Got("resolve")
    /\ ServicesKept
    /\ resolveServiceByName(plan, call.body.items)
    /\ UNCHANGED <<s, plan, stream, model>> /\ QuietButFaults

\* The API lists slots in any order.
SlotsReturned ==
    /\ Got("slots")
    /\ \E slots \in SetToSeqs(call.body.items) :
          IF slots = <<>> THEN Say("not_found", <<>>)
          ELSE \E next \in FindSlots(slots) : Say("slots", next)
    /\ UNCHANGED <<s, plan, search, stream, model, cache>> /\ Quiet

\* The handler returns; the session is stored or not.
Finish(stored) ==
    /\ session' = stored
    /\ s' = NoSession /\ msg' = NoMessage /\ pc' = "idle" /\ live' = TRUE
    /\ plan' = NoPlan /\ search' = NoSearch /\ answer' = NoAnswer
    /\ kept' = {} /\ seen' = {}
    /\ StreamReset
    /\ UNCHANGED <<call, cache, there, received, changes>>

\* The answer is sent and the session saved.
Reply == pc = "reply" /\ live /\ Calm /\ Finish(s)

\* Sending the answer or the typing sign fails, or the save does.
GiveUp ==
    /\ pc \in {"typing", "reply"}
    /\ IF live THEN Fault ELSE Calm
    /\ Finish(session)

Handle ==
    \/ MeReturned \/ ServicesReturned \/ ProfileReturned \/ ReadFailed
    \/ Interpret \/ Interpreted
    \/ ZoneReturned \/ BookingsReturned \/ ServicesListed \/ SlotsReturned
    \/ Reply \/ GiveUp

Work == CallStep \/ StreamStep \/ Handle

Next ==
    \/ \E m \in Messages : Receive(m)
    \/ \E x \in Changing : Change(x)
    \/ Deadline
    \/ Work

Spec == Init /\ [][Next]_vars

\* Every call ends with its client's timeout, and the handler goes on.
FairSpec == Spec /\ WF_vars(Work)

-----------------------------------------------------------------------------
(***************************************************************************)
(* Properties.                                                             *)
(***************************************************************************)

Actor == ProviderOf[msg.from]

\* Whoever writes in the chat, searches are made with the provider that this
\* user is (handler.go 328-335, 1410-1428): a provider that is resolved, in
\* the handler or in the store, is the session's user's.
ProviderIsActors ==
    /\ session.provider \in {NoProvider, IF session.user = NoUser THEN NoProvider
                                         ELSE ProviderOf[session.user]}
    /\ pc \in {"typing", "interpret", "zone", "bookings", "resolve", "slots"} =>
          s.user = msg.from /\ s.provider = Actor

\* A booking is one that the message describes.
Described(b) ==
    LET wish == msg.wish
        day  == LocalDay(b.at, OffsetOf[Actor])
    IN  /\ wish.client \subseteq b.names
        /\ wish.days = {} => Within(<<Now, Now + maxCancelSearchRange>>, b.at)
        /\ wish.days # {} => day \in wish.days
        /\ \A clock \in wish.clock :
              b.at - (DayStart(day, OffsetOf[Actor]) + clock) \in -6 * Hour .. 6 * Hour

\* Only what lies ahead can be cancelled (adapter.go 1265-1269).
Fits(b) == b.provider = Actor /\ b.at >= Now /\ Described(b)

\* The reply says who is meant and when; if it leaves the date out, the text
\* says it.
Understood ==
    LET wish   == msg.wish
        params == msg.reply.params
        local  == OffsetOf[Actor]
    IN  IF params.booking # {}
        THEN \A b \in Bookings : b.id \in params.booking => Described(b)
        ELSE /\ wish.client = params.client
             /\ \A time \in params.approx :
                   LET at == IF time.form = "utc" THEN time.at + local ELSE time.at
                   IN  wish.days = {at \div DayLength} /\ wish.clock = {at % DayLength}
             /\ params.approx = {} =>
                   \A range \in params.range : range[1] <= range[2] =>
                       wish.days = range[1]..range[2] /\ wish.clock = {}
             /\ ~hasCancelDateContext(params) =>
                   /\ wish.days  = DatesSaid(msg.text, Now + local)
                   /\ wish.clock = ClocksSaid(msg.text)

\* The model understood the message, and gave the date, with its clock if it
\* gave a time, or the text is plain.
PlainlyAsked ==
    /\ Understood
    /\ \A time \in msg.reply.params.approx : time.form # "date"
    /\ \/ hasCancelDateContext(msg.reply.params)
       \/ PlainlyWritten(msg.text, Now + OffsetOf[Actor])

\* The bookings offered for cancellation are bookings of the user's own that
\* were confirmed while the bot searched, lie ahead, and are described by the
\* request: client, day and time of day in the provider's time zone (adapter.go
\* 425-504, 1262-1387, handler.go 1170-1262).
OfferedFits ==
    pc = "reply" /\ answer.kind \in {"selected", "candidates"} /\ PlainlyAsked =>
        \A b \in Items(answer.items) : b \in seen /\ Fits(b)

\* What the answer claims about the rest is true: if one booking is selected
\* no other fits, if none was found none fits, and if three are offered those
\* that are not come later; each for bookings that were there throughout, of a
\* range of days its first 31 (adapter.go 149-177, 475-503, 1361-1374).  Were
\* the API to answer a list with a 404, this would pass for an empty list and
\* for no booking found (adapter.go 449-452).
ClaimsAreTrue ==
    /\ pc = "reply" /\ plan.intent = "cancel" /\ PlainlyAsked
    /\ plan.params.booking = {}
    /\ \/ answer.kind \in {"selected", "candidates"}
       \/ answer.kind = "not_found" /\ "not_found" \notin Refusals
    => \A b \in kept \cap Bookings :
          \/ ~Fits(b)
          \/ b \in Items(answer.items)
          \/ \E day \in msg.wish.days :
                b.at > DayStart(day, OffsetOf[Actor]) + maxCancelSearchRange
          \/ Len(answer.items) = MaxCandidates /\ b.at >= answer.items[MaxCandidates].at

\* The list of a range of days has every booking of these days that lies ahead
\* and was there throughout (the first seven days of a longer range), each once
\* and in order, and none that is over or was not there at all; the list of past
\* bookings has only what is over (handler.go 584-627, 1435-1498).
ListIsWhole ==
    pc = "reply" /\ answer.kind = "list" /\ plan.params.range # {} =>
        LET range  == CHOOSE r \in plan.params.range : TRUE
            listed == answer.items
            days   == range[1] .. Minimum(range[2], range[1] + 6)
            inDays == {b \in Bookings :
                         /\ b.provider = Actor
                         /\ LocalDay(b.at, OffsetOf[Actor]) \in days
                         /\ (b.at < Now) = (plan.params.status = "past")}
        IN  /\ Cardinality(Items(listed)) = Len(listed)
            /\ \A i \in 1..Len(listed) - 1 : listed[i].at <= listed[i + 1].at
            /\ Items(listed) \subseteq inDays
            /\ plan.params.status = "upcoming" =>
                  Items(listed) \subseteq seen /\ kept \cap inDays \subseteq Items(listed)

\* The slots proposed are the next ones of the service asked for, which is of
\* the provider's own and has the name that was given if no identifier was: at
\* most two, free while the bot searched, and no slot of that service that was
\* free throughout lies before one of them (adapter.go 185-230, 386-423).
SlotsAreNext ==
    pc = "reply" /\ answer.kind = "slots" =>
        LET offered == Items(answer.items)
            from    == SearchFrom(plan.params, Now)
        IN  /\ Len(answer.items) \in 1..MaxResults
            /\ offered \subseteq seen
            /\ \A x \in offered :
                  /\ x.at >= from
                  /\ plan.params.service = {} =>
                        \E v \in Services : v.id = x.service /\ v.provider = Actor
                                              /\ plan.params.serviceName \subseteq v.names
                  /\ \A y \in kept \cap Slots :
                        y.service = x.service /\ y.at >= from /\ y.at < x.at => y \in offered

\* The bot acts on a reply only when the model has finished it: every piece
\* and the mark of the end were sent (openrouter.go 124-230).
ActsOnFinishedAnswer ==
    msg.looks = "ordinary" /\ plan.intent \notin {"none", "unknown"} =>
        model.done /\ model.sent = Pieces

\* A handler comes to its end by itself, whatever the API says of further
\* pages, unless its deadline ends it first (adapter.go 149-173).
EveryMessageEnds == (pc # "idle") ~> (pc = "idle" \/ ~live)
==============================================================================
