# Verification of Bookably Agent

Bookably Agent is a Telegram bot for service providers. A provider writes a
sentence; the bot asks a language model for a plan, previews the plan with
read-only calls to the Bookably API, shows a keyboard, and executes the plan
when it is confirmed, through TON-ACP or with a direct write. This directory
holds TLA+ modules for the parts of the service that keep state or compute
what is written, the TLC configurations that check them, and TLAPS proofs.

    tlc -workers 2 -config AgentSolo.cfg MCChatAgent.tla     # any run below
    tlapm ChatAgentSafety_proofs.tla                         # any proof module

## 1. The system

| Part | Source | State | Operations | Hard part |
|---|---|---|---|---|
| Intake and lock | `internal/bot/handler.go` 189-320 | per-chat mutex, goroutines | `ServeHTTP`, `withChatLock`, `isDuplicateUpdate`, `markUpdateProcessed` | acknowledged before processed; order lost between goroutines; context runs while waiting; shutdown does not wait |
| Handlers | `internal/bot/handler.go`, `sessions.go` | a session in memory | `handleMessage`, `handleFindNextSlot`, `handleWritePreview`, `handleCallback`, `handleConfirm`, selections | lost calls between a statement to the user and the save; taps on old keyboards; expiry; two users in a chat |
| Session store | `internal/session` | session per chat, with TTL | `Get`, `Save` | whole-session saves; eviction |
| Streaming | `internal/bot/streaming.go`, reporter in `handler.go` | progress message per chat, `draftMu` | `Draft`, `Finalize`, `stopProgress` | heartbeat goroutine against the handler; one mutex for all chats |
| Executor and ACP | `internal/bot/acp_executor.go`, `internal/acp` | none here; runs live in ACP | `ExecuteConfirmed`, `SubmitAndWait`, `executeDirectBookably` | unknown outcomes, retries, two writers |
| Bookably adapter | `internal/bookably/adapter.go` | a cache of services in Redis | previews; `GetBookings`, `FindSlots`, `GetProviderInfo`, `PreviewBookingCreate`, `PreviewBookingCancel` | interval arithmetic; preview and payload computed apart; answers put together from several reads; local days and instants |
| Bookably client | `internal/bookably/client.go` | none | request, one retry after 429 | contexts, repeated requests, bodies cut short |
| Date rules | `internal/bot/handler.go` 28-35, 1162-1319 | none | `enrichCancelParamsFromMessage`, `parseCancelDateFromText` | dates, clocks and words that pass for one another |
| Interpreter, OpenRouter client | `internal/interpreter`, `internal/llm/openrouter.go` | the stream being read | text to plan | a streamed reply that breaks off |
| Rest | `config`, `observability`, `cmd/agent`, `internal/domain`, `format.go` | none | wiring, logging, texts | - |

A webhook request becomes an update; its goroutine takes the chat's mutex,
drops the update if the session says that it or a later one was processed, and
runs a handler. The handler loads the session, talks to Telegram, the
interpreter, Bookably and the executor, and saves the session; a deferred mark
then stores the update's identifier in the session. The session in Redis is
the only state that survives a restart. Every answer goes through the
streamer that all chats share.

What makes each part correct: nothing is executed that was not previewed to
the user and confirmed by that user, at most once, and not after it expired or
was dropped; what the bot says about a plan is true; updates are handled once,
one at a time per chat, and end; an answer stays on the screen; success means
effect; the schedule committed is what the preview promised; what the bot
finds, lists and proposes is what the provider has and was asked for, although
it is read in pieces while clients book; and a part of a model's reply is never
acted upon. The list of hazards, each at its line, is in `PROJECT.json`.

## 2. The modules

| Module | Models | Composition |
|---|---|---|
| `ChatSession` | the session record and the helpers that change it | pure; extended by `ChatAgent` |
| `ChatAgent` | one chat: users, keyboards, updates, the worker with the lock, the handlers, the store, the backend | instantiates `ConfirmGate` under a refinement mapping |
| `ConfirmGate` | abstract: offer, confirm, close, take effect | - |
| `WebhookIntake` | several chats: delivery, goroutines, mutexes, deduplication, mark | refines the lock and the redelivery that `ChatAgent` takes as given |
| `ConfirmedExecution` | the executions of one plan: executor, runner, ACP, API | what `ChatAgent` has as one request and its answer |
| `DraftStream` | streamer, reporter and heartbeat of several chats | justifies the fresh message identifiers of `ChatAgent` |
| `Availability` | preview and commit of an availability change | what `ChatAgent` has as the draft "availability" |
| `Answering` | one chat and the reads it answers from: the provider's resolution, the model, searches, pages, the cache | composes the four below; what `ChatAgent` has as an arbitrary choice among drafts |
| `BookablyClient` | one read from the API: attempt, 429, pause, body | its actions are steps of `Answering` |
| `LLMStream` | the server-sent events of the model's reply | its actions are steps of `Answering` |
| `BookingSearch` | the intervals asked for, and what is made of the answers | pure; extended by `Answering` |
| `DateWords` | a date and a clock read out of a message | pure; extended by `BookingSearch` |
| `SerialChats` | abstract: one handler at a time per chat, each with a later update | `WebhookIntake` instantiates it |
| `SettledPlan` | abstract: tries, one change, one answer per try | `ConfirmedExecution` instantiates it |
| `MCChatAgent`, `MCDraftStream`, `MCAvailability`, `MCAnswering` | values for the constants | - |
| `*_proofs` | theorems | extend the module they are about |

**ChatAgent.** `w` is the goroutine that holds the mutex: its program counter,
its update, its copy of the session (`w.s`) and the message it is about to
send (`w.out`). It is cut at every call that leaves the process and changes
something there; a call that only reads is part of the step after it. Between
two steps users tap anything on their screen (`live`), plans expire, the
backend decides, the worker times out or the process stops. Every call may
fail, with and without having been carried out. `shown`, `sent`, `told` and
`retired` are history; nothing in the code reads them. Bookings and slots are
model values, interpreting and previewing is an arbitrary choice from
`Drafts`, one draft for each shape the handlers tell apart. A keyboard has a
button for each candidate of its draft; the code shows at most two slots, and
the drafts checked have no more. Each message sent has an identifier of its
own: `Finalize` may turn a progress message into the answer, but
`DraftStream` shows that the message it returns is not used again
(`ReturnedAnswersStay`). A heartbeat that takes the buttons of an answer away
(`AnswerIsShown`) only leaves fewer taps than `ChatAgent` allows.

**WebhookIntake.** A goroutine per delivery. The context's deadline is a flag
(`live`) that may fall at any time, also while the goroutine waits for the
mutex; after that each of its calls fails, so the mark is lost. `Crash` is
also the shutdown of `cmd/agent/main.go`, which waits for open requests and
not for goroutines. `SessionExpires` is the TTL in Redis. Under the mapping
that takes goroutines between load and mark for the handlers that run, it
implements `SerialChats`: the test for duplicates and the mark are atomic with
the handler because all three are under the mutex. `Recall` is in the abstract
module because a handler that read the session before Redis forgot it saves
all of it again.

**ConfirmedExecution.** The runner submits and polls; the run goes on in ACP
after the runner gave up, and ACP keeps one run per key. `Failure` lists what
`classifyRunFailure` and `shouldFallbackDirect` tell apart. An API request may
be served twice; a second one with the same key changes nothing, which is what
the bot relies on and is assumed (section 5). It implements `SettledPlan`; a plan
is executable there if its intent is one the bot may write and its parameters
say what. The change may come after an answer that says it failed, as the
abstract module admits.

**DraftStream.** `mu` is `draftMu`; `Finalize` reads the progress message under
it, edits without it, and forgets the message under it again. A draft that
Telegram refuses falls back to the progress message.

**Availability.** Time is a number of units from the start of the date range;
day `d` of the range is weekday `d`. The preview's slots, the conflicts and the
payload are computed by the operators named after the functions; ranges are
merged and subtracted as in the code: `Sorted`, then one range or one cut after
the other (`Merging`, `Cutting`). Not in it: a
change of daylight saving time within the range, clocks that do not parse, and
the risk level. The API is taken to list booked slots with the free ones, as
the calendar in `adapter_test.go` does.

**Answering.** A message of the chat from its arrival to its answer. The
handler (`pc`) is cut at every read from the API and at the model's stream;
between two steps clients book and cancel (`Change`), the worker's deadline
passes (`Deadline`), and calls fail. A read is a `call` of `BookablyClient`:
its head arrives, or a 429 and a pause come first, and its body is read or cut.
What the API answers is computed at the instant the head arrives, so pages of
one list belong to different instants. `kept` and `seen` are history: what was
there all the time since the message arrived, and what was there at some
time. The properties compare the answer with these two and with `wish`, what
the message means: a client, days, a clock. No operator of the code reads it.
`Understood` relates it to what the code does read: the reply has the client
and the time that are meant, or leaves the time out, and then the text says it
to a reader (`DatesSaid`, `ClocksSaid` of `DateWords`). `PlainlyAsked` leaves out
what the rules are known to misread (section 4). An optional parameter
is a set of at most one element, as in `DateWords`. The plan the answer leaves
in the session, its keyboards and marks are `ChatAgent`'s.

The API is external and modelled from how `adapter.go` uses it: bookings in the
order of their time, page by page, with a cursor that stands for the last
booking of the page (`NextCursors`; the last page may name one, and an empty
page may name the one it was asked for); slots in any order. `BookingsAsked`
has the query that `GetBookings` makes: provider, interval, cursor, the status
("past" is CANCELLED) and the direction, "past" for a list of past bookings and
"future" for every other list and for each cancellation (`handler.go:1487`,
`adapter.go:1268`). What the API makes of `direction` is not in the repository; it
is read from its name: "past" is what began before `Now`, "future" the rest
(`InDirection`). So of a range that begins before now, the bookings that are over
are neither offered for cancellation nor listed as upcoming, and the properties
say the same: `Fits` and `ListIsWhole` are about bookings that lie ahead.
A 404 to a list passes for an empty list (`adapter.go:450`): with it, "no booking
found" would be said of bookings that are there. The run has no 404 among the
`Refusals`, since nothing in the repository says that the API answers a list so;
`ClaimsAreTrue` claims nothing of "not found" where it does, and its other
claims, like the other properties, are proved for any `Refusals`.

**BookingSearch, DateWords.** Minutes, and a calendar of twelve months of
thirty days; a provider's offset from UTC does not change within a run and
`Now` stands still, so changes of daylight saving time and a midnight that
passes while a message is handled are left out. A text is its numbers, the
marks between them and the words for a day. `reCancelTextDate` has no operator
because it matches nothing (section 4). The end of `DateWords` is the reference
the rules are compared with: the days and clocks that a reader finds in a text,
all of them, wherever they stand, and the texts that say one thing only
(`PlainlyWritten`).

**LLMStream.** An event is pending between its data line and the blank line
that ends it. The model writes its reply in `Pieces`; only all of them are the
JSON of a plan. A message without text, which the interpreter refuses before
anything else, is an error like a stream that fails.

## 3. The runs

All runs set `CHECK_DEADLOCK FALSE`: every system here stops at its bounds
(updates, deliveries, attempts, faults), and a chat in which nobody writes
stops too.

| Run | Instance | Question | Distinct states |
|---|---|---|---|
| `AgentSolo` | 1 user, 2 bookings, 1 plan, 4 updates, 1 fault | consent, one effect, expiry, true "done", runs of the stored plan only, refinement of `ConfirmGate`, with a lost call, crash, timeout or redelivery anywhere; before it, plans said to be cancelled or unchanged are not executed | 1.13 M |
| `AgentGroup` | 2 users (symmetric), 1 slot, 2 plans, 3 updates, 1 fault | the same with two users and the other intents; dropped plans stay dropped; marks grow | 0.80 M |
| `AgentTapped` | as `AgentSolo`, no fault | finding 1 | violated |
| `AgentRepicked` | 1 user, 2 bookings, 1 plan, 5 updates, 1 fault; picks and confirmations only | finding 2 | violated |
| `Intake` | 2 chats, 2 updates, 4 deliveries, 1 fault | deduplication, drops, marks; every goroutine ends; refinement of `SerialChats` | 28 k |
| `Execution` | 3 confirmations, 3 faults | one effect, true success, every confirmation is answered; refinement of `SettledPlan` | 69 k |
| `DraftSafety` | 2 chats (symmetric), 3 answers, 3 drafts, 2 faults | the mutex, no stray heartbeat, answers stay | 2.37 M |
| `DraftLive` | 2 chats, 2 answers, 2 drafts, 1 fault | an answer is never stuck behind drafts | 22 k |
| `DraftOverwrite` | 2 chats, 2 answers, 3 drafts, no fault | finding 3 | violated |
| `AvailabilityPreview` | 2 days of 6 units, calendars of up to 3 slots, every shape of request | arithmetic, and agreement of preview and commit | 436 k |
| `AvailabilityShown` | the same | finding 4 | violated |
| `Answering` | 2 providers (3 hours ahead of UTC, 10 behind) and a guest, 8 bookings, 4 slots, 3 services, 24 messages of which 2 are sent, pages of 2, 1 change, 1 fault | the right provider, bookings offered fit the request, lists are whole, slots are the next ones, only whole replies count, every message ends | 332 k |

*Why the bounds are enough to be interesting.* Four updates are a message, a
pick, a confirmation and a retry, cancel, second pick or second message that
drops the plan; five let both of two picked bookings be confirmed. Two bookings
tell a picked one from another. Two plans are needed for a tap on a keyboard of
a plan that is gone. Two users are needed for every question of identity, and
two chats for every question of isolation. One fault puts a lost answer, a crash or a redelivery
anywhere, and three in `Execution` allow a lost submission, a lost poll and a
repeated request. In `Answering`, four bookings of one day make two pages and
more than the three that are offered; one is at half past midnight, local time;
two are over, one of them on the morning of today, so that ranges and a day that
are partly over are asked for; and one provider's today is another day in UTC.
Two messages are needed for a second user and for a list of services kept from
the first. Six units of time hold ranges that touch, overlap, contain one
another and end at the day's edges. Each property has a mutant in `PROJECT.json`
(a plausible slip in the code, kept in the modules next to the definition it
replaces) under which the same run fails, so the case it is about does occur
within the bounds. `AgentRepicked` needs five updates and a fault, which is a
large space: its cfg keeps to one request, picks and confirmations, each tapped
once and before expiry (the state constraint `PicksAndConfirms`). No other run
has a constraint; a violation found under one is a behaviour of the
unconstrained specification as well.

*Fairness.* Only four runs assume any. `Intake`: a goroutine that waits for a
Go mutex gets it although others compete (strong fairness; after a
millisecond the mutex is handed to the one that waits), and a handler's calls
end because its context does (weak fairness). `Execution`: the bot's own
calls return (client timeouts) and its timers fire; nothing is assumed of ACP
and the API. `DraftLive`: calls to Telegram end with the client's timeout, and
neither the mutex nor `select` starves a goroutine. `Answering`: the handler
goes on and its calls end, with the client's timeout if nothing else (weak
fairness of `Work`); no deadline is assumed to pass, so `EveryMessageEnds` says
that the loop over pages ends by itself. The abstract modules are safety
specifications and assume no fairness; what they promise besides, that a handler
that runs finishes (`Ended` of `SerialChats`) and a try is answered (`Answered`
of `SettledPlan`), is part of `EveryUpdateEnds` and is `EveryAttemptEnds`.

## 4. What disagrees with the repository's own words

1. `AgentTapped` / `ExecutesWhatWasTapped`: every preview of a plan has the
   same plan identifier, and the plan stored when the confirmation is processed
   is executed (`handler.go:978`), not the one above the tapped button
   (README.md:5). Tap two bookings one after the other, and "confirm" under
   the preview of the first before the second tap is processed: the second
   booking is cancelled.
2. `AgentRepicked` / `DoneIsTrue`: a picked booking changes the plan and not
   its identifier, and the key is made of chat, plan and intent
   (`handler.go:945`), so all bookings picked under one plan are confirmed with
   one key; README.md:94 gives every confirmed operation a key. Tap two
   bookings; the confirmation of the first takes the chat's lock before the
   second tap does, is handed over and carried out, and its answer is lost with
   the worker's time, and with that the mark. The second tap is then handled,
   its preview confirmed, and the answer for that key repeated (README.md:138):
   the bot says that the changes were applied (`handler.go:1024`), and the second
   booking is still there.
3. `DraftOverwrite` / `AnswerIsShown`: the heartbeat is stopped only after
   `Finalize` has returned; in between it can edit the preview back into a
   progress text, and the buttons are gone (`streaming.go:121`,
   `handler.go:379`).
4. `AvailabilityShown` / `RemovedSlotsGo`: slots of weekdays that were not
   selected are counted as removed (`adapter.go:309`), while the schedule that
   is committed leaves those days as they are.

Met while modelling, and not given a run of their own:

- Availability changes are written to Bookably directly (`acp_executor.go:86`),
  and so is a cancellation after a contract mismatch (117); README.md:38 and 54
  say that all confirmed operations go through ACP. `ConfirmedExecution` has
  both ways (`via`).
- `послезавтра` contains `завтра`, which is looked for first
  (`handler.go:1249`): the day after tomorrow is read as tomorrow.
  `prompts/intent_classifier.md` has it as today + 2 days.
- A date passes for a clock (`handler.go:32`): "10.02" is also two minutes past
  ten, and in "25.02 14:30" the leftmost match is 02:14 out of "02 14".
  A cancellation is then searched within six hours of that time.
- `reCancelTextDate` (`handler.go:34`) ends in `\b`, which in Go's regexp is a
  border of ASCII words; after a Cyrillic letter there is none, so a date with
  its month in letters is never found.
- An approximate time that is only a date is taken as exact
  (`adapter.go:1281`): the bookings offered are those until six o'clock in the
  morning.
- `not_before`, `preferred_at` and `preferred_date` without a zone are read as
  UTC (`adapter.go:1245`, `handler.go:1523`); README.md:105 says that the
  specialist's zone is used for all date resolution.
- A search for the next slot needs `service_id` (`handler.go:1501`), though a
  provider names a service by its title, as in README.md:52.
- A list of "past" bookings is asked for with the status CANCELLED
  (`adapter.go:134`), so bookings that took place are not in it.
- A message with the words for "nearest" and "booking" is answered with the
  week's list (`interpreter.go:144`), also when it asks to cancel that booking.

- A list that the API refuses with 404 is an empty list to
  `PreviewBookingCancel` (`adapter.go:450`).

The models follow the code in each of these. `OfferedFits` and
`ClaimsAreTrue` are stated for requests that the second to the fifth do not
touch (`PlainlyAsked`), and "not found" of an API that does not answer a list
with 404.

`PromisesKept` is claimed until a call fails, for a reason: with a failing save
the bot has said "cancelled" or "nothing changed" (`handler.go:368`, 838) and the
plan is still in the store. That what is said to be done is what was done is
claimed nowhere, as finding 2 refutes it; `DoneMeansEffect`, which holds under
faults, is weaker: of the plan of which "done" is said, some operation took
effect.
`KeptSlotsStayOpen` is claimed for slots that lie within a day: one that
ends at midnight is left out of the opening times of its day
(`adapter.go:1114`).

## 5. The proofs

Each component is proved in modules of its own, for every value of its
constants: every set of users, chats, bookings, messages and drafts, and every
bound on plans, updates, deliveries, attempts and faults.

| Module | Theorem | Statement |
|---|---|---|
| `ConfirmGate_proofs` | `GateTyped`, `GateHolds` | what `ConfirmGate` itself guarantees |
| `ChatAgent_proofs` | `TypeCorrect` | `Spec => []TypeOK` |
| `ChatAgentSafety_proofs` | `Consented` | what is executed was previewed to, and confirmed by, the user it is executed for |
| | `EffectOnce` | a plan has at most one effect |
| | `LateIsRefused` | a confirmation tapped after expiry executes nothing |
| | `DoneIsDone` | "done" is said of plans of which an operation took effect |
| | `RetiredForGood` | a dropped plan never comes back |
| | `RunMatchesStore` | a request is made for the stored plan, with its key and operation |
| | `LastIsKept` | the update processed last never decreases |
| | `ImplementsGate` | `ChatAgent` implements `ConfirmGate` |
| | `CancelledIsCancelled` | while no call has failed: a plan said to be dropped is not executed |
| `WebhookIntake_proofs` | `TypeCorrect` | `Spec => []TypeOK` |
| | `Exclusion` | from the test for duplicates to the mark, a goroutine has its chat for itself |
| | `HandledOnce` | an update is handled again only after its mark was lost |
| | `DroppedWhenOvertaken` | an update dropped unseen was overtaken by a later one |
| | `LastGrows` | the update processed last decreases only when the session is forgotten |
| | `ImplementsSerialChats` | the intake implements `SerialChats` |
| `ConfirmedExecution_proofs` | `TypeCorrect` | `Spec => []TypeOK` |
| | `EffectOnce` | a plan changes the schedule at most once |
| | `SuccessIsTrue` | success is answered when the change was made |
| | `ImplementsSettledPlan` | the executions implement `SettledPlan` |
| `DraftStream_proofs` | `TypeCorrect` | types, and `draftMu` is held by the one draft under way |
| | `HeartbeatsEnd` | an ended handler has no heartbeat |
| | `ReturnedStayAsShown` | a returned message is not overwritten |
| `Answering_proofs` | `TypeCorrect` | `Spec => []TypeOK` |
| | `ActorsOwnProvider` | searches are made with the provider of the user who wrote |
| | `OnlyFinishedAnswers` | only a reply that the model has finished is acted upon |
| | `ListsWhole` | a list has every booking of its days that lies ahead and was there throughout, once and in order, and none that is over |
| | `NextSlotsProposed` | no slot that was free throughout lies before one that is proposed |
| | `OffersFit` | the bookings offered for cancellation are the user's own, lie ahead and fit the request |
| | `ClaimsHold` | a booking ahead that fits and is not offered is none when one is selected or none is found, and comes later when three are offered |
| | `PlainDayIsRead` | in a plain text the rules find the day that a reader finds |
| `Availability_proofs` | `TypeCorrect` | `Spec => []TypeOK`, with opening times within their day |
| | `OpeningAlwaysExact` | the opening times are what was open without what is cut off, and well-formed |
| | `KeptAlwaysOpen` | a slot that is not counted as removed stays open |
| | `LostAlwaysNamed` | a booking that is left out is among the conflicts |

None of the properties is inductive by itself. In each module `IInv` is the
strengthening that is: `Init => IInv` and `IInv /\ [Next]_vars => IInv'` are
proved action by action, and each theorem is then a few lines. Every `IInv` was
first checked by TLC on the instance of its component's run.

*ChatAgent.* That a request was previewed says nothing about the session from
which the next request is made, so `IInv` (`ChatAgentSafety_proofs`) says it of
sessions: of the stored one and of the worker's copy, at each program counter
where the copy matters.

- `PlanSound`: the plan was not retired, belongs to the session's user, every
  keyboard that names it was shown to that user, and its key is a function of
  its identifier and an intent with which all earlier runs of it agree. The
  last part is why a retry, also of another candidate, has the same key.
- `PlanOffered`: if the plan could be executed, there is a keyboard that shows
  this very operation with a button to apply it. It is broken between the pick
  of a candidate and the message that shows it (`Offering`), and the save that
  makes the pick lasting comes after that message: this order in
  `handleSlotSelection` and `handleBookingSelection` is what consent rests on.
- `HandlerOK`: on the way from the tap to the request (`Pressing`) the worker's
  plan is the stored one, named by the update and not expired. It holds because
  nobody else writes the session while the mutex is held, and a mark that
  follows a lost save reads the session again.
- `History`: what runs, effects and retired plans have in common.

`ImplementsGate` maps `SendText` of a preview to `Offer`, the request to
`Confirm`, an effect to `TakeEffect`, a plan that leaves the store to `Close`,
and everything else to a stutter.

`PromisesKept` looks back at what was said, and is kept by what must come next.
`Ledger`: statements and requests are about the stored plan, or about plans that
were dropped for good. `Settled`: of what was said or requested
of the stored plan, the handler at work still has something to do, namely to
save the session without the plan it spoke of (`Dropping`), or to learn, report
and save what became of its request (`Settling`). So there is no way back to the
plan, and no request for it after "cancelled". A fault in between breaks this,
and `Settled` is claimed while `faults` is what it was at the start (`NoFaultYet`). The rest of the invariant (`Statements`, `Ledger`)
holds under faults as well.

*WebhookIntake.* All rests on `Mutex`: the goroutine past its `Lock` is the
holder. From it follows `HandlersOK`: what the test for duplicates saw is still
so when the handler starts, saves and marks, except that Redis may have
forgotten the session; so the session never remembers an update as late as the
one in hand. `MarksOK` counts: each start of a handler is matched by a lost
mark, except one that is remembered (`last`) or still runs. `Origins` and
`LastKnown` tie identifiers to updates that were issued and handled.
`ImplementsSerialChats` maps `HandlerLoads` to the abstract module's start,
`HandlerEnds` and the mark to its finish, the two faults to a restart and a
forgotten session, and the rest to stutters.

*ConfirmedExecution.* `OneKey`: every run that ACP keeps and every request that
reaches the API carries the plan's one key, so what the API applies once per key
it applies once per plan. `Witnessed`: an attempt, a run or a response that says
"done" has an effect behind it, also when the answer arrives after the runner
has given up on another. `OnlyBegun`: nothing is known of attempts that have not
been made.

*DraftStream.* `Control` is about goroutines: the holder of `draftMu` is the
drafting one, and a reporter that is off has neither a heartbeat nor a handler
that drafts. `Display` is about messages: the progress message of a chat and the
one that its `Finalize` has read are unreturned messages of that chat. Both may
differ, since a draft may replace a deleted progress message while `Finalize`
edits the old one; what makes the property hold is that `Finalize` forgets the
progress message in the step that returns it, under the mutex.

*Answering.* `ActorOK` follows the provider from the API's answer to "who am I"
through `search`, the handler's copy and the store: at each program counter it
is the one of the user who wrote, and `ProviderAtFirst` drops one that another
user left. `StreamOK` bounds what the client has read by what the model has
sent; a stream that ended well has had its `[DONE]`. `CallOK` says that the body
of a read answers the question of its step.

`ListIsWhole` and `SlotsAreNext` rest on a second invariant, `SInv`, inductive
given `IInv`: what a search has found so far. `PagesRead` is that of the loop of
`GetBookings`: every booking that is asked for and was there throughout has been
found or lies after the cursor, and what was found is in order and not after the
cursor. `PageListed` and `SlotsListed` say what an answer is worth, from its head
to the end of its body: bookings come and go meanwhile, and the answer remains
good because it was computed at an instant at which all of `kept` was there and
nothing that is not in `seen` (`PageIsPage`, `SlotsBody`). What a page leaves
out comes after its last booking; that there is one is `FirstAndLast`.
`LastPageCompletes` is the end of the loop: a page without a cursor, or an empty
one that repeats the cursor it was asked for, leaves nothing out. What
sorting and cutting make of a list is a matter of lists (`SetToSeqsLists` and
the lemmas after it): each thing that is cut off comes no earlier than those
that stay. `sort.Slice` leaves items of one time in any order, and so do
`Chronologies`.

`OfferedFits` and `ClaimsAreTrue` are the third layer, `CInv`, inductive given
the other two. It adds what a cancellation is on its way with: its parameters
are the reply's, completed by the rules on dates (`CancelSaid`), the offset
that came is the provider's (`ZoneListed`), and the interval asked for is the
one that these parameters make (`CancelAsked`). The rest is about operators,
and goes from the words to the bookings and back. `PlainDateIsRead`,
`PlainDayIsRead` and `PlainClockIsRead`: in a plain text the leftmost match of each
pattern is the date or the clock that the text says, however many numbers
surround it. `WishIsMeant`: so the completed parameters mean the days and the
clock of the wish. `MatchIsMeant`: a booking that the filter keeps is then one
that is described, and a booking that is described is kept and lies in the
interval asked for. `CancelFinds` puts this together with `PagesRead`: what the
loop over the pages has found contains every booking that fits and was there
throughout, so that what is not among the matches does not fit, and what is cut
off after the third comes later (`MatchesAreClaimed`). Of a range of more than
31 days only the first 31 are claimed, since no more are asked for
(`adapter.go:1367`).

*Availability.* The invariant is short: what a plan stores is what its slots and
parameters make of it, also after clients have booked more of them, since a
booked slot stays in the list (`Unmoved`). The work is in what the functions
compute, for lists of every length. The provers have no rule of induction that
they can use, but they do have that a set of numbers has a least element
(`LeastNatural`), and `Induction` makes of it a rule about sets. With it:
`SortedExists`, that ranges can be sorted; `MergingUnfolds` and `CuttingUnfolds`,
that the recursive functions exist; `MergingIsExact` and `CuttingIsExact`, the
invariants of the two loops of `adapter.go` (the first `k` ranges are merged
into a chain that covers them and starts before the rest; after `k` cuts the
ranges cover what the cuts have left). `SubtractIsExact` combines the two.
`KeptStays` is where the two computations of the preview meet: a slot that
overlaps no window to remove is covered, unit by unit, by what is left of its
day, and what a chain covers without a gap lies in one of its ranges
(`ChainHasNoSeams`).

*Assumptions.* One or two per module that declares constants, all evaluated by
TLC in the runs: numbers are numbers, and sets are what they are called. Beyond
that, `AgentAssumption` says of drafts what the previews guarantee (a change of
availability has no candidates, a cancellation that asks for confirmation has
its booking). That filtering a draft's candidates yields targets only, and no
more of them, is proved (`KeepingType`), by an induction on the candidates seen.
`DataAssumption` (`Answering`) says that bookings and slots are finite in number
and have a time, and that no two bookings share an identifier;
`MessagesAssumption` that a reply has one of the intents of the domain, that
its parameters are those of the domain, there or not, with times that are
numbers (`IsParams`), and that a text has its marks between its numbers
(`IsText`). That the model understood the message is not among the assumptions:
it is the hypothesis of the two properties (`PlainlyAsked`), and the run has
messages on both sides of it. The backend applying an idempotency key at most once is part of the
models (`BackendApplies`, and the API of `ConfirmedExecution`).

*Only model-checked*: liveness (`EveryUpdateEnds`, `EveryAttemptEnds`,
`EveryAnswerEnds`, `EveryMessageEnds`), which is out of the prover's reach. Every
other property of a passing run is stated by a theorem.

## 6. Not modelled

The prompt, and which JSON is in a model's reply; the language model clients
that `main.go` does not wire (OpenAI, Anthropic, Amvera) and the stub; texts and
Markdown; configuration, logging; the secret token of the webhook; the JSON of
sessions, runs and requests; the dialog history. Of time: daylight saving,
real lengths of months, a clock that moves during a message, and layouts of
times that do not parse. The zone stored in the session and the one the API
gives are the same, since a provider's zone does not change here.

## 7. Plan

Done: `ChatSession`, `ChatAgent`, `ConfirmGate`; `WebhookIntake` with
`SerialChats`, `ConfirmedExecution` with `SettledPlan`, `DraftStream`,
`Availability`; `Answering` with `BookablyClient`, `LLMStream`, `BookingSearch`
and `DateWords`; proofs for all of them.

1. A clock that moves in `Answering`, and a provider's zone that changes.
2. What the bot says of the other intents (services, free slots by name of the
   service) compared with the wish, as `OfferedFits` does for cancellations.
3. The number of runs is kept small: new questions about a part are asked in
   its run where the instance allows.
