---------------------------- MODULE WebhookIntake ----------------------------
(***************************************************************************)
(* How updates of several chats reach their handlers: Telegram delivers    *)
(* them over parallel connections, ServeHTTP acknowledges each one and     *)
(* starts a goroutine, and the goroutines of a chat contend for its mutex, *)
(* check the stored last_processed_update_id, run the handler and mark the *)
(* update.  ChatAgent models the handlers; here one is a load and a save   *)
(* of the whole session, of which only last_processed_update_id is kept.   *)
(*                                                                         *)
(* The context of a goroutine is created before the mutex is taken, so its *)
(* deadline may pass while it waits; a call made with an expired context   *)
(* fails.                                                                  *)
(***************************************************************************)
EXTENDS Naturals

CONSTANTS
    Chats,
    NoChat,        \* the chat of a goroutine not started
    MaxUpdates,    \* bound: updates issued by Telegram
    MaxDeliveries, \* bound: webhook requests
    MaxFaults      \* bound: lost acknowledgements and calls, crashes, evictions

ASSUME IntakeAssumption ==
    /\ NoChat \notin Chats
    /\ MaxUpdates \in Nat
    /\ MaxDeliveries \in Nat
    /\ MaxFaults \in Nat

VARIABLES
    issued,  \* updates sent to the bot
    pending, \* updates that Telegram still has to deliver
    worker,  \* the goroutines, in the order they were started
    started, \* number of goroutines started
    lock,    \* per chat, the goroutine that holds its mutex (0: none)
    last,    \* per chat, the stored last_processed_update_id
    handled, \* per update, how often its handler was started
    unmarked, \* per update, how often its mark was lost afterwards
    skipped, \* updates dropped as duplicates
    faults   \* faults left

vars == <<issued, pending, worker, started, lock, last, handled, unmarked,
          skipped, faults>>

Ids     == 1..MaxUpdates
Workers == 1..MaxDeliveries
Update  == [id : Ids, chat : Chats]

\* "lock": waits for the mutex; "save": the handler has loaded the session
\* and will save it; "mark": the deferred mark is left to do.
PCs == {"none", "lock", "dedupe", "handle", "save", "mark", "done"}

\* A goroutine: its update (id 0: not started), whether its context is still
\* live, and the last_processed_update_id of the session its handler loaded.
Goroutine == [pc : PCs \ {"none"}, id : Ids, chat : Chats, live : BOOLEAN,
              copy : Ids \cup {0}]

NotStarted == [pc |-> "none", id |-> 0, chat |-> NoChat,
               live |-> TRUE, copy |-> 0]

TypeOK ==
    /\ issued \subseteq Update /\ pending \subseteq issued
    /\ worker \in [Workers -> Goroutine \cup {NotStarted}]
    /\ started \in 0..MaxDeliveries
    /\ lock \in [Chats -> Workers \cup {0}]
    /\ last \in [Chats -> Ids \cup {0}]
    /\ handled \in [Ids -> Nat] /\ unmarked \in [Ids -> Nat]
    /\ skipped \subseteq Ids
    /\ faults \in 0..MaxFaults

Init ==
    /\ issued = {} /\ pending = {}
    /\ worker = [i \in Workers |-> NotStarted] /\ started = 0
    /\ lock = [c \in Chats |-> 0]
    /\ last = [c \in Chats |-> 0]
    /\ handled = [u \in Ids |-> 0] /\ unmarked = [u \in Ids |-> 0]
    /\ skipped = {}
    /\ faults = MaxFaults

Fault == faults > 0 /\ faults' = faults - 1
Calm  == faults' = faults

-----------------------------------------------------------------------------
\* External: a user of the chat writes or taps.
TelegramIssues(c) ==
    \E id \in Ids :
        /\ \A u \in issued : u.id < id
        /\ \A v \in Ids : v < id => \E u \in issued : u.id = v
        /\ issued' = issued \cup {[id |-> id, chat |-> c]}
        /\ pending' = pending \cup {[id |-> id, chat |-> c]}
        /\ UNCHANGED <<worker, started, lock, last, handled, unmarked, skipped,
                       faults>>

\* The update is accepted and a goroutine is started for it; if the
\* acknowledgement is lost, Telegram will deliver the update again.
ServeHTTP(u) ==
    /\ started < MaxDeliveries
    /\ started' = started + 1
    /\ worker' = [worker EXCEPT ![started + 1] =
                    [NotStarted EXCEPT !.pc = "lock", !.id = u.id,
                                       !.chat = u.chat]]
    /\ \/ Calm /\ pending' = pending \ {u}
       \/ Fault /\ pending' = pending
    /\ UNCHANGED <<issued, lock, last, handled, unmarked, skipped>>

\* workerTimeout passes.
ContextExpires(i) ==
    /\ worker[i].pc \notin {"none", "done"}
    /\ worker[i].live
    /\ worker' = [worker EXCEPT ![i].live = FALSE]
    /\ UNCHANGED <<issued, pending, started, lock, last, handled, unmarked,
                   skipped, faults>>

-----------------------------------------------------------------------------
\* Mutant: nothing excludes the other goroutines of the chat.
withoutChatLock(i) ==
    /\ worker[i].pc = "lock"
    /\ lock' = [lock EXCEPT ![worker[i].chat] = i]
    /\ worker' = [worker EXCEPT ![i].pc = "dedupe"]
    /\ UNCHANGED <<issued, pending, started, last, handled, unmarked, skipped,
                   faults>>

withChatLock(i) ==
    /\ worker[i].pc = "lock"
    /\ lock[worker[i].chat] = 0
    /\ lock' = [lock EXCEPT ![worker[i].chat] = i]
    /\ worker' = [worker EXCEPT ![i].pc = "dedupe"]
    /\ UNCHANGED <<issued, pending, started, last, handled, unmarked, skipped,
                   faults>>

\* Mutant: a goroutine whose context has expired keeps the mutex.
EndUnlessExpired(i) ==
    /\ worker' = [worker EXCEPT ![i].pc = "done"]
    /\ lock' = [lock EXCEPT ![worker[i].chat] =
                  IF worker[i].live THEN 0 ELSE i]

\* fn returns: the deferred Unlock, and the end of the goroutine.
End(i) ==
    /\ worker' = [worker EXCEPT ![i].pc = "done"]
    /\ lock' = [lock EXCEPT ![worker[i].chat] = 0]

Goto(i, pc) ==
    /\ worker' = [worker EXCEPT ![i].pc = pc]
    /\ lock' = lock

\* A call of goroutine i fails: its context has expired, or another reason.
CallFails(i)    == IF worker[i].live THEN Fault ELSE Calm
CallSucceeds(i) == worker[i].live /\ Calm

\* Mutants: only the very same update is a duplicate; one session for all.
SeenExactly(i) == last[worker[i].chat] = worker[i].id
SeenInAnyChat(i) == \E c \in Chats : last[c] >= worker[i].id

Seen(i) == last[worker[i].chat] >= worker[i].id

\* An update is dropped when it, or a later one, was processed before; it is
\* dropped with nothing marked when the session cannot be read.
isDuplicateUpdate(i) ==
    /\ worker[i].pc = "dedupe"
    /\ \/ /\ CallFails(i)
          /\ End(i)
          /\ UNCHANGED skipped
       \/ /\ CallSucceeds(i)
          /\ Seen(i)
          /\ End(i)
          /\ skipped' = skipped \cup {worker[i].id}
       \/ /\ CallSucceeds(i)
          /\ ~Seen(i)
          /\ Goto(i, "handle")
          /\ UNCHANGED skipped
    /\ UNCHANGED <<issued, pending, started, last, handled, unmarked>>

\* handleMessage or handleCallback loads the session, or fails to.
HandlerLoads(i) ==
    /\ worker[i].pc = "handle"
    /\ handled' = [handled EXCEPT ![worker[i].id] = @ + 1]
    /\ \/ CallFails(i) /\ Goto(i, "mark")
       \/ /\ CallSucceeds(i)
          /\ worker' = [worker EXCEPT ![i].pc = "save",
                                      ![i].copy = last[worker[i].chat]]
          /\ lock' = lock
    /\ UNCHANGED <<issued, pending, started, last, unmarked, skipped>>

\* Mutant: the mutex is released before the deferred mark.
HandlerEndsUnlocked(i) ==
    /\ worker[i].pc = "save"
    /\ worker' = [worker EXCEPT ![i].pc = "mark"]
    /\ lock' = [lock EXCEPT ![worker[i].chat] = 0]
    /\ \/ CallSucceeds(i) /\ last' = [last EXCEPT ![worker[i].chat] =
                                        worker[i].copy]
       \/ Calm /\ UNCHANGED last
    /\ UNCHANGED <<issued, pending, started, handled, unmarked, skipped>>

\* It saves the whole session it loaded, or ends without a save: an error,
\* or a tap on a stale button.
HandlerEnds(i) ==
    /\ worker[i].pc = "save"
    /\ Goto(i, "mark")
    /\ \/ CallSucceeds(i) /\ last' = [last EXCEPT ![worker[i].chat] =
                                        worker[i].copy]
       \/ Calm /\ UNCHANGED last
    /\ UNCHANGED <<issued, pending, started, handled, unmarked, skipped>>

\* Mutant: the mark is off by one.
MarkNext(i) ==
    /\ worker[i].pc = "mark"
    /\ CallSucceeds(i)
    /\ End(i)
    /\ last' = [last EXCEPT ![worker[i].chat] = worker[i].id + 1]
    /\ UNCHANGED <<issued, pending, started, handled, unmarked, skipped>>

\* The deferred mark: reads the session again and stores the update's
\* identifier in it, with the goroutine's context.
markUpdateProcessed(i) ==
    /\ worker[i].pc = "mark"
    /\ End(i)
    /\ \/ /\ CallSucceeds(i)
          /\ last' = [last EXCEPT ![worker[i].chat] =
                        IF worker[i].id <= @ THEN @ ELSE worker[i].id]
          /\ UNCHANGED unmarked
       \/ /\ CallFails(i)
          /\ unmarked' = [unmarked EXCEPT ![worker[i].id] = @ + 1]
          /\ UNCHANGED last
    /\ UNCHANGED <<issued, pending, started, handled, skipped>>

-----------------------------------------------------------------------------
\* The updates that are not marked yet when every goroutine stops.
InHandler(id) == {i \in Workers : /\ worker[i].id = id
                                  /\ worker[i].pc \in {"save", "mark"}}

\* The process stops and is restarted: the goroutines are gone, mutexes are
\* free.  On a signal main waits for open requests, not for goroutines.
Crash ==
    /\ Fault
    /\ worker' = [i \in Workers |->
                    IF worker[i].pc = "none"
                      THEN worker[i] ELSE [worker[i] EXCEPT !.pc = "done"]]
    /\ lock' = [c \in Chats |-> 0]
    /\ unmarked' = [id \in Ids |-> IF InHandler(id) = {} THEN unmarked[id]
                                                         ELSE unmarked[id] + 1]
    /\ UNCHANGED <<issued, pending, started, last, handled, skipped>>

\* The session's TTL passes without a save: Redis forgets the session.
SessionExpires(c) ==
    /\ Fault
    /\ last[c] > 0
    /\ last' = [last EXCEPT ![c] = 0]
    /\ unmarked' = [id \in Ids |->
                      IF handled[id] > 0 /\ [id |-> id, chat |-> c] \in issued
                        THEN unmarked[id] + 1 ELSE unmarked[id]]
    /\ UNCHANGED <<issued, pending, worker, started, lock, handled, skipped>>

-----------------------------------------------------------------------------
Process(i) ==
    \/ isDuplicateUpdate(i)
    \/ HandlerLoads(i)
    \/ HandlerEnds(i)
    \/ markUpdateProcessed(i)

Next ==
    \/ \E c \in Chats : TelegramIssues(c) \/ SessionExpires(c)
    \/ \E u \in pending : ServeHTTP(u)
    \/ \E i \in Workers : withChatLock(i) \/ Process(i) \/ ContextExpires(i)
    \/ Crash

Spec == Init /\ [][Next]_vars

\* Go's mutex hands over to a goroutine that has waited for a millisecond,
\* and the calls of a handler end with its context.
Fairness ==
    \A i \in Workers : SF_vars(withChatLock(i)) /\ WF_vars(Process(i))

FairSpec == Spec /\ Fairness

-----------------------------------------------------------------------------
\* The handler of an update is started again only if its mark was lost: two
\* deliveries of it, or a save of what a handler loaded, cannot undo a mark.
HandledAgainOnlyUnmarked == \A id \in Ids : handled[id] <= 1 + unmarked[id]

\* An update that was dropped without ever being handled was overtaken by a
\* later update of its own chat: no update is dropped on behalf of another
\* chat, or of an earlier update.
DroppedOnlyWhenOvertaken ==
    \A u \in issued : u.id \in skipped /\ handled[u.id] = 0 =>
        \E v \in issued : v.chat = u.chat /\ v.id > u.id /\ handled[v.id] > 0

\* Once an update is processed, its identifier is never replaced by a lower
\* one while the session lives, although handlers save whole sessions.
LastProcessedGrows ==
    [][\A c \in Chats : last'[c] < last[c] => SessionExpires(c)]_vars

-----------------------------------------------------------------------------
\* A handler runs from the load of the session to the mark.
HandlersOf(c) ==
    {i \in Workers : worker[i].chat = c /\ worker[i].pc \in {"save", "mark"}}

Serial ==
    INSTANCE SerialChats WITH
        Jobs <- Workers,
        handling <- [c \in Chats |->
                        {[job |-> i, id |-> worker[i].id] : i \in HandlersOf(c)}],
        begun <- [c \in Chats |->
                     {id \in Ids : handled[id] > 0 /\ [id |-> id, chat |-> c] \in issued}],
        top <- last

\* The intake keeps the promise of SerialChats (handler.go 243-320, 447-471):
\* the mutex, the test for duplicates before the handler and the mark after
\* it together let the handlers of a chat run one at a time, each with an
\* update later than the last one marked.
SerialSpec == Serial!Spec

\* Each handler ends, and a goroutine that waits for its chat's mutex gets it
\* and ends, even when goroutines before it run out of time (the deferred
\* Unlock in withChatLock, handler.go 303-308, and the worker's context).
EveryUpdateEnds ==
    /\ Serial!Ended
    /\ \A i \in Workers : worker[i].pc = "lock" ~> worker[i].pc = "done"
=============================================================================
