----------------------------- MODULE DraftStream -----------------------------
(***************************************************************************)
(* How a chat's answer gets on the screen: the Streamer, shared by all     *)
(* chats, and the progress reporter of handleMessage.  While a message is  *)
(* interpreted and answered, the handler and a heartbeat goroutine send    *)
(* drafts.  When Telegram refuses sendMessageDraft, Draft falls back to a  *)
(* progress message that it edits, and whose identifier it keeps per chat; *)
(* Finalize then turns that message into the answer.  The reporter is      *)
(* stopped only when handleMessage returns, after Finalize.                *)
(*                                                                         *)
(* Abstractions.  Clocks and texts are left out: a draft may be due at any *)
(* time.  A refusal of the buttons' style is followed by the same call     *)
(* without it, so it is not a step.  A native draft disappears by itself   *)
(* and is not on the screen.                                               *)
(***************************************************************************)
EXTENDS Naturals, Sequences

CONSTANTS
    Chats,
    MaxAnswers, \* bound: calls of Finalize
    MaxDrafts,  \* bound: drafts
    MaxFaults   \* bound: refused or lost calls, deleted messages, crashes

ASSUME StreamAssumption ==
    /\ MaxAnswers \in Nat
    /\ MaxDrafts \in Nat
    /\ MaxFaults \in Nat

VARIABLES
    pc,       \* next step of each goroutine
    reporter, \* per chat, whether drafts are "off", "on" or "disabled"
    target,   \* per chat, the message_id Finalize read
    number,   \* per chat, the answer Finalize is to show
    mu,       \* the goroutine that holds draftMu (or Nobody)
    progress, \* progressMessageIDs (0: none)
    screen,   \* the messages sent, by message_id
    returned, \* answers whose message_id Finalize returned
    answers,  \* number of answers so far
    drafts,   \* number of drafts so far
    faults    \* faults left

vars == <<pc, reporter, target, number, mu, progress, screen, returned,
          answers, drafts, faults>>

\* The goroutine that runs the handler of a chat, and its heartbeat.
Goroutines == Chats \X {"handler", "beat"}
Nobody     == <<>>
Handler(c) == <<c, "handler">>
Beat(c)    == <<c, "beat">>

\* "idle" (of a heartbeat: not running); "run": the handler interprets, the
\* heartbeat waits for its ticker; "wait", "draft", "upsert": in Draft;
\* "read" to "send": in Finalize; "stop": in stopProgress.
PCs == {"idle", "run", "wait", "draft", "upsert", "read", "edit", "clear",
        "send", "stop"}

Message == [chat : Chats, shows : {"progress", "answer", "nothing"},
            number : Nat]
Answer  == [msg : Nat, number : Nat]

\* Types, and draftMu is held by the one goroutine whose draft is under way.
TypeOK ==
    /\ pc \in [Goroutines -> PCs]
    /\ reporter \in [Chats -> {"off", "on", "disabled"}]
    /\ target \in [Chats -> 0..Len(screen)]
    /\ number \in [Chats -> 0..answers]
    /\ mu \in Goroutines \cup {Nobody}
    /\ progress \in [Chats -> 0..Len(screen)]
    /\ screen \in Seq(Message) /\ returned \subseteq Answer
    /\ answers \in 0..MaxAnswers /\ drafts \in 0..MaxDrafts
    /\ faults \in 0..MaxFaults
    /\ \A g \in Goroutines : mu = g <=> pc[g] \in {"draft", "upsert"}

Init ==
    /\ pc = [g \in Goroutines |-> "idle"]
    /\ reporter = [c \in Chats |-> "off"]
    /\ target = [c \in Chats |-> 0] /\ number = [c \in Chats |-> 0]
    /\ mu = Nobody
    /\ progress = [c \in Chats |-> 0]
    /\ screen = <<>> /\ returned = {}
    /\ answers = 0 /\ drafts = 0
    /\ faults = MaxFaults

Fault == faults > 0 /\ faults' = faults - 1
Calm  == faults' = faults

-----------------------------------------------------------------------------
(***************************************************************************)
(* Telegram: messages are numbered as they are sent; one that the user     *)
(* deleted shows nothing and cannot be edited.                             *)
(***************************************************************************)

Progress(c)   == [chat |-> c, shows |-> "progress", number |-> 0]
TheAnswer(c)  == [chat |-> c, shows |-> "answer", number |-> number[c]]
sendMessage(m) == screen' = Append(screen, m)

editMessageText(id, m) == screen' = [screen EXCEPT ![id] = m]
Editable(id) == screen[id].shows # "nothing"

UserDeletes(id) ==
    /\ Fault
    /\ Editable(id)
    /\ screen' = [screen EXCEPT ![id].shows = "nothing"]
    /\ UNCHANGED <<pc, reporter, target, number, mu, progress, returned,
                   answers, drafts>>

-----------------------------------------------------------------------------
(***************************************************************************)
(* newStreamProgressReporter and Draft.                                    *)
(***************************************************************************)

\* sendDraft, unless a draft failed before or it is too early for one.
sendDraft(g) ==
    /\ drafts < MaxDrafts
    /\ drafts' = drafts + 1
    /\ pc' = [pc EXCEPT ![g] = "wait"]

\* handleMessage starts the reporter, which sends a first draft.
newStreamProgressReporter(c) ==
    /\ pc[Handler(c)] = "idle"
    /\ answers < MaxAnswers
    /\ sendDraft(Handler(c))
    /\ reporter' = [reporter EXCEPT ![c] = "on"]
    /\ UNCHANGED <<target, number, mu, progress, screen, returned, answers,
                   faults>>

\* progressFn while the interpreter streams, or a tick of the heartbeat.
progressFn(g) ==
    /\ pc[g] = "run"
    /\ reporter[g[1]] = "on"
    /\ sendDraft(g)
    /\ UNCHANGED <<reporter, target, number, mu, progress, screen, returned,
                   answers, faults>>

Draft(g) ==
    /\ pc[g] = "wait"
    /\ mu = Nobody
    /\ mu' = g
    /\ pc' = [pc EXCEPT ![g] = "draft"]
    /\ UNCHANGED <<reporter, target, number, progress, screen, returned,
                   answers, drafts, faults>>

\* Draft returns; after the handler's first draft the heartbeat is started.
DraftReturns(g) ==
    /\ mu' = Nobody
    /\ LET c == g[1] IN
       pc' = [pc EXCEPT ![g] = "run",
                ![Beat(c)] = IF g = Handler(c) /\ @ = "idle" THEN "run" ELSE @]

Succeeds(g) == DraftReturns(g) /\ UNCHANGED reporter

\* Mutant: draftMu stays locked after an error.
FailsLocked(g) ==
    /\ reporter' = [reporter EXCEPT ![g[1]] = "disabled"]
    /\ mu' = mu
    /\ pc' = [pc EXCEPT ![g] = "run"]

\* No draft is sent after one that failed.
Fails(g) ==
    /\ reporter' = [reporter EXCEPT ![g[1]] = "disabled"]
    /\ DraftReturns(g)

\* Mutant: the fallback runs without the lock.
FallsBackUnlocked(g) ==
    /\ pc' = [pc EXCEPT ![g] = "upsert"]
    /\ mu' = Nobody
    /\ UNCHANGED reporter

FallsBack(g) ==
    /\ pc' = [pc EXCEPT ![g] = "upsert"]
    /\ UNCHANGED <<mu, reporter>>

\* sendMessageDraft is shown, refused (not supported, rate-limited), or lost.
sendMessageDraft(g) ==
    /\ pc[g] = "draft"
    /\ \/ Calm /\ Succeeds(g)
       \/ Calm /\ FallsBack(g)
       \/ Fault /\ Fails(g)
    /\ UNCHANGED <<target, number, progress, screen, returned, answers,
                   drafts>>

\* There is no progress message: one is sent.
CreateProgressMessage(g) ==
    LET c == g[1] IN
    /\ progress[c] = 0
    /\ \/ /\ Calm
          /\ sendMessage(Progress(c))
          /\ progress' = [progress EXCEPT ![c] = Len(screen')]
          /\ Succeeds(g)
       \/ /\ Fault
          /\ sendMessage(Progress(c)) \/ UNCHANGED screen
          /\ UNCHANGED progress
          /\ Fails(g)

\* There is one: it is edited.  An edit that changes nothing is an error;
\* when the message was deleted, another one is sent.
EditProgressMessage(g) ==
    LET c == g[1]
        p == progress[c]
    IN  /\ p # 0
        /\ \/ /\ Calm /\ Editable(p)
              /\ editMessageText(p, Progress(c))
              /\ Succeeds(g)
              /\ UNCHANGED progress
           \/ /\ Calm /\ screen[p].shows = "progress"
              /\ Fails(g)
              /\ UNCHANGED <<screen, progress>>
           \/ /\ Calm /\ ~Editable(p)
              /\ progress' = [progress EXCEPT ![c] = 0]
              /\ UNCHANGED <<screen, pc, mu, reporter>>
           \/ /\ Fault /\ Editable(p)
              /\ editMessageText(p, Progress(c)) \/ UNCHANGED screen
              /\ Fails(g)
              /\ UNCHANGED progress

upsertProgressMessage(g) ==
    /\ pc[g] = "upsert"
    /\ CreateProgressMessage(g) \/ EditProgressMessage(g)
    /\ UNCHANGED <<target, number, returned, answers, drafts>>

\* The heartbeat ends: done is closed, or (a fault) the context expired.
HeartbeatEnds(c) ==
    /\ pc[Beat(c)] = "run"
    /\ IF pc[Handler(c)] = "stop" THEN Calm ELSE Fault
    /\ pc' = [pc EXCEPT ![Beat(c)] = "idle"]
    /\ UNCHANGED <<reporter, target, number, mu, progress, screen, returned,
                   answers, drafts>>

\* Mutant: stopProgress does not wait for the heartbeat.
stopWithoutWaiting(c) ==
    /\ pc[Handler(c)] = "stop"
    /\ pc' = [pc EXCEPT ![Handler(c)] = "idle"]
    /\ reporter' = [reporter EXCEPT ![c] = "off"]
    /\ UNCHANGED <<target, number, mu, progress, screen, returned, answers,
                   drafts, faults>>

\* stopProgress waits for the heartbeat, and handleMessage returns.
stopProgress(c) ==
    /\ pc[Handler(c)] = "stop"
    /\ pc[Beat(c)] = "idle"
    /\ pc' = [pc EXCEPT ![Handler(c)] = "idle"]
    /\ reporter' = [reporter EXCEPT ![c] = "off"]
    /\ UNCHANGED <<target, number, mu, progress, screen, returned, answers,
                   drafts, faults>>

-----------------------------------------------------------------------------
(***************************************************************************)
(* Finalize (SendText is the same call).                                   *)
(***************************************************************************)

\* The answer of a message, or a text sent without a reporter: the answer to
\* a tap, the warning that a pending plan is dropped.
Answers(c) ==
    /\ pc[Handler(c)] \in {"idle", "run"}
    /\ answers < MaxAnswers
    /\ answers' = answers + 1
    /\ number' = [number EXCEPT ![c] = answers + 1]
    /\ pc' = [pc EXCEPT ![Handler(c)] = "read"]
    /\ UNCHANGED <<reporter, target, mu, progress, screen, returned, drafts,
                   faults>>

\* The progress message is read under draftMu, and used after its release.
ReadsProgress(c) ==
    /\ pc[Handler(c)] = "read"
    /\ mu = Nobody
    /\ target' = [target EXCEPT ![c] = progress[c]]
    /\ pc' = [pc EXCEPT ![Handler(c)] =
                IF progress[c] = 0 THEN "send" ELSE "edit"]
    /\ UNCHANGED <<reporter, number, mu, progress, screen, returned, answers,
                   drafts, faults>>

FinalizeReturns(c) ==
    pc' = [pc EXCEPT ![Handler(c)] =
             IF reporter[c] = "off" THEN "idle" ELSE "stop"]

\* A progress message that cannot be edited is left as it is.
EditsProgress(c) ==
    /\ pc[Handler(c)] = "edit"
    /\ \/ /\ Calm /\ Editable(target[c])
          /\ editMessageText(target[c], TheAnswer(c))
          /\ pc' = [pc EXCEPT ![Handler(c)] = "clear"]
       \/ /\ IF Editable(target[c]) THEN Fault ELSE Calm
          /\ \/ UNCHANGED screen
             \/ /\ Editable(target[c])
                /\ editMessageText(target[c], TheAnswer(c))
          /\ pc' = [pc EXCEPT ![Handler(c)] = "send"]
    /\ UNCHANGED <<reporter, target, number, mu, progress, returned, answers,
                   drafts>>

\* Mutant: the message that shows the answer is still edited.
keepProgressMessage(c) == UNCHANGED progress

clearProgressMessage(c) == progress' = [progress EXCEPT ![c] = 0]

ClearsProgress(c) ==
    /\ pc[Handler(c)] = "clear"
    /\ mu = Nobody
    /\ clearProgressMessage(c)
    /\ returned' = returned \cup {[msg |-> target[c], number |-> number[c]]}
    /\ FinalizeReturns(c)
    /\ UNCHANGED <<reporter, target, number, mu, screen, answers, drafts,
                   faults>>

SendsAnswer(c) ==
    /\ pc[Handler(c)] = "send"
    /\ \/ /\ Calm
          /\ sendMessage(TheAnswer(c))
          /\ returned' = returned \cup
               {[msg |-> Len(screen'), number |-> number[c]]}
       \/ /\ Fault
          /\ sendMessage(TheAnswer(c)) \/ UNCHANGED screen
          /\ UNCHANGED returned
    /\ FinalizeReturns(c)
    /\ UNCHANGED <<reporter, target, number, mu, progress, answers, drafts>>

-----------------------------------------------------------------------------
\* The process stops and is restarted: goroutines and Streamer are new.
Crash ==
    /\ Fault
    /\ pc' = [g \in Goroutines |-> "idle"]
    /\ reporter' = [c \in Chats |-> "off"]
    /\ mu' = Nobody
    /\ progress' = [c \in Chats |-> 0]
    /\ UNCHANGED <<target, number, screen, returned, answers, drafts>>

Drafting(g) == Draft(g) \/ sendMessageDraft(g) \/ upsertProgressMessage(g)

Finalizing(c) ==
    ReadsProgress(c) \/ EditsProgress(c) \/ ClearsProgress(c) \/ SendsAnswer(c)

Next ==
    \/ \E id \in 1..Len(screen) : UserDeletes(id)
    \/ \E c \in Chats :
         \/ newStreamProgressReporter(c) \/ Answers(c) \/ Finalizing(c)
         \/ HeartbeatEnds(c) \/ stopProgress(c)
    \/ \E g \in Goroutines : progressFn(g) \/ Drafting(g)
    \/ Crash

Spec == Init /\ [][Next]_vars

\* Calls end with the HTTP client's timeout, the interpreter with its own,
\* and Go's mutex and select starve nobody.
Fairness ==
    /\ \A g \in Goroutines : SF_vars(Drafting(g))
    /\ \A c \in Chats :
         /\ SF_vars(Finalizing(c) \/ (pc[Handler(c)] = "run" /\ Answers(c)))
         /\ SF_vars(/\ pc[Handler(c)] = "stop"
                    /\ HeartbeatEnds(c) \/ stopProgress(c))

FairSpec == Spec /\ Fairness

-----------------------------------------------------------------------------
\* Once Finalize has returned a message, neither a draft that was under way
\* nor a later answer changes what it shows: the session keeps its number as
\* PreviewMsgID.
ReturnedAnswersStay ==
    [][\A a \in returned : \/ screen'[a.msg] = screen[a.msg]
                           \/ screen'[a.msg].shows = "nothing"]_vars

\* A handler that has ended has left no heartbeat behind: no draft of one
\* update runs into the next update of its chat.
NoStrayHeartbeat ==
    \A c \in Chats : pc[Handler(c)] = "idle" => pc[Beat(c)] = "idle"

\* A handler that sends its answer ends, although it needs draftMu, which
\* drafts of all chats hold during their calls, and its own heartbeat's end.
EveryAnswerEnds ==
    \A c \in Chats : pc[Handler(c)] = "read" ~> pc[Handler(c)] = "idle"

\* What README.md says of a request: the assistant "shows a preview of what
\* will change"; the message that was to show it does not show a progress text.
AnswerIsShown ==
    \A a \in returned : screen[a.msg].shows # "progress"
=============================================================================
