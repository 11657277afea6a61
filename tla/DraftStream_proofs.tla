-------------------------- MODULE DraftStream_proofs --------------------------
(***************************************************************************)
(* A message that Finalize has returned keeps its answer, and a handler    *)
(* leaves no heartbeat behind, for every number of chats, answers, drafts  *)
(* and faults.  The message that a progress text may still be written to   *)
(* is never a returned one: Finalize forgets it, under draftMu, in the     *)
(* step that returns it.                                                   *)
(***************************************************************************)
EXTENDS DraftStream, TLAPS

\* While a chat's reporter is off, its heartbeat does not run and its handler
\* sends no draft and stops no reporter; a handler that has ended has turned
\* it off.
ReportersOK ==
    \A c \in Chats :
        /\ reporter[c] = "off" =>
             /\ pc[Beat(c)] = "idle"
             /\ pc[Handler(c)] \in {"idle", "read", "edit", "clear", "send"}
        /\ pc[Handler(c)] = "idle" => reporter[c] = "off"

\* A message of chat c that Finalize has not returned.
Unreturned(c, id) ==
    /\ id \in 1..Len(screen)
    /\ screen[id].chat = c
    /\ \A a \in returned : a.msg # id

\* The progress message of a chat, and the one that Finalize turns into the
\* answer, are unreturned messages of that chat.
ProgressOK ==
    \A c \in Chats : progress[c] # 0 => Unreturned(c, progress[c])

TargetsOK ==
    \A c \in Chats :
        pc[Handler(c)] \in {"edit", "clear"} => Unreturned(c, target[c])

\* What is returned was sent.
ReturnedWereSent == \A a \in returned : a.msg \in 1..Len(screen)

\* The invariant has a part about goroutines and draftMu, which is inductive
\* by itself, and a part about messages.
Control ==
    /\ pc \in [Goroutines -> PCs]
    /\ reporter \in [Chats -> {"off", "on", "disabled"}]
    /\ mu \in Goroutines \cup {Nobody}
    /\ \A g \in Goroutines : mu = g <=> pc[g] \in {"draft", "upsert"}
    /\ ReportersOK

Display ==
    /\ target \in [Chats -> 0..Len(screen)]
    /\ number \in [Chats -> 0..answers]
    /\ progress \in [Chats -> 0..Len(screen)]
    /\ screen \in Seq(Message) /\ returned \subseteq Answer
    /\ answers \in 0..MaxAnswers /\ drafts \in 0..MaxDrafts
    /\ faults \in 0..MaxFaults
    /\ ProgressOK
    /\ TargetsOK
    /\ ReturnedWereSent

IInv == Control /\ Display

-----------------------------------------------------------------------------
(***************************************************************************)
(* Goroutines.                                                             *)
(***************************************************************************)

\* Every goroutine is the handler or the heartbeat of one chat.
LEMMA TheGoroutines ==
    /\ Nobody \notin Goroutines
    /\ \A c \in Chats : Handler(c) \in Goroutines /\ Beat(c) \in Goroutines
    /\ \A c, d \in Chats :
         /\ Handler(c) # Beat(d)
         /\ Handler(c) = Handler(d) => c = d
         /\ Beat(c) = Beat(d) => c = d
    /\ \A c \in Chats : Handler(c)[1] = c /\ Beat(c)[1] = c
    /\ \A g \in Goroutines :
         /\ g[1] \in Chats
         /\ g = Handler(g[1]) \/ g = Beat(g[1])
  <1>1. Nobody \notin Goroutines
    BY DEF Nobody, Goroutines
  <1>2. \A c \in Chats : Handler(c) \in Goroutines /\ Beat(c) \in Goroutines
    BY DEF Handler, Beat, Goroutines
  <1>3. \A c, d \in Chats :
         /\ Handler(c) # Beat(d)
         /\ Handler(c) = Handler(d) => c = d
         /\ Beat(c) = Beat(d) => c = d
    BY DEF Handler, Beat
  <1>4. \A c \in Chats : Handler(c)[1] = c /\ Beat(c)[1] = c
    BY DEF Handler, Beat
  <1>5. \A g \in Goroutines :
         /\ g[1] \in Chats
         /\ g = Handler(g[1]) \/ g = Beat(g[1])
    BY DEF Handler, Beat, Goroutines
  <1>6. QED
    BY <1>1, <1>2, <1>3, <1>4, <1>5

\* Only goroutine g moves, to x.
Moves(g, x) ==
    /\ pc' \in [Goroutines -> PCs]
    /\ pc'[g] = x
    /\ \A h \in Goroutines \ {g} : pc'[h] = pc[h]

LEMMA SetPcMoves ==
    ASSUME Control, NEW g \in Goroutines, NEW x \in PCs,
           pc' = [pc EXCEPT ![g] = x]
    PROVE  Moves(g, x)
  BY DEF Control, Moves

\* A step of a goroutine from x to y, neither of them under the mutex, which
\* keeps its holder.
LEMMA MovesMutex ==
    ASSUME Control, NEW g \in Goroutines, NEW y, Moves(g, y), mu' = mu,
           pc[g] \in {"draft", "upsert"} <=> y \in {"draft", "upsert"}
    PROVE  \A h \in Goroutines : mu' = h <=> pc'[h] \in {"draft", "upsert"}
  BY DEF Control, Moves

\* A handler moves, its reporter stays as it is.
LEMMA HandlerMoves ==
    ASSUME Control, NEW c \in Chats, NEW x, Moves(Handler(c), x),
           UNCHANGED <<reporter, mu>>,
           pc[Handler(c)] \notin {"draft", "upsert"},
           x \notin {"draft", "upsert"},
           IF reporter[c] = "off"
             THEN x \in {"idle", "read", "edit", "clear", "send"}
             ELSE x # "idle"
    PROVE  Control'
  <1>1. Handler(c) \in Goroutines
    BY TheGoroutines
  <1>2. \A h \in Goroutines : mu' = h <=> pc'[h] \in {"draft", "upsert"}
    BY <1>1, MovesMutex
  <1>3. ReportersOK'
    <2> SUFFICES ASSUME NEW d \in Chats
                 PROVE  /\ reporter[d] = "off" =>
                             /\ pc'[Beat(d)] = "idle"
                             /\ pc'[Handler(d)] \in
                                  {"idle", "read", "edit", "clear", "send"}
                        /\ pc'[Handler(d)] = "idle" => reporter[d] = "off"
      BY DEF ReportersOK
    <2>1. pc'[Beat(d)] = pc[Beat(d)]
      BY TheGoroutines DEF Moves
    <2>2. d # c => pc'[Handler(d)] = pc[Handler(d)]
      BY TheGoroutines DEF Moves
    <2>3. pc'[Handler(c)] = x
      BY DEF Moves
    <2>4. QED
      BY <2>1, <2>2, <2>3 DEF Control, ReportersOK
  <1>4. QED
    BY <1>2, <1>3 DEF Control, Moves

-----------------------------------------------------------------------------
(***************************************************************************)
(* The steps of drafts and of the reporter keep Control.                   *)
(***************************************************************************)

Drafter == {"run", "wait", "draft", "upsert"}

\* Who drafts has a reporter that is not off.
LEMMA DraftersReport ==
    ASSUME Control, NEW g \in Goroutines, pc[g] \in Drafter
    PROVE  g[1] \in Chats /\ reporter[g[1]] # "off"
  BY TheGoroutines DEF Control, ReportersOK, Drafter

\* After a draft failed the reporter is disabled, not off.
ReporterStays(c) ==
    reporter' = reporter \/ reporter' = [reporter EXCEPT ![c] = "disabled"]

LEMMA ReporterType ==
    ASSUME Control, NEW c \in Chats, ReporterStays(c)
    PROVE  /\ reporter' \in [Chats -> {"off", "on", "disabled"}]
           /\ \A d \in Chats : reporter'[d] = "off" <=>
                (reporter[d] = "off" /\ (d = c => reporter' = reporter))
  BY DEF Control, ReporterStays

\* A goroutine goes from one step of a draft to another.
LEMMA DrafterMoves ==
    ASSUME Control, NEW g \in Goroutines, NEW x \in Drafter,
           pc[g] \in Drafter, Moves(g, x), UNCHANGED reporter
    PROVE  ReportersOK'
  <1>1. g[1] \in Chats /\ reporter[g[1]] # "off"
    BY DraftersReport
  <1> SUFFICES ASSUME NEW d \in Chats
               PROVE  /\ reporter[d] = "off" =>
                           /\ pc'[Beat(d)] = "idle"
                           /\ pc'[Handler(d)] \in
                                {"idle", "read", "edit", "clear", "send"}
                      /\ pc'[Handler(d)] = "idle" => reporter[d] = "off"
    BY DEF ReportersOK
  <1>2. CASE d = g[1]
    <2>1. pc'[Handler(d)] # "idle"
      BY <1>1, <1>2, TheGoroutines
      DEF Moves, Control, ReportersOK, Drafter
    <2>2. QED
      BY <1>1, <1>2, <2>1
  <1>3. CASE d # g[1]
    BY <1>3, TheGoroutines DEF Moves, Control, ReportersOK
  <1>4. QED
    BY <1>2, <1>3

\* A draft has returned: its goroutine goes on, and the heartbeat may start.
LEMMA DraftReturnsControl ==
    ASSUME Control, NEW g \in Goroutines, pc[g] \in {"draft", "upsert"},
           DraftReturns(g), ReporterStays(g[1])
    PROVE  Control'
  <1>1. g[1] \in Chats /\ reporter[g[1]] # "off" /\ Beat(g[1]) \in Goroutines
    BY DraftersReport, TheGoroutines DEF Drafter
  <1>2. /\ pc' \in [Goroutines -> PCs]
        /\ pc'[g] = "run"
        /\ \A h \in Goroutines \ {g, Beat(g[1])} : pc'[h] = pc[h]
        /\ pc'[Beat(g[1])] \in {pc[Beat(g[1])], "run"}
    BY <1>1 DEF DraftReturns, Control, PCs
  <1>3. mu = g /\ mu' = Nobody
    BY DEF DraftReturns, Control
  <1>4. \A h \in Goroutines : pc'[h] \notin {"draft", "upsert"}
    BY <1>1, <1>2, <1>3 DEF Control
  <1>5. reporter' \in [Chats -> {"off", "on", "disabled"}] /\ reporter'[g[1]] # "off"
    BY <1>1, ReporterType
  <1>6. ReportersOK'
    <2> SUFFICES ASSUME NEW d \in Chats
                 PROVE  /\ reporter'[d] = "off" =>
                             /\ pc'[Beat(d)] = "idle"
                             /\ pc'[Handler(d)] \in
                                  {"idle", "read", "edit", "clear", "send"}
                        /\ pc'[Handler(d)] = "idle" => reporter'[d] = "off"
      BY DEF ReportersOK
    <2>1. CASE d = g[1]
      <3>1. pc[Handler(d)] # "idle"
        BY <1>1, <2>1 DEF Control, ReportersOK
      <3>2. pc'[Handler(d)] # "idle"
        BY <1>2, <2>1, <3>1, TheGoroutines
      <3>3. QED
        BY <1>5, <2>1, <3>2
    <2>2. CASE d # g[1]
      <3>1. pc'[Handler(d)] = pc[Handler(d)] /\ pc'[Beat(d)] = pc[Beat(d)]
        BY <1>1, <1>2, <2>2, TheGoroutines
      <3>2. reporter'[d] = "off" <=> reporter[d] = "off"
        BY <1>1, <2>2, ReporterType
      <3>3. QED
        BY <3>1, <3>2 DEF Control, ReportersOK
    <2>3. QED
      BY <2>1, <2>2
  <1>7. QED
    BY <1>2, <1>3, <1>4, <1>5, <1>6, TheGoroutines DEF Control

\* Draft takes draftMu when nobody has it.
LEMMA DraftControl ==
    ASSUME Control, NEW g \in Goroutines, Draft(g)
    PROVE  Control'
  <1>1. pc[g] = "wait" /\ mu = Nobody /\ mu' = g /\ reporter' = reporter
    BY DEF Draft
  <1>2. Moves(g, "draft")
    BY SetPcMoves DEF Draft, PCs
  <1>3. ReportersOK'
    BY <1>1, <1>2, DrafterMoves DEF Drafter
  <1>4. \A h \in Goroutines : pc[h] \notin {"draft", "upsert"}
    BY <1>1, TheGoroutines DEF Control
  <1>5. \A h \in Goroutines : mu' = h <=> pc'[h] \in {"draft", "upsert"}
    BY <1>1, <1>2, <1>4 DEF Moves
  <1>6. QED
    BY <1>1, <1>2, <1>3, <1>5 DEF Control, Moves

\* The fallback keeps the mutex.
LEMMA FallsBackControl ==
    ASSUME Control, NEW g \in Goroutines, pc[g] = "draft", FallsBack(g)
    PROVE  Control'
  <1>1. Moves(g, "upsert") /\ mu' = mu /\ reporter' = reporter
    BY SetPcMoves DEF FallsBack, PCs
  <1>2. ReportersOK'
    BY <1>1, DrafterMoves DEF Drafter
  <1>3. \A h \in Goroutines : mu' = h <=> pc'[h] \in {"draft", "upsert"}
    BY <1>1, MovesMutex
  <1>4. QED
    BY <1>1, <1>2, <1>3 DEF Control, Moves

\* Only an enabled reporter sends another draft.
LEMMA progressFnControl ==
    ASSUME Control, NEW g \in Goroutines, progressFn(g)
    PROVE  Control'
  <1>1. pc[g] = "run" /\ mu' = mu /\ reporter' = reporter
    BY DEF progressFn
  <1>2. Moves(g, "wait")
    BY SetPcMoves DEF progressFn, sendDraft, PCs
  <1>3. ReportersOK'
    BY <1>1, <1>2, DrafterMoves DEF Drafter
  <1>4. \A h \in Goroutines : mu' = h <=> pc'[h] \in {"draft", "upsert"}
    BY <1>1, <1>2, MovesMutex
  <1>5. QED
    BY <1>1, <1>2, <1>3, <1>4 DEF Control, Moves

\* A reporter starts with an idle handler, which has no heartbeat.
LEMMA newStreamProgressReporterControl ==
    ASSUME Control, NEW c \in Chats, newStreamProgressReporter(c)
    PROVE  Control'
  <1>1. /\ Handler(c) \in Goroutines /\ pc[Handler(c)] = "idle" /\ mu' = mu
        /\ reporter' = [reporter EXCEPT ![c] = "on"]
    BY TheGoroutines DEF newStreamProgressReporter
  <1>2. Moves(Handler(c), "wait")
    BY <1>1, SetPcMoves DEF newStreamProgressReporter, sendDraft, PCs
  <1>3. \A h \in Goroutines : mu' = h <=> pc'[h] \in {"draft", "upsert"}
    BY <1>1, <1>2, MovesMutex
  <1>4. ReportersOK'
    BY <1>1, <1>2, TheGoroutines DEF Control, ReportersOK, Moves
  <1>5. QED
    BY <1>1, <1>2, <1>3, <1>4 DEF Control, Moves

\* A heartbeat ends while its handler is still there.
LEMMA HeartbeatEndsControl ==
    ASSUME Control, NEW c \in Chats, HeartbeatEnds(c)
    PROVE  Control'
  <1>1. /\ Beat(c) \in Goroutines /\ pc[Beat(c)] = "run" /\ mu' = mu
        /\ reporter' = reporter
    BY TheGoroutines DEF HeartbeatEnds
  <1>2. Moves(Beat(c), "idle")
    BY <1>1, SetPcMoves DEF HeartbeatEnds, PCs
  <1>3. \A h \in Goroutines : mu' = h <=> pc'[h] \in {"draft", "upsert"}
    BY <1>1, <1>2, MovesMutex
  <1>4. ReportersOK'
    BY <1>1, <1>2, TheGoroutines DEF Control, ReportersOK, Moves
  <1>5. QED
    BY <1>1, <1>2, <1>3, <1>4 DEF Control, Moves

\* handleMessage returns when its heartbeat has ended.
LEMMA stopProgressControl ==
    ASSUME Control, NEW c \in Chats, stopProgress(c)
    PROVE  Control'
  <1>1. /\ Handler(c) \in Goroutines /\ pc[Handler(c)] = "stop"
        /\ pc[Beat(c)] = "idle" /\ mu' = mu
        /\ reporter' = [reporter EXCEPT ![c] = "off"]
    BY TheGoroutines DEF stopProgress
  <1>2. Moves(Handler(c), "idle")
    BY <1>1, SetPcMoves DEF stopProgress, PCs
  <1>3. \A h \in Goroutines : mu' = h <=> pc'[h] \in {"draft", "upsert"}
    BY <1>1, <1>2, MovesMutex
  <1>4. ReportersOK'
    BY <1>1, <1>2, TheGoroutines DEF Control, ReportersOK, Moves
  <1>5. QED
    BY <1>1, <1>2, <1>3, <1>4 DEF Control, Moves

LEMMA CrashControl ==
    ASSUME Crash
    PROVE  Control'
  <1>1. /\ pc' = [g \in Goroutines |-> "idle"] /\ mu' = Nobody
        /\ reporter' = [c \in Chats |-> "off"]
    BY DEF Crash
  <1>2. QED
    BY <1>1, TheGoroutines DEF Control, ReportersOK, PCs

-----------------------------------------------------------------------------
(***************************************************************************)
(* The steps of calls to Telegram and of Finalize keep Control.            *)
(***************************************************************************)

LEMMA sendMessageDraftControl ==
    ASSUME Control, NEW g \in Goroutines, sendMessageDraft(g)
    PROVE  Control'
  <1>1. pc[g] = "draft" /\ (Succeeds(g) \/ FallsBack(g) \/ Fails(g))
    BY DEF sendMessageDraft
  <1>2. CASE Succeeds(g)
    BY <1>1, <1>2, DraftReturnsControl DEF Succeeds, ReporterStays
  <1>3. CASE FallsBack(g)
    BY <1>1, <1>3, FallsBackControl
  <1>4. CASE Fails(g)
    BY <1>1, <1>4, DraftReturnsControl DEF Fails, ReporterStays
  <1>5. QED
    BY <1>1, <1>2, <1>3, <1>4

LEMMA upsertProgressMessageControl ==
    ASSUME Control, NEW g \in Goroutines, upsertProgressMessage(g)
    PROVE  Control'
  <1>1. /\ pc[g] = "upsert"
        /\ Succeeds(g) \/ Fails(g) \/ UNCHANGED <<pc, mu, reporter>>
    BY DEF upsertProgressMessage, CreateProgressMessage, EditProgressMessage
  <1>2. CASE Succeeds(g)
    BY <1>1, <1>2, DraftReturnsControl DEF Succeeds, ReporterStays
  <1>3. CASE Fails(g)
    BY <1>1, <1>3, DraftReturnsControl DEF Fails, ReporterStays
  <1>4. CASE UNCHANGED <<pc, mu, reporter>>
    BY <1>4 DEF Control, ReportersOK
  <1>5. QED
    BY <1>1, <1>2, <1>3, <1>4

\* Finalize may be called by an idle handler, which has no reporter.
LEMMA AnswersControl ==
    ASSUME Control, NEW c \in Chats, Answers(c)
    PROVE  Control'
  <1>1. /\ Handler(c) \in Goroutines /\ pc[Handler(c)] \in {"idle", "run"}
        /\ UNCHANGED <<reporter, mu>>
    BY TheGoroutines DEF Answers
  <1>2. Moves(Handler(c), "read")
    BY <1>1, SetPcMoves DEF Answers, PCs
  <1>3. QED
    BY <1>1, <1>2, HandlerMoves

\* Where Finalize takes the handler.
LEMMA FinalizingMoves ==
    ASSUME Control, NEW c \in Chats, Finalizing(c)
    PROVE  /\ UNCHANGED <<reporter, mu>>
           /\ \/ ReadsProgress(c) /\ Moves(Handler(c), "send") /\ progress[c] = 0
              \/ ReadsProgress(c) /\ Moves(Handler(c), "edit") /\ progress[c] # 0
              \/ EditsProgress(c) /\ Moves(Handler(c), "clear")
              \/ EditsProgress(c) /\ Moves(Handler(c), "send")
              \/ /\ ClearsProgress(c) \/ SendsAnswer(c)
                 /\ Moves(Handler(c), IF reporter[c] = "off" THEN "idle" ELSE "stop")
  <1>1. Handler(c) \in Goroutines
    BY TheGoroutines
  <1>2. CASE ReadsProgress(c)
    BY <1>1, <1>2, SetPcMoves DEF ReadsProgress, PCs
  <1>3. CASE EditsProgress(c)
    BY <1>1, <1>3, SetPcMoves DEF EditsProgress, PCs
  <1>4. CASE ClearsProgress(c)
    BY <1>1, <1>4, SetPcMoves DEF ClearsProgress, FinalizeReturns, PCs
  <1>5. CASE SendsAnswer(c)
    BY <1>1, <1>5, SetPcMoves DEF SendsAnswer, FinalizeReturns, PCs
  <1>6. QED
    BY <1>2, <1>3, <1>4, <1>5 DEF Finalizing

LEMMA FinalizingControl ==
    ASSUME Control, NEW c \in Chats, Finalizing(c)
    PROVE  Control'
  <1>1. pc[Handler(c)] \in {"read", "edit", "clear", "send"}
    BY DEF Finalizing, ReadsProgress, EditsProgress, ClearsProgress, SendsAnswer
  <1>2. PICK x \in {"send", "edit", "clear", "idle", "stop"} :
          /\ Moves(Handler(c), x)
          /\ IF reporter[c] = "off"
               THEN x \in {"idle", "read", "edit", "clear", "send"}
               ELSE x # "idle"
    <2>1. CASE reporter[c] = "off"
      BY <2>1, FinalizingMoves
    <2>2. CASE reporter[c] # "off"
      BY <2>2, FinalizingMoves
    <2>3. QED
      BY <2>1, <2>2
  <1>3. UNCHANGED <<reporter, mu>>
    BY FinalizingMoves
  <1>4. QED
    BY <1>1, <1>2, <1>3, HandlerMoves

LEMMA InitControl == Init => Control
  BY TheGoroutines DEF Init, Control, ReportersOK, PCs

LEMMA NextControl == Control /\ [Next]_vars => Control'
  <1> SUFFICES ASSUME Control, [Next]_vars
               PROVE  Control'
    OBVIOUS
  <1>1. ASSUME NEW id \in 1..Len(screen), UserDeletes(id)
        PROVE  Control'
    BY <1>1 DEF UserDeletes, Control, ReportersOK
  <1>2. ASSUME NEW c \in Chats,
               newStreamProgressReporter(c) \/ Answers(c) \/ Finalizing(c)
                 \/ HeartbeatEnds(c) \/ stopProgress(c)
        PROVE  Control'
    BY <1>2, newStreamProgressReporterControl, AnswersControl,
       FinalizingControl, HeartbeatEndsControl, stopProgressControl
  <1>3. ASSUME NEW g \in Goroutines, progressFn(g) \/ Drafting(g)
        PROVE  Control'
    BY <1>3, progressFnControl, DraftControl, sendMessageDraftControl,
       upsertProgressMessageControl DEF Drafting
  <1>4. CASE UNCHANGED vars
    BY <1>4 DEF vars, Control, ReportersOK
  <1>5. QED
    BY <1>1, <1>2, <1>3, <1>4, CrashControl DEF Next

-----------------------------------------------------------------------------
(***************************************************************************)
(* The screen.                                                             *)
(***************************************************************************)

\* Messages are sent and changed, and stay in their chats.
Grows ==
    /\ screen' \in Seq(Message)
    /\ Len(screen) <= Len(screen')
    /\ \A id \in 1..Len(screen) : screen'[id].chat = screen[id].chat

\* What a step does to returned messages.
ReturnedStay ==
    \A a \in returned : \/ screen'[a.msg] = screen[a.msg]
                        \/ screen'[a.msg].shows = "nothing"

LEMMA SendGrows ==
    ASSUME Display, NEW m \in Message, sendMessage(m)
    PROVE  /\ Grows /\ ReturnedStay
           /\ Len(screen') = Len(screen) + 1
           /\ screen'[Len(screen')] = m
  <1>1. /\ screen \in Seq(Message) /\ Len(screen) \in Nat
        /\ \A a \in returned : a.msg \in 1..Len(screen)
    BY DEF Display, ReturnedWereSent
  <1>2. screen' = Append(screen, m)
    BY DEF sendMessage
  <1>3. /\ screen' \in Seq(Message) /\ Len(screen') = Len(screen) + 1
        /\ \A id \in 1..Len(screen) : screen'[id] = screen[id]
        /\ screen'[Len(screen')] = m
    BY <1>1, <1>2
  <1>4. QED
    BY <1>1, <1>3 DEF Grows, ReturnedStay

\* A message that is not returned is edited, or any is emptied.
LEMMA EditGrows ==
    ASSUME Display, NEW id \in 1..Len(screen), NEW m \in Message,
           m.chat = screen[id].chat,
           m.shows = "nothing" \/ \A a \in returned : a.msg # id,
           screen' = [screen EXCEPT ![id] = m]
    PROVE  Grows /\ ReturnedStay /\ Len(screen') = Len(screen)
  <1>1. screen \in Seq(Message)
    BY DEF Display
  <1>2. /\ screen' \in Seq(Message) /\ Len(screen') = Len(screen)
        /\ \A j \in 1..Len(screen) :
             screen'[j] = IF j = id THEN m ELSE screen[j]
    BY <1>1
  <1>3. QED
    BY <1>2 DEF Grows, ReturnedStay, Display, ReturnedWereSent

LEMMA SameScreenGrows ==
    ASSUME Display, UNCHANGED screen
    PROVE  Grows /\ ReturnedStay
  BY DEF Display, Grows, ReturnedStay

\* An unreturned message stays one, unless it is the one returned.
LEMMA UnreturnedStays ==
    ASSUME Display, Grows, NEW c \in Chats, NEW id, Unreturned(c, id),
           \A a \in returned' : a \in returned \/ a.msg # id
    PROVE  Unreturned(c, id)'
  <1>1. Len(screen) \in Nat /\ Len(screen') \in Nat
    BY DEF Display, Grows
  <1>2. QED
    BY <1>1 DEF Grows, Unreturned

\* No handler comes to hold the number of a progress message.
NoneRead ==
    \A c \in Chats : pc'[Handler(c)] \in {"edit", "clear"} =>
                       pc[Handler(c)] \in {"edit", "clear"}

LEMMA MovesNoneRead ==
    ASSUME NEW g \in Goroutines, NEW x, Moves(g, x),
           x \notin {"edit", "clear"}
    PROVE  NoneRead
  BY TheGoroutines DEF Moves, NoneRead

LEMMA DraftReturnsNoneRead ==
    ASSUME Control, NEW g \in Goroutines, DraftReturns(g)
    PROVE  NoneRead
  <1>1. \A h \in Goroutines : pc'[h] \in {pc[h], "run"}
    BY TheGoroutines DEF DraftReturns, Control
  <1>2. QED
    BY <1>1, TheGoroutines DEF NoneRead

\* Nothing is returned, and no progress message changes.
LEMMA TargetsKept ==
    ASSUME Display, Grows, UNCHANGED <<returned, target>>, NoneRead
    PROVE  /\ target' \in [Chats -> 0..Len(screen')]
           /\ returned' \subseteq Answer
           /\ TargetsOK'
           /\ ReturnedWereSent'
  <1>1. Len(screen) \in Nat /\ Len(screen') \in Nat /\ Len(screen) <= Len(screen')
    BY DEF Display, Grows
  <1>2. target' \in [Chats -> 0..Len(screen')]
    BY <1>1 DEF Display
  <1>3. TargetsOK'
    <2> SUFFICES ASSUME NEW c \in Chats, pc'[Handler(c)] \in {"edit", "clear"}
                 PROVE  Unreturned(c, target[c])'
      BY DEF TargetsOK
    <2>1. PICK id \in 0..Len(screen) : id = target[c]
      BY DEF Display
    <2>2. Unreturned(c, id)
      BY <2>1 DEF NoneRead, Display, TargetsOK
    <2>3. Unreturned(c, id)'
      BY <2>2, UnreturnedStays
    <2>4. target'[c] = id
      BY <2>1
    <2>5. QED
      BY <2>3, <2>4 DEF Unreturned
  <1>4. QED
    BY <1>1, <1>2, <1>3 DEF Display, ReturnedWereSent

LEMMA ProgressKept ==
    ASSUME Display, Grows, UNCHANGED <<returned, progress>>
    PROVE  progress' \in [Chats -> 0..Len(screen')] /\ ProgressOK'
  <1>1. Len(screen) \in Nat /\ Len(screen') \in Nat /\ Len(screen) <= Len(screen')
    BY DEF Display, Grows
  <1>2. ASSUME NEW c \in Chats, progress'[c] # 0
        PROVE  Unreturned(c, progress[c])'
    <2>1. PICK id \in 0..Len(screen) : id = progress[c]
      BY DEF Display
    <2>2. Unreturned(c, id)'
      BY <1>2, <2>1, UnreturnedStays DEF Display, ProgressOK
    <2>3. progress'[c] = id
      BY <2>1
    <2>4. QED
      BY <2>2, <2>3 DEF Unreturned
  <1>3. QED
    BY <1>1, <1>2 DEF Display, ProgressOK

\* The counts and the numbers of answers in a step that is no answer.
LEMMA FaultsType ==
    ASSUME Display, Fault \/ Calm
    PROVE  faults' \in 0..MaxFaults
  BY StreamAssumption DEF Display, Fault, Calm

LEMMA SameAnswers ==
    ASSUME Display, UNCHANGED <<number, answers, drafts>>
    PROVE  /\ number' \in [Chats -> 0..answers']
           /\ answers' \in 0..MaxAnswers /\ drafts' \in 0..MaxDrafts
  BY DEF Display

-----------------------------------------------------------------------------
(***************************************************************************)
(* The steps that leave the progress messages alone.                       *)
(***************************************************************************)

LEMMA UserDeletesDisplay ==
    ASSUME IInv, NEW id \in 1..Len(screen), UserDeletes(id)
    PROVE  Display' /\ ReturnedStay
  <1> DEFINE m == [screen[id] EXCEPT !.shows = "nothing"]
  <1>1. /\ Fault
        /\ screen' = [screen EXCEPT ![id] = m]
        /\ UNCHANGED <<pc, target, number, progress, returned, answers, drafts>>
    BY DEF UserDeletes
  <1>2. screen[id] \in Message
    BY DEF IInv, Display
  <1>3. m \in Message /\ m.chat = screen[id].chat /\ m.shows = "nothing"
    BY <1>2 DEF Message
  <1> HIDE DEF m
  <1>4. Grows /\ ReturnedStay
    BY <1>1, <1>3, EditGrows DEF IInv
  <1>5. NoneRead
    BY <1>1 DEF NoneRead
  <1>6. QED
    BY <1>1, <1>4, <1>5, TargetsKept, ProgressKept, FaultsType, SameAnswers
    DEF IInv, Display, Grows

\* A step that only moves goroutines or counts drafts.
LEMMA SilentDisplay ==
    ASSUME Display, NoneRead, Fault \/ Calm,
           UNCHANGED <<target, number, progress, screen, returned, answers>>,
           drafts' \in 0..MaxDrafts
    PROVE  Display' /\ ReturnedStay
  <1>1. Grows /\ ReturnedStay
    BY SameScreenGrows
  <1>2. QED
    BY <1>1, TargetsKept, ProgressKept, FaultsType DEF Display

LEMMA sendDraftDisplay ==
    ASSUME IInv, NEW g \in Goroutines,
           \/ progressFn(g)
           \/ \E c \in Chats : g = Handler(c) /\ newStreamProgressReporter(c)
    PROVE  Display' /\ ReturnedStay
  <1>1. /\ sendDraft(g)
        /\ UNCHANGED <<target, number, progress, screen, returned, answers, faults>>
    BY DEF progressFn, newStreamProgressReporter
  <1>2. drafts' \in 0..MaxDrafts
    BY <1>1, StreamAssumption DEF sendDraft, IInv, Display
  <1>3. NoneRead
    BY <1>1, SetPcMoves, MovesNoneRead DEF sendDraft, IInv, PCs
  <1>4. QED
    BY <1>1, <1>2, <1>3, SilentDisplay DEF IInv, Calm

LEMMA DraftDisplay ==
    ASSUME IInv, NEW g \in Goroutines, Draft(g)
    PROVE  Display' /\ ReturnedStay
  <1>1. /\ pc' = [pc EXCEPT ![g] = "draft"]
        /\ UNCHANGED <<target, number, progress, screen, returned, answers,
                       drafts, faults>>
    BY DEF Draft
  <1>2. NoneRead
    BY <1>1, SetPcMoves, MovesNoneRead DEF IInv, PCs
  <1>3. QED
    BY <1>1, <1>2, SilentDisplay DEF IInv, Display, Calm

LEMMA sendMessageDraftDisplay ==
    ASSUME IInv, NEW g \in Goroutines, sendMessageDraft(g)
    PROVE  Display' /\ ReturnedStay
  <1>1. /\ Fault \/ Calm
        /\ DraftReturns(g) \/ FallsBack(g)
        /\ UNCHANGED <<target, number, progress, screen, returned, answers,
                       drafts>>
    BY DEF sendMessageDraft, Succeeds, Fails
  <1>2. NoneRead
    BY <1>1, SetPcMoves, MovesNoneRead, DraftReturnsNoneRead
    DEF IInv, FallsBack, PCs
  <1>3. QED
    BY <1>1, <1>2, SilentDisplay DEF IInv, Display

LEMMA ReporterEndsDisplay ==
    ASSUME IInv, NEW c \in Chats, HeartbeatEnds(c) \/ stopProgress(c)
    PROVE  Display' /\ ReturnedStay
  <1>1. /\ Fault \/ Calm
        /\ UNCHANGED <<target, number, progress, screen, returned, answers,
                       drafts>>
    BY DEF HeartbeatEnds, stopProgress, Calm
  <1>2. CASE HeartbeatEnds(c)
    <2>1. NoneRead
      BY <1>2, TheGoroutines, SetPcMoves, MovesNoneRead DEF HeartbeatEnds, IInv, PCs
    <2>2. QED
      BY <1>1, <2>1, SilentDisplay DEF IInv, Display
  <1>3. CASE stopProgress(c)
    <2>1. NoneRead
      BY <1>3, TheGoroutines, SetPcMoves, MovesNoneRead DEF stopProgress, IInv, PCs
    <2>2. QED
      BY <1>1, <2>1, SilentDisplay DEF IInv, Display
  <1>4. QED
    BY <1>2, <1>3

LEMMA AnswersDisplay ==
    ASSUME IInv, NEW c \in Chats, Answers(c)
    PROVE  Display' /\ ReturnedStay
  <1>1. /\ UNCHANGED <<target, progress, screen, returned, drafts, faults>>
        /\ answers < MaxAnswers /\ answers' = answers + 1
        /\ number' = [number EXCEPT ![c] = answers + 1]
        /\ pc' = [pc EXCEPT ![Handler(c)] = "read"]
    BY DEF Answers
  <1>2. answers' \in 0..MaxAnswers /\ number' \in [Chats -> 0..answers']
    BY <1>1, StreamAssumption DEF IInv, Display
  <1>3. NoneRead
    BY <1>1, TheGoroutines, SetPcMoves, MovesNoneRead DEF IInv, PCs
  <1>4. Grows /\ ReturnedStay
    BY <1>1, SameScreenGrows DEF IInv
  <1>5. QED
    BY <1>1, <1>2, <1>3, <1>4, TargetsKept, ProgressKept DEF IInv, Display

-----------------------------------------------------------------------------
(***************************************************************************)
(* The progress message is created, edited and forgotten.                  *)
(***************************************************************************)

LEMMA MessageTypes ==
    ASSUME Display, NEW c \in Chats
    PROVE  /\ Progress(c) \in Message /\ Progress(c).chat = c
           /\ TheAnswer(c) \in Message /\ TheAnswer(c).chat = c
  <1>1. number[c] \in Nat
    BY DEF Display
  <1>2. QED
    BY <1>1 DEF Progress, TheAnswer, Message

\* Every chat but c keeps its progress message; what is returned is a message
\* of c, or new.
LEMMA ProgressChanges ==
    ASSUME Display, Grows, NEW c \in Chats, NEW id \in 0..Len(screen'),
           progress' = [progress EXCEPT ![c] = id],
           \A a \in returned' : \/ a \in returned
                                \/ a.msg \notin 1..Len(screen)
                                \/ screen[a.msg].chat = c,
           id # 0 => Unreturned(c, id)'
    PROVE  progress' \in [Chats -> 0..Len(screen')] /\ ProgressOK'
  <1>1. Len(screen) \in Nat /\ Len(screen') \in Nat /\ Len(screen) <= Len(screen')
    BY DEF Display, Grows
  <1>2. progress' \in [Chats -> 0..Len(screen')]
    BY <1>1 DEF Display
  <1>3. ASSUME NEW d \in Chats, progress'[d] # 0
        PROVE  Unreturned(d, progress[d])'
    <2>1. CASE d = c
      BY <1>3, <2>1 DEF Display, Unreturned
    <2>2. CASE d # c
      <3>1. PICK n \in 0..Len(screen) : n = progress[d]
        BY DEF Display
      <3>2. progress'[d] = n /\ n # 0
        BY <1>3, <2>2, <3>1 DEF Display
      <3>3. Unreturned(d, n)
        BY <3>1, <3>2 DEF Display, ProgressOK
      <3>4. \A a \in returned' : a \in returned \/ a.msg # n
        BY <2>2, <3>3 DEF Unreturned
      <3>5. Unreturned(d, n)'
        BY <3>3, <3>4, UnreturnedStays
      <3>6. QED
        BY <3>2, <3>5 DEF Unreturned
    <2>3. QED
      BY <2>1, <2>2
  <1>4. QED
    BY <1>2, <1>3 DEF ProgressOK

\* A new progress message is none of the returned ones.
LEMMA CreateProgressMessageDisplay ==
    ASSUME IInv, NEW g \in Goroutines, upsertProgressMessage(g),
           CreateProgressMessage(g)
    PROVE  Display' /\ ReturnedStay
  <1> DEFINE c == g[1]
  <1>1. /\ Fault \/ Calm
        /\ DraftReturns(g)
        /\ UNCHANGED <<target, number, returned, answers, drafts>>
    BY DEF upsertProgressMessage, CreateProgressMessage, Succeeds, Fails
  <1>2. c \in Chats /\ NoneRead
    BY <1>1, TheGoroutines, DraftReturnsNoneRead DEF IInv
  <1>3. Display
    BY DEF IInv
  <1>4. Grows /\ ReturnedStay
    <2>1. sendMessage(Progress(c)) \/ UNCHANGED screen
      BY DEF CreateProgressMessage
    <2>2. QED
      BY <1>2, <1>3, <2>1, MessageTypes, SendGrows, SameScreenGrows
  <1>5. progress' \in [Chats -> 0..Len(screen')] /\ ProgressOK'
    <2>1. CASE UNCHANGED progress
      BY <1>1, <1>3, <1>4, <2>1, ProgressKept
    <2>2. CASE /\ sendMessage(Progress(c))
               /\ progress' = [progress EXCEPT ![c] = Len(screen')]
      <3>1. /\ Len(screen') = Len(screen) + 1
            /\ screen'[Len(screen')].chat = c
        BY <1>2, <1>3, <2>2, MessageTypes, SendGrows
      <3>2. Len(screen) \in Nat
        BY <1>3 DEF Display
      <3>3. Unreturned(c, Len(screen))'
        BY <1>1, <1>3, <3>1, <3>2 DEF Unreturned, Display, ReturnedWereSent
      <3>4. PICK id \in 0..Len(screen') : id = Len(screen')
        BY <3>1, <3>2
      <3>5. Unreturned(c, id)'
        BY <3>3, <3>4 DEF Unreturned
      <3>6. progress' = [progress EXCEPT ![c] = id]
        BY <2>2, <3>4
      <3> HIDE DEF c
      <3>7. QED
        BY <1>1, <1>2, <1>3, <1>4, <3>5, <3>6, ProgressChanges
    <2>3. QED
      BY <2>1, <2>2 DEF CreateProgressMessage
  <1> HIDE DEF c
  <1>6. QED
    BY <1>1, <1>2, <1>3, <1>4, <1>5, TargetsKept, FaultsType, SameAnswers
    DEF Display, Grows

\* The message that is edited is an unreturned one.
LEMMA EditProgressMessageDisplay ==
    ASSUME IInv, NEW g \in Goroutines, upsertProgressMessage(g),
           EditProgressMessage(g)
    PROVE  Display' /\ ReturnedStay
  <1> DEFINE c == g[1]
             p == progress[c]
  <1>1. /\ Fault \/ Calm
        /\ DraftReturns(g) \/ UNCHANGED pc
        /\ UNCHANGED <<target, number, returned, answers, drafts>>
        /\ p # 0
    BY DEF upsertProgressMessage, EditProgressMessage, Succeeds, Fails
  <1>2. c \in Chats /\ Display
    BY TheGoroutines DEF IInv
  <1>3. NoneRead
    BY <1>1, DraftReturnsNoneRead DEF IInv, NoneRead
  <1>4. Grows /\ ReturnedStay
    <2>1. Unreturned(c, p)
      BY <1>1, <1>2 DEF Display, ProgressOK
    <2>2. PICK id \in 1..Len(screen) : id = p
      BY <2>1 DEF Unreturned
    <2>3. screen' = [screen EXCEPT ![id] = Progress(c)] \/ UNCHANGED screen
      BY <2>2 DEF EditProgressMessage, editMessageText
    <2>4. screen[id].chat = c /\ \A a \in returned : a.msg # id
      BY <2>1, <2>2 DEF Unreturned
    <2>5. Progress(c) \in Message /\ Progress(c).chat = c
      BY <1>2, MessageTypes
    <2> HIDE DEF c, p
    <2>6. CASE screen' = [screen EXCEPT ![id] = Progress(c)]
      BY <1>2, <2>4, <2>5, <2>6, EditGrows
    <2>7. QED
      BY <1>2, <2>3, <2>6, SameScreenGrows
  <1>5. progress' \in [Chats -> 0..Len(screen')] /\ ProgressOK'
    <2>1. UNCHANGED progress \/ progress' = [progress EXCEPT ![c] = 0]
      BY DEF EditProgressMessage
    <2>2. 0 \in 0..Len(screen')
      BY <1>4 DEF Grows
    <2> HIDE DEF c, p
    <2>3. QED
      BY <1>1, <1>2, <1>4, <2>1, <2>2, ProgressKept, ProgressChanges
  <1> HIDE DEF c, p
  <1>6. QED
    BY <1>1, <1>2, <1>3, <1>4, <1>5, TargetsKept, FaultsType, SameAnswers
    DEF Display, Grows

-----------------------------------------------------------------------------
(***************************************************************************)
(* Finalize.                                                               *)
(***************************************************************************)

\* A handler other than c's moves, or c's to a step that holds no message.
LEMMA TargetsUnlessOf ==
    ASSUME Display, Grows, NEW c \in Chats, NEW x, Moves(Handler(c), x),
           x \notin {"edit", "clear"}, UNCHANGED target,
           \A a \in returned' : \/ a \in returned
                                \/ a.msg \notin 1..Len(screen)
                                \/ screen[a.msg].chat = c
    PROVE  target' \in [Chats -> 0..Len(screen')] /\ TargetsOK'
  <1>1. Len(screen) \in Nat /\ Len(screen') \in Nat /\ Len(screen) <= Len(screen')
    BY DEF Display, Grows
  <1>2. ASSUME NEW d \in Chats, pc'[Handler(d)] \in {"edit", "clear"}
        PROVE  Unreturned(d, target[d])'
    <2>1. d # c /\ pc[Handler(d)] \in {"edit", "clear"}
      BY <1>2, TheGoroutines DEF Moves
    <2>2. PICK n \in 0..Len(screen) : n = target[d]
      BY DEF Display
    <2>3. Unreturned(d, n)
      BY <2>1, <2>2 DEF Display, TargetsOK
    <2>4. \A a \in returned' : a \in returned \/ a.msg # n
      BY <2>1, <2>3 DEF Unreturned
    <2>5. Unreturned(d, n)' /\ target'[d] = n
      BY <2>2, <2>3, <2>4, UnreturnedStays
    <2>6. QED
      BY <2>5 DEF Unreturned
  <1>3. QED
    BY <1>1, <1>2 DEF Display, TargetsOK

\* The message that Finalize reads is the chat's progress message.
LEMMA ReadsProgressDisplay ==
    ASSUME IInv, NEW c \in Chats, ReadsProgress(c)
    PROVE  Display' /\ ReturnedStay
  <1>1. /\ target' = [target EXCEPT ![c] = progress[c]]
        /\ UNCHANGED <<number, progress, screen, returned, answers, drafts,
                       faults>>
    BY DEF ReadsProgress
  <1>2. Display /\ Grows /\ ReturnedStay
    BY <1>1, SameScreenGrows DEF IInv
  <1>3. PICK x \in {"send", "edit"} :
          Moves(Handler(c), x) /\ (x = "edit" => progress[c] # 0)
    <2>1. Handler(c) \in Goroutines
      BY TheGoroutines
    <2>2. QED
      BY <2>1, SetPcMoves DEF ReadsProgress, IInv, PCs
  <1>4. target' \in [Chats -> 0..Len(screen')]
    BY <1>1, <1>2 DEF Display
  <1>5. TargetsOK'
    <2> SUFFICES ASSUME NEW d \in Chats, pc'[Handler(d)] \in {"edit", "clear"}
                 PROVE  Unreturned(d, target[d])'
      BY DEF TargetsOK
    <2>1. CASE d = c
      <3>1. progress[c] # 0 /\ target'[c] = progress[c]
        BY <1>1, <1>2, <1>3, <2>1 DEF Moves, Display
      <3>2. Unreturned(c, progress[c])
        BY <1>2, <3>1 DEF Display, ProgressOK
      <3>3. QED
        BY <1>1, <2>1, <3>1, <3>2 DEF Unreturned
    <2>2. CASE d # c
      <3>1. pc[Handler(d)] = pc'[Handler(d)] /\ target'[d] = target[d]
        BY <1>1, <1>2, <1>3, <2>2, TheGoroutines DEF Moves, Display
      <3>2. Unreturned(d, target[d])
        BY <1>2, <3>1 DEF Display, TargetsOK
      <3>3. QED
        BY <1>1, <3>1, <3>2 DEF Unreturned
    <2>3. QED
      BY <2>1, <2>2
  <1>6. QED
    BY <1>1, <1>2, <1>4, <1>5, ProgressKept DEF Display, ReturnedWereSent

\* It is still unreturned when it is turned into the answer.
LEMMA EditsProgressDisplay ==
    ASSUME IInv, NEW c \in Chats, EditsProgress(c)
    PROVE  Display' /\ ReturnedStay
  <1>1. /\ pc[Handler(c)] = "edit" /\ (Fault \/ Calm) /\ Display
        /\ UNCHANGED <<target, number, progress, returned, answers, drafts>>
    BY DEF EditsProgress, IInv
  <1>2. PICK id \in 1..Len(screen) : id = target[c] /\ Unreturned(c, id)
    BY <1>1 DEF Display, TargetsOK, Unreturned
  <1>3. screen' = [screen EXCEPT ![id] = TheAnswer(c)] \/ UNCHANGED screen
    BY <1>2 DEF EditsProgress, editMessageText
  <1>4. Grows /\ ReturnedStay
    <2>1. CASE screen' = [screen EXCEPT ![id] = TheAnswer(c)]
      BY <1>1, <1>2, <2>1, MessageTypes, EditGrows DEF Unreturned
    <2>2. QED
      BY <1>1, <1>3, <2>1, SameScreenGrows
  <1>5. NoneRead
    <2>1. Finalizing(c)
      BY DEF Finalizing
    <2>2. PICK x \in {"clear", "send"} : Moves(Handler(c), x)
      <3>1. Handler(c) \in Goroutines
        BY TheGoroutines
      <3>2. QED
        BY <3>1, SetPcMoves DEF EditsProgress, IInv, PCs
    <2>3. QED
      BY <1>1, <2>2, TheGoroutines DEF Moves, NoneRead
  <1>6. QED
    BY <1>1, <1>4, <1>5, TargetsKept, ProgressKept, FaultsType, SameAnswers
    DEF Display, Grows

\* The step that returns the message forgets it.
LEMMA ClearsProgressDisplay ==
    ASSUME IInv, NEW c \in Chats, ClearsProgress(c)
    PROVE  Display' /\ ReturnedStay
  <1> DEFINE a == [msg |-> target[c], number |-> number[c]]
  <1>1. /\ pc[Handler(c)] = "clear" /\ Display
        /\ progress' = [progress EXCEPT ![c] = 0]
        /\ returned' = returned \cup {a}
        /\ UNCHANGED <<target, number, screen, answers, drafts, faults>>
    BY DEF ClearsProgress, clearProgressMessage, IInv
  <1>2. Grows /\ ReturnedStay
    BY <1>1, SameScreenGrows
  <1>3. Unreturned(c, target[c]) /\ number[c] \in Nat
    BY <1>1 DEF Display, TargetsOK
  <1>4. a \in Answer /\ a.msg \in 1..Len(screen) /\ screen[a.msg].chat = c
    BY <1>3 DEF Unreturned, Answer
  <1> HIDE DEF a
  <1>5. PICK x \in {"idle", "stop"} : Moves(Handler(c), x)
    <2>1. Handler(c) \in Goroutines
      BY TheGoroutines
    <2>2. QED
      BY <2>1, SetPcMoves DEF ClearsProgress, FinalizeReturns, IInv, PCs
  <1>6. target' \in [Chats -> 0..Len(screen')] /\ TargetsOK'
    BY <1>1, <1>2, <1>4, <1>5, TargetsUnlessOf
  <1>7. progress' \in [Chats -> 0..Len(screen')] /\ ProgressOK'
    <2>1. 0 \in 0..Len(screen')
      BY <1>2 DEF Grows
    <2>2. QED
      BY <1>1, <1>2, <1>4, <2>1, ProgressChanges
  <1>8. returned' \subseteq Answer /\ ReturnedWereSent'
    BY <1>1, <1>4 DEF Display, ReturnedWereSent
  <1>9. QED
    BY <1>1, <1>2, <1>6, <1>7, <1>8 DEF Display

\* A message sent as the answer is no chat's progress message.
LEMMA SendsAnswerDisplay ==
    ASSUME IInv, NEW c \in Chats, SendsAnswer(c)
    PROVE  Display' /\ ReturnedStay
  <1> DEFINE a == [msg |-> Len(screen'), number |-> number[c]]
  <1>1. /\ Display /\ (Fault \/ Calm)
        /\ sendMessage(TheAnswer(c)) \/ UNCHANGED screen
        /\ \/ UNCHANGED returned
           \/ sendMessage(TheAnswer(c)) /\ returned' = returned \cup {a}
        /\ UNCHANGED <<target, number, progress, answers, drafts>>
    BY DEF SendsAnswer, IInv
  <1>2. Grows /\ ReturnedStay
    BY <1>1, MessageTypes, SendGrows, SameScreenGrows
  <1>3. /\ number[c] \in Nat /\ Len(screen) \in Nat /\ Len(screen') \in Nat
        /\ Len(screen) <= Len(screen')
    BY <1>1, <1>2 DEF Display, Grows
  <1>4. \A b \in returned' \ returned :
          /\ b \in Answer
          /\ b.msg \in 1..Len(screen') /\ b.msg \notin 1..Len(screen)
    <2>1. CASE sendMessage(TheAnswer(c)) /\ returned' = returned \cup {a}
      <3>1. Len(screen') = Len(screen) + 1
        BY <1>1, <2>1, MessageTypes, SendGrows
      <3>2. QED
        BY <1>3, <2>1, <3>1 DEF Answer
    <2>2. QED
      BY <1>1, <2>1
  <1>5. PICK x \in {"idle", "stop"} : Moves(Handler(c), x)
    <2>1. Handler(c) \in Goroutines
      BY TheGoroutines
    <2>2. QED
      BY <2>1, SetPcMoves DEF SendsAnswer, FinalizeReturns, IInv, PCs
  <1>6. target' \in [Chats -> 0..Len(screen')] /\ TargetsOK'
    BY <1>1, <1>2, <1>4, <1>5, TargetsUnlessOf
  <1>7. progress' \in [Chats -> 0..Len(screen')] /\ ProgressOK'
    <2>1. ASSUME NEW d \in Chats, progress'[d] # 0
          PROVE  Unreturned(d, progress[d])'
      <3>1. PICK n \in 0..Len(screen) : n = progress[d]
        BY <1>1 DEF Display
      <3>2. Unreturned(d, n) /\ progress'[d] = n
        BY <1>1, <2>1, <3>1 DEF Display, ProgressOK
      <3>3. \A b \in returned' : b \in returned \/ b.msg # n
        BY <1>4, <3>2 DEF Unreturned
      <3>4. Unreturned(d, n)'
        BY <1>1, <1>2, <3>2, <3>3, UnreturnedStays
      <3>5. QED
        BY <3>2, <3>4 DEF Unreturned
    <2>2. QED
      BY <1>1, <1>3, <2>1 DEF Display, ProgressOK
  <1>8. returned' \subseteq Answer /\ ReturnedWereSent'
    BY <1>1, <1>3, <1>4 DEF Display, ReturnedWereSent
  <1> HIDE DEF a
  <1>9. QED
    BY <1>1, <1>2, <1>6, <1>7, <1>8, FaultsType, SameAnswers DEF Display, Grows

\* A restarted process knows no progress message.
LEMMA CrashDisplay ==
    ASSUME IInv, Crash
    PROVE  Display' /\ ReturnedStay
  <1>1. /\ Fault /\ Display
        /\ pc' = [g \in Goroutines |-> "idle"]
        /\ progress' = [c \in Chats |-> 0]
        /\ UNCHANGED <<target, number, screen, returned, answers, drafts>>
    BY DEF Crash, IInv
  <1>2. Grows /\ ReturnedStay
    BY <1>1, SameScreenGrows
  <1>3. NoneRead
    BY <1>1, TheGoroutines DEF NoneRead
  <1>4. progress' \in [Chats -> 0..Len(screen')] /\ ProgressOK'
    BY <1>1, <1>2 DEF Grows, ProgressOK
  <1>5. QED
    BY <1>1, <1>2, <1>3, <1>4, TargetsKept, FaultsType, SameAnswers DEF Display, Grows

-----------------------------------------------------------------------------
(***************************************************************************)
(* Every step, and the theorems.                                           *)
(***************************************************************************)

LEMMA InitDisplay == Init => Display
  <1> SUFFICES ASSUME Init
               PROVE  Display
    OBVIOUS
  <1>1. /\ screen = <<>> /\ Len(screen) = 0 /\ screen \in Seq(Message)
        /\ returned = {} /\ progress = [c \in Chats |-> 0]
        /\ target = [c \in Chats |-> 0] /\ number = [c \in Chats |-> 0]
        /\ answers = 0 /\ drafts = 0 /\ faults = MaxFaults
        /\ pc = [g \in Goroutines |-> "idle"]
    BY DEF Init
  <1>2. ProgressOK /\ TargetsOK /\ ReturnedWereSent
    BY <1>1, TheGoroutines DEF ProgressOK, TargetsOK, ReturnedWereSent
  <1>3. QED
    BY <1>1, <1>2, StreamAssumption DEF Display

LEMMA NextDisplay ==
    ASSUME IInv, [Next]_vars
    PROVE  Display' /\ ReturnedStay
  <1>1. ASSUME NEW id \in 1..Len(screen), UserDeletes(id)
        PROVE  Display' /\ ReturnedStay
    BY <1>1, UserDeletesDisplay
  <1>2. ASSUME NEW c \in Chats, newStreamProgressReporter(c)
        PROVE  Display' /\ ReturnedStay
    <2>1. PICK g \in Goroutines : g = Handler(c)
      BY TheGoroutines
    <2>2. QED
      BY <1>2, <2>1, sendDraftDisplay
  <1>3. ASSUME NEW c \in Chats,
               Answers(c) \/ HeartbeatEnds(c) \/ stopProgress(c)
        PROVE  Display' /\ ReturnedStay
    BY <1>3, AnswersDisplay, ReporterEndsDisplay
  <1>4. ASSUME NEW c \in Chats, Finalizing(c)
        PROVE  Display' /\ ReturnedStay
    BY <1>4, ReadsProgressDisplay, EditsProgressDisplay, ClearsProgressDisplay,
       SendsAnswerDisplay DEF Finalizing
  <1>5. ASSUME NEW g \in Goroutines, progressFn(g) \/ Drafting(g)
        PROVE  Display' /\ ReturnedStay
    BY <1>5, sendDraftDisplay, DraftDisplay, sendMessageDraftDisplay,
       CreateProgressMessageDisplay, EditProgressMessageDisplay
    DEF Drafting, upsertProgressMessage
  <1>6. CASE UNCHANGED vars
    <2>1. UNCHANGED <<pc, target, number, progress, screen, returned, answers,
                      drafts, faults>>
      BY <1>6 DEF vars
    <2>2. NoneRead
      BY <2>1 DEF NoneRead
    <2>3. QED
      BY <2>1, <2>2, SilentDisplay DEF IInv, Display, Calm
  <1>7. QED
    BY <1>1, <1>2, <1>3, <1>4, <1>5, <1>6, CrashDisplay DEF Next

LEMMA IInvAlways == Spec => []IInv
<1>1. Init => IInv
  BY InitControl, InitDisplay DEF IInv
<1>2. IInv /\ [Next]_vars => IInv'
  BY NextControl, NextDisplay DEF IInv
<1>3. QED
  BY <1>1, <1>2, PTL DEF Spec

\* Types, and that draftMu is held by the one goroutine whose draft is under
\* way, whatever calls of Telegram fail (Draft).
THEOREM TypeCorrect == Spec => []TypeOK
<1>1. IInv => TypeOK
  BY DEF IInv, Control, Display, TypeOK
<1>2. QED
  BY <1>1, IInvAlways, PTL

\* A handler that has ended has left no heartbeat behind (stopProgress).
THEOREM HeartbeatsEnd == Spec => []NoStrayHeartbeat
<1>1. IInv => NoStrayHeartbeat
  BY DEF IInv, Control, ReportersOK, NoStrayHeartbeat
<1>2. QED
  BY <1>1, IInvAlways, PTL

\* Once Finalize has returned a message, no draft and no later answer, of this
\* chat or another, changes what it shows (Draft, Finalize).
THEOREM ReturnedStayAsShown == Spec => ReturnedAnswersStay
<1>1. IInv /\ [Next]_vars => [ReturnedStay]_vars
  BY NextDisplay
<1>2. QED
  BY <1>1, IInvAlways, PTL DEF Spec, ReturnedAnswersStay, ReturnedStay
=============================================================================
