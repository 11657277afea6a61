-------------------------- MODULE WebhookIntake_proofs --------------------------
(***************************************************************************)
(* The intake handles an update again only after its mark was lost, drops  *)
(* none that was not overtaken, never lowers last_processed_update_id, and *)
(* implements SerialChats, for every number of chats, updates, deliveries  *)
(* and faults.  All of it rests on the mutex: what the test for duplicates *)
(* saw is still so when the handler starts, while it runs and when it is   *)
(* marked, except that the session may have been forgotten.                *)
(***************************************************************************)
EXTENDS WebhookIntake, TLAPS

Holding(i)  == worker[i].pc \in {"dedupe", "handle", "save", "mark"}
Handling(i) == worker[i].pc \in {"save", "mark"}

\* The mutex of a chat is held by the goroutine that is past its Lock.
Mutex == \A i \in Workers : Holding(i) => lock[worker[i].chat] = i

\* A chat got this update, and a handler was started for it.
Known(id, chat) == [id |-> id, chat |-> chat] \in issued /\ handled[id] > 0

\* Goroutines are started in order, for updates that were issued, and an
\* identifier belongs to one update.
Origins ==
    /\ \A u, v \in issued : u.id = v.id => u = v
    /\ \A i \in Workers : i > started => worker[i].pc = "none"
    /\ \A i \in Workers : worker[i].pc # "none" =>
         [id |-> worker[i].id, chat |-> worker[i].chat] \in issued
    /\ \A id \in Ids : handled[id] > 0 => \E c \in Chats : Known(id, c)
    /\ \A id \in skipped : \E u \in issued : u.id = id

\* last_processed_update_id is of an update of the chat that was handled.
LastKnown == \A c \in Chats : last[c] > 0 => Known(last[c], c)

\* The session that the handler of goroutine i loaded is older than its
\* update, and still the stored one unless the stored one was forgotten.
CopyOK(i) ==
    /\ worker[i].copy < worker[i].id
    /\ last[worker[i].chat] \in {0, worker[i].copy}
    /\ worker[i].copy > 0 => Known(worker[i].copy, worker[i].chat)

\* From the test for duplicates to the mark, the session remembers no update
\* as late as the one in hand.
HandlersOK ==
    \A i \in Workers :
        /\ worker[i].pc \in {"handle", "save", "mark"} =>
             last[worker[i].chat] < worker[i].id
        /\ Handling(i) => Known(worker[i].id, worker[i].chat)
        /\ worker[i].pc = "save" => CopyOK(i)

\* Each start of a handler is matched by a lost mark, except one that is
\* remembered or still runs.
Marked(u) ==
    \/ last[u.chat] >= u.id
    \/ \E i \in Workers : Handling(i) /\ worker[i].id = u.id

MarksOK ==
    \A u \in issued :
        \/ handled[u.id] <= unmarked[u.id]
        \/ handled[u.id] = unmarked[u.id] + 1 /\ Marked(u)

IInv ==
    /\ TypeOK
    /\ Mutex
    /\ Origins
    /\ LastKnown
    /\ HandlersOK
    /\ MarksOK
    /\ DroppedOnlyWhenOvertaken

-----------------------------------------------------------------------------
(***************************************************************************)
(* Types, and what the mutex gives.                                        *)
(***************************************************************************)

\* A goroutine that was started has an update, a chat and a context.
LEMMA GoroutineType ==
    ASSUME TypeOK, NEW i \in Workers, worker[i].pc # "none"
    PROVE  /\ worker[i] \in Goroutine
           /\ worker[i].id \in Ids /\ worker[i].chat \in Chats
           /\ worker[i].copy \in Ids \cup {0}
  BY DEF TypeOK, NotStarted, Goroutine

\* The numbers in the state are numbers.
LEMMA Numbers ==
    ASSUME TypeOK
    PROVE  /\ Ids \subseteq Nat \ {0}
           /\ \A c \in Chats : last[c] \in Nat
           /\ \A id \in Ids : handled[id] \in Nat /\ unmarked[id] \in Nat
           /\ \A u \in issued : u.id \in Ids /\ u.chat \in Chats
  BY IntakeAssumption DEF TypeOK, Ids, Update

\* Two goroutines of a chat are not past its mutex together.
LEMMA Alone ==
    ASSUME Mutex, NEW i \in Workers, NEW j \in Workers,
           Holding(i), Holding(j), worker[i].chat = worker[j].chat
    PROVE  i = j
  BY DEF Mutex

\* An update in hand is one that was issued, and no other has its number.
LEMMA InHand ==
    ASSUME IInv, NEW i \in Workers, worker[i].pc # "none",
           NEW u \in issued, u.id = worker[i].id
    PROVE  u.chat = worker[i].chat
  <1> DEFINE v == [id |-> worker[i].id, chat |-> worker[i].chat]
  <1>1. v \in issued
    BY DEF IInv, Origins
  <1>2. v = u
    BY <1>1 DEF IInv, Origins
  <1>3. QED
    BY <1>2

\* A fault budget keeps its type.
LEMMA FaultsType ==
    ASSUME TypeOK, Fault \/ Calm
    PROVE  faults' \in 0..MaxFaults
  BY IntakeAssumption DEF TypeOK, Fault, Calm

-----------------------------------------------------------------------------
(***************************************************************************)
(* A step of goroutine i takes it to pc x and leaves the others alone.     *)
(***************************************************************************)

Moves(i, x) ==
    /\ worker' \in [Workers -> Goroutine \cup {NotStarted}]
    /\ \A j \in Workers \ {i} : worker'[j] = worker[j]
    /\ worker'[i].pc = x
    /\ worker'[i].id = worker[i].id
    /\ worker'[i].chat = worker[i].chat

\* Giving a goroutine another program counter is such a step.
LEMMA SetPcMoves ==
    ASSUME TypeOK, NEW i \in Workers, worker[i].pc # "none",
           NEW x \in PCs \ {"none"},
           worker' = [worker EXCEPT ![i].pc = x]
    PROVE  Moves(i, x) /\ worker'[i].copy = worker[i].copy
  <1>1. worker[i] \in Goroutine /\ worker \in [Workers -> Goroutine \cup {NotStarted}]
    BY GoroutineType DEF TypeOK
  <1>2. [worker[i] EXCEPT !.pc = x] \in Goroutine
    BY <1>1 DEF Goroutine
  <1>3. worker' \in [Workers -> Goroutine \cup {NotStarted}]
    BY <1>1, <1>2
  <1>4. QED
    BY <1>1, <1>3 DEF Moves, Goroutine

LEMMA EndMoves ==
    ASSUME TypeOK, NEW i \in Workers, worker[i].pc # "none", End(i)
    PROVE  /\ Moves(i, "done")
           /\ lock' = [lock EXCEPT ![worker[i].chat] = 0]
  BY SetPcMoves DEF End, PCs

LEMMA GotoMoves ==
    ASSUME TypeOK, NEW i \in Workers, worker[i].pc # "none",
           NEW x \in PCs \ {"none"}, Goto(i, x)
    PROVE  Moves(i, x) /\ lock' = lock /\ worker'[i].copy = worker[i].copy
  BY SetPcMoves DEF Goto

\* A goroutine that holds the mutex keeps it or releases it as it ends.
LEMMA MovesMutex ==
    ASSUME TypeOK, Mutex, NEW i \in Workers, Holding(i), NEW x, Moves(i, x),
           \/ lock' = lock
           \/ x = "done" /\ lock' = [lock EXCEPT ![worker[i].chat] = 0]
    PROVE  Mutex' /\ lock' \in [Chats -> Workers \cup {0}]
  <1>1. worker[i].chat \in Chats /\ lock \in [Chats -> Workers \cup {0}]
    BY GoroutineType DEF TypeOK, Holding
  <1>2. lock' \in [Chats -> Workers \cup {0}]
    BY <1>1
  <1>3. ASSUME NEW j \in Workers, Holding(j)'
        PROVE  lock'[worker'[j].chat] = j
    <2>1. CASE j = i
      BY <1>1, <1>3, <2>1 DEF Moves, Holding, Mutex
    <2>2. CASE j # i
      <3>1. worker'[j] = worker[j]
        BY <2>2 DEF Moves
      <3>2. Holding(j) /\ worker'[j].chat = worker[j].chat
        BY <1>3, <3>1 DEF Holding
      <3>3. worker[j].chat # worker[i].chat
        BY <2>2, <3>2, Alone
      <3>4. lock'[worker[j].chat] = lock[worker[j].chat]
        BY <1>1, <3>2, <3>3, GoroutineType DEF Holding
      <3>5. QED
        BY <3>2, <3>4 DEF Mutex
    <2>3. QED
      BY <2>1, <2>2
  <1>4. QED
    BY <1>2, <1>3 DEF Mutex

\* Where updates come from does not change when a goroutine goes on.
LEMMA MovesOrigins ==
    ASSUME IInv, NEW i \in Workers, worker[i].pc # "none",
           NEW x, Moves(i, x), UNCHANGED <<issued, started>>,
           \A id \in Ids : handled'[id] > 0 =>
              \E c \in Chats : [id |-> id, chat |-> c] \in issued,
           \A id \in skipped' : \E u \in issued : u.id = id
    PROVE  Origins'
  <1>1. \A j \in Workers : /\ worker'[j].id = worker[j].id
                           /\ worker'[j].chat = worker[j].chat
    BY DEF Moves
  <1>2. \A j \in Workers : worker'[j].pc # "none" => worker[j].pc # "none"
    BY DEF Moves
  <1>3. \A j \in Workers : j > started => worker'[j].pc = "none"
    BY DEF Moves, IInv, Origins
  <1>4. QED
    BY <1>1, <1>2, <1>3 DEF IInv, Origins, Known

-----------------------------------------------------------------------------
(***************************************************************************)
(* The steps outside a handler: a new update, a delivery, a deadline, the  *)
(* Lock.                                                                   *)
(***************************************************************************)

LEMMA IInvInit == Init => IInv
  <1> SUFFICES ASSUME Init PROVE IInv
    OBVIOUS
  <1>1. TypeOK
    BY IntakeAssumption DEF Init, TypeOK, Ids, Workers
  <1>2. Mutex /\ HandlersOK
    BY DEF Init, Mutex, HandlersOK, Holding, Handling, NotStarted
  <1>3. Origins /\ LastKnown /\ MarksOK /\ DroppedOnlyWhenOvertaken
    BY DEF Init, Origins, LastKnown, MarksOK, DroppedOnlyWhenOvertaken,
           NotStarted
  <1>4. QED
    BY <1>1, <1>2, <1>3 DEF IInv

\* A new update is later than all others, so it is of no goroutine and was
\* never handled.
LEMMA TelegramIssuesIInv ==
    ASSUME IInv, NEW c \in Chats, TelegramIssues(c)
    PROVE  IInv'
  <1>1. PICK id \in Ids :
          /\ \A u \in issued : u.id < id
          /\ issued' = issued \cup {[id |-> id, chat |-> c]}
          /\ pending' = pending \cup {[id |-> id, chat |-> c]}
    BY DEF TelegramIssues
  <1>2. UNCHANGED <<worker, started, lock, last, handled, unmarked, skipped,
                    faults>>
    BY DEF TelegramIssues
  <1> DEFINE new == [id |-> id, chat |-> c]
  <1>3. new \in Update /\ new.id = id /\ new.chat = c
    BY DEF Update
  <1>4. issued' = issued \cup {new} /\ pending' = pending \cup {new}
    BY <1>1
  <1>5. \A u \in issued : u.id # id
    BY <1>1, Numbers DEF IInv
  <1>6. handled[id] = 0 /\ unmarked[id] \in Nat
    <2>1. ~(handled[id] > 0)
      <3> SUFFICES ASSUME handled[id] > 0 PROVE FALSE
        OBVIOUS
      <3>1. PICK d \in Chats : [id |-> id, chat |-> d] \in issued
        BY DEF IInv, Origins, Known
      <3>2. QED
        BY <1>5, <3>1
    <2>2. QED
      BY <2>1, Numbers DEF IInv
  <1> HIDE DEF new
  <1>7. TypeOK'
    BY <1>2, <1>3, <1>4 DEF IInv, TypeOK
  <1>8. \A n, d : Known(n, d) => Known(n, d)'
    BY <1>2, <1>4 DEF Known
  <1>9. Mutex' /\ LastKnown' /\ HandlersOK'
    BY <1>2, <1>8
    DEF IInv, Mutex, Holding, LastKnown, HandlersOK, Handling, CopyOK
  <1>10. Origins'
    BY <1>2, <1>3, <1>4, <1>5, <1>8 DEF IInv, Origins
  <1>11. MarksOK'
    BY <1>2, <1>3, <1>4, <1>6 DEF IInv, MarksOK, Marked, Handling
  <1>12. DroppedOnlyWhenOvertaken'
    <2>1. id \notin skipped
      BY <1>5 DEF IInv, Origins
    <2>2. QED
      BY <1>2, <1>3, <1>4, <2>1 DEF IInv, DroppedOnlyWhenOvertaken
  <1>13. QED
    BY <1>7, <1>9, <1>10, <1>11, <1>12 DEF IInv

\* A delivery starts the next goroutine, which waits for the mutex.
LEMMA ServeHTTPIInv ==
    ASSUME IInv, NEW u \in pending, ServeHTTP(u)
    PROVE  IInv'
  <1> DEFINE n == started + 1
             new == [NotStarted EXCEPT !.pc = "lock", !.id = u.id,
                                       !.chat = u.chat]
  <1>1. n \in Workers /\ started' = n /\ started \in Nat
    BY IntakeAssumption DEF ServeHTTP, IInv, TypeOK, Workers
  <1>2. UNCHANGED <<issued, lock, last, handled, unmarked, skipped>>
    BY DEF ServeHTTP
  <1>3. u \in issued /\ u \in Update
    BY DEF IInv, TypeOK
  <1>4. /\ new \in Goroutine
        /\ new.pc = "lock" /\ new.id = u.id /\ new.chat = u.chat
    BY <1>3 DEF NotStarted, Goroutine, PCs, Update
  <1>5. worker' = [worker EXCEPT ![n] = new]
    BY DEF ServeHTTP
  <1> HIDE DEF new
  <1>6. worker[n].pc = "none"
    BY <1>1 DEF IInv, Origins
  <1>7. /\ worker' \in [Workers -> Goroutine \cup {NotStarted}]
        /\ worker'[n] = new
        /\ \A j \in Workers \ {n} : worker'[j] = worker[j]
    BY <1>1, <1>4, <1>5 DEF IInv, TypeOK
  <1>8. pending' \subseteq pending /\ faults' \in 0..MaxFaults
    <2>1. Fault \/ Calm
      BY DEF ServeHTTP
    <2>2. QED
      BY <2>1, FaultsType DEF IInv, ServeHTTP
  <1>9. [id |-> u.id, chat |-> u.chat] = u
    BY <1>3 DEF Update
  <1>10. \A j \in Workers : worker'[j].pc \in PCs \ {"none", "lock", "done"} =>
            worker'[j] = worker[j]
    BY <1>4, <1>7
  <1>11. \A j \in Workers : Handling(j) => Handling(j)' /\ worker'[j] = worker[j]
    BY <1>6, <1>7 DEF Handling
  <1>12. TypeOK'
    BY <1>1, <1>2, <1>7, <1>8 DEF IInv, TypeOK, Workers
  <1>13. Mutex' /\ LastKnown' /\ HandlersOK'
    BY <1>2, <1>10
    DEF IInv, Mutex, Holding, LastKnown, Known, HandlersOK, Handling, CopyOK, PCs
  <1>14. Origins'
    <2>1. \A j \in Workers : j > n => worker'[j].pc = "none"
      BY <1>1, <1>7 DEF IInv, Origins, Workers
    <2>2. \A j \in Workers : worker'[j].pc # "none" =>
            [id |-> worker'[j].id, chat |-> worker'[j].chat] \in issued
      BY <1>3, <1>4, <1>7, <1>9 DEF IInv, Origins
    <2> HIDE DEF n
    <2>3. QED
      BY <1>1, <1>2, <2>1, <2>2 DEF IInv, Origins, Known
  <1>15. MarksOK' /\ DroppedOnlyWhenOvertaken'
    BY <1>2, <1>11 DEF IInv, MarksOK, Marked, DroppedOnlyWhenOvertaken
  <1>16. QED
    BY <1>12, <1>13, <1>14, <1>15 DEF IInv

\* A deadline that passes changes no program counter.
LEMMA ContextExpiresIInv ==
    ASSUME IInv, NEW i \in Workers, ContextExpires(i)
    PROVE  IInv'
  <1>1. worker[i].pc # "none" /\ worker[i] \in Goroutine
    BY GoroutineType DEF ContextExpires, IInv
  <1>2. UNCHANGED <<issued, pending, started, lock, last, handled, unmarked,
                    skipped, faults>>
    BY DEF ContextExpires
  <1>3. worker' \in [Workers -> Goroutine \cup {NotStarted}]
    <2>1. [worker[i] EXCEPT !.live = FALSE] \in Goroutine
      BY <1>1 DEF Goroutine
    <2>2. QED
      BY <2>1 DEF ContextExpires, IInv, TypeOK
  <1>4. \A j \in Workers :
          /\ worker'[j].pc = worker[j].pc
          /\ worker'[j].id = worker[j].id
          /\ worker'[j].chat = worker[j].chat
          /\ worker'[j].copy = worker[j].copy
    BY <1>1 DEF ContextExpires, IInv, TypeOK, Goroutine
  <1>5. TypeOK'
    BY <1>2, <1>3 DEF IInv, TypeOK
  <1>6. Mutex' /\ Origins' /\ LastKnown' /\ HandlersOK'
    BY <1>2, <1>4
    DEF IInv, Mutex, Holding, Origins, LastKnown, Known, HandlersOK, Handling,
        CopyOK
  <1>7. MarksOK' /\ DroppedOnlyWhenOvertaken'
    BY <1>2, <1>4
    DEF IInv, MarksOK, Marked, Handling, DroppedOnlyWhenOvertaken
  <1>8. QED
    BY <1>5, <1>6, <1>7 DEF IInv

\* Only a free mutex is taken.
LEMMA withChatLockIInv ==
    ASSUME IInv, NEW i \in Workers, withChatLock(i)
    PROVE  IInv'
  <1>1. /\ worker[i].pc = "lock" /\ worker[i].chat \in Chats
        /\ lock[worker[i].chat] = 0
        /\ lock' = [lock EXCEPT ![worker[i].chat] = i]
    BY GoroutineType DEF withChatLock, IInv
  <1>2. UNCHANGED <<issued, pending, started, last, handled, unmarked, skipped,
                    faults>>
    BY DEF withChatLock
  <1>3. Moves(i, "dedupe")
    BY <1>1, SetPcMoves DEF withChatLock, IInv, PCs
  <1>4. TypeOK'
    BY <1>1, <1>2, <1>3 DEF IInv, TypeOK, Moves
  <1>5. Mutex'
    <2> SUFFICES ASSUME NEW j \in Workers, Holding(j)'
                 PROVE  lock'[worker'[j].chat] = j
      BY DEF Mutex
    <2>1. CASE j = i
      BY <1>1, <1>3, <2>1 DEF IInv, TypeOK, Moves
    <2>2. CASE j # i
      <3>1. worker'[j] = worker[j] /\ Holding(j)
        BY <1>3, <2>2 DEF Moves, Holding
      <3>2. lock[worker[j].chat] = j /\ j # 0
        BY <3>1 DEF IInv, Mutex, Workers
      <3>3. worker[j].chat # worker[i].chat
        BY <1>1, <3>2
      <3>4. QED
        BY <1>1, <3>1, <3>2, <3>3 DEF IInv, TypeOK
    <2>3. QED
      BY <2>1, <2>2
  <1>6. Origins'
    BY <1>1, <1>2, <1>3, MovesOrigins DEF IInv, Origins, Known
  <1>7. \A j \in Workers : worker'[j].pc \in {"handle", "save", "mark"}
                             \/ worker[j].pc \in {"handle", "save", "mark"} =>
            worker'[j] = worker[j]
    BY <1>1, <1>3 DEF Moves
  <1>8. LastKnown' /\ HandlersOK'
    BY <1>2, <1>7
    DEF IInv, LastKnown, Known, HandlersOK, Handling, CopyOK
  <1>9. MarksOK' /\ DroppedOnlyWhenOvertaken'
    BY <1>2, <1>7
    DEF IInv, MarksOK, Marked, Handling, DroppedOnlyWhenOvertaken
  <1>10. QED
    BY <1>4, <1>5, <1>6, <1>8, <1>9 DEF IInv

-----------------------------------------------------------------------------
(***************************************************************************)
(* The steps under the mutex.                                              *)
(***************************************************************************)

\* A duplicate is dropped without its handler only when the update that the
\* session remembers is a later one, and that one was handled.
LEMMA isDuplicateUpdateIInv ==
    ASSUME IInv, NEW i \in Workers, isDuplicateUpdate(i)
    PROVE  IInv'
  <1>1. /\ worker[i].pc = "dedupe" /\ Holding(i)
        /\ worker[i].id \in Ids /\ worker[i].chat \in Chats
    BY GoroutineType DEF isDuplicateUpdate, IInv, Holding
  <1>2. /\ UNCHANGED <<issued, pending, started, last, handled, unmarked>>
        /\ Fault \/ Calm
    BY DEF isDuplicateUpdate, CallFails, CallSucceeds
  <1>3. PICK x \in {"done", "handle"} :
          /\ Moves(i, x)
          /\ \/ lock' = lock
             \/ x = "done" /\ lock' = [lock EXCEPT ![worker[i].chat] = 0]
          /\ x = "handle" => last[worker[i].chat] < worker[i].id
          /\ \/ skipped' = skipped
             \/ /\ skipped' = skipped \cup {worker[i].id}
                /\ last[worker[i].chat] >= worker[i].id
    <2>1. CASE End(i) /\ skipped' = skipped
      BY <1>1, <2>1, EndMoves DEF IInv
    <2>2. CASE End(i) /\ Seen(i) /\ skipped' = skipped \cup {worker[i].id}
      BY <1>1, <2>2, EndMoves DEF IInv, Seen
    <2>3. CASE Goto(i, "handle") /\ ~Seen(i) /\ skipped' = skipped
      <3>1. last[worker[i].chat] < worker[i].id
        BY <1>1, <2>3, Numbers DEF IInv, Seen
      <3>2. QED
        BY <1>1, <2>3, <3>1, GotoMoves DEF IInv, PCs
    <2>4. QED
      BY <2>1, <2>2, <2>3 DEF isDuplicateUpdate
  <1>4. Mutex' /\ lock' \in [Chats -> Workers \cup {0}]
    BY <1>1, <1>3, MovesMutex DEF IInv
  <1>5. [id |-> worker[i].id, chat |-> worker[i].chat] \in issued
    BY <1>1 DEF IInv, Origins
  <1>6. TypeOK'
    <2>1. faults' \in 0..MaxFaults /\ skipped' \subseteq Ids
      BY <1>1, <1>2, <1>3, FaultsType DEF IInv, TypeOK
    <2>2. QED
      BY <1>2, <1>3, <1>4, <2>1 DEF IInv, TypeOK, Moves
  <1>7. Origins'
    <2>1. \A id \in skipped' : \E u \in issued : u.id = id
      BY <1>3, <1>5 DEF IInv, Origins
    <2>2. QED
      BY <1>1, <1>2, <1>3, <2>1, MovesOrigins DEF IInv, Origins, Known
  <1>8. \A j \in Workers : Handling(j) \/ Handling(j)' => worker'[j] = worker[j]
    BY <1>1, <1>3 DEF Moves, Handling
  <1>9. LastKnown' /\ HandlersOK'
    <2>1. ASSUME NEW j \in Workers, worker'[j].pc = "handle"
          PROVE  last[worker'[j].chat] < worker'[j].id
      BY <1>3, <2>1 DEF Moves, IInv, HandlersOK
    <2>2. QED
      BY <1>2, <1>8, <2>1
      DEF IInv, LastKnown, Known, HandlersOK, Handling, CopyOK
  <1>10. MarksOK'
    BY <1>2, <1>8 DEF IInv, MarksOK, Marked, Handling
  <1>11. DroppedOnlyWhenOvertaken'
    <2> SUFFICES ASSUME NEW u \in issued, u.id \in skipped', handled[u.id] = 0
                 PROVE  \E v \in issued : /\ v.chat = u.chat /\ v.id > u.id
                                          /\ handled[v.id] > 0
      BY <1>2 DEF DroppedOnlyWhenOvertaken
    <2>1. CASE u.id \in skipped
      BY <2>1 DEF IInv, DroppedOnlyWhenOvertaken
    <2>2. CASE u.id = worker[i].id /\ last[worker[i].chat] >= worker[i].id
      <3> DEFINE v == [id |-> last[worker[i].chat], chat |-> worker[i].chat]
      <3>1. last[worker[i].chat] > 0
        BY <1>1, <2>2, Numbers DEF IInv
      <3>2. v \in issued /\ handled[v.id] > 0
        BY <1>1, <3>1 DEF IInv, LastKnown, Known
      <3>3. v.chat = u.chat
        BY <1>1, <2>2, InHand
      <3>4. v.id > u.id
        BY <1>1, <2>2, <3>2, Numbers DEF IInv
      <3>5. QED
        BY <3>2, <3>3, <3>4
    <2>3. QED
      BY <1>3, <2>1, <2>2
  <1>12. QED
    BY <1>4, <1>6, <1>7, <1>9, <1>10, <1>11 DEF IInv

\* The handler goes on with the session that is stored, or fails to read it.
LEMMA LoadMoves ==
    ASSUME IInv, NEW i \in Workers, HandlerLoads(i)
    PROVE  \E x \in {"save", "mark"} :
             /\ Moves(i, x)
             /\ x = "save" => worker'[i].copy = last[worker[i].chat]
  <1>1. /\ worker[i].pc = "handle"
        /\ worker[i] \in Goroutine /\ worker[i].chat \in Chats
    BY GoroutineType DEF HandlerLoads, IInv
  <1>2. CASE Goto(i, "mark")
    BY <1>1, <1>2, GotoMoves DEF IInv, PCs
  <1>3. CASE worker' = [worker EXCEPT ![i].pc = "save",
                                      ![i].copy = last[worker[i].chat]]
    <2> DEFINE new == [worker[i] EXCEPT !.pc = "save",
                                        !.copy = last[worker[i].chat]]
    <2>1. /\ new \in Goroutine /\ new.pc = "save" /\ new.id = worker[i].id
          /\ new.chat = worker[i].chat /\ new.copy = last[worker[i].chat]
      BY <1>1 DEF Goroutine, PCs, IInv, TypeOK
    <2>2. worker' = [worker EXCEPT ![i] = new]
      BY <1>3
    <2> HIDE DEF new
    <2>3. Moves(i, "save") /\ worker'[i].copy = last[worker[i].chat]
      BY <2>1, <2>2 DEF IInv, TypeOK, Moves
    <2>4. QED
      BY <2>3
  <1>4. QED
    BY <1>2, <1>3 DEF HandlerLoads

\* A handler is started for an update that the session does not remember and
\* that no other goroutine handles, so every earlier start has lost its mark.
LEMMA HandlerLoadsIInv ==
    ASSUME IInv, NEW i \in Workers, HandlerLoads(i)
    PROVE  IInv'
  <1>1. /\ worker[i].pc = "handle" /\ Holding(i)
        /\ worker[i] \in Goroutine
        /\ worker[i].id \in Ids /\ worker[i].chat \in Chats
    BY GoroutineType DEF HandlerLoads, IInv, Holding
  <1>2. /\ UNCHANGED <<issued, pending, started, last, unmarked, skipped>>
        /\ handled' = [handled EXCEPT ![worker[i].id] = @ + 1]
        /\ Fault \/ Calm
    BY DEF HandlerLoads, CallFails, CallSucceeds
  <1>3. lock' = lock
    BY DEF HandlerLoads, Goto
  <1>4. last[worker[i].chat] < worker[i].id
    BY <1>1 DEF IInv, HandlersOK
  <1>5. PICK x \in {"save", "mark"} :
          /\ Moves(i, x)
          /\ x = "save" => worker'[i].copy = last[worker[i].chat]
    BY LoadMoves
  <1>6. /\ handled' \in [Ids -> Nat]
        /\ handled'[worker[i].id] = handled[worker[i].id] + 1
        /\ \A id \in Ids : id # worker[i].id => handled'[id] = handled[id]
        /\ \A id \in Ids : handled[id] > 0 => handled'[id] > 0
    BY <1>1, <1>2 DEF IInv, TypeOK
  <1>7. [id |-> worker[i].id, chat |-> worker[i].chat] \in issued
    BY <1>1 DEF IInv, Origins
  <1>8. \A id \in Ids, c \in Chats : Known(id, c) => Known(id, c)'
    BY <1>2, <1>6 DEF Known
  <1>9. Known(worker[i].id, worker[i].chat)'
    BY <1>1, <1>2, <1>5, <1>6, <1>7, Numbers DEF IInv, Known, Moves
  <1>10. TypeOK'
    BY <1>2, <1>3, <1>5, <1>6, FaultsType DEF IInv, TypeOK, Moves
  <1>11. Mutex'
    BY <1>1, <1>3, <1>5, MovesMutex DEF IInv
  <1>12. Origins'
    <2>1. \A id \in Ids : handled'[id] > 0 =>
            \E c \in Chats : [id |-> id, chat |-> c] \in issued
      BY <1>1, <1>6, <1>7 DEF IInv, Origins, Known
    <2>2. QED
      BY <1>1, <1>2, <1>5, <2>1, MovesOrigins DEF IInv, Origins
  <1>13. LastKnown'
    BY <1>2, <1>8, Numbers DEF IInv, LastKnown, TypeOK
  <1>14. HandlersOK'
    <2> SUFFICES ASSUME NEW j \in Workers
                 PROVE  /\ worker'[j].pc \in {"handle", "save", "mark"} =>
                             last'[worker'[j].chat] < worker'[j].id
                        /\ Handling(j)' => Known(worker[j].id, worker[j].chat)'
                        /\ worker'[j].pc = "save" => CopyOK(j)'
      BY <1>5 DEF HandlersOK, Moves
    <2>1. CASE j = i
      <3>1. x = "save" => CopyOK(i)'
        BY <1>1, <1>2, <1>4, <1>5, <1>8, Numbers
        DEF IInv, LastKnown, CopyOK, Moves, TypeOK
      <3>2. QED
        BY <1>2, <1>4, <1>5, <1>9, <2>1, <3>1 DEF Moves
    <2>2. CASE j # i
      <3>1. worker'[j] = worker[j]
        BY <1>5, <2>2 DEF Moves
      <3>2. worker[j].pc = "save" => CopyOK(j)'
        BY <1>2, <1>8, <3>1, GoroutineType DEF IInv, HandlersOK, CopyOK
      <3>3. QED
        BY <1>2, <1>8, <3>1, <3>2, GoroutineType
        DEF IInv, HandlersOK, Handling
    <2>3. QED
      BY <2>1, <2>2
  <1>15. MarksOK'
    <2> SUFFICES ASSUME NEW u \in issued
                 PROVE  \/ handled'[u.id] <= unmarked[u.id]
                        \/ /\ handled'[u.id] = unmarked[u.id] + 1
                           /\ Marked(u)'
      BY <1>2 DEF MarksOK
    <2>1. CASE u.id = worker[i].id
      <3>1. u.chat = worker[i].chat
        BY <1>1, <2>1, InHand
      <3>2. ~Marked(u)
        <4>1. ~(last[u.chat] >= u.id)
          BY <1>1, <1>4, <2>1, <3>1, Numbers DEF IInv
        <4>2. ASSUME NEW j \in Workers, Handling(j), worker[j].id = u.id
              PROVE  FALSE
          <5>1. worker[j].chat = u.chat
            BY <4>2, InHand DEF Handling
          <5>2. i = j
            BY <1>1, <3>1, <4>2, <5>1, Alone DEF IInv, Handling, Holding
          <5>3. QED
            BY <1>1, <4>2, <5>2 DEF Handling
        <4>3. QED
          BY <4>1, <4>2 DEF Marked
      <3>3. handled[u.id] <= unmarked[u.id]
        BY <3>2 DEF IInv, MarksOK
      <3>4. Marked(u)'
        BY <1>5, <2>1 DEF Marked, Handling, Moves
      <3>5. QED
        BY <1>1, <1>6, <2>1, <3>3, <3>4, Numbers DEF IInv
    <2>2. CASE u.id # worker[i].id
      <3>1. handled'[u.id] = handled[u.id]
        BY <1>6, <2>2, Numbers DEF IInv
      <3>2. Marked(u) => Marked(u)'
        BY <1>2, <1>5, <2>2 DEF Marked, Handling, Moves
      <3>3. QED
        BY <3>1, <3>2 DEF IInv, MarksOK
    <2>3. QED
      BY <2>1, <2>2
  <1>16. DroppedOnlyWhenOvertaken'
    <2> SUFFICES ASSUME NEW u \in issued, u.id \in skipped, handled'[u.id] = 0
                 PROVE  \E v \in issued : /\ v.chat = u.chat /\ v.id > u.id
                                          /\ handled'[v.id] > 0
      BY <1>2 DEF DroppedOnlyWhenOvertaken
    <2>1. handled[u.id] = 0
      BY <1>6, Numbers DEF IInv
    <2>2. QED
      BY <1>6, <2>1, Numbers DEF IInv, DroppedOnlyWhenOvertaken
  <1>17. QED
    BY <1>10, <1>11, <1>12, <1>13, <1>14, <1>15, <1>16 DEF IInv

\* What a handler saves is the stored session, or the one Redis forgot.
LEMMA SaveRestores ==
    ASSUME IInv, NEW i \in Workers, HandlerEnds(i)
    PROVE  /\ worker[i].pc = "save" /\ Holding(i)
           /\ worker[i].id \in Ids /\ worker[i].chat \in Chats
           /\ \/ last' = last
              \/ /\ last' = [last EXCEPT ![worker[i].chat] = worker[i].copy]
                 /\ last[worker[i].chat] = 0
                 /\ worker[i].copy \in Ids
           /\ Moves(i, "mark") /\ lock' = lock
           /\ UNCHANGED <<issued, pending, started, handled, unmarked, skipped>>
           /\ Fault \/ Calm
  <1>1. /\ worker[i].pc = "save" /\ worker[i] \in Goroutine
        /\ worker[i].id \in Ids /\ worker[i].chat \in Chats
        /\ worker[i].copy \in Ids \cup {0}
    BY GoroutineType DEF HandlerEnds, IInv
  <1>2. last[worker[i].chat] \in {0, worker[i].copy}
    BY <1>1 DEF IInv, HandlersOK, CopyOK
  <1>3. \/ last' = last
        \/ /\ last' = [last EXCEPT ![worker[i].chat] = worker[i].copy]
           /\ last[worker[i].chat] = 0
           /\ worker[i].copy \in Ids
    <2>1. CASE last' = last
      BY <2>1
    <2>2. CASE last' = [last EXCEPT ![worker[i].chat] = worker[i].copy]
      <3>1. CASE last[worker[i].chat] = worker[i].copy
        BY <1>1, <2>2, <3>1 DEF IInv, TypeOK
      <3>2. CASE last[worker[i].chat] # worker[i].copy
        BY <1>1, <1>2, <2>2, <3>2
      <3>3. QED
        BY <3>1, <3>2
    <2>3. QED
      BY <2>1, <2>2 DEF HandlerEnds
  <1>4. Moves(i, "mark") /\ lock' = lock
    BY <1>1, GotoMoves DEF HandlerEnds, IInv, PCs
  <1>5. QED
    BY <1>1, <1>3, <1>4 DEF HandlerEnds, CallSucceeds, Holding

LEMMA HandlerEndsIInv ==
    ASSUME IInv, NEW i \in Workers, HandlerEnds(i)
    PROVE  IInv'
  <1> DEFINE c == worker[i].chat
  <1>1. /\ worker[i].pc = "save" /\ Holding(i)
        /\ worker[i].id \in Ids /\ c \in Chats
        /\ \/ last' = last
           \/ /\ last' = [last EXCEPT ![c] = worker[i].copy]
              /\ last[c] = 0
              /\ worker[i].copy \in Ids
        /\ Moves(i, "mark") /\ lock' = lock
        /\ UNCHANGED <<issued, pending, started, handled, unmarked, skipped>>
        /\ Fault \/ Calm
    BY SaveRestores
  <1>2. /\ last[c] < worker[i].id
        /\ worker[i].copy < worker[i].id
        /\ worker[i].copy > 0 => Known(worker[i].copy, c)
        /\ Known(worker[i].id, c)
    BY <1>1 DEF IInv, HandlersOK, CopyOK, Handling
  <1> HIDE DEF c
  <1>3. /\ last' \in [Chats -> Ids \cup {0}]
        /\ \A d \in Chats : d # c => last'[d] = last[d]
        /\ last'[c] >= last[c] /\ last'[c] < worker[i].id
        /\ last'[c] > 0 => Known(last'[c], c)
    BY <1>1, <1>2, Numbers DEF IInv, TypeOK, LastKnown
  <1>4. \A n \in Ids, d \in Chats : Known(n, d) => Known(n, d)'
    BY <1>1 DEF Known
  <1>5. TypeOK'
    BY <1>1, <1>3, FaultsType DEF IInv, TypeOK, Moves
  <1>6. Mutex'
    BY <1>1, MovesMutex DEF IInv
  <1>7. Origins'
    BY <1>1, MovesOrigins DEF IInv, Origins, Known
  <1>8. LastKnown'
    BY <1>1, <1>3 DEF IInv, LastKnown, Known
  <1>9. HandlersOK'
    <2> SUFFICES ASSUME NEW j \in Workers
                 PROVE  /\ worker'[j].pc \in {"handle", "save", "mark"} =>
                             last'[worker[j].chat] < worker[j].id
                        /\ Handling(j)' => Known(worker[j].id, worker[j].chat)'
                        /\ worker'[j].pc = "save" => CopyOK(j)'
      BY <1>1 DEF HandlersOK, Moves
    <2>1. CASE j = i
      BY <1>1, <1>2, <1>3, <2>1 DEF Moves, Known, c
    <2>2. CASE j # i
      <3>1. worker'[j] = worker[j]
        BY <1>1, <2>2 DEF Moves
      <3>2. ASSUME Holding(j)
            PROVE  last'[worker[j].chat] = last[worker[j].chat]
        <4>1. worker[j].chat # c
          BY <1>1, <2>2, <3>2, Alone DEF IInv, c
        <4>2. QED
          BY <1>3, <3>2, <4>1, GoroutineType DEF IInv, Holding
      <3>3. QED
        BY <1>1, <3>1, <3>2
        DEF IInv, HandlersOK, Handling, Holding, CopyOK, Known
    <2>3. QED
      BY <2>1, <2>2
  <1>10. MarksOK'
    <2>1. \A u \in issued : Marked(u) => Marked(u)'
      <3>1. ASSUME NEW u \in issued, last[u.chat] >= u.id
            PROVE  last'[u.chat] >= u.id
        BY <1>3, <3>1, Numbers DEF IInv, TypeOK
      <3>2. \A j \in Workers : Handling(j) =>
              Handling(j)' /\ worker'[j].id = worker[j].id
        BY <1>1 DEF Handling, Moves
      <3>3. QED
        BY <3>1, <3>2 DEF Marked
    <2>2. QED
      BY <1>1, <2>1 DEF IInv, MarksOK
  <1>11. DroppedOnlyWhenOvertaken'
    BY <1>1 DEF IInv, DroppedOnlyWhenOvertaken
  <1>12. QED
    BY <1>5, <1>6, <1>7, <1>8, <1>9, <1>10, <1>11 DEF IInv

\* The mark is stored, which raises what the session remembers, or is lost,
\* which is counted.
LEMMA MarkStores ==
    ASSUME IInv, NEW i \in Workers, markUpdateProcessed(i)
    PROVE  /\ worker[i].pc = "mark" /\ Holding(i)
           /\ worker[i].id \in Ids /\ worker[i].chat \in Chats
           /\ Moves(i, "done")
           /\ lock' = [lock EXCEPT ![worker[i].chat] = 0]
           /\ \/ /\ last' = [last EXCEPT ![worker[i].chat] = worker[i].id]
                 /\ UNCHANGED unmarked
              \/ /\ unmarked' = [unmarked EXCEPT ![worker[i].id] = @ + 1]
                 /\ UNCHANGED last
           /\ UNCHANGED <<issued, pending, started, handled, skipped>>
           /\ Fault \/ Calm
  <1>1. /\ worker[i].pc = "mark"
        /\ worker[i].id \in Ids /\ worker[i].chat \in Chats
    BY GoroutineType DEF markUpdateProcessed, IInv
  <1>2. last[worker[i].chat] < worker[i].id
    BY <1>1 DEF IInv, HandlersOK
  <1>3. ~(worker[i].id <= last[worker[i].chat])
    BY <1>1, <1>2, Numbers DEF IInv
  <1>4. Moves(i, "done") /\ lock' = [lock EXCEPT ![worker[i].chat] = 0]
    BY <1>1, EndMoves DEF markUpdateProcessed, IInv
  <1>5. QED
    BY <1>1, <1>3, <1>4
    DEF markUpdateProcessed, CallFails, CallSucceeds, Holding

LEMMA markUpdateProcessedIInv ==
    ASSUME IInv, NEW i \in Workers, markUpdateProcessed(i)
    PROVE  IInv'
  <1> DEFINE c == worker[i].chat
  <1>1. /\ worker[i].pc = "mark" /\ Holding(i)
        /\ worker[i].id \in Ids /\ c \in Chats
        /\ Moves(i, "done")
        /\ lock' = [lock EXCEPT ![c] = 0]
        /\ \/ /\ last' = [last EXCEPT ![c] = worker[i].id]
              /\ UNCHANGED unmarked
           \/ /\ unmarked' = [unmarked EXCEPT ![worker[i].id] = @ + 1]
              /\ UNCHANGED last
        /\ UNCHANGED <<issued, pending, started, handled, skipped>>
        /\ Fault \/ Calm
    BY MarkStores
  <1>2. last[c] < worker[i].id /\ Known(worker[i].id, c)
    BY <1>1 DEF IInv, HandlersOK, Handling
  <1> HIDE DEF c
  <1>3. /\ last' \in [Chats -> Ids \cup {0}]
        /\ \A d \in Chats : d # c => last'[d] = last[d]
        /\ \/ last'[c] = worker[i].id
           \/ last' = last /\ unmarked'[worker[i].id] = unmarked[worker[i].id] + 1
        /\ last'[c] >= last[c]
        /\ unmarked' \in [Ids -> Nat]
        /\ \A n \in Ids : unmarked'[n] >= unmarked[n]
        /\ last'[c] > 0 => Known(last'[c], c)
    BY <1>1, <1>2, Numbers DEF IInv, TypeOK, LastKnown
  <1>4. TypeOK'
    <2>1. faults' \in 0..MaxFaults /\ lock' \in [Chats -> Workers \cup {0}]
      BY <1>1, FaultsType DEF IInv, TypeOK
    <2>2. QED
      BY <1>1, <1>3, <2>1 DEF IInv, TypeOK, Moves
  <1>5. Mutex'
    BY <1>1, MovesMutex DEF IInv, c
  <1>6. Origins'
    BY <1>1, MovesOrigins DEF IInv, Origins, Known
  <1>7. LastKnown'
    BY <1>1, <1>3 DEF IInv, LastKnown, Known
  <1>8. HandlersOK'
    <2> SUFFICES ASSUME NEW j \in Workers, j # i
                 PROVE  /\ worker[j].pc \in {"handle", "save", "mark"} =>
                             last'[worker[j].chat] < worker[j].id
                        /\ Handling(j) => Known(worker[j].id, worker[j].chat)'
                        /\ worker[j].pc = "save" => CopyOK(j)'
      BY <1>1 DEF HandlersOK, Handling, Moves
    <2>1. worker'[j] = worker[j]
      BY <1>1 DEF Moves
    <2>2. ASSUME Holding(j)
          PROVE  last'[worker[j].chat] = last[worker[j].chat]
      <3>1. worker[j].chat # c
        BY <1>1, <2>2, Alone DEF IInv, c
      <3>2. QED
        BY <1>3, <2>2, <3>1, GoroutineType DEF IInv, Holding
    <2>3. QED
      BY <1>1, <2>1, <2>2
      DEF IInv, HandlersOK, Handling, Holding, CopyOK, Known
  <1>9. MarksOK'
    <2> SUFFICES ASSUME NEW u \in issued
                 PROVE  \/ handled[u.id] <= unmarked'[u.id]
                        \/ handled[u.id] = unmarked'[u.id] + 1 /\ Marked(u)'
      BY <1>1 DEF MarksOK
    <2>1. u.id \in Ids /\ u.chat \in Chats
      BY Numbers DEF IInv
    <2>2. CASE u.id = worker[i].id
      <3>1. u.chat = c
        BY <1>1, <2>2, InHand DEF c
      <3>2. last'[c] = worker[i].id => Marked(u)'
        BY <1>1, <2>2, <3>1, Numbers DEF IInv, Marked
      <3>3. QED
        BY <1>1, <1>3, <2>1, <2>2, <3>2, Numbers DEF IInv, MarksOK
    <2>3. CASE u.id # worker[i].id
      <3>1. unmarked'[u.id] = unmarked[u.id]
        BY <1>1, <2>1, <2>3 DEF IInv, TypeOK
      <3>2. last[u.chat] >= u.id => last'[u.chat] >= u.id
        BY <1>3, <2>1, Numbers DEF IInv, TypeOK
      <3>3. \A j \in Workers : Handling(j) /\ worker[j].id = u.id =>
              Handling(j)' /\ worker'[j].id = u.id
        BY <1>1, <2>3 DEF Handling, Moves
      <3>4. Marked(u) => Marked(u)'
        BY <1>1, <3>2, <3>3 DEF Marked
      <3>5. QED
        BY <3>1, <3>4 DEF IInv, MarksOK
    <2>4. QED
      BY <2>2, <2>3
  <1>10. DroppedOnlyWhenOvertaken'
    BY <1>1 DEF IInv, DroppedOnlyWhenOvertaken
  <1>11. QED
    BY <1>4, <1>5, <1>6, <1>7, <1>8, <1>9, <1>10 DEF IInv

-----------------------------------------------------------------------------
(***************************************************************************)
(* Faults: a restart and a forgotten session.                              *)
(***************************************************************************)

\* No goroutine survives, and each mark that was due counts as lost.
LEMMA CrashIInv ==
    ASSUME IInv, Crash
    PROVE  IInv'
  <1>1. /\ UNCHANGED <<issued, pending, started, last, handled, skipped>>
        /\ lock' = [c \in Chats |-> 0]
        /\ Fault
    BY DEF Crash
  <1>2. /\ worker' \in [Workers -> Goroutine \cup {NotStarted}]
        /\ \A j \in Workers :
             /\ worker'[j].pc \in {"none", "done"}
             /\ worker'[j].id = worker[j].id /\ worker'[j].chat = worker[j].chat
             /\ worker'[j].pc = "none" <=> worker[j].pc = "none"
    <2>1. \A j \in Workers : worker[j].pc # "none" =>
            /\ [worker[j] EXCEPT !.pc = "done"] \in Goroutine
            /\ [worker[j] EXCEPT !.pc = "done"].pc = "done"
            /\ [worker[j] EXCEPT !.pc = "done"].id = worker[j].id
            /\ [worker[j] EXCEPT !.pc = "done"].chat = worker[j].chat
      BY GoroutineType DEF IInv, Goroutine, PCs
    <2>2. QED
      BY <2>1 DEF Crash, IInv, TypeOK
  <1>3. /\ unmarked' \in [Ids -> Nat]
        /\ \A n \in Ids : unmarked'[n] >= unmarked[n]
        /\ \A n \in Ids : InHandler(n) # {} => unmarked'[n] = unmarked[n] + 1
    BY Numbers DEF IInv, Crash
  <1>4. TypeOK'
    BY <1>1, <1>2, <1>3, FaultsType DEF IInv, TypeOK
  <1>5. Mutex' /\ LastKnown' /\ HandlersOK'
    BY <1>1, <1>2
    DEF IInv, Mutex, Holding, LastKnown, Known, HandlersOK, Handling
  <1>6. Origins'
    BY <1>1, <1>2 DEF IInv, Origins, Known
  <1>7. MarksOK'
    <2> SUFFICES ASSUME NEW u \in issued
                 PROVE  \/ handled[u.id] <= unmarked'[u.id]
                        \/ handled[u.id] = unmarked'[u.id] + 1 /\ Marked(u)'
      BY <1>1 DEF MarksOK
    <2>1. u.id \in Ids
      BY Numbers DEF IInv
    <2>2. CASE InHandler(u.id) # {}
      BY <1>3, <2>1, <2>2, Numbers DEF IInv, MarksOK
    <2>3. CASE InHandler(u.id) = {}
      <3>1. unmarked'[u.id] = unmarked[u.id]
        BY <2>1, <2>3 DEF Crash
      <3>2. Marked(u) => last[u.chat] >= u.id
        BY <2>3 DEF Marked, Handling, InHandler
      <3>3. Marked(u) => Marked(u)'
        BY <1>1, <3>2 DEF Marked
      <3>4. QED
        BY <3>1, <3>3 DEF IInv, MarksOK
    <2>4. QED
      BY <2>2, <2>3
  <1>8. DroppedOnlyWhenOvertaken'
    BY <1>1 DEF IInv, DroppedOnlyWhenOvertaken
  <1>9. QED
    BY <1>4, <1>5, <1>6, <1>7, <1>8 DEF IInv

\* With the session all marks of its chat are lost.
LEMMA SessionExpiresIInv ==
    ASSUME IInv, NEW c \in Chats, SessionExpires(c)
    PROVE  IInv'
  <1>1. /\ UNCHANGED <<issued, pending, worker, started, lock, handled, skipped>>
        /\ last' = [last EXCEPT ![c] = 0]
        /\ Fault
    BY DEF SessionExpires
  <1>2. /\ last' \in [Chats -> Ids \cup {0}]
        /\ \A d \in Chats : last'[d] = last[d] \/ last'[d] = 0
        /\ \A d \in Chats : last'[d] <= last[d]
        /\ \A d \in Chats : d # c => last'[d] = last[d]
    BY <1>1, Numbers DEF IInv, TypeOK
  <1>3. /\ unmarked' \in [Ids -> Nat]
        /\ \A n \in Ids : unmarked'[n] >= unmarked[n]
        /\ \A n \in Ids : handled[n] > 0 /\ [id |-> n, chat |-> c] \in issued =>
             unmarked'[n] = unmarked[n] + 1
        /\ \A n \in Ids : [id |-> n, chat |-> c] \notin issued =>
             unmarked'[n] = unmarked[n]
    BY Numbers DEF IInv, SessionExpires
  <1>4. TypeOK'
    BY <1>1, <1>2, <1>3, FaultsType DEF IInv, TypeOK
  <1>5. Mutex' /\ Origins' /\ LastKnown'
    <2>1. Mutex' /\ Origins'
      BY <1>1 DEF IInv, Mutex, Holding, Origins, Known
    <2>2. \A d \in Chats : last'[d] > 0 => last'[d] = last[d]
      BY <1>2
    <2>3. LastKnown'
      BY <1>1, <2>2 DEF IInv, LastKnown, Known
    <2>4. QED
      BY <2>1, <2>3
  <1>6. HandlersOK'
    <2> SUFFICES ASSUME NEW j \in Workers, worker[j].pc # "none"
                 PROVE  /\ worker[j].pc \in {"handle", "save", "mark"} =>
                             last'[worker[j].chat] < worker[j].id
                        /\ Handling(j) => Known(worker[j].id, worker[j].chat)'
                        /\ worker[j].pc = "save" => CopyOK(j)'
      BY <1>1 DEF HandlersOK, Handling
    <2>1. worker[j].chat \in Chats /\ worker[j].id \in Ids
      BY GoroutineType DEF IInv
    <2>2. last'[worker[j].chat] \in {0, last[worker[j].chat]}
      BY <1>2, <2>1
    <2>3. 0 < worker[j].id
      BY <2>1, Numbers DEF IInv
    <2>4. QED
      BY <1>1, <2>2, <2>3 DEF IInv, HandlersOK, Handling, CopyOK, Known
  <1>7. MarksOK'
    <2> SUFFICES ASSUME NEW u \in issued
                 PROVE  \/ handled[u.id] <= unmarked'[u.id]
                        \/ handled[u.id] = unmarked'[u.id] + 1 /\ Marked(u)'
      BY <1>1 DEF MarksOK
    <2>1. u.id \in Ids /\ u.chat \in Chats /\ u = [id |-> u.id, chat |-> u.chat]
      BY DEF IInv, TypeOK, Update
    <2>2. CASE u.chat = c
      <3>1. handled[u.id] > 0 => unmarked'[u.id] = unmarked[u.id] + 1
        BY <1>3, <2>1, <2>2
      <3>2. QED
        BY <1>3, <2>1, <3>1, Numbers DEF IInv, MarksOK
    <2>3. CASE u.chat # c
      <3>1. [id |-> u.id, chat |-> c] \notin issued
        BY <2>1, <2>3 DEF IInv, Origins
      <3>2. unmarked'[u.id] = unmarked[u.id]
        BY <1>3, <2>1, <3>1
      <3>3. Marked(u) => Marked(u)'
        BY <1>1, <1>2, <2>1, <2>3 DEF Marked, Handling
      <3>4. QED
        BY <3>2, <3>3 DEF IInv, MarksOK
    <2>4. QED
      BY <2>2, <2>3
  <1>8. DroppedOnlyWhenOvertaken'
    BY <1>1 DEF IInv, DroppedOnlyWhenOvertaken
  <1>9. QED
    BY <1>4, <1>5, <1>6, <1>7, <1>8 DEF IInv

LEMMA IInvUnchanged ==
    ASSUME IInv, UNCHANGED vars
    PROVE  IInv'
  BY DEF vars, IInv, TypeOK, Mutex, Holding, Origins, Known, LastKnown,
         HandlersOK, Handling, CopyOK, MarksOK, Marked, DroppedOnlyWhenOvertaken

LEMMA IInvStep ==
    ASSUME IInv, [Next]_vars
    PROVE  IInv'
  <1>1. \A c \in Chats : TelegramIssues(c) \/ SessionExpires(c) => IInv'
    BY TelegramIssuesIInv, SessionExpiresIInv
  <1>2. \A u \in pending : ServeHTTP(u) => IInv'
    BY ServeHTTPIInv
  <1>3. \A i \in Workers :
          withChatLock(i) \/ Process(i) \/ ContextExpires(i) => IInv'
    BY withChatLockIInv, ContextExpiresIInv, isDuplicateUpdateIInv,
       HandlerLoadsIInv, HandlerEndsIInv, markUpdateProcessedIInv
    DEF Process
  <1>4. QED
    BY <1>1, <1>2, <1>3, CrashIInv, IInvUnchanged DEF Next

LEMMA IInvAlways == Spec => []IInv
  BY IInvInit, IInvStep, PTL DEF Spec

-----------------------------------------------------------------------------
\* Every variable of the intake keeps its type, for every number of chats,
\* updates, deliveries and faults.
THEOREM TypeCorrect == Spec => []TypeOK
<1>1. IInv => TypeOK
  BY DEF IInv
<1>2. QED
  BY <1>1, IInvAlways, PTL

\* At most one goroutine of a chat is past its mutex.
THEOREM Exclusion == Spec => []Mutex
<1>1. IInv => Mutex
  BY DEF IInv
<1>2. QED
  BY <1>1, IInvAlways, PTL

\* The handler of an update is started again only if its mark was lost,
\* although updates are delivered twice and handlers save whole sessions.
THEOREM HandledOnce == Spec => []HandledAgainOnlyUnmarked
<1>1. IInv => HandledAgainOnlyUnmarked
  <2> SUFFICES ASSUME IInv, NEW id \in Ids
               PROVE  handled[id] <= 1 + unmarked[id]
    BY DEF HandledAgainOnlyUnmarked
  <2>1. handled[id] \in Nat /\ unmarked[id] \in Nat
    BY Numbers DEF IInv
  <2>2. CASE handled[id] > 0
    <3>1. PICK c \in Chats : [id |-> id, chat |-> c] \in issued
      BY <2>2 DEF IInv, Origins, Known
    <3>2. QED
      BY <2>1, <3>1 DEF IInv, MarksOK
  <2>3. QED
    BY <2>1, <2>2
<1>2. QED
  BY <1>1, IInvAlways, PTL

\* An update is dropped unhandled only if a later one of its chat was handled.
THEOREM DroppedWhenOvertaken == Spec => []DroppedOnlyWhenOvertaken
<1>1. IInv => DroppedOnlyWhenOvertaken
  BY DEF IInv
<1>2. QED
  BY <1>1, IInvAlways, PTL

\* A step of the intake lowers last_processed_update_id only by the TTL.
LEMMA LastGrowsStep ==
    ASSUME IInv, [Next]_vars, NEW c \in Chats, last'[c] < last[c]
    PROVE  SessionExpires(c)
  <1>1. last[c] \in Nat
    BY Numbers DEF IInv
  <1>2. ASSUME UNCHANGED last PROVE FALSE
    BY <1>1, <1>2
  <1>3. ASSUME NEW i \in Workers, HandlerEnds(i) PROVE FALSE
    <2>1. last[c] = 0 \/ last'[c] = last[c]
      BY <1>3, SaveRestores DEF IInv, TypeOK
    <2>2. last'[c] \in Nat
      BY <1>3, SaveRestores, <1>1, Numbers DEF IInv, TypeOK
    <2>3. QED
      BY <1>1, <2>1, <2>2
  <1>4. ASSUME NEW i \in Workers, markUpdateProcessed(i) PROVE FALSE
    <2>1. last[worker[i].chat] < worker[i].id
      BY <1>4, MarkStores DEF IInv, HandlersOK
    <2>2. \/ last'[c] = last[c]
          \/ c = worker[i].chat /\ last'[c] = worker[i].id
      BY <1>4, MarkStores DEF IInv, TypeOK
    <2>3. worker[i].id \in Nat
      BY <1>4, MarkStores, Numbers DEF IInv
    <2>4. QED
      BY <1>1, <2>1, <2>2, <2>3
  <1>5. ASSUME NEW d \in Chats, d # c, SessionExpires(d) PROVE FALSE
    BY <1>1, <1>5 DEF SessionExpires, IInv, TypeOK
  <1>6. \A d \in Chats : ~TelegramIssues(d)
    BY <1>2 DEF TelegramIssues
  <1>7. \A u \in pending : ~ServeHTTP(u)
    BY <1>2 DEF ServeHTTP
  <1>8. \A i \in Workers : ~withChatLock(i) /\ ~ContextExpires(i)
    BY <1>2 DEF withChatLock, ContextExpires
  <1>9. \A i \in Workers : ~Process(i)
    BY <1>2, <1>3, <1>4 DEF Process, isDuplicateUpdate, HandlerLoads
  <1>10. ~Crash /\ ~UNCHANGED vars
    BY <1>2 DEF Crash, vars
  <1>11. QED
    BY <1>5, <1>6, <1>7, <1>8, <1>9, <1>10 DEF Next

\* last_processed_update_id is never replaced by a lower one while the
\* session lives.
THEOREM LastGrows == Spec => LastProcessedGrows
<1>1. IInv /\ [Next]_vars =>
        [\A c \in Chats : last'[c] < last[c] => SessionExpires(c)]_vars
  BY LastGrowsStep
<1>2. QED
  BY <1>1, IInvAlways, PTL DEF Spec, LastProcessedGrows

-----------------------------------------------------------------------------
(***************************************************************************)
(* The intake implements SerialChats: the load of a session begins a job   *)
(* and the mark finishes it; a crash is a restart, the TTL forgets, and a  *)
(* save after it recalls; all else is hidden.                              *)
(***************************************************************************)

Jobs(c)  == {[job |-> i, id |-> worker[i].id] : i \in HandlersOf(c)}
Begun(c) == {id \in Ids : handled[id] > 0 /\ [id |-> id, chat |-> c] \in issued}

Running == [c \in Chats |-> Jobs(c)]
Begins  == [c \in Chats |-> Begun(c)]

LEMMA SerialInit == Init => Serial!Init
  BY DEF Init, Serial!Init, HandlersOf, NotStarted

\* Who runs depends on the goroutines between load and mark only.
LEMMA SameJobs ==
    ASSUME \A i \in Workers : /\ Handling(i)' <=> Handling(i)
                              /\ Handling(i) =>
                                   /\ worker'[i].id = worker[i].id
                                   /\ worker'[i].chat = worker[i].chat
    PROVE  Running' = Running
  <1>1. \A c \in Chats : HandlersOf(c)' = HandlersOf(c)
    BY DEF HandlersOf, Handling
  <1>2. \A c \in Chats : Jobs(c)' = Jobs(c)
    <2> SUFFICES ASSUME NEW c \in Chats PROVE Jobs(c)' = Jobs(c)
      OBVIOUS
    <2>1. HandlersOf(c)' = HandlersOf(c)
      BY <1>1
    <2>2. \A i \in HandlersOf(c) : worker'[i].id = worker[i].id
      BY DEF HandlersOf, Handling
    <2>3. QED
      BY <2>1, <2>2 DEF Jobs
  <1>3. QED
    BY <1>2 DEF Running

LEMMA SameBegins ==
    ASSUME UNCHANGED <<issued, handled>>
    PROVE  Begins' = Begins
  BY DEF Begins, Begun

\* While goroutine i is past the mutex, no other handler of its chat runs.
LEMMA JobsAlone ==
    ASSUME IInv, NEW i \in Workers, Holding(i)
    PROVE  Jobs(worker[i].chat) =
             IF Handling(i) THEN {[job |-> i, id |-> worker[i].id]} ELSE {}
  <1>1. HandlersOf(worker[i].chat) = IF Handling(i) THEN {i} ELSE {}
    BY Alone DEF IInv, HandlersOf, Handling, Holding
  <1>2. QED
    BY <1>1 DEF Jobs

\* A goroutine that moves changes the jobs of its own chat only.
LEMMA MovesJobs ==
    ASSUME IInv, NEW i \in Workers, Holding(i), NEW x, Moves(i, x)
    PROVE  /\ x \in {"save", "mark"} =>
                Running' = [Running EXCEPT ![worker[i].chat] =
                              {[job |-> i, id |-> worker[i].id]}]
           /\ x \notin {"save", "mark"} =>
                Running' = [Running EXCEPT ![worker[i].chat] = {}]
  <1> DEFINE c == worker[i].chat
             mine == IF x \in {"save", "mark"}
                       THEN {[job |-> i, id |-> worker[i].id]} ELSE {}
  <1>1. c \in Chats
    BY GoroutineType DEF IInv, Holding
  <1>2. \A j \in Workers \ {i} : worker[j].chat = c => ~Handling(j)
    BY Alone DEF IInv, Handling, Holding
  <1>3. HandlersOf(c)' = IF x \in {"save", "mark"} THEN {i} ELSE {}
    BY <1>2 DEF HandlersOf, Handling, Moves
  <1>4. Jobs(c)' = mine
    BY <1>3 DEF Jobs, Moves
  <1>5. ASSUME NEW d \in Chats, d # c
        PROVE  Jobs(d)' = Jobs(d)
    <2>1. HandlersOf(d)' = HandlersOf(d)
      BY <1>5 DEF HandlersOf, Moves
    <2>2. \A j \in HandlersOf(d) : worker'[j].id = worker[j].id
      BY DEF HandlersOf, Moves
    <2>3. QED
      BY <2>1, <2>2 DEF Jobs
  <1>6. QED
    BY <1>1, <1>4, <1>5 DEF Running, Moves

LEMMA HandlerLoadsBegins ==
    ASSUME IInv, NEW i \in Workers, NEW c \in Chats, NEW id \in Ids,
           c = worker[i].chat, id = worker[i].id, HandlerLoads(i)
    PROVE  Serial!Next
  <1>1. /\ worker[i].pc = "handle" /\ Holding(i) /\ ~Handling(i)
        /\ worker[i] \in Goroutine
        /\ handled' = [handled EXCEPT ![id] = @ + 1]
        /\ UNCHANGED <<issued, last>>
    BY GoroutineType DEF HandlerLoads, IInv, Holding, Handling
  <1>2. last[c] < id /\ [id |-> id, chat |-> c] \in issued
    BY <1>1 DEF IInv, HandlersOK, Origins
  <1>3. PICK x \in {"save", "mark"} : Moves(i, x)
    BY LoadMoves
  <1>4. /\ Running[c] = {}
        /\ Running' = [Running EXCEPT ![c] = {[job |-> i, id |-> id]}]
    BY <1>1, <1>3, JobsAlone, MovesJobs DEF Running
  <1>5. Begins' = [Begins EXCEPT ![c] = @ \cup {id}]
    <2>1. \A d \in Chats : d # c => [id |-> id, chat |-> d] \notin issued
      BY <1>2 DEF IInv, Origins
    <2>2. \A n \in Ids : handled'[n] > 0 <=> handled[n] > 0 \/ n = id
      BY <1>1, Numbers DEF IInv, TypeOK
    <2>3. \A d \in Chats : Begun(d)' = IF d = c THEN Begun(d) \cup {id} ELSE Begun(d)
      BY <1>1, <1>2, <2>1, <2>2 DEF Begun
    <2>4. QED
      BY <2>3 DEF Begins
  <1>6. id > last[c]
    BY <1>2, Numbers DEF IInv
  <1>7. Serial!Begin(c, i, id)
    BY <1>1, <1>4, <1>5, <1>6
    DEF Serial!Begin, Running, Begins, Jobs, Begun
  <1>8. QED
    BY <1>7 DEF Serial!Next

\* A save is hidden, unless it brings back a session that was forgotten.
LEMMA HandlerEndsSerial ==
    ASSUME IInv, NEW i \in Workers, NEW c \in Chats, NEW id \in Ids,
           c = worker[i].chat, id = worker[i].id, HandlerEnds(i)
    PROVE  Serial!Next \/ UNCHANGED <<Running, Begins, last>>
  <1>1. /\ worker[i].pc = "save" /\ Holding(i) /\ Handling(i)
        /\ \/ last' = last
           \/ /\ last' = [last EXCEPT ![c] = worker[i].copy]
              /\ last[c] = 0 /\ worker[i].copy \in Ids
        /\ Moves(i, "mark")
        /\ UNCHANGED <<issued, handled>>
    BY SaveRestores DEF Handling
  <1>2. Running[c] = {[job |-> i, id |-> id]}
    BY <1>1, JobsAlone DEF Running
  <1>3. Running' = Running
    BY <1>1, SameJobs DEF Handling, Moves
  <1>4. Begins' = Begins
    BY <1>1, SameBegins
  <1>5. CASE last' = last
    BY <1>3, <1>4, <1>5
  <1>6. CASE /\ last' = [last EXCEPT ![c] = worker[i].copy]
             /\ last[c] = 0 /\ worker[i].copy \in Ids
    <2>1. worker[i].copy < id /\ worker[i].copy \in Begins[c]
      <3>1. worker[i].copy > 0
        BY <1>6, Numbers DEF IInv
      <3>2. CopyOK(i)
        BY <1>1 DEF IInv, HandlersOK
      <3>3. Known(worker[i].copy, c)
        BY <3>1, <3>2 DEF CopyOK
      <3>4. QED
        BY <1>6, <3>2, <3>3 DEF CopyOK, Known, Begins, Begun
    <2>2. \E h \in Running[c], n \in Begins[c] :
             n < h.id /\ last' = [last EXCEPT ![c] = n]
      <3>1. [job |-> i, id |-> id] \in Running[c]
        BY <1>2
      <3>2. [job |-> i, id |-> id].id = id
        OBVIOUS
      <3>3. QED
        BY <1>6, <2>1, <3>1, <3>2
    <2>3. Serial!Recall(c)
      BY <1>3, <1>4, <1>6, <2>2
      DEF Serial!Recall, Running, Begins, Jobs, Begun
    <2>4. QED
      BY <2>3 DEF Serial!Next
  <1>7. QED
    BY <1>1, <1>5, <1>6

LEMMA MarkFinishes ==
    ASSUME IInv, NEW i \in Workers, NEW c \in Chats, NEW id \in Ids,
           c = worker[i].chat, id = worker[i].id, markUpdateProcessed(i)
    PROVE  Serial!Next
  <1>1. /\ worker[i].pc = "mark" /\ Holding(i) /\ Handling(i)
        /\ last' = last \/ last' = [last EXCEPT ![c] = id]
        /\ Moves(i, "done")
        /\ UNCHANGED <<issued, handled>>
    BY MarkStores DEF Handling
  <1>2. Running[c] = {[job |-> i, id |-> id]}
    BY <1>1, JobsAlone DEF Running
  <1>3. Running' = [Running EXCEPT ![c] = {}]
    BY <1>1, MovesJobs
  <1>4. Begins' = Begins
    BY <1>1, SameBegins
  <1>5. \E h \in Running[c] :
          /\ Running' = [Running EXCEPT ![c] = {}]
          /\ last' = last \/ last' = [last EXCEPT ![c] = h.id]
          /\ Begins' = Begins
    BY <1>1, <1>2, <1>3, <1>4
  <1>6. Serial!Finish(c)
    BY <1>5 DEF Serial!Finish, Running, Begins, Jobs, Begun
  <1>7. QED
    BY <1>6 DEF Serial!Next

\* The steps between a delivery and the handler are hidden.
LEMMA HiddenSteps ==
    ASSUME IInv,
           \/ \E i \in Workers : \/ withChatLock(i) \/ ContextExpires(i)
                                 \/ isDuplicateUpdate(i)
           \/ \E u \in pending : ServeHTTP(u)
           \/ \E c \in Chats : TelegramIssues(c)
           \/ UNCHANGED vars
    PROVE  UNCHANGED <<Running, Begins, last>>
  <1>1. ASSUME NEW i \in Workers, NEW x, Moves(i, x), ~Handling(i),
               x \notin {"save", "mark"}
        PROVE  Running' = Running
    BY <1>1, SameJobs DEF Handling, Moves
  <1>2. ASSUME NEW i \in Workers, withChatLock(i)
        PROVE  UNCHANGED <<Running, Begins, last>>
    <2>1. Moves(i, "dedupe") /\ ~Handling(i)
      BY <1>2, SetPcMoves DEF withChatLock, IInv, PCs, Handling
    <2>2. QED
      BY <1>1, <1>2, <2>1, SameBegins DEF withChatLock
  <1>3. ASSUME NEW i \in Workers, ContextExpires(i)
        PROVE  UNCHANGED <<Running, Begins, last>>
    <2>1. worker[i].pc # "none" /\ worker[i] \in Goroutine
      BY <1>3, GoroutineType DEF ContextExpires, IInv
    <2>2. \A j \in Workers : /\ worker'[j].pc = worker[j].pc
                             /\ worker'[j].id = worker[j].id
                             /\ worker'[j].chat = worker[j].chat
      BY <1>3, <2>1 DEF ContextExpires, IInv, TypeOK, Goroutine
    <2>3. Running' = Running
      BY <2>2, SameJobs DEF Handling
    <2>4. QED
      BY <1>3, <2>3, SameBegins DEF ContextExpires
  <1>4. ASSUME NEW i \in Workers, isDuplicateUpdate(i)
        PROVE  UNCHANGED <<Running, Begins, last>>
    <2>1. PICK x \in {"done", "handle"} : Moves(i, x)
      BY <1>4, EndMoves, GotoMoves DEF isDuplicateUpdate, IInv, PCs
    <2>2. ~Handling(i)
      BY <1>4 DEF isDuplicateUpdate, Handling
    <2>3. QED
      BY <1>1, <1>4, <2>1, <2>2, SameBegins DEF isDuplicateUpdate
  <1>5. ASSUME NEW u \in pending, ServeHTTP(u)
        PROVE  UNCHANGED <<Running, Begins, last>>
    <2> DEFINE new == [NotStarted EXCEPT !.pc = "lock", !.id = u.id,
                                         !.chat = u.chat]
    <2>1. PICK n \in Workers : n = started + 1 /\ worker[n].pc = "none"
      <3>1. started \in 0..MaxDeliveries /\ started < MaxDeliveries
        BY <1>5 DEF ServeHTTP, IInv, TypeOK
      <3>2. started + 1 \in Workers /\ started + 1 > started
        BY <3>1, IntakeAssumption DEF Workers
      <3>3. worker[started + 1].pc = "none"
        BY <3>2 DEF IInv, Origins
      <3>4. QED
        BY <3>2, <3>3
    <2>2. new.pc = "lock"
      BY DEF NotStarted
    <2>3. worker' = [worker EXCEPT ![n] = new]
      BY <1>5, <2>1 DEF ServeHTTP
    <2> HIDE DEF new
    <2>4. \A j \in Workers : j # n => worker'[j] = worker[j]
      BY <2>3 DEF IInv, TypeOK
    <2>5. ~Handling(n) /\ ~Handling(n)'
      BY <2>1, <2>2, <2>3 DEF Handling, IInv, TypeOK
    <2>6. Running' = Running
      BY <2>4, <2>5, SameJobs DEF Handling
    <2>7. QED
      BY <1>5, <2>6, SameBegins DEF ServeHTTP
  <1>6. ASSUME NEW c \in Chats, TelegramIssues(c)
        PROVE  UNCHANGED <<Running, Begins, last>>
    <2>1. UNCHANGED <<worker, handled, last>>
      BY <1>6 DEF TelegramIssues
    <2>2. PICK id \in Ids : /\ \A u \in issued : u.id < id
                            /\ issued' = issued \cup {[id |-> id, chat |-> c]}
      BY <1>6 DEF TelegramIssues
    <2>3. ~(handled[id] > 0)
      <3>1. \A u \in issued : u.id # id
        BY <2>2, Numbers DEF IInv
      <3>2. \A d \in Chats : [id |-> id, chat |-> d] \notin issued
        BY <3>1
      <3>3. QED
        BY <3>2 DEF IInv, Origins, Known
    <2>4. \A d \in Chats : Begun(d)' = Begun(d)
      <3> SUFFICES ASSUME NEW d \in Chats, NEW n \in Ids, handled[n] > 0
                   PROVE  [id |-> n, chat |-> d] \in issued' <=>
                            [id |-> n, chat |-> d] \in issued
        BY <2>1 DEF Begun
      <3>1. n # id
        BY <2>3
      <3>2. [id |-> n, chat |-> d] # [id |-> id, chat |-> c]
        BY <3>1
      <3>3. QED
        BY <2>2, <3>2
    <2>5. Begins' = Begins
      BY <2>4 DEF Begins
    <2>6. Running' = Running
      BY <2>1, SameJobs DEF Handling
    <2>7. QED
      BY <2>1, <2>5, <2>6
  <1>7. CASE UNCHANGED vars
    BY <1>7, SameJobs, SameBegins DEF vars, Handling
  <1>8. QED
    BY <1>2, <1>3, <1>4, <1>5, <1>6, <1>7

LEMMA FaultsSerial ==
    ASSUME IInv, Crash \/ \E c \in Chats : SessionExpires(c)
    PROVE  Serial!Next
  <1>1. CASE Crash
    <2>1. UNCHANGED <<issued, handled, last>>
      BY <1>1 DEF Crash
    <2>2. \A j \in Workers : worker'[j].pc \in {"none", "done"}
      BY <1>1, GoroutineType DEF Crash, IInv, Goroutine
    <2>3. \A c \in Chats : HandlersOf(c)' = {}
      BY <2>2 DEF HandlersOf
    <2>4. Running' = [c \in Chats |-> {}]
      BY <2>3 DEF Running, Jobs
    <2>5. Serial!Restart
      BY <2>1, <2>4, SameBegins
      DEF Serial!Restart, Running, Begins, Jobs, Begun
    <2>6. QED
      BY <2>5 DEF Serial!Next
  <1>2. ASSUME NEW c \in Chats, SessionExpires(c)
        PROVE  Serial!Next
    <2>1. UNCHANGED <<issued, handled, worker>>
      BY <1>2 DEF SessionExpires
    <2>2. Running' = Running /\ Begins' = Begins
      BY <2>1, SameJobs, SameBegins DEF Handling
    <2>3. Serial!Forget(c)
      BY <1>2, <2>2
      DEF Serial!Forget, SessionExpires, Running, Begins, Jobs, Begun
    <2>4. QED
      BY <2>3 DEF Serial!Next
  <1>3. QED
    BY <1>1, <1>2

LEMMA SerialStep ==
    ASSUME IInv, [Next]_vars
    PROVE  [Serial!Next]_(Serial!vars)
  <1>1. ASSUME NEW i \in Workers,
               HandlerLoads(i) \/ HandlerEnds(i) \/ markUpdateProcessed(i)
        PROVE  Serial!Next \/ UNCHANGED <<Running, Begins, last>>
    <2>1. worker[i].pc # "none"
      BY <1>1 DEF HandlerLoads, HandlerEnds, markUpdateProcessed
    <2>2. PICK c \in Chats, id \in Ids : c = worker[i].chat /\ id = worker[i].id
      BY <2>1, GoroutineType DEF IInv
    <2>3. QED
      BY <1>1, <2>2, HandlerLoadsBegins, HandlerEndsSerial, MarkFinishes
  <1>2. Serial!Next \/ UNCHANGED <<Running, Begins, last>>
    BY <1>1, HiddenSteps, FaultsSerial DEF Next, Process
  <1>3. QED
    BY <1>2 DEF Serial!vars, Running, Begins, Jobs, Begun

\* The intake implements SerialChats: the handlers of a chat run one at a
\* time, each with an update later than the last one remembered.
THEOREM ImplementsSerialChats == Spec => SerialSpec
<1>1. Serial!Spec <=> Serial!Init /\ [][Serial!Next]_(Serial!vars)
  BY DEF Serial!Spec
<1>2. QED
  BY <1>1, SerialInit, SerialStep, IInvAlways, PTL DEF Spec, SerialSpec
=============================================================================
