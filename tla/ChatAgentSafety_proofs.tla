----------------------- MODULE ChatAgentSafety_proofs -----------------------
(***************************************************************************)
(* The safety properties of ChatAgent, for every set of users, bookings    *)
(* and drafts and every bound: all follow from one inductive invariant,    *)
(* IInv, which says of every session, stored or in a worker's memory, what *)
(* its plan owes to the keyboards that were shown and to the runs that     *)
(* were made.  From the same invariant follow, in the last two parts: that *)
(* the confirmation flow implements ConfirmGate, and that a plan that the  *)
(* bot says is dropped is not executed, as long as no call has failed.     *)
(***************************************************************************)
EXTENDS ChatAgent_proofs

(***************************************************************************)
(* The inductive invariant.                                                *)
(***************************************************************************)

\* What holds of the plan of a session s, stored or in a worker's memory,
\* given the retired plans ret, the next plan number np, the runs rs and the
\* keyboards ks: it was not retired; it belongs to the session's user, who
\* saw every keyboard of it; its key is a function of its identifier and of
\* an intent that no run of it disagrees with.
PlanSound(s, ret, np, rs, ks) ==
    /\ s.plan.id \notin ret /\ s.plan.id < np
    /\ HasPlan(s) => s.user \in Users
    /\ \A k \in ks : k.plan = s.plan.id => k.user = s.user
    /\ s.plan.intent = "availability" => Len(s.plan.cands) = 0
    /\ HasRequest(s.plan) =>
         s.plan.key = buildIdempotencyKey(s.plan.id, s.plan.intent)
    /\ \A r \in rs : r.plan = s.plan.id => r.op.intent = s.plan.intent

\* What could be executed was offered to the session's user.
PlanOffered(s, ks) ==
    HasRequest(s.plan) =>
        \E k \in ks : /\ k.kind = "confirm" /\ k.plan = s.plan.id
                      /\ k.op = OpOf(s.plan) /\ k.user = s.user

StoreOK == /\ PlanSound(store, retired, nextPlan, runs, shown)
           /\ PlanOffered(store, shown)

\* The handler has a session in memory; it is about to offer its plan; it
\* interprets a message; it goes on with the plan of the tapped button.
Active   == w.pc \notin {"idle", "load", "mark"}
Offering == w.pc = "send" /\ w.out.kb = "confirm"
Interpreting == \/ w.pc = "send" /\ w.out.next = "interpret"
                \/ w.pc = "interpret"
Pressing == \/ w.pc = "send" /\ w.out.next = "execute"
            \/ w.pc \in {"clearkb", "execute"}

HandlerOK ==
    /\ Active => /\ PlanSound(w.s, retired, nextPlan, runs, shown)
                 /\ ~Offering => PlanOffered(w.s, shown)
                 /\ w.s.user = w.upd.from /\ w.s.last = store.last
                 /\ HasPlan(w.s) /\ w.s.plan.id = store.plan.id =>
                      w.s.user = store.user
    /\ Interpreting => w.s.user \in Users
    /\ Pressing => /\ w.s.plan = store.plan /\ w.s.plan.id = w.upd.plan
                   /\ w.upd.late = FALSE
                   /\ w.pc # "clearkb" => w.upd.button = "confirm"
    /\ w.pc = "await" => w.run \in runs /\ w.run.plan = w.s.plan.id
    /\ w.pc = "send" /\ w.out.note = "done" =>
         \E e \in effects : e.plan = w.s.plan.id

RunOK(r) ==
    /\ r.n < nextRun /\ r.plan < nextPlan
    /\ r.op.intent \in {"availability", "cancel"}
    /\ r.key = buildIdempotencyKey(r.plan, r.op.intent)
    /\ r.late = FALSE
    /\ Previewed(r) /\ Confirmed(r)

History ==
    /\ \A p \in retired : p < nextPlan
    /\ \A k \in shown : k.plan < nextPlan
    /\ \A u \in sent : u.late => u.plan \in expired
    /\ \A r \in runs : RunOK(r)
    /\ \A r, q \in runs : r.plan = q.plan => r.op.intent = q.op.intent
    /\ \A e, f \in effects : e.key = f.key => e = f
    /\ \A r \in applied : \E e \in effects : e.key = r.key
    /\ DoneMeansEffect

IInv == Typed /\ StoreOK /\ HandlerOK /\ History

-----------------------------------------------------------------------------
(***************************************************************************)
(* Sessions.                                                               *)
(***************************************************************************)

LEMMA NoPlanFacts ==
    /\ NoPlan.id = 0 /\ NoPlan.intent = "find" /\ Len(NoPlan.cands) = 0
    /\ ~HasRequest(NoPlan)
  BY DEF NoPlan, HasRequest

LEMMA PlanIdType ==
    ASSUME NEW s \in Session
    PROVE  /\ HasPlan(s) => s.plan.id \in PlanIds
           /\ ~HasPlan(s) => s.plan = NoPlan
           /\ s.plan.id \in PlanIds \cup {0}
  BY DEF Session, HasPlan, PendingPlan, NoPlan, PlanIds

\* The facts about a session do not depend on its last update, its message
\* or its counters.
LEMMA SamePlan ==
    ASSUME NEW s, NEW t, NEW ret, NEW np, NEW rs, NEW ks,
           t.user = s.user, t.plan.id = s.plan.id,
           t.plan.intent = s.plan.intent, t.plan.target = s.plan.target,
           t.plan.cands = s.plan.cands, t.plan.key = s.plan.key
    PROVE  /\ PlanSound(s, ret, np, rs, ks) => PlanSound(t, ret, np, rs, ks)
           /\ PlanOffered(s, ks) => PlanOffered(t, ks)
           /\ OpOf(t.plan) = OpOf(s.plan)
           /\ HasPlan(t) <=> HasPlan(s)
  BY DEF PlanSound, PlanOffered, HasPlan, HasRequest, OpOf

LEMMA NoPlanSound ==
    ASSUME NEW s, s.plan = NoPlan,
           NEW ret \in SUBSET PlanIds, NEW np \in Nat, np > 0,
           NEW rs \in SUBSET Run, NEW ks \in SUBSET Keyboard
    PROVE  PlanSound(s, ret, np, rs, ks) /\ PlanOffered(s, ks)
  <1>1. 0 \notin PlanIds
    BY DEF PlanIds
  <1>2. \A k \in ks : k.plan # 0
    BY <1>1 DEF Keyboard
  <1>3. \A r \in rs : r.plan # 0
    BY <1>1 DEF Run
  <1>4. QED
    BY <1>1, <1>2, <1>3, NoPlanFacts DEF PlanSound, PlanOffered, HasPlan

LEMMA AdoptSenderSound ==
    ASSUME NEW s \in Session, NEW from \in Users \cup {NoUser},
           NEW ret \in SUBSET PlanIds, NEW np \in Nat, np > 0,
           NEW rs \in SUBSET Run, NEW ks \in SUBSET Keyboard,
           PlanSound(s, ret, np, rs, ks), PlanOffered(s, ks)
    PROVE  /\ PlanSound(AdoptSender(s, from), ret, np, rs, ks)
           /\ PlanOffered(AdoptSender(s, from), ks)
           /\ AdoptSender(s, from).user = from
           /\ AdoptSender(s, from).last = s.last
           /\ HasPlan(AdoptSender(s, from)) =>
                /\ AdoptSender(s, from).user = s.user
                /\ AdoptSender(s, from).plan = s.plan
  <1> DEFINE t == AdoptSender(s, from)
  <1>1. CASE s.user # NoUser /\ s.user # from
    <2>1. t.plan = NoPlan /\ t.user = from /\ t.last = s.last
      BY <1>1 DEF AdoptSender, EmptySession
    <2>2. QED
      BY <2>1, NoPlanSound, NoPlanFacts DEF HasPlan
  <1>2. CASE s.user = from
    <2>1. t.plan = s.plan /\ t.user = s.user /\ t.last = s.last
      BY <1>2 DEF AdoptSender, Session
    <2>2. QED
      BY <1>2, <2>1, SamePlan
  <1>3. CASE s.user = NoUser /\ s.user # from
    <2>1. t.plan = s.plan /\ t.user = from /\ t.last = s.last
      BY <1>3 DEF AdoptSender, Session
    <2>2. ~HasPlan(s)
      BY <1>3, SessionAssumption DEF PlanSound
    <2>3. t.plan = NoPlan
      BY <2>1, <2>2, PlanIdType
    <2>4. QED
      BY <2>1, <2>3, NoPlanSound, NoPlanFacts DEF HasPlan
  <1>4. QED
    BY <1>1, <1>2, <1>3

\* A plan with a new identifier, for a user.
LEMMA NewPlanSound ==
    ASSUME NEW s, NEW np \in Nat, NEW ret, NEW rs, NEW ks,
           s.plan.id = np, s.user \in Users,
           \A p \in ret : p < np,
           \A k \in ks : k.plan \in Nat /\ k.plan < np,
           \A r \in rs : r.plan \in Nat /\ r.plan < np,
           \A p \in ret : p \in Nat,
           s.plan.intent = "availability" => Len(s.plan.cands) = 0,
           HasRequest(s.plan) =>
             s.plan.key = buildIdempotencyKey(s.plan.id, s.plan.intent)
    PROVE  PlanSound(s, ret, np + 1, rs, ks)
  BY DEF PlanSound

LEMMA SelectCandidateSound ==
    ASSUME NEW s \in Session, HasPlan(s), NEW i \in 1..Len(s.plan.cands),
           NEW ret, NEW np, NEW rs, NEW ks,
           PlanSound(s, ret, np, rs, ks),
           \A r \in rs : r.op.intent \in {"availability", "cancel"}
    PROVE  /\ PlanSound(SelectCandidate(s, i), ret, np, rs, ks)
           /\ SelectCandidate(s, i).user = s.user
           /\ SelectCandidate(s, i).last = s.last
           /\ SelectCandidate(s, i).plan.id = s.plan.id
  <1> DEFINE t == SelectCandidate(s, i)
             new == IF s.plan.intent = "cancel" THEN "cancel" ELSE "create"
  <1>1. s.plan \in PendingPlan
    BY PlanIsPending
  <1>2. /\ t.user = s.user /\ t.last = s.last /\ t.plan.id = s.plan.id
        /\ t.plan.intent = new
        /\ t.plan.key = buildIdempotencyKey(s.plan.id, new)
    BY <1>1 DEF SelectCandidate, Session, PendingPlan
  <1>3. s.plan.intent # "availability"
    BY DEF PlanSound
  <1>4. \A r \in rs : r.plan = s.plan.id => s.plan.intent = "cancel"
    BY <1>3 DEF PlanSound
  <1> HIDE DEF t
  <1>5. PlanSound(t, ret, np, rs, ks)
    BY <1>2, <1>4 DEF PlanSound, HasPlan
  <1>6. QED
    BY <1>2, <1>5 DEF t

-----------------------------------------------------------------------------
(***************************************************************************)
(* Steps that leave the session, the screens and the backend alone.        *)
(***************************************************************************)

LEMMA Facts ==
    ASSUME IInv
    PROVE  /\ store \in Session /\ w \in Worker
           /\ retired \in SUBSET PlanIds
           /\ nextPlan \in Nat /\ nextPlan > 0
           /\ runs \in SUBSET Run /\ shown \in SUBSET Keyboard
           /\ effects \in SUBSET Run /\ applied \in SUBSET Run
           /\ PlanIds \subseteq Nat
  BY DEF IInv, Typed, TypeOK, runs, PlanIds

LEMMA QuietHistory ==
    ASSUME IInv,
           UNCHANGED <<storeVars, shown, told, nextPlan, backendVars>>,
           sent \subseteq sent', expired \subseteq expired',
           \A u \in sent' \ sent : u.late => u.plan \in expired'
    PROVE  StoreOK' /\ History'
  <1>1. /\ store' = store /\ retired' = retired /\ nextPlan' = nextPlan
        /\ shown' = shown /\ told' = told /\ runs' = runs
        /\ applied' = applied /\ effects' = effects /\ nextRun' = nextRun
    BY DEF storeVars, backendVars, runs
  <1>2. StoreOK'
    BY <1>1 DEF IInv, StoreOK
  <1>3. \A r \in runs : RunOK(r)'
    BY <1>1 DEF IInv, History, RunOK, Previewed, Confirmed
  <1>4. History'
    BY <1>1, <1>3 DEF IInv, History, DoneMeansEffect
  <1>5. QED
    BY <1>2, <1>4

LEMMA QuietHandler ==
    ASSUME IInv, w' = w \/ w'.pc \in {"idle", "load", "mark"},
           UNCHANGED <<storeVars, shown, nextPlan, backendVars>>
    PROVE  HandlerOK'
  <1>1. /\ store' = store /\ retired' = retired /\ nextPlan' = nextPlan
        /\ shown' = shown /\ runs' = runs /\ effects' = effects
    BY DEF storeVars, backendVars, runs
  <1>2. CASE w' = w
    BY <1>1, <1>2 DEF IInv, HandlerOK, Active, Offering, Interpreting, Pressing
  <1>3. CASE w'.pc \in {"idle", "load", "mark"}
    BY <1>3 DEF HandlerOK, Active, Interpreting, Pressing
  <1>4. QED
    BY <1>2, <1>3

\* The worker goes on to send a message with session s.
LEMMA SendHandler ==
    ASSUME IInv, NEW s \in Session, NEW out \in Reply, w' = Send(s, out),
           UNCHANGED <<storeVars, shown, backendVars>>,
           PlanSound(s, retired, nextPlan', runs, shown),
           out.kb # "confirm" => PlanOffered(s, shown),
           s.user = w.upd.from, s.last = store.last,
           HasPlan(s) /\ s.plan.id = store.plan.id => s.user = store.user,
           out.next = "interpret" => s.user \in Users,
           out.next = "execute" =>
             /\ s.plan = store.plan /\ s.plan.id = w.upd.plan
             /\ w.upd.late = FALSE /\ w.upd.button = "confirm",
           out.note = "done" => \E e \in effects : e.plan = s.plan.id
    PROVE  HandlerOK'
  <1>1. /\ store' = store /\ retired' = retired
        /\ shown' = shown /\ runs' = runs /\ effects' = effects
    BY DEF storeVars, backendVars, runs
  <1>2. /\ w'.pc = "send" /\ w'.s = s /\ w'.out = out /\ w'.upd = w.upd
    BY Facts, SendType
  <1>3. QED
    BY <1>1, <1>2 DEF HandlerOK, Active, Offering, Interpreting, Pressing

LEMMA UserInv ==
    ASSUME IInv, User
    PROVE  StoreOK' /\ HandlerOK' /\ History'
  <1>1. ASSUME NEW u, Issue(u), u.late => u.plan \in expired
        PROVE  StoreOK' /\ HandlerOK' /\ History'
    <2>1. /\ UNCHANGED <<storeVars, shown, told, nextPlan, backendVars>>
          /\ w' = w /\ sent' = sent \cup {u} /\ expired' = expired
      BY <1>1 DEF Issue, screenVars, planVars
    <2>2. QED
      BY <1>1, <2>1, QuietHistory, QuietHandler
  <1>2. NoUpdate.late = FALSE
    BY DEF NoUpdate
  <1>3. ASSUME NEW from, UserWrites(from)
        PROVE  StoreOK' /\ HandlerOK' /\ History'
    <2>1. [NoUpdate EXCEPT !.id = nextUpd, !.from = from].late = FALSE
      BY DEF NoUpdate
    <2>2. QED
      BY <1>1, <1>3, <2>1 DEF UserWrites
  <1>4. ASSUME NEW from, NEW k \in shown, NEW b, UserTaps(from, k, b)
        PROVE  StoreOK' /\ HandlerOK' /\ History'
    BY <1>1, <1>4 DEF UserTaps
  <1>5. ASSUME NEW from, UserTapsForeignButton(from)
        PROVE  StoreOK' /\ HandlerOK' /\ History'
    <2>1. [NoUpdate EXCEPT !.id = nextUpd, !.kind = "tap", !.from = from,
                           !.button = "malformed"].late = FALSE
      BY DEF NoUpdate
    <2>2. QED
      BY <1>1, <1>5, <2>1 DEF UserTapsForeignButton
  <1>6. QED
    BY <1>3, <1>4, <1>5 DEF User

LEMMA QuietEnvironmentInv ==
    ASSUME IInv,
           \/ \E u \in sent \ inbox : Redeliver(u)
           \/ \E p \in PlanIds : Expire(p)
    PROVE  StoreOK' /\ HandlerOK' /\ History'
  <1>1. /\ UNCHANGED <<storeVars, shown, told, nextPlan, backendVars>>
        /\ w' = w /\ sent' = sent /\ expired \subseteq expired'
    BY DEF Redeliver, Expire, userVars, screenVars, planVars
  <1>2. QED
    BY <1>1, QuietHistory, QuietHandler

LEMMA QuietProcessInv ==
    ASSUME IInv,
           \/ \E u \in inbox : TakeLock(u)
           \/ WorkerTimeout \/ Crash
    PROVE  StoreOK' /\ HandlerOK' /\ History'
  <1>1. /\ UNCHANGED <<storeVars, shown, told, nextPlan, backendVars>>
        /\ sent' = sent /\ expired' = expired
    BY DEF TakeLock, WorkerTimeout, Crash, userVars, screenVars, planVars
  <1>2. w' = w \/ w'.pc \in {"idle", "load", "mark"}
    <2>1. \A u \in inbox : [Idle EXCEPT !.pc = "load", !.upd = u].pc = "load"
      BY IdleType DEF Worker
    <2>2. QED
      BY <2>1, IdleType DEF TakeLock, WorkerTimeout, Crash
  <1>3. QED
    BY <1>1, <1>2, QuietHistory, QuietHandler

\* The session a handler loads.
LEMMA LoadedSession ==
    ASSUME IInv, w.pc = "load"
    PROVE  LET s == AdoptSender(store, w.upd.from)
           IN  /\ s \in Session
               /\ PlanSound(s, retired, nextPlan, runs, shown)
               /\ PlanOffered(s, shown)
               /\ s.user = w.upd.from /\ s.last = store.last
               /\ HasPlan(s) => s.user = store.user /\ s.plan = store.plan
  <1>1. w.upd.from \in Users \cup {NoUser}
    BY InHandler DEF IInv, Handling, Update
  <1>2. PlanSound(store, retired, nextPlan, runs, shown)
          /\ PlanOffered(store, shown)
    BY DEF IInv, StoreOK
  <1>3. QED
    BY <1>1, <1>2, Facts, AdoptSenderType, AdoptSenderSound

\* The same with the provider known.
LEMMA HydratedSession ==
    ASSUME NEW s \in Session, NEW ret, NEW np, NEW rs, NEW ks,
           PlanSound(s, ret, np, rs, ks), PlanOffered(s, ks)
    PROVE  /\ Hydrate(s) \in Session
           /\ PlanSound(Hydrate(s), ret, np, rs, ks)
           /\ PlanOffered(Hydrate(s), ks)
           /\ Hydrate(s).user = s.user /\ Hydrate(s).last = s.last
           /\ Hydrate(s).plan = s.plan
           /\ HasPlan(Hydrate(s)) <=> HasPlan(s)
  <1>1. /\ Hydrate(s).user = s.user /\ Hydrate(s).plan = s.plan
        /\ Hydrate(s).last = s.last
    BY DEF Hydrate, Session
  <1>2. QED
    BY <1>1, HydrateType, SamePlan

LEMMA HandleMessageInv ==
    ASSUME IInv, handleMessage
    PROVE  StoreOK' /\ HandlerOK' /\ History'
  <1> DEFINE s == AdoptSender(store, w.upd.from)
             warning == [Text("interpret") EXCEPT !.note = "cancelled",
                                                  !.clear = TRUE]
             v == [w EXCEPT !.pc = "interpret", !.s = Hydrate(s)]
  <1>1. /\ w.pc = "load"
        /\ UNCHANGED <<storeVars, inbox, userVars, screenVars, planVars,
                       backendVars>>
        /\ \/ w' = Fail
           \/ w' = Send(s, Text("save"))
           \/ w' = Send(Hydrate(s), warning) /\ s.user # NoUser
           \/ w' = v /\ s.user # NoUser
    BY DEF handleMessage
  <1>2. /\ s \in Session /\ PlanSound(s, retired, nextPlan, runs, shown)
        /\ PlanOffered(s, shown) /\ s.user = w.upd.from
        /\ s.last = store.last
        /\ HasPlan(s) => s.user = store.user /\ s.plan = store.plan
    BY <1>1, LoadedSession
  <1>3. /\ warning \in Reply /\ warning.kb = "none"
        /\ warning.next = "interpret" /\ warning.note = "cancelled"
    BY DEF Text, Reply, Notices
  <1>4. /\ v.pc = "interpret" /\ v.s = Hydrate(s) /\ v.upd = w.upd
    BY Facts DEF Worker
  <1> HIDE DEF s, warning, v
  <1>5. /\ Hydrate(s) \in Session
        /\ PlanSound(Hydrate(s), retired, nextPlan, runs, shown)
        /\ PlanOffered(Hydrate(s), shown)
        /\ Hydrate(s).user = s.user /\ Hydrate(s).plan = s.plan
        /\ Hydrate(s).last = s.last
        /\ HasPlan(Hydrate(s)) <=> HasPlan(s)
    BY <1>2, HydratedSession
  <1>6. s.user # NoUser => s.user \in Users
    BY <1>2 DEF Session
  <1>7. /\ sent' = sent /\ expired' = expired /\ nextPlan' = nextPlan
        /\ UNCHANGED <<storeVars, shown, told, nextPlan, backendVars>>
    BY <1>1 DEF userVars, screenVars, planVars
  <1>8. StoreOK' /\ History'
    BY <1>7, QuietHistory
  <1>9. HandlerOK'
    <2>1. CASE w' = Fail
      BY <1>7, <2>1, Facts, FailType, QuietHandler
    <2>2. CASE w' = Send(s, Text("save"))
      BY <1>2, <1>7, <2>2, TextType, SendHandler
    <2>3. CASE w' = Send(Hydrate(s), warning) /\ s.user # NoUser
      BY <1>2, <1>3, <1>5, <1>6, <1>7, <2>3, SendHandler
    <2>4. CASE w' = v /\ s.user # NoUser
      <3>1. /\ store' = store /\ retired' = retired
            /\ shown' = shown /\ runs' = runs /\ effects' = effects
        BY <1>7 DEF storeVars, backendVars, runs
      <3>2. QED
        BY <1>2, <1>4, <1>5, <1>6, <1>7, <2>4, <3>1
        DEF HandlerOK, Active, Offering, Interpreting, Pressing
    <2>5. QED
      BY <1>1, <2>1, <2>2, <2>3, <2>4
  <1>10. QED
    BY <1>8, <1>9

\* While a message is interpreted.
LEMMA InterpretedSession ==
    ASSUME IInv, w.pc = "interpret"
    PROVE  /\ w.s \in Session /\ w.s.user \in Users /\ w.s.user = w.upd.from
           /\ w.s.last = store.last
           /\ PlanSound(w.s, retired, nextPlan, runs, shown)
           /\ PlanOffered(w.s, shown)
           /\ HasPlan(w.s) /\ w.s.plan.id = store.plan.id =>
                w.s.user = store.user
  BY Facts DEF IInv, HandlerOK, Active, Offering, Interpreting, Worker

LEMMA ClarificationFields ==
    ASSUME NEW s \in Session
    PROVE  /\ CountClarification(s).user = s.user
           /\ CountClarification(s).plan = s.plan
           /\ CountClarification(s).last = s.last
           /\ ResetClarification(s).user = s.user
           /\ ResetClarification(s).plan = s.plan
           /\ ResetClarification(s).last = s.last
  BY DEF CountClarification, ResetClarification, Session

LEMMA InterpretMessageInv ==
    ASSUME IInv, interpretMessage
    PROVE  StoreOK' /\ HandlerOK' /\ History'
  <1>1. /\ w.pc = "interpret"
        /\ sent' = sent /\ expired' = expired /\ nextPlan' = nextPlan
        /\ UNCHANGED <<storeVars, shown, told, nextPlan, backendVars>>
    BY DEF interpretMessage, userVars, screenVars, planVars
  <1>2. PICK s : /\ s \in {w.s, CountClarification(w.s),
                           ClearPendingPlan(ResetClarification(w.s))}
                 /\ w' = Send(s, Text("save"))
    BY DEF interpretMessage, handleListBookings
  <1>3. /\ s \in Session /\ s.user = w.s.user /\ s.last = w.s.last
        /\ s.plan = w.s.plan \/ s.plan = NoPlan
    <2>1. CASE s \in {w.s, CountClarification(w.s)}
      BY <1>1, <2>1, InterpretedSession, ClarificationType,
         ClarificationFields
    <2>2. CASE s = ClearPendingPlan(ResetClarification(w.s))
      <3>1. /\ ResetClarification(w.s) \in Session
            /\ ResetClarification(w.s).user = w.s.user
            /\ ResetClarification(w.s).last = w.s.last
        BY <1>1, InterpretedSession, ClarificationType, ClarificationFields
      <3>2. QED
        BY <2>2, <3>1, ClearType DEF ClearPendingPlan, Session
    <2>3. QED
      BY <1>2, <2>1, <2>2
  <1>4. /\ PlanSound(s, retired, nextPlan, runs, shown)
        /\ PlanOffered(s, shown)
        /\ HasPlan(s) => HasPlan(w.s) /\ s.plan = w.s.plan
    <2>1. CASE s.plan = w.s.plan
      BY <1>1, <1>3, <2>1, InterpretedSession, SamePlan DEF HasPlan
    <2>2. CASE s.plan = NoPlan
      BY <2>2, Facts, NoPlanSound, NoPlanFacts DEF HasPlan
    <2>3. QED
      BY <1>3, <2>1, <2>2
  <1>5. HandlerOK'
    BY <1>1, <1>2, <1>3, <1>4, InterpretedSession, TextType, SendHandler
  <1>6. QED
    BY <1>1, <1>5, QuietHistory

\* A plan that was just made.
LEMMA MadePlan ==
    ASSUME IInv, nextPlan <= MaxPlans, w.pc = "interpret", NEW d \in Drafts,
           NEW s \in Session, s.user = w.s.user,
           s.plan.id = generatePlanID, s.plan.intent = d.intent,
           s.plan.cands = toPendingCandidates(d.cands),
           HasRequest(s.plan) =>
             s.plan.key = buildIdempotencyKey(s.plan.id, s.plan.intent)
    PROVE  /\ PlanSound(s, retired, nextPlan + 1, runs, shown)
           /\ s.user = w.upd.from
           /\ s.plan.id # store.plan.id
  <1>1. /\ \A p \in retired : p \in Nat /\ p < nextPlan
        /\ \A k \in shown : k.plan \in Nat /\ k.plan < nextPlan
        /\ \A r \in runs : r.plan \in Nat /\ r.plan < nextPlan
        /\ store.plan.id < nextPlan
    BY Facts DEF IInv, History, StoreOK, PlanSound, RunOK, Keyboard, Run
  <1>2. d.intent = "availability" => Len(toPendingCandidates(d.cands)) = 0
    <2>1. ASSUME d.intent = "availability"
          PROVE  Len(toPendingCandidates(d.cands)) = 0
      <3>1. d.cands = <<>>
        BY <2>1, AgentAssumption
      <3>2. /\ Len(toPendingCandidates(d.cands)) <= Len(d.cands)
            /\ toPendingCandidates(d.cands) \in Seq(Targets)
        BY CandidatesType
      <3>3. Len(d.cands) = 0
        BY <3>1
      <3>4. Len(toPendingCandidates(d.cands)) \in Nat
        BY <3>2
      <3> HIDE DEF toPendingCandidates
      <3>5. QED
        BY <3>2, <3>3, <3>4
    <2>2. QED
      BY <2>1
  <1>3. s.user \in Users /\ s.user = w.upd.from
    BY InterpretedSession
  <1>4. s.plan.id = nextPlan
    BY DEF generatePlanID
  <1>5. PlanSound(s, retired, nextPlan + 1, runs, shown)
    BY <1>1, <1>2, <1>3, <1>4, Facts, NewPlanSound
  <1>6. QED
    BY <1>1, <1>3, <1>4, <1>5, Facts

LEMMA PreviewInv ==
    ASSUME IInv, w.pc = "interpret", nextPlan <= MaxPlans,
           nextPlan' = nextPlan + 1,
           UNCHANGED <<storeVars, inbox, userVars, screenVars, expired,
                       backendVars, faults>>,
           NEW d \in Drafts, NEW s \in Session,
           s.user = w.s.user, s.last = w.s.last,
           s.plan.id = generatePlanID, s.plan.intent = d.intent,
           s.plan.cands = toPendingCandidates(d.cands),
           HasRequest(s.plan) =>
             s.plan.key = buildIdempotencyKey(s.plan.id, s.plan.intent),
           NEW out \in Reply, w' = Send(s, out),
           out.next = "save", out.note = "none",
           out.kb # "confirm" => ~HasRequest(s.plan)
    PROVE  StoreOK' /\ HandlerOK' /\ History'
  <1>1. /\ store' = store /\ retired' = retired /\ sent' = sent
        /\ shown' = shown /\ told' = told /\ runs' = runs
        /\ applied' = applied /\ effects' = effects /\ nextRun' = nextRun
        /\ expired' = expired
        /\ UNCHANGED <<storeVars, shown, backendVars>>
    BY DEF storeVars, userVars, screenVars, backendVars, runs
  <1>2. /\ PlanSound(s, retired, nextPlan', runs, shown)
        /\ s.user = w.upd.from /\ s.plan.id # store.plan.id
    BY MadePlan
  <1>3. s.last = store.last
    BY InterpretedSession
  <1>4. out.kb # "confirm" => PlanOffered(s, shown)
    BY DEF PlanOffered
  <1>5. HandlerOK'
    BY <1>1, <1>2, <1>3, <1>4, SendHandler
  <1>6. StoreOK'
    <2>1. store.plan.id \in Nat
      BY Facts, PlanIdType
    <2>2. QED
      BY <1>1, <2>1, Facts DEF IInv, StoreOK, PlanSound
  <1>7. \A r \in runs : RunOK(r)'
    <2> SUFFICES ASSUME NEW r \in runs PROVE RunOK(r)'
      OBVIOUS
    <2>1. RunOK(r) /\ r.plan \in Nat
      BY Facts DEF IInv, History, Run
    <2>2. r.plan < nextPlan'
      BY <2>1, Facts DEF RunOK
    <2>3. QED
      BY <1>1, <2>1, <2>2 DEF RunOK, Previewed, Confirmed
  <1>8. /\ \A p \in retired : p < nextPlan'
        /\ \A k \in shown : k.plan < nextPlan'
    <2>1. /\ \A p \in retired : p \in Nat
          /\ \A k \in shown : k.plan \in Nat
      BY Facts DEF Keyboard
    <2>2. QED
      BY <2>1, Facts DEF IInv, History
  <1>9. History'
    BY <1>1, <1>7, <1>8 DEF IInv, History, DoneMeansEffect
  <1>10. QED
    BY <1>5, <1>6, <1>9

\* What a preview makes of a draft.
LEMMA PreviewedSession ==
    ASSUME NEW s \in Session, NEW id \in PlanIds, NEW d \in Drafts,
           NEW t \in {SetPendingPlan(ResetClarification(s), id, d),
                      SetWritePlan(ResetClarification(s), id, d)}
    PROVE  /\ t \in Session
           /\ t.user = s.user /\ t.last = s.last
           /\ t.plan.id = id /\ t.plan.intent = d.intent
           /\ t.plan.target = d.target
           /\ t.plan.cands = toPendingCandidates(d.cands)
           /\ t = SetWritePlan(ResetClarification(s), id, d) =>
                t.plan.key = buildIdempotencyKey(id, d.intent)
  <1> DEFINE c == ResetClarification(s)
  <1>1. c \in Session /\ c.user = s.user /\ c.last = s.last
    BY ClarificationType, ClarificationFields
  <1> HIDE DEF c
  <1>2. t \in {SetPendingPlan(c, id, d), SetWritePlan(c, id, d)}
    BY DEF c
  <1>3. t \in Session
    BY <1>1, <1>2, SetPendingPlanType, SetWritePlanType
  <1>4. /\ SetPendingPlan(c, id, d).user = c.user
        /\ SetPendingPlan(c, id, d).last = c.last
        /\ SetPendingPlan(c, id, d).plan =
             [id |-> id, intent |-> d.intent, target |-> d.target,
              cands |-> toPendingCandidates(d.cands), key |-> NoKey,
              msg |-> 0]
    BY <1>1 DEF SetPendingPlan, Session
  <1>5. /\ SetWritePlan(c, id, d).user = c.user
        /\ SetWritePlan(c, id, d).last = c.last
        /\ SetWritePlan(c, id, d).plan =
             [id |-> id, intent |-> d.intent, target |-> d.target,
              cands |-> toPendingCandidates(d.cands),
              key |-> buildIdempotencyKey(id, d.intent), msg |-> 0]
    BY <1>1 DEF SetWritePlan, SetPendingPlan, Session
  <1>6. /\ t.user = s.user /\ t.last = s.last
        /\ t.plan.id = id /\ t.plan.intent = d.intent
        /\ t.plan.target = d.target
        /\ t.plan.cands = toPendingCandidates(d.cands)
    BY <1>1, <1>2, <1>4, <1>5
  <1>7. t = SetWritePlan(c, id, d) =>
          t.plan.key = buildIdempotencyKey(id, d.intent)
    BY <1>5
  <1>8. QED
    BY <1>3, <1>6, <1>7 DEF c

LEMMA HandleFindNextSlotInv ==
    ASSUME IInv, handleFindNextSlot
    PROVE  StoreOK' /\ HandlerOK' /\ History'
  <1>1. /\ w.pc = "interpret" /\ nextPlan <= MaxPlans
        /\ nextPlan' = nextPlan + 1
        /\ UNCHANGED <<storeVars, inbox, userVars, screenVars, expired,
                       backendVars, faults>>
    BY DEF handleFindNextSlot
  <1>2. PICK d \in Drafts :
          /\ d.intent = "find"
          /\ w' = Send(SetPendingPlan(ResetClarification(w.s),
                                      generatePlanID, d),
                       Preview("slots", Len(d.cands)))
    BY DEF handleFindNextSlot
  <1> DEFINE s == SetPendingPlan(ResetClarification(w.s), generatePlanID, d)
             out == Preview("slots", Len(d.cands))
  <1>3. w.s \in Session /\ generatePlanID \in PlanIds
    BY <1>1, InterpretedSession, NewPlan DEF IInv
  <1>4. /\ s \in Session /\ s.user = w.s.user /\ s.last = w.s.last
        /\ s.plan.id = generatePlanID /\ s.plan.intent = d.intent
        /\ s.plan.cands = toPendingCandidates(d.cands)
    BY <1>3, PreviewedSession
  <1>5. Len(d.cands) \in Nat
    BY AgentAssumption DEF Draft
  <1>6. /\ out \in Reply /\ out.kb # "confirm"
        /\ out.next = "save" /\ out.note = "none"
    BY <1>5, PreviewType DEF Kinds
  <1>7. w' = Send(s, out)
    BY <1>2
  <1> HIDE DEF s, out
  <1>8. ~HasRequest(s.plan)
    BY <1>2, <1>4 DEF HasRequest
  <1>9. QED
    BY <1>1, <1>4, <1>6, <1>7, <1>8, PreviewInv

LEMMA HandleWritePreviewInv ==
    ASSUME IInv, handleWritePreview
    PROVE  StoreOK' /\ HandlerOK' /\ History'
  <1>1. /\ w.pc = "interpret" /\ nextPlan <= MaxPlans
        /\ nextPlan' = nextPlan + 1
        /\ UNCHANGED <<storeVars, inbox, userVars, screenVars, expired,
                       backendVars, faults>>
    BY DEF handleWritePreview
  <1> DEFINE s(d) == SetWritePlan(ResetClarification(w.s), generatePlanID, d)
             o1 == Text("save")
             o2(d) == Preview("slots", Len(d.cands))
             o3(d) == Preview("bookings", Len(d.cands))
             o4 == Preview("confirm", 0)
  <1>2. PICK d \in Drafts :
          \/ d.intent = "create" /\ w' = Send(s(d), o1)
          \/ d.intent = "create" /\ w' = Send(s(d), o2(d))
          \/ d.intent \notin {"create", "find"} /\ d.cands # <<>>
               /\ w' = Send(s(d), o3(d))
          \/ w' = Send(s(d), o4)
    BY DEF handleWritePreview
  <1>3. w.s \in Session /\ generatePlanID \in PlanIds
    BY <1>1, InterpretedSession, NewPlan DEF IInv
  <1>4. /\ s(d) \in Session /\ s(d).user = w.s.user /\ s(d).last = w.s.last
        /\ s(d).plan.id = generatePlanID /\ s(d).plan.intent = d.intent
        /\ s(d).plan.target = d.target
        /\ s(d).plan.cands = toPendingCandidates(d.cands)
        /\ s(d).plan.key = buildIdempotencyKey(generatePlanID, d.intent)
    BY <1>3, PreviewedSession
  <1>5. Len(d.cands) \in Nat
    BY AgentAssumption DEF Draft
  <1>6. \A o \in {o1, o2(d), o3(d), o4} :
          o \in Reply /\ o.next = "save" /\ o.note = "none"
    <2>1. o1 \in Reply /\ o1.next = "save" /\ o1.note = "none"
      BY TextType
    <2>2. \A kb \in Kinds : /\ Preview(kb, Len(d.cands)) \in Reply
                            /\ Preview(kb, Len(d.cands)).next = "save"
                            /\ Preview(kb, Len(d.cands)).note = "none"
      BY <1>5, PreviewType
    <2>3. o4 \in Reply /\ o4.next = "save" /\ o4.note = "none"
      BY PreviewType DEF Kinds
    <2>4. /\ o2(d) \in Reply /\ o2(d).next = "save" /\ o2(d).note = "none"
          /\ o3(d) \in Reply /\ o3(d).next = "save" /\ o3(d).note = "none"
      BY <2>2 DEF Kinds
    <2> HIDE DEF o1, o2, o3, o4
    <2>5. QED
      BY <2>1, <2>3, <2>4
  <1>7. o4.kb = "confirm"
    BY PreviewType DEF Kinds
  <1> HIDE DEF s, o1, o2, o3, o4
  <1>8. d.intent = "create" => ~HasRequest(s(d).plan)
    BY <1>4 DEF HasRequest
  <1>9. d.intent \notin {"create", "find"} /\ d.cands # <<>> =>
          ~HasRequest(s(d).plan)
    <2>1. d.cands # <<>> => d.intent # "availability"
                             /\ (d.intent = "cancel" => d.target = NoTarget)
      BY AgentAssumption
    <2>2. QED
      BY <1>4, <2>1 DEF HasRequest
  <1>10. PICK o \in {o1, o2(d), o3(d), o4} :
           w' = Send(s(d), o) /\ (o.kb # "confirm" => ~HasRequest(s(d).plan))
    BY <1>2, <1>7, <1>8, <1>9
  <1>11. QED
    BY <1>1, <1>4, <1>6, <1>10, PreviewInv

-----------------------------------------------------------------------------
(***************************************************************************)
(* Taps.                                                                   *)
(***************************************************************************)

\* A handler without a plan that is about to save.
LEMMA SavingHandler ==
    ASSUME IInv, UNCHANGED <<storeVars, shown, nextPlan, backendVars>>,
           w'.pc = "save", w'.s.plan = NoPlan, w'.upd = w.upd,
           w'.s.user = w.upd.from, w'.s.last = store.last
    PROVE  HandlerOK'
  <1>1. /\ store' = store /\ retired' = retired /\ nextPlan' = nextPlan
        /\ shown' = shown /\ runs' = runs
    BY DEF storeVars, backendVars, runs
  <1>2. PlanSound(w'.s, retired, nextPlan, runs, shown)
          /\ PlanOffered(w'.s, shown)
    BY Facts, NoPlanSound
  <1>3. ~HasPlan(w'.s)
    BY NoPlanFacts DEF HasPlan
  <1>4. QED
    BY <1>1, <1>2, <1>3
    DEF HandlerOK, Active, Offering, Interpreting, Pressing

LEMMA HandleCallbackInv ==
    ASSUME IInv, handleCallback
    PROVE  StoreOK' /\ HandlerOK' /\ History'
  <1> DEFINE s == AdoptSender(store, w.upd.from)
             h == Hydrate(s)
             x == [Send(ClearPendingPlan(h), Text("mark"))
                     EXCEPT !.pc = "save", !.after = "send"]
             v == [w EXCEPT !.pc = "clearkb", !.s = h]
  <1>1. /\ s \in Session /\ h \in Session /\ w.pc = "load"
        /\ UNCHANGED <<storeVars, inbox, userVars, screenVars, planVars,
                       backendVars>>
        /\ \/ w' = Fail
           \/ w' = Send(s, Text("mark"))
           \/ w' = Send(s, Text("save"))
           \/ w' = Send(h, Text("mark"))
           \/ w' = x
           \/ /\ NamesPending(h, w.upd)
              /\ ~IsPlanExpired(h.plan)
              /\ w' = v
    BY CallbackOutcomes DEF IInv
  <1>2. /\ PlanSound(s, retired, nextPlan, runs, shown)
        /\ PlanOffered(s, shown) /\ s.user = w.upd.from
        /\ s.last = store.last
        /\ HasPlan(s) => s.user = store.user /\ s.plan = store.plan
    BY <1>1, LoadedSession
  <1>3. /\ v.pc = "clearkb" /\ v.s = h /\ v.upd = w.upd
    BY Facts DEF Worker
  <1>4. /\ x.pc = "save" /\ x.s = ClearPendingPlan(h) /\ x.upd = w.upd
    BY Facts DEF Worker, Send
  <1> HIDE DEF s, x, v
  <1>5. /\ PlanSound(h, retired, nextPlan, runs, shown)
        /\ PlanOffered(h, shown)
        /\ h.user = s.user /\ h.last = s.last /\ h.plan = s.plan
        /\ HasPlan(h) <=> HasPlan(s)
    BY <1>1, <1>2, HydratedSession
  <1> HIDE DEF h
  <1>6. /\ ClearPendingPlan(h).plan = NoPlan
        /\ ClearPendingPlan(h).user = h.user
        /\ ClearPendingPlan(h).last = h.last
    BY <1>1 DEF ClearPendingPlan, Session
  <1>7. /\ sent' = sent /\ expired' = expired /\ nextPlan' = nextPlan
        /\ UNCHANGED <<storeVars, shown, told, nextPlan, backendVars>>
    BY <1>1 DEF userVars, screenVars, planVars
  <1>8. StoreOK' /\ History'
    BY <1>7, QuietHistory
  <1>9. HandlerOK'
    <2>1. CASE w' = Fail
      BY <1>7, <2>1, Facts, FailType, QuietHandler
    <2>2. CASE w' = Send(s, Text("mark")) \/ w' = Send(s, Text("save"))
      BY <1>1, <1>2, <1>7, <2>2, TextType, SendHandler
    <2>3. CASE w' = Send(h, Text("mark"))
      BY <1>1, <1>2, <1>5, <1>7, <2>3, TextType, SendHandler
    <2>4. CASE w' = x
      BY <1>2, <1>4, <1>5, <1>6, <1>7, <2>4, SavingHandler
    <2>5. CASE NamesPending(h, w.upd) /\ ~IsPlanExpired(h.plan) /\ w' = v
      <3>1. /\ store' = store /\ retired' = retired
            /\ shown' = shown /\ runs' = runs /\ effects' = effects
        BY <1>7 DEF storeVars, backendVars, runs
      <3>2. /\ HasPlan(h) /\ h.plan = store.plan /\ h.plan.id = w.upd.plan
        BY <1>2, <1>5, <2>5 DEF NamesPending
      <3>3. w.upd.late = FALSE
        <4>1. w.upd \in sent /\ w.upd.late \in BOOLEAN
          BY <1>1, InHandler DEF IInv, Handling, Update
        <4>2. w.upd.late => w.upd.plan \in expired
          BY <4>1 DEF IInv, History
        <4>3. w.upd.plan \notin expired
          BY <2>5, <3>2 DEF IsPlanExpired
        <4>4. QED
          BY <4>1, <4>2, <4>3
      <3>4. QED
        BY <1>2, <1>3, <1>5, <1>7, <2>5, <3>1, <3>2, <3>3
        DEF HandlerOK, Active, Offering, Interpreting, Pressing
    <2>6. QED
      BY <1>1, <2>1, <2>2, <2>3, <2>4, <2>5
  <1>10. QED
    BY <1>8, <1>9

\* What a handler knows of its session, where it has one and is not sending.
LEMMA HandledSession ==
    ASSUME IInv, w.pc \in {"clearkb", "execute", "await", "save"}
    PROVE  /\ w.s \in Session /\ w.s.user = w.upd.from
           /\ w.s.last = store.last
           /\ PlanSound(w.s, retired, nextPlan, runs, shown)
           /\ PlanOffered(w.s, shown)
           /\ HasPlan(w.s) /\ w.s.plan.id = store.plan.id =>
                w.s.user = store.user
           /\ w.pc # "save" => HasPlan(w.s)
           /\ w.pc \in {"clearkb", "execute"} =>
                /\ w.s.plan = store.plan /\ w.s.plan.id = w.upd.plan
                /\ w.upd.late = FALSE
           /\ w.pc = "execute" => w.upd.button = "confirm"
  <1>1. Active /\ ~Offering /\ w.s \in Session
    BY Facts DEF Active, Offering, Worker
  <1>2. w.pc # "save" => HasPlan(w.s)
    BY DEF IInv, Typed, WorkerOK
  <1>3. w.pc \in {"clearkb", "execute"} => Pressing
    BY DEF Pressing
  <1>4. QED
    BY <1>1, <1>2, <1>3 DEF IInv, HandlerOK

LEMMA ClearPreviewKeyboardInv ==
    ASSUME IInv, clearPreviewKeyboard
    PROVE  StoreOK' /\ HandlerOK' /\ History'
  <1>1. /\ w.pc = "clearkb" /\ w.pc \in Handling
        /\ sent' = sent /\ expired' = expired /\ nextPlan' = nextPlan
        /\ UNCHANGED <<storeVars, shown, told, nextPlan, backendVars>>
        /\ w' = Fail \/ w' = Pressed(w.upd.button)
    BY DEF clearPreviewKeyboard, userVars, planVars, Handling
  <1>2. StoreOK' /\ History'
    BY <1>1, QuietHistory
  <1>3. /\ w.upd.button \in {"cancel", "pick", "confirm"}
        /\ w.upd.button = "pick" => w.upd.index \in 1..Len(w.s.plan.cands)
    <2>1. w.upd \in Update /\ w.s \in Session /\ HasPlan(w.s)
      BY <1>1, InHandler, HandledSession DEF IInv
    <2>2. Len(w.s.plan.cands) \in Nat
      BY <2>1, PlanIsPending DEF PendingPlan
    <2>3. QED
      BY <1>1, <2>1, <2>2 DEF IInv, Typed, WorkerOK, Update
  <1>4. HandlerOK'
    <2>1. CASE w' = Fail
      BY <1>1, <2>1, Facts, FailType, QuietHandler
    <2>2. CASE w' = Pressed(w.upd.button) /\ w.upd.button = "cancel"
      <3> DEFINE o == [Text("save") EXCEPT !.note = "unchanged",
                                           !.clear = TRUE]
      <3>1. /\ o \in Reply /\ o.kb = "none" /\ o.next = "save"
            /\ o.note = "unchanged"
        BY DEF Text, Reply, Notices
      <3>2. w' = Send(w.s, o)
        BY <2>2 DEF Pressed
      <3> HIDE DEF o
      <3>3. QED
        BY <1>1, <3>1, <3>2, HandledSession, SendHandler
    <2>3. CASE w' = Pressed(w.upd.button) /\ w.upd.button = "pick"
      <3> DEFINE s == SelectCandidate(w.s, w.upd.index)
                 o == Preview("confirm", 0)
      <3>1. \A r \in runs : r.op.intent \in {"availability", "cancel"}
        BY DEF IInv, History, RunOK
      <3>2. /\ PlanSound(s, retired, nextPlan, runs, shown)
            /\ s.user = w.s.user /\ s.last = w.s.last
            /\ s.plan.id = w.s.plan.id
        BY <1>1, <1>3, <2>3, <3>1, HandledSession, SelectCandidateSound
      <3>3. s \in Session
        BY <1>1, <1>3, <2>3, HandledSession, SelectCandidateType
      <3>4. o \in Reply /\ o.kb = "confirm" /\ o.next = "save"
              /\ o.note = "none"
        BY PreviewType DEF Kinds
      <3>5. w' = Send(s, o)
        BY <2>3 DEF Pressed
      <3> HIDE DEF s, o
      <3>6. QED
        BY <1>1, <3>2, <3>3, <3>4, <3>5, HandledSession, SendHandler
    <2>4. CASE w' = Pressed(w.upd.button) /\ w.upd.button = "confirm"
      <3>1. w' = Send(w.s, Text("execute"))
        BY <2>4 DEF Pressed
      <3>2. QED
        BY <1>1, <2>4, <3>1, TextType, HandledSession, SendHandler
    <2>5. QED
      BY <1>1, <1>3, <2>1, <2>2, <2>3, <2>4
  <1>5. QED
    BY <1>2, <1>4

-----------------------------------------------------------------------------
(***************************************************************************)
(* Messages.                                                               *)
(***************************************************************************)

\* The keyboard that the message of the worker shows.
TheKeyboard == [msg |-> nextMsg, plan |-> w.s.plan.id, kind |-> w.out.kb,
                op |-> OpOf(w.s.plan), picks |-> w.out.picks,
                user |-> w.s.user]

LEMMA TheKeyboardFields ==
    /\ TheKeyboard.plan = w.s.plan.id /\ TheKeyboard.kind = w.out.kb
    /\ TheKeyboard.op = OpOf(w.s.plan) /\ TheKeyboard.user = w.s.user
  BY DEF TheKeyboard

\* What is on the screens after a message, delivered or not.
LEMMA DeliveredFacts ==
    ASSUME IInv, SendText
    PROVE  /\ shown' \in SUBSET Keyboard
           /\ shown \subseteq shown'
           /\ shown' \subseteq shown \cup {TheKeyboard}
           /\ w.out.kb = "none" => shown' = shown
           /\ Delivered(w.s, w.out) /\ w.out.kb # "none" =>
                TheKeyboard \in shown'
           /\ \A t \in told' \ told :
                t.what = w.out.note /\ t.plan = w.s.plan.id
  <1>1. shown' \in SUBSET Keyboard
    BY TypedSendText DEF IInv, Typed, TypeOK
  <1>2. CASE UNCHANGED screenVars
    BY <1>1, <1>2 DEF screenVars, Delivered, TheKeyboard
  <1>3. CASE Delivered(w.s, w.out)
    <2>1. \A t \in told' \ told :
            t.what = w.out.note /\ t.plan = w.s.plan.id
      BY <1>3 DEF Delivered
    <2>2. /\ w.out.kb = "none" => shown' = shown
          /\ w.out.kb # "none" => shown' = shown \cup {TheKeyboard}
      BY <1>3 DEF Delivered, TheKeyboard
    <2>3. QED
      BY <1>1, <2>1, <2>2
  <1>4. QED
    BY <1>2, <1>3 DEF SendText

LEMMA AfterSendFields ==
    ASSUME NEW s \in Session, NEW out \in Reply,
           out.kb # "none" => HasPlan(s)
    PROVE  LET t == AfterSend(s, out)
           IN  /\ t.user = s.user /\ t.last = s.last
               /\ out.clear => t.plan = NoPlan
               /\ ~out.clear =>
                    /\ t.plan.id = s.plan.id
                    /\ t.plan.intent = s.plan.intent
                    /\ t.plan.target = s.plan.target
                    /\ t.plan.cands = s.plan.cands
                    /\ t.plan.key = s.plan.key
               /\ ~out.clear /\ out.kb = "none" => t = s
  <1>1. CASE out.clear
    BY <1>1 DEF AfterSend, ClearPendingPlan, Session
  <1>2. CASE ~out.clear /\ KeepsMsg(out.kb)
    <2>1. s.plan \in PendingPlan
      BY <1>2, PlanIsPending DEF KeepsMsg
    <2>2. AfterSend(s, out) = [s EXCEPT !.plan.msg = nextMsg]
            /\ out.kb # "none"
      BY <1>2 DEF AfterSend, KeepsMsg
    <2>3. QED
      BY <1>2, <2>1, <2>2 DEF Session, PendingPlan
  <1>3. CASE ~out.clear /\ ~KeepsMsg(out.kb)
    BY <1>3 DEF AfterSend
  <1>4. QED
    BY <1>1, <1>2, <1>3

LEMMA SendTextInv ==
    ASSUME IInv, SendText
    PROVE  StoreOK' /\ HandlerOK' /\ History'
  <1>1. /\ w.pc = "send" /\ w.s \in Session /\ w.out \in Reply
        /\ w.out.kb # "none" => HasPlan(w.s)
        /\ w.out.next \in {"interpret", "execute", "save", "mark"}
        /\ w.out.kb \in Kinds \cup {"none"}
    BY Facts DEF SendText, IInv, Typed, WorkerOK, Worker, Reply
  <1>2. /\ store' = store /\ retired' = retired /\ nextPlan' = nextPlan
        /\ runs' = runs /\ applied' = applied /\ effects' = effects
        /\ nextRun' = nextRun /\ sent' = sent /\ expired' = expired
    BY DEF SendText, storeVars, userVars, planVars, backendVars, runs
  <1>3. /\ PlanSound(w.s, retired, nextPlan, runs, shown)
        /\ ~Offering => PlanOffered(w.s, shown)
        /\ w.s.user = w.upd.from /\ w.s.last = store.last
        /\ HasPlan(w.s) /\ w.s.plan.id = store.plan.id =>
             w.s.user = store.user
    BY <1>1 DEF IInv, HandlerOK, Active
  <1>4. /\ shown' \in SUBSET Keyboard
        /\ shown \subseteq shown'
        /\ shown' \subseteq shown \cup {TheKeyboard}
        /\ w.out.kb = "none" => shown' = shown
        /\ Delivered(w.s, w.out) /\ w.out.kb # "none" =>
             TheKeyboard \in shown'
        /\ \A t \in told' \ told :
             t.what = w.out.note /\ t.plan = w.s.plan.id
    BY DeliveredFacts
  <1>5. StoreOK'
    <2>1. PlanSound(store, retired, nextPlan, runs, shown)
            /\ PlanOffered(store, shown)
      BY DEF IInv, StoreOK
    <2>2. \A k \in shown' : k.plan = store.plan.id => k.user = store.user
      BY <1>1, <1>3, <1>4, <2>1, TheKeyboardFields DEF PlanSound
    <2>3. PlanSound(store, retired, nextPlan, runs, shown')
      BY <2>1, <2>2 DEF PlanSound
    <2>4. PlanOffered(store, shown')
      BY <1>4, <2>1 DEF PlanOffered
    <2>5. QED
      BY <1>2, <2>3, <2>4 DEF StoreOK
  <1>6. PlanSound(w.s, retired, nextPlan, runs, shown')
    <2>1. \A k \in shown' : k.plan = w.s.plan.id => k.user = w.s.user
      BY <1>3, <1>4, TheKeyboardFields DEF PlanSound
    <2>2. QED
      BY <1>3, <2>1 DEF PlanSound
  <1>7. HandlerOK'
    <2>1. CASE w' = Fail
      <3>1. w'.pc = "mark"
        BY <2>1, Facts, FailType
      <3>2. QED
        BY <3>1 DEF HandlerOK, Active, Interpreting, Pressing
    <2> DEFINE t == AfterSend(w.s, w.out)
               v == [w EXCEPT !.pc = w.out.next, !.s = t]
    <2>2. CASE Delivered(w.s, w.out) /\ w' = v
      <3>1. v.pc = w.out.next /\ v.s = t /\ v.upd = w.upd
        BY Facts DEF Worker
      <3>2. /\ t.user = w.s.user /\ t.last = w.s.last
            /\ w.out.clear => t.plan = NoPlan
            /\ ~w.out.clear =>
                 /\ t.plan.id = w.s.plan.id
                 /\ t.plan.intent = w.s.plan.intent
                 /\ t.plan.target = w.s.plan.target
                 /\ t.plan.cands = w.s.plan.cands
                 /\ t.plan.key = w.s.plan.key
            /\ ~w.out.clear /\ w.out.kb = "none" => t = w.s
        BY <1>1, AfterSendFields
      <3> HIDE DEF v, t
      <3>3. PlanOffered(w.s, shown')
        <4>1. CASE Offering
          <5>1. TheKeyboard \in shown' /\ TheKeyboard.kind = "confirm"
            BY <1>4, <2>2, <4>1, TheKeyboardFields DEF Offering
          <5>2. QED
            BY <5>1, TheKeyboardFields DEF PlanOffered
        <4>2. CASE ~Offering
          BY <1>3, <1>4, <4>2 DEF PlanOffered
        <4>3. QED
          BY <4>1, <4>2
      <3>4. /\ PlanSound(t, retired, nextPlan, runs, shown')
            /\ PlanOffered(t, shown')
            /\ HasPlan(t) => HasPlan(w.s) /\ t.plan.id = w.s.plan.id
        <4>1. CASE w.out.clear
          <5>1. t.plan = NoPlan
            BY <3>2, <4>1
          <5>2. PlanSound(t, retired, nextPlan, runs, shown')
                  /\ PlanOffered(t, shown')
            BY <1>4, <5>1, Facts, NoPlanSound
          <5>3. QED
            BY <5>1, <5>2, NoPlanFacts DEF HasPlan
        <4>2. CASE ~w.out.clear
          BY <1>6, <3>2, <3>3, <4>2, SamePlan
        <4>3. QED
          BY <4>1, <4>2
      <3>5. w'.pc = "interpret" => w.s.user \in Users
        BY <1>1, <2>2, <3>1 DEF IInv, HandlerOK, Interpreting
      <3>6. w'.pc = "execute" =>
              /\ t = w.s /\ w.s.plan = store.plan
              /\ w.s.plan.id = w.upd.plan
              /\ w.upd.late = FALSE /\ w.upd.button = "confirm"
        <4> SUFFICES ASSUME w'.pc = "execute"
                     PROVE  /\ t = w.s /\ w.s.plan = store.plan
                            /\ w.s.plan.id = w.upd.plan
                            /\ w.upd.late = FALSE /\ w.upd.button = "confirm"
          OBVIOUS
        <4>1. w.out.next = "execute" /\ Pressing
          BY <1>1, <2>2, <3>1 DEF Pressing
        <4>2. t = w.s
          BY <1>1, <3>2, <4>1 DEF IInv, Typed, WorkerOK
        <4>3. QED
          BY <1>1, <4>1, <4>2 DEF IInv, HandlerOK
      <3>7. w'.pc \in {"interpret", "execute", "save", "mark"}
              /\ w'.s = t /\ w'.upd = w.upd
        BY <1>1, <2>2, <3>1
      <3>8. QED
        BY <1>2, <1>3, <3>2, <3>4, <3>5, <3>6, <3>7
        DEF HandlerOK, Active, Offering, Interpreting, Pressing
    <2>3. CASE w' = w
      <3>1. ~Offering => PlanOffered(w.s, shown')
        BY <1>3, <1>4 DEF PlanOffered
      <3>2. QED
        BY <1>1, <1>2, <1>3, <1>6, <2>3, <3>1
        DEF IInv, HandlerOK, Active, Offering, Interpreting, Pressing
    <2>4. QED
      BY <2>1, <2>2, <2>3 DEF SendText
  <1>8. History'
    <2>1. \A k \in shown' : k.plan < nextPlan
      BY <1>3, <1>4, TheKeyboardFields DEF IInv, History, PlanSound
    <2>2. \A r \in runs : RunOK(r)'
      BY <1>2, <1>4 DEF IInv, History, RunOK, Previewed, Confirmed
    <2>3. DoneMeansEffect'
      <3>1. w.out.note = "done" => \E e \in effects : e.plan = w.s.plan.id
        BY <1>1 DEF IInv, HandlerOK
      <3>2. QED
        BY <1>2, <1>4, <3>1 DEF IInv, History, DoneMeansEffect
    <2>4. QED
      BY <1>2, <2>1, <2>2, <2>3 DEF IInv, History
  <1>9. QED
    BY <1>5, <1>7, <1>8

-----------------------------------------------------------------------------
(***************************************************************************)
(* The stored session.                                                     *)
(***************************************************************************)

\* A session that replaces the stored one: the stored plan stays, or is
\* dropped for good.
LEMMA WriteInv ==
    ASSUME IInv, NEW s \in Session, Write(s),
           PlanSound(s, retired, nextPlan, runs, shown),
           PlanOffered(s, shown),
           UNCHANGED <<userVars, screenVars, planVars, backendVars>>
    PROVE  /\ StoreOK' /\ History'
           /\ PlanSound(s, retired', nextPlan, runs, shown)
  <1>1. /\ store' = s
        /\ retired' \subseteq retired \cup {store.plan.id}
        /\ store.plan.id \in retired' =>
             store.plan.id \in retired \/ s.plan.id # store.plan.id
    BY DEF Write
  <1>2. /\ nextPlan' = nextPlan /\ runs' = runs /\ applied' = applied
        /\ effects' = effects /\ nextRun' = nextRun /\ sent' = sent
        /\ expired' = expired /\ shown' = shown /\ told' = told
    BY DEF userVars, screenVars, planVars, backendVars, runs
  <1>3. s.plan.id \notin retired'
    BY <1>1 DEF PlanSound
  <1>4. PlanSound(s, retired', nextPlan, runs, shown)
    BY <1>3 DEF PlanSound
  <1>5. StoreOK'
    BY <1>1, <1>2, <1>4 DEF StoreOK
  <1>6. \A p \in retired' : p < nextPlan
    BY <1>1 DEF IInv, StoreOK, PlanSound, History
  <1>7. \A r \in runs : RunOK(r)'
    BY <1>2 DEF IInv, History, RunOK, Previewed, Confirmed
  <1>8. History'
    BY <1>2, <1>6, <1>7 DEF IInv, History, DoneMeansEffect
  <1>9. QED
    BY <1>4, <1>5, <1>8

LEMMA SaveInv ==
    ASSUME IInv, Save
    PROVE  StoreOK' /\ HandlerOK' /\ History'
  <1>1. /\ w.pc = "save" /\ w \in Worker /\ w.after \in {"send", "mark"}
        /\ UNCHANGED <<userVars, screenVars, planVars, backendVars>>
    BY Facts DEF Save, Worker
  <1>2. CASE UNCHANGED storeVars /\ w' = Fail
    <2>1. /\ sent' = sent /\ expired' = expired /\ nextPlan' = nextPlan
          /\ UNCHANGED <<storeVars, shown, told, nextPlan, backendVars>>
      BY <1>1, <1>2 DEF userVars, screenVars, planVars
    <2>2. QED
      BY <1>2, <2>1, Facts, FailType, QuietHistory, QuietHandler
  <1>3. CASE Write(w.s)
    <2>1. /\ w.s \in Session /\ w.s.user = w.upd.from
          /\ PlanSound(w.s, retired, nextPlan, runs, shown)
          /\ PlanOffered(w.s, shown)
      BY <1>1, HandledSession
    <2>2. /\ StoreOK' /\ History'
          /\ PlanSound(w.s, retired', nextPlan, runs, shown)
      BY <1>1, <1>3, <2>1, WriteInv
    <2>3. HandlerOK'
      <3> DEFINE v == [w EXCEPT !.pc = w.after]
      <3>1. CASE w' = Fail \/ (w' = v /\ w.after = "mark")
        <4>1. w'.pc = "mark"
          BY <1>1, <3>1, FailType DEF Worker
        <4>2. QED
          BY <4>1 DEF HandlerOK, Active, Interpreting, Pressing
      <3>2. CASE w' = v /\ w.after = "send"
        <4>1. /\ w'.pc = "send" /\ w'.s = w.s /\ w'.upd = w.upd
              /\ w'.out = w.out
          BY <1>1, <3>2 DEF Worker
        <4>2. /\ w.out.kb = "none" /\ w.out.next = "mark"
              /\ w.out.note = "none"
          BY <3>2, TextType DEF IInv, Typed, WorkerOK
        <4>3. /\ store' = w.s /\ nextPlan' = nextPlan /\ runs' = runs
              /\ shown' = shown
          BY <1>1, <1>3
          DEF Write, userVars, screenVars, planVars, backendVars, runs
        <4>4. QED
          BY <2>1, <2>2, <4>1, <4>2, <4>3
          DEF HandlerOK, Active, Offering, Interpreting, Pressing
      <3>3. w' = v \/ w' = Fail
        BY DEF Save
      <3> HIDE DEF v
      <3>4. QED
        BY <1>1, <3>1, <3>2, <3>3
    <2>4. QED
      BY <2>2, <2>3
  <1>4. QED
    BY <1>2, <1>3 DEF Save

LEMMA MarkInv ==
    ASSUME IInv, MarkUpdateProcessed
    PROVE  StoreOK' /\ HandlerOK' /\ History'
  <1>1. /\ w.pc = "mark" /\ w' = Idle
        /\ UNCHANGED <<userVars, screenVars, planVars, backendVars>>
    BY DEF MarkUpdateProcessed
  <1>2. HandlerOK'
    BY <1>1, IdleType DEF HandlerOK, Active, Interpreting, Pressing
  <1>3. CASE UNCHANGED storeVars
    <2>1. /\ sent' = sent /\ expired' = expired
          /\ UNCHANGED <<storeVars, shown, told, nextPlan, backendVars>>
      BY <1>1, <1>3 DEF userVars, screenVars, planVars
    <2>2. QED
      BY <1>2, <2>1, QuietHistory
  <1> DEFINE t == [store EXCEPT !.last = w.upd.id]
  <1>4. CASE Write(store) \/ Write(t)
    <2>1. store \in Session /\ PlanSound(store, retired, nextPlan, runs, shown)
            /\ PlanOffered(store, shown)
      BY Facts DEF IInv, StoreOK
    <2>2. t \in Session /\ t.user = store.user /\ t.plan = store.plan
      <3>1. w.upd \in Update
        BY <1>1, Facts DEF IInv, Typed, TypeOK, WorkerOK
      <3>2. QED
        BY <2>1, <3>1 DEF Session, Update
    <2> HIDE DEF t
    <2>3. PlanSound(t, retired, nextPlan, runs, shown) /\ PlanOffered(t, shown)
      BY <2>1, <2>2, SamePlan
    <2>4. QED
      BY <1>1, <1>2, <1>4, <2>1, <2>2, <2>3, WriteInv
  <1>5. QED
    BY <1>3, <1>4 DEF MarkUpdateProcessed

-----------------------------------------------------------------------------
(***************************************************************************)
(* The backend.                                                            *)
(***************************************************************************)

\* An answer to the user keeps what is known of the session.
LEMMA AnswerInv ==
    ASSUME IInv, w.pc \in {"execute", "await"},
           w' \in {Blocked, Policy, Failure, Success},
           w' = Success => \E e \in effects : e.plan = w.s.plan.id,
           nextPlan' = nextPlan, UNCHANGED <<storeVars, shown, backendVars>>
    PROVE  HandlerOK'
  <1>1. PICK out \in Reply : /\ w' = Send(w.s, out)
                             /\ out.next \in {"save", "mark"}
                             /\ out.kb # "confirm"
                             /\ out.note = "done" => w' = Success
    BY AnswerOutcomes DEF IInv
  <1>2. QED
    BY <1>1, HandledSession, SendHandler

\* The run that a confirmation makes is one that was offered and confirmed.
LEMMA TheRunOK ==
    ASSUME IInv, ExecuteConfirmed, HasRequest(w.s.plan)
    PROVE  /\ TheRun.n = nextRun /\ TheRun.plan < nextPlan
           /\ TheRun.op = OpOf(w.s.plan)
           /\ TheRun.op.intent \in {"availability", "cancel"}
           /\ TheRun.op.intent = w.s.plan.intent
           /\ TheRun.plan = w.s.plan.id
           /\ TheRun.key = w.s.plan.key
           /\ TheRun.key = buildIdempotencyKey(TheRun.plan, TheRun.op.intent)
           /\ TheRun.late = FALSE
           /\ Previewed(TheRun) /\ Confirmed(TheRun)
  <1>1. w.pc = "execute"
    BY DEF ExecuteConfirmed
  <1>2. /\ w.s \in Session /\ w.s.user = w.upd.from
        /\ PlanSound(w.s, retired, nextPlan, runs, shown)
        /\ PlanOffered(w.s, shown)
        /\ w.s.plan.id = w.upd.plan
        /\ w.upd.late = FALSE /\ w.upd.button = "confirm"
    BY <1>1, HandledSession
  <1>3. w.upd \in sent
    BY <1>1, InHandler DEF IInv, Handling
  <1>4. /\ TheRun.n = nextRun /\ TheRun.plan = w.s.plan.id
        /\ TheRun.key = w.s.plan.key /\ TheRun.op = OpOf(w.s.plan)
        /\ TheRun.user = w.s.user /\ TheRun.upd = w.upd.id
        /\ TheRun.late = w.upd.late
    BY DEF TheRun, RequestKey
  <1>5. OpOf(w.s.plan).intent = w.s.plan.intent
    BY DEF OpOf
  <1>6. Previewed(TheRun)
    BY <1>2, <1>4 DEF Previewed, PlanOffered
  <1>7. Confirmed(TheRun)
    BY <1>2, <1>3, <1>4 DEF Confirmed
  <1>8. w.s.plan.intent \in {"availability", "cancel"}
    BY DEF HasRequest
  <1>9. QED
    BY <1>2, <1>4, <1>5, <1>6, <1>7, <1>8 DEF PlanSound

LEMMA ExecuteConfirmedInv ==
    ASSUME IInv, ExecuteConfirmed
    PROVE  StoreOK' /\ HandlerOK' /\ History'
  <1>1. /\ w.pc = "execute" /\ w.pc \in Handling
        /\ sent' = sent /\ expired' = expired /\ nextPlan' = nextPlan
        /\ store' = store /\ retired' = retired
        /\ shown' = shown /\ told' = told /\ applied' = applied
        /\ effects' = effects /\ rejected' = rejected
        /\ UNCHANGED <<storeVars, shown, told, nextPlan>>
    BY DEF ExecuteConfirmed, storeVars, userVars, screenVars, planVars,
           Handling
  <1> DEFINE v == [w EXCEPT !.pc = "await", !.run = TheRun]
  <1>2. \/ w' \in {Blocked, Failure} /\ UNCHANGED <<open, nextRun>>
        \/ /\ HasRequest(w.s.plan)
           /\ open' = open \cup {TheRun}
           /\ nextRun' = nextRun + 1
           /\ w' = v
    BY DEF ExecuteConfirmed, TheRun
  <1>3. CASE w' \in {Blocked, Failure} /\ UNCHANGED <<open, nextRun>>
    <2>1. UNCHANGED <<storeVars, shown, told, nextPlan, backendVars>>
      BY <1>1, <1>3 DEF backendVars
    <2>2. Blocked # Success /\ Failure # Success
      <3>1. /\ [Text("save") EXCEPT !.clear = TRUE] \in Reply
            /\ [Text("save") EXCEPT !.clear = TRUE].note = "none"
            /\ [Text("save") EXCEPT !.kb = "retry"] \in Reply
            /\ [Text("save") EXCEPT !.kb = "retry"].note = "none"
            /\ [Text("save") EXCEPT !.note = "done", !.clear = TRUE] \in Reply
            /\ [Text("save") EXCEPT !.note = "done",
                                    !.clear = TRUE].note = "done"
        BY DEF Text, Reply, Notices, Kinds
      <3>2. w.s \in Session /\ w \in Worker
        BY <1>1, HandledSession, Facts
      <3>3. /\ Blocked.out.note = "none" /\ Failure.out.note = "none"
            /\ Success.out.note = "done"
        BY <3>1, <3>2, SendType DEF Blocked, Failure, Success
      <3>4. QED
        BY <3>3
    <2>3. HandlerOK'
      BY <1>1, <1>3, <2>1, <2>2, AnswerInv
    <2>4. QED
      BY <1>1, <2>1, <2>3, QuietHistory
  <1>4. CASE /\ HasRequest(w.s.plan)
             /\ open' = open \cup {TheRun}
             /\ nextRun' = nextRun + 1
             /\ w' = v
    <2>1. runs' = runs \cup {TheRun}
      BY <1>1, <1>4 DEF runs
    <2>2. /\ TheRun.n = nextRun /\ TheRun.plan < nextPlan
          /\ TheRun.op.intent \in {"availability", "cancel"}
          /\ TheRun.op.intent = w.s.plan.intent
          /\ TheRun.plan = w.s.plan.id
          /\ TheRun.key = buildIdempotencyKey(TheRun.plan, TheRun.op.intent)
          /\ TheRun.late = FALSE
          /\ Previewed(TheRun) /\ Confirmed(TheRun)
      BY <1>4, TheRunOK
    <2>3. /\ w.s \in Session /\ w.s.user = w.upd.from
          /\ w.s.last = store.last
          /\ PlanSound(w.s, retired, nextPlan, runs, shown)
          /\ PlanOffered(w.s, shown)
          /\ HasPlan(w.s) /\ w.s.plan.id = store.plan.id =>
               w.s.user = store.user
          /\ w.s.plan = store.plan
      BY <1>1, HandledSession
    <2>4. /\ v.pc = "await" /\ v.s = w.s /\ v.upd = w.upd /\ v.run = TheRun
      BY Facts DEF Worker
    <2> HIDE DEF v
    <2>5. /\ PlanSound(w.s, retired, nextPlan, runs', shown)
          /\ PlanSound(store, retired, nextPlan, runs', shown)
      <3>1. PlanSound(store, retired, nextPlan, runs, shown)
        BY DEF IInv, StoreOK
      <3>2. QED
        BY <2>1, <2>2, <2>3, <3>1 DEF PlanSound
    <2>6. StoreOK'
      BY <1>1, <2>5 DEF IInv, StoreOK
    <2>7. HandlerOK'
      BY <1>1, <1>4, <2>1, <2>2, <2>3, <2>4, <2>5
      DEF HandlerOK, Active, Offering, Interpreting, Pressing
    <2>8. nextRun \in Nat
      BY DEF IInv, Typed, TypeOK
    <2>9. \A r \in runs' : RunOK(r)'
      <3>1. ASSUME NEW r \in runs PROVE RunOK(r)'
        <4>1. RunOK(r) /\ r.n \in Nat
          BY Facts DEF IInv, History, Run, Runs
        <4>2. r.n < nextRun'
          BY <1>4, <2>8, <4>1 DEF RunOK
        <4>3. QED
          BY <1>1, <4>1, <4>2 DEF RunOK, Previewed, Confirmed
      <3>2. ASSUME NEW r, r = TheRun PROVE RunOK(r)'
        <4>1. /\ r.n < nextRun' /\ r.plan < nextPlan
              /\ r.op.intent \in {"availability", "cancel"}
              /\ r.key = buildIdempotencyKey(r.plan, r.op.intent)
              /\ r.late = FALSE /\ Previewed(r) /\ Confirmed(r)
          BY <1>4, <2>2, <2>8, <3>2
        <4>2. QED
          BY <1>1, <4>1 DEF RunOK, Previewed, Confirmed
      <3>3. QED
        BY <2>1, <3>1, <3>2
    <2>11. \A r, q \in runs' : r.plan = q.plan => r.op.intent = q.op.intent
      <3>1. \A r \in runs : r.plan = TheRun.plan =>
              r.op.intent = TheRun.op.intent
        BY <2>2, <2>3 DEF PlanSound
      <3>2. QED
        BY <2>1, <3>1 DEF IInv, History
    <2>12. History'
      BY <1>1, <2>9, <2>11 DEF IInv, History, DoneMeansEffect
    <2>13. QED
      BY <2>6, <2>7, <2>12
  <1>5. QED
    BY <1>2, <1>3, <1>4

LEMMA AwaitResultInv ==
    ASSUME IInv, AwaitResult
    PROVE  StoreOK' /\ HandlerOK' /\ History'
  <1>1. /\ w.pc = "await"
        /\ sent' = sent /\ expired' = expired /\ nextPlan' = nextPlan
        /\ UNCHANGED <<storeVars, shown, told, nextPlan, backendVars>>
        /\ w' \in {Blocked, Policy, Failure, Success}
    BY DEF AwaitResult, userVars, screenVars, planVars
  <1>2. Completed(w.run) => \E e \in effects : e.plan = w.s.plan.id
    <2> SUFFICES ASSUME Completed(w.run)
                 PROVE  \E e \in effects : e.plan = w.s.plan.id
      OBVIOUS
    <2>1. w.run \in applied /\ w.run \in runs /\ w.run.plan = w.s.plan.id
      BY <1>1 DEF Completed, IInv, HandlerOK
    <2>2. PICK e \in effects : e.key = w.run.key
      BY <2>1 DEF IInv, History
    <2>3. e \in runs
      BY DEF IInv, Typed, TypeOK, runs
    <2>4. /\ e.key = buildIdempotencyKey(e.plan, e.op.intent)
          /\ w.run.key = buildIdempotencyKey(w.run.plan, w.run.op.intent)
      BY <2>1, <2>3 DEF IInv, History, RunOK
    <2>5. e.plan = w.run.plan
      <3>1. e.key.plan = e.plan /\ w.run.key.plan = w.run.plan
        BY <2>4 DEF buildIdempotencyKey
      <3>2. QED
        BY <2>2, <3>1
    <2>6. QED
      BY <2>1, <2>5
  <1>3. w' = Success => Completed(w.run)
    <2>1. /\ Text("mark") \in Reply /\ Text("mark").note = "none"
          /\ [Text("save") EXCEPT !.kb = "retry"] \in Reply
          /\ [Text("save") EXCEPT !.kb = "retry"].note = "none"
          /\ [Text("save") EXCEPT !.note = "done", !.clear = TRUE] \in Reply
          /\ [Text("save") EXCEPT !.note = "done",
                                  !.clear = TRUE].note = "done"
      BY DEF Text, Reply, Notices, Kinds
    <2>2. w.s \in Session /\ w \in Worker
      BY <1>1, HandledSession, Facts
    <2>3. /\ Policy.out.note = "none" /\ Failure.out.note = "none"
          /\ Success.out.note = "done"
      BY <2>1, <2>2, SendType DEF Policy, Failure, Success
    <2>4. Policy # Success /\ Failure # Success
      BY <2>3
    <2>5. \/ Completed(w.run)
          \/ w' \in {Policy, Failure}
      BY DEF AwaitResult
    <2>6. QED
      BY <2>4, <2>5
  <1>4. HandlerOK'
    BY <1>1, <1>2, <1>3, AnswerInv
  <1>5. QED
    BY <1>1, <1>4, QuietHistory

\* An operation that is decided: the runs stay, an effect may be added.
LEMMA BackendInv ==
    ASSUME IInv, NEW r \in open, BackendApplies(r) \/ BackendRejects(r)
    PROVE  StoreOK' /\ HandlerOK' /\ History'
  <1>1. /\ store' = store /\ retired' = retired /\ nextPlan' = nextPlan
        /\ w' = w /\ nextRun' = nextRun /\ sent' = sent
        /\ expired' = expired /\ shown' = shown /\ told' = told
    BY DEF BackendApplies, BackendRejects, storeVars, userVars, screenVars,
           planVars
  <1>2. runs' = runs /\ effects \subseteq effects'
    BY DEF BackendApplies, BackendRejects, runs
  <1>3. StoreOK'
    BY <1>1, <1>2 DEF IInv, StoreOK
  <1>4. HandlerOK'
    BY <1>1, <1>2
    DEF IInv, HandlerOK, Active, Offering, Interpreting, Pressing
  <1>5. \A q \in runs : RunOK(q)'
    BY <1>1, <1>2 DEF IInv, History, RunOK, Previewed, Confirmed
  <1>6. /\ \A e, f \in effects' : e.key = f.key => e = f
        /\ \A q \in applied' : \E e \in effects' : e.key = q.key
    <2>1. CASE BackendApplies(r)
      BY <2>1 DEF IInv, History, BackendApplies
    <2>2. CASE BackendRejects(r)
      BY <2>2 DEF IInv, History, BackendRejects
    <2>3. QED
      BY <2>1, <2>2
  <1>7. DoneMeansEffect'
    BY <1>1, <1>2 DEF IInv, History, DoneMeansEffect
  <1>8. History'
    BY <1>1, <1>2, <1>5, <1>6, <1>7 DEF IInv, History
  <1>9. QED
    BY <1>3, <1>4, <1>8

-----------------------------------------------------------------------------
(***************************************************************************)
(* The invariant.                                                          *)
(***************************************************************************)

LEMMA IInvInit == Init => IInv
  <1> SUFFICES ASSUME Init PROVE IInv
    OBVIOUS
  <1>1. Typed
    BY TypedInit
  <1>2. /\ store = EmptySession /\ w = Idle /\ sent = {} /\ shown = {}
        /\ told = {} /\ nextPlan = 1 /\ retired = {} /\ runs = {}
        /\ applied = {} /\ effects = {}
    BY DEF Init, runs
  <1>3. StoreOK
    BY <1>2, NoPlanSound DEF StoreOK, EmptySession
  <1>4. HandlerOK
    BY <1>2, IdleType DEF HandlerOK, Active, Interpreting, Pressing
  <1>5. History
    BY <1>2 DEF History, DoneMeansEffect
  <1>6. QED
    BY <1>1, <1>3, <1>4, <1>5 DEF IInv

LEMMA IInvNext ==
    ASSUME IInv, [Next]_vars
    PROVE  IInv'
  <1>1. Typed'
    BY TypedNext DEF IInv
  <1>2. StoreOK' /\ HandlerOK' /\ History'
    <2>1. CASE User
      BY <2>1, UserInv
    <2>2. CASE Environment
      BY <2>2, QuietEnvironmentInv, BackendInv DEF Environment
    <2>3. CASE Message
      BY <2>3, HandleMessageInv, InterpretMessageInv,
         HandleFindNextSlotInv, HandleWritePreviewInv DEF Message
    <2>4. CASE Callback
      BY <2>4, HandleCallbackInv, ClearPreviewKeyboardInv,
         ExecuteConfirmedInv, AwaitResultInv DEF Callback
    <2>5. CASE (\E u \in inbox : TakeLock(u)) \/ WorkerTimeout \/ Crash
      BY <2>5, QuietProcessInv
    <2>6. CASE SendText \/ Save \/ MarkUpdateProcessed
      BY <2>6, SendTextInv, SaveInv, MarkInv
    <2>7. CASE UNCHANGED vars
      <3>1. /\ UNCHANGED <<storeVars, shown, told, nextPlan, backendVars>>
            /\ w' = w /\ sent' = sent /\ expired' = expired
        BY <2>7 DEF vars, userVars, screenVars, planVars
      <3>2. QED
        BY <3>1, QuietHistory, QuietHandler
    <2>8. QED
      BY <2>1, <2>2, <2>3, <2>4, <2>5, <2>6, <2>7 DEF Next, Process
  <1>3. QED
    BY <1>1, <1>2 DEF IInv

LEMMA IInvAlways == Spec => []IInv
  BY IInvInit, IInvNext, PTL DEF Spec

-----------------------------------------------------------------------------
(***************************************************************************)
(* The properties.                                                         *)
(***************************************************************************)

\* Nothing is handed to the backend that its user did not see, with a button
\* to apply it, and whose plan that user did not confirm, however handlers
\* interleave with taps, failed calls and restarts.
THEOREM Consented == Spec => []RunsAreConsented
  <1>1. IInv => RunsAreConsented
    BY DEF IInv, History, RunOK, RunsAreConsented
  <1>2. QED
    BY <1>1, IInvAlways, PTL

\* A plan takes effect at most once: all its runs have one intent, hence one
\* key, and the backend applies a key once.
THEOREM EffectOnce == Spec => []OneEffectPerPlan
  <1>1. IInv => OneEffectPerPlan
    <2> SUFFICES ASSUME IInv, NEW e \in effects, NEW f \in effects,
                        e.plan = f.plan
                 PROVE  e = f
      BY DEF OneEffectPerPlan
    <2>1. e \in runs /\ f \in runs
      BY DEF IInv, Typed, TypeOK, runs
    <2>2. e.op.intent = f.op.intent
      BY <2>1 DEF IInv, History
    <2>3. e.key = f.key
      BY <2>1, <2>2 DEF IInv, History, RunOK
    <2>4. QED
      BY <2>3 DEF IInv, History
  <1>2. QED
    BY <1>1, IInvAlways, PTL

\* A confirmation given after the plan's time to live executes nothing.
THEOREM LateIsRefused == Spec => []LateConfirmNeverRuns
  <1>1. IInv => LateConfirmNeverRuns
    BY DEF IInv, History, RunOK, LateConfirmNeverRuns
  <1>2. QED
    BY <1>1, IInvAlways, PTL

\* "Done" is said only of a plan that took effect.
THEOREM DoneIsDone == Spec => []DoneMeansEffect
  <1>1. IInv => DoneMeansEffect
    BY DEF IInv, History
  <1>2. QED
    BY <1>1, IInvAlways, PTL

\* A plan that was dropped from the stored session never comes back.
THEOREM RetiredForGood == Spec => []RetiredStaysRetired
  <1>1. IInv => RetiredStaysRetired
    BY DEF IInv, StoreOK, PlanSound, RetiredStaysRetired
  <1>2. QED
    BY <1>1, IInvAlways, PTL

\* The steps that change the store, the screens or the backend.
LEMMA LoudSteps ==
    ASSUME [Next]_vars
    PROVE  \/ SendText \/ Save \/ MarkUpdateProcessed \/ ExecuteConfirmed
           \/ \E r \in open : BackendApplies(r) \/ BackendRejects(r)
           \/ UNCHANGED <<storeVars, shown, backendVars>>
  <1>1. CASE User
    BY <1>1 DEF User, UserWrites, UserTaps, UserTapsForeignButton, Issue,
                screenVars
  <1>2. CASE Environment
    BY <1>2 DEF Environment, Redeliver, Expire, screenVars
  <1>3. CASE Message
    BY <1>3 DEF Message, handleMessage, interpretMessage,
                handleFindNextSlot, handleWritePreview, screenVars
  <1>4. CASE Callback
    BY <1>4 DEF Callback, handleCallback, clearPreviewKeyboard, AwaitResult,
                screenVars
  <1>5. CASE (\E u \in inbox : TakeLock(u)) \/ WorkerTimeout \/ Crash
    BY <1>5 DEF TakeLock, WorkerTimeout, Crash, screenVars
  <1>6. CASE UNCHANGED vars
    BY <1>6 DEF vars, screenVars
  <1>7. QED
    BY <1>1, <1>2, <1>3, <1>4, <1>5, <1>6 DEF Next, Process

LEMMA NewRun ==
    ASSUME IInv, ExecuteConfirmed
    PROVE  \/ open' = open /\ nextRun' = nextRun
           \/ HasRequest(w.s.plan) /\ open' = open \cup {TheRun}
  BY DEF ExecuteConfirmed, TheRun

\* A request is for the plan stored when it is made, with the key and the
\* operation stored with it: confirming again, or retrying, repeats them.
THEOREM RunMatchesStore == Spec => RunIsOfStoredPlan
  <1>1. ASSUME IInv, Next, NEW r \in open' \ open
        PROVE  /\ r.plan = store.plan.id /\ r.key = store.plan.key
               /\ r.op = OpOf(store.plan)
    <2>1. ExecuteConfirmed
      <3>1. SendText \/ Save \/ MarkUpdateProcessed => open' = open
        BY DEF SendText, Save, MarkUpdateProcessed, backendVars
      <3>2. (\E q \in open : BackendApplies(q) \/ BackendRejects(q)) =>
              open' \subseteq open
        BY DEF BackendApplies, BackendRejects
      <3>3. UNCHANGED <<storeVars, shown, backendVars>> => open' = open
        BY DEF backendVars
      <3>4. QED
        BY <1>1, <3>1, <3>2, <3>3, LoudSteps
    <2>2. HasRequest(w.s.plan) /\ r = TheRun
      BY <1>1, <2>1, NewRun
    <2>3. w.s.plan = store.plan
      BY <1>1, <2>1, HandledSession DEF ExecuteConfirmed
    <2>4. QED
      BY <1>1, <2>1, <2>2, <2>3, TheRunOK
  <1>2. IInv /\ [Next]_vars =>
          [\A r \in open' \ open : /\ r.plan = store.plan.id
                                   /\ r.key = store.plan.key
                                   /\ r.op = OpOf(store.plan)]_vars
    BY <1>1
  <1>3. QED
    BY <1>2, IInvAlways, PTL DEF Spec, RunIsOfStoredPlan

\* The update processed last is never forgotten: a handler's save writes the
\* value it loaded, and nothing else writes while it holds the lock.
THEOREM LastIsKept == Spec => LastProcessedGrows
  <1>1. ASSUME IInv, [Next]_vars
        PROVE  store'.last >= store.last
    <2>1. store \in Session /\ store.last \in Nat
      BY <1>1, Facts DEF Session
    <2>2. CASE Save
      <3>1. w.s.last = store.last
        BY <1>1, <2>2, HandledSession DEF Save
      <3>2. QED
        BY <2>1, <2>2, <3>1 DEF Save, Write, storeVars
    <2>3. CASE MarkUpdateProcessed
      <3>1. w.upd.id \in Nat
        BY <1>1, <2>3, Facts
        DEF IInv, Typed, TypeOK, WorkerOK, MarkUpdateProcessed, Update
      <3>2. [store EXCEPT !.last = w.upd.id].last = w.upd.id
        BY <2>1 DEF Session
      <3> DEFINE t == [store EXCEPT !.last = w.upd.id]
      <3>3. \/ store' = store
            \/ store' = t /\ ~(w.upd.id <= store.last)
        BY <2>3 DEF MarkUpdateProcessed, Write, storeVars
      <3> HIDE DEF t
      <3>4. t.last = w.upd.id
        BY <3>2 DEF t
      <3>5. QED
        BY <2>1, <3>1, <3>3, <3>4
    <2>4. CASE UNCHANGED storeVars
      BY <2>1, <2>4 DEF storeVars
    <2>5. QED
      BY <1>1, <2>2, <2>3, <2>4, LoudSteps
      DEF SendText, ExecuteConfirmed, BackendApplies, BackendRejects
  <1>2. IInv /\ [Next]_vars => [store'.last >= store.last]_vars
    BY <1>1
  <1>3. QED
    BY <1>2, IInvAlways, PTL DEF Spec, LastProcessedGrows

-----------------------------------------------------------------------------
(***************************************************************************)
(* The confirmation gate: each step of a handler, of the backend or of the *)
(* users is a step of the gate or leaves it as it is, and what holds of    *)
(* the gate (ConfirmGate_proofs) holds of the bot.                         *)
(***************************************************************************)

\* The variables of the gate, as GateSpec reads them off the bot's.
Offered   == {Part(k) : k \in {k \in shown : k.kind = "confirm"}}
Requested == {Handover(r) : r \in runs}
Carried   == {Handover(e) : e \in effects}

GateVars == <<Offered, Requested, retired, Carried>>

LEMMA GateInit == Init => Gate!Init
  <1> SUFFICES ASSUME Init PROVE Gate!Init
    OBVIOUS
  <1>1. shown = {} /\ runs = {} /\ retired = {} /\ effects = {}
    BY DEF Init, runs
  <1>2. QED
    BY <1>1 DEF Gate!Init

\* A preview with a button to apply it: Gate!Offer, as the plan's other
\* previews were shown to the same user.
LEMMA SendTextGate ==
    ASSUME IInv, SendText
    PROVE  Gate!Next \/ GateVars' = GateVars
  <1>1. /\ w.pc = "send" /\ w.s \in Session
        /\ w.out.kb # "none" => HasPlan(w.s)
    BY Facts DEF SendText, IInv, Typed, WorkerOK, Worker
  <1>2. retired' = retired /\ runs' = runs /\ effects' = effects
    BY DEF SendText, storeVars, backendVars, runs
  <1>3. \/ shown' = shown
        \/ shown' = shown \cup {TheKeyboard} /\ w.out.kb # "none"
    BY DEF SendText, Delivered, TheKeyboard, screenVars
  <1>4. /\ Requested' = Requested /\ Carried' = Carried
    BY <1>2 DEF Requested, Carried
  <1>5. CASE shown' = shown
    BY <1>2, <1>4, <1>5 DEF GateVars, Offered
  <1>6. CASE /\ shown' = shown \cup {TheKeyboard}
             /\ w.out.kb \notin {"none", "confirm"}
    <2>1. TheKeyboard.kind # "confirm"
      BY <1>6, TheKeyboardFields
    <2>2. Offered' = Offered
      BY <1>6, <2>1 DEF Offered
    <2>3. QED
      BY <1>2, <1>4, <2>2 DEF GateVars
  <1>7. CASE /\ shown' = shown \cup {TheKeyboard}
             /\ w.out.kb = "confirm"
    <2> DEFINE o == Part(TheKeyboard)
    <2>1. /\ TheKeyboard.kind = "confirm"
          /\ o = [plan |-> w.s.plan.id, op |-> OpOf(w.s.plan),
                  user |-> w.s.user]
      BY <1>7, TheKeyboardFields DEF Part
    <2>2. PlanSound(w.s, retired, nextPlan, runs, shown)
      BY <1>1 DEF IInv, HandlerOK, Active
    <2>3. HasPlan(w.s)
      BY <1>1, <1>7
    <2>4. o \in Gate!Offers
      BY <1>1, <2>1, <2>2, <2>3, PlanIdType, OpOfType
      DEF Gate!Offers, PlanSound
    <2>5. \A q \in Offered : q.plan = o.plan => q.user = o.user
      BY <2>1, <2>2 DEF Offered, Part, PlanSound
    <2>6. Offered' = Offered \cup {o}
      <3> DEFINE Confirms(ks) == {k \in ks : k.kind = "confirm"}
      <3>1. Confirms(shown') = Confirms(shown) \cup {TheKeyboard}
        BY <1>7, <2>1
      <3>2. Offered' = {Part(k) : k \in Confirms(shown')}
        BY DEF Offered, Part
      <3>3. Offered = {Part(k) : k \in Confirms(shown)}
        BY DEF Offered
      <3> HIDE DEF Confirms
      <3>4. QED
        BY <3>1, <3>2, <3>3
    <2> HIDE DEF o
    <2>7. Gate!Offer(o)
      BY <1>2, <1>4, <2>5, <2>6
      DEF Gate!Offer, Offered, Requested, Carried
    <2>8. QED
      BY <2>4, <2>7 DEF Gate!Next, Gate!Offer
  <1>8. QED
    BY <1>3, <1>5, <1>6, <1>7

\* The stored session is replaced: Gate!Close of the plan it drops, if any.
LEMMA WriteGate ==
    ASSUME IInv, Save \/ MarkUpdateProcessed
    PROVE  Gate!Next \/ GateVars' = GateVars
  <1>1. shown' = shown /\ runs' = runs /\ effects' = effects
    BY DEF Save, MarkUpdateProcessed, screenVars, backendVars, runs
  <1>2. Offered' = Offered /\ Requested' = Requested /\ Carried' = Carried
    BY <1>1 DEF Offered, Requested, Carried
  <1>3. \/ retired' = retired
        \/ HasPlan(store) /\ retired' = retired \cup {store.plan.id}
    BY DEF Save, MarkUpdateProcessed, Write, storeVars
  <1>4. CASE retired' = retired
    BY <1>2, <1>4 DEF GateVars
  <1>5. CASE HasPlan(store) /\ retired' = retired \cup {store.plan.id}
    <2>1. store.plan.id \in PlanIds
      BY <1>5, Facts, PlanIdType
    <2>2. Gate!Close(store.plan.id)
      BY <1>2, <1>5 DEF Gate!Close, Offered, Requested, Carried
    <2>3. QED
      BY <2>1, <2>2 DEF Gate!Next
  <1>6. QED
    BY <1>3, <1>4, <1>5

\* A request: Gate!Confirm, as its plan is stored, hence not retired, and
\* was offered.
LEMMA ExecuteConfirmedGate ==
    ASSUME IInv, ExecuteConfirmed
    PROVE  Gate!Next \/ GateVars' = GateVars
  <1>1. /\ w.pc = "execute" /\ shown' = shown /\ effects' = effects
        /\ retired' = retired /\ applied' = applied /\ rejected' = rejected
    BY DEF ExecuteConfirmed, screenVars, storeVars
  <1>2. Offered' = Offered /\ Carried' = Carried
    BY <1>1 DEF Offered, Carried
  <1>3. CASE open' = open
    <2>1. Requested' = Requested
      BY <1>1, <1>3 DEF Requested, runs
    <2>2. QED
      BY <1>1, <1>2, <2>1 DEF GateVars
  <1>4. CASE HasRequest(w.s.plan) /\ open' = open \cup {TheRun}
    <2> DEFINE h == Handover(TheRun)
    <2>1. /\ TheRun.n = nextRun /\ TheRun.op = OpOf(w.s.plan)
          /\ TheRun.plan = w.s.plan.id /\ Previewed(TheRun)
      BY <1>4, TheRunOK
    <2>2. h.offer = Part(TheRun) /\ h.request = nextRun
      BY <2>1 DEF Handover
    <2>3. PICK k \in shown : /\ k.kind = "confirm" /\ k.plan = TheRun.plan
                             /\ k.op = TheRun.op /\ k.user = TheRun.user
      BY <2>1 DEF Previewed
    <2>4. h.offer \in Offered
      <3>1. Part(k) = Part(TheRun)
        BY <2>3 DEF Part
      <3>2. QED
        BY <2>2, <2>3, <3>1 DEF Offered
    <2>5. h.offer.plan \notin retired
      <3>1. PlanSound(w.s, retired, nextPlan, runs, shown)
        BY <1>1, HandledSession
      <3>2. h.offer.plan = w.s.plan.id
        BY <2>1, <2>2 DEF Part
      <3>3. QED
        BY <3>1, <3>2 DEF PlanSound
    <2>6. \A g \in Requested : g.request # h.request
      <3>1. ASSUME NEW r \in runs PROVE r.n \in Nat /\ r.n < nextRun
        <4>1. RunOK(r) /\ r.n \in Nat
          BY Facts DEF IInv, History, Run, Runs
        <4>2. QED
          BY <4>1 DEF RunOK
      <3>2. nextRun \in Nat
        BY DEF IInv, Typed, TypeOK
      <3>3. QED
        BY <2>2, <3>1, <3>2 DEF Requested, Handover
    <2>7. Requested' = Requested \cup {h}
      <3>1. runs' = runs \cup {TheRun}
        BY <1>1, <1>4 DEF runs
      <3>2. Requested' = {Handover(r) : r \in runs'}
        BY DEF Requested, Handover, Part
      <3>3. QED
        BY <3>1, <3>2 DEF Requested
    <2>8. h \in Gate!Handovers
      <3>1. TheRun \in Run /\ nextRun \in Runs
        BY TheRunType DEF IInv, ExecuteConfirmed
      <3>2. TheRun.user \in Users
        <4>1. HasPlan(w.s) /\ PlanSound(w.s, retired, nextPlan, runs, shown)
          BY <1>1, HandledSession
        <4>2. TheRun.user = w.s.user
          BY DEF TheRun
        <4>3. QED
          BY <4>1, <4>2 DEF PlanSound
      <3>3. Part(TheRun) \in Gate!Offers
        BY <3>1, <3>2 DEF Part, Gate!Offers, Run
      <3>4. QED
        BY <2>1, <3>1, <3>3 DEF Handover, Gate!Handovers
    <2> HIDE DEF h
    <2>9. Gate!Confirm(h)
      BY <1>1, <1>2, <2>4, <2>5, <2>6, <2>7
      DEF Gate!Confirm, Offered, Requested, Carried
    <2>10. QED
      BY <2>8, <2>9 DEF Gate!Next
  <1>5. QED
    BY <1>3, <1>4, NewRun

\* The backend's answer: Gate!TakeEffect, unless the key was used before.
LEMMA BackendGate ==
    ASSUME IInv, NEW r \in open, BackendApplies(r) \/ BackendRejects(r)
    PROVE  Gate!Next \/ GateVars' = GateVars
  <1>1. shown' = shown /\ retired' = retired /\ runs' = runs
    BY DEF BackendApplies, BackendRejects, screenVars, storeVars, runs
  <1>2. Offered' = Offered /\ Requested' = Requested
    BY <1>1 DEF Offered, Requested
  <1>3. CASE effects' = effects
    BY <1>1, <1>2, <1>3 DEF GateVars, Carried
  <1>4. CASE /\ effects' = effects \cup {r}
             /\ \A e \in effects : e.key # r.key
    <2>1. r \in runs /\ effects \subseteq runs
      BY DEF runs, IInv, Typed, TypeOK
    <2>2. \A e \in effects : e.plan # r.plan
      <3> SUFFICES ASSUME NEW e \in effects, e.plan = r.plan PROVE FALSE
        OBVIOUS
      <3>1. e.op.intent = r.op.intent
        BY <2>1 DEF IInv, History
      <3>2. e.key = r.key
        BY <2>1, <3>1 DEF IInv, History, RunOK
      <3>3. QED
        BY <1>4, <3>2
    <2> DEFINE h == Handover(r)
    <2>3. h \in Requested
      BY <2>1 DEF Requested
    <2>4. \A d \in Carried : d.offer.plan # h.offer.plan
      BY <2>2 DEF Carried, Handover, Part
    <2>5. Carried' = Carried \cup {h}
      <3>1. Carried' = {Handover(e) : e \in effects'}
        BY DEF Carried, Handover, Part
      <3>2. QED
        BY <1>4, <3>1 DEF Carried
    <2> HIDE DEF h
    <2>6. Gate!TakeEffect(h)
      BY <1>1, <1>2, <2>3, <2>4, <2>5
      DEF Gate!TakeEffect, Offered, Requested, Carried
    <2>7. QED
      BY <2>3, <2>6 DEF Gate!Next, Requested
  <1>5. QED
    BY <1>3, <1>4 DEF BackendApplies, BackendRejects

LEMMA GateStep ==
    ASSUME IInv, [Next]_vars
    PROVE  [Gate!Next]_(Gate!vars)
  <1> USE DEF Gate!vars, GateVars, Offered, Requested, Carried
  <1>1. CASE UNCHANGED <<storeVars, shown, backendVars>>
    <2>1. /\ shown' = shown /\ runs' = runs /\ retired' = retired
          /\ effects' = effects
      BY <1>1 DEF storeVars, backendVars, runs
    <2>2. GateVars' = GateVars
      BY <2>1
    <2>3. QED
      BY <2>2
  <1>2. CASE ~UNCHANGED <<storeVars, shown, backendVars>>
    <2>1. Gate!Next \/ GateVars' = GateVars
      BY <1>2, LoudSteps, SendTextGate, WriteGate, ExecuteConfirmedGate,
         BackendGate
    <2>2. QED
      BY <2>1
  <1>3. QED
    BY <1>1, <1>2

\* The bot's confirmation flow implements the gate, whatever is written,
\* tapped, lost or restarted.
THEOREM ImplementsGate == Spec => GateSpec
  <1>1. Gate!Spec <=> Gate!Init /\ [][Gate!Next]_(Gate!vars)
    BY DEF Gate!Spec
  <1>2. QED
    BY <1>1, GateInit, GateStep, IInvAlways, PTL DEF Spec, GateSpec

-----------------------------------------------------------------------------
(***************************************************************************)
(* What the users are told, while no call has failed.                      *)
(*                                                                         *)
(* PromisesKept looks at the past: a statement was made, an operation was  *)
(* handed over.  It follows from what must happen next: the handler at     *)
(* work is bound to drop the plan it spoke of, or to report the answer to  *)
(* the request it made (Settled).  A fault ends that.                      *)
(***************************************************************************)

\* The handler makes a statement about its plan; it has a session in memory
\* in which the stored plan is gone, and is bound to save it; it is bound to
\* learn, to say or to save what became of the request r.
Telling  == w.pc = "send" /\ w.out.note # "none"
Dropping == /\ w.pc \in {"send", "interpret", "save"}
            /\ w.s.plan.id # store.plan.id
            /\ w.pc = "send" => w.out.next = "save"
Settling(r) ==
    \/ w.pc = "await" /\ w.run = r
    \/ Telling /\ w.out.note = "done"
    \/ w.pc = "save" /\ w.s.plan.id # store.plan.id

\* What a statement and a request are about is the stored plan, which goes
\* once the statement is made.
Statements ==
    /\ Telling => /\ w.s.plan = store.plan /\ HasPlan(w.s) /\ w.out.clear
                  /\ w.out.next = IF w.out.note = "cancelled"
                                    THEN "interpret" ELSE "save"
    /\ w.pc = "await" => w.s.plan = store.plan

\* Requests are decided once; they and the statements are about the stored
\* plan or about plans that were dropped.
Ledger ==
    /\ open \cap applied = {} /\ (open \cup applied) \cap rejected = {}
    /\ \A x \in told \cup open \cup applied :
         x.plan # 0 /\ x.plan \in retired \cup {store.plan.id}

\* No plan that was said to be dropped, or left unchanged, was requested.
Kept == \A t \in told : t.what # "done" =>
            \A r \in open \cup effects : r.plan # t.plan

\* While no call has failed: what was said or requested of the stored plan,
\* the handler at work is about to settle.
Settled ==
    /\ \A t \in told : t.what # "done" /\ t.plan = store.plan.id => Dropping
    /\ \A r \in open \cup applied : r.plan = store.plan.id => Settling(r)
    /\ Kept

CalmInv == /\ Statements /\ Ledger
           /\ faults <= MaxFaults
           /\ NoFaultYet => Settled

\* Every step is a fault, after which nothing is promised, or none.
LEMMA FaultSteps ==
    ASSUME Typed, [Next]_vars, faults <= MaxFaults
    PROVE  /\ faults' <= MaxFaults
           /\ NoFaultYet' => Calm /\ NoFaultYet
  <1>1. faults \in Nat /\ MaxFaults \in Nat
    BY AgentAssumption DEF Typed, TypeOK
  <1>2. Calm \/ Fault
    <2>1. CASE User
      BY <2>1 DEF User, UserWrites, UserTaps, UserTapsForeignButton, Issue,
                  Calm
    <2>2. CASE Environment
      BY <2>2 DEF Environment, Redeliver, Expire, BackendApplies,
                  BackendRejects, Calm
    <2>3. CASE Message
      BY <2>3 DEF Message, handleMessage, interpretMessage,
                  handleFindNextSlot, handleWritePreview, Calm
    <2>4. CASE Callback
      BY <2>4 DEF Callback, handleCallback, clearPreviewKeyboard,
                  ExecuteConfirmed, AwaitResult
    <2>5. CASE \/ \E u \in inbox : TakeLock(u)
               \/ SendText \/ Save \/ MarkUpdateProcessed
               \/ WorkerTimeout \/ Crash
      BY <2>5 DEF TakeLock, SendText, Save, MarkUpdateProcessed,
                  WorkerTimeout, Crash
    <2>6. CASE UNCHANGED vars
      BY <2>6 DEF vars, Calm
    <2>7. QED
      BY <2>1, <2>2, <2>3, <2>4, <2>5, <2>6 DEF Next, Process
  <1>3. QED
    BY <1>1, <1>2 DEF Calm, Fault, NoFaultYet

\* A step that says, requests, decides and stores nothing.
LEMMA QuietCalm ==
    ASSUME CalmInv, [Next]_vars, Typed,
           UNCHANGED <<storeVars, told, backendVars>>,
           Statements',
           Calm => /\ HasPlan(store) /\ Dropping => Dropping'
                   /\ \A r \in open \cup applied :
                        r.plan = store.plan.id /\ Settling(r) => Settling(r)'
    PROVE  CalmInv'
  <1>1. /\ store' = store /\ retired' = retired /\ told' = told
        /\ open' = open /\ applied' = applied /\ rejected' = rejected
        /\ effects' = effects
    BY DEF storeVars, backendVars
  <1>2. faults' <= MaxFaults /\ (NoFaultYet' => Calm /\ NoFaultYet)
    BY FaultSteps DEF CalmInv
  <1>3. Ledger'
    BY <1>1 DEF CalmInv, Ledger
  <1>4. ASSUME NoFaultYet'
        PROVE  Settled'
    <2>1. Settled /\ Calm
      BY <1>2, <1>4 DEF CalmInv
    <2>2. \A t \in told : t.what # "done" /\ t.plan = store.plan.id =>
            Dropping'
      BY <2>1 DEF Settled, CalmInv, Ledger, HasPlan
    <2>3. \A r \in open \cup applied : r.plan = store.plan.id => Settling(r)'
      BY <2>1 DEF Settled
    <2>4. Kept'
      BY <1>1, <2>1 DEF Settled, Kept
    <2>5. QED
      BY <1>1, <2>2, <2>3, <2>4 DEF Settled
  <1>5. QED
    BY <1>2, <1>3, <1>4 DEF CalmInv

\* The worker does not move, or is at the start or the end of a handler.
LEMMA RestingCalm ==
    ASSUME CalmInv, [Next]_vars, Typed,
           UNCHANGED <<storeVars, told, backendVars>>,
           \/ w' = w
           \/ /\ w'.pc \in {"idle", "load", "mark"}
              /\ \/ ~Calm
                 \/ w.pc \in {"idle", "load", "mark", "clearkb", "execute"}
    PROVE  CalmInv'
  <1>1. store' = store
    BY DEF storeVars
  <1>2. CASE w' = w
    <2>1. Statements' /\ (Dropping => Dropping')
      BY <1>1, <1>2 DEF CalmInv, Statements, Telling, Dropping
    <2>2. \A r \in open \cup applied : Settling(r) => Settling(r)'
      BY <1>1, <1>2 DEF Settling, Telling
    <2>3. QED
      BY <2>1, <2>2, QuietCalm
  <1>3. CASE w'.pc \in {"idle", "load", "mark"}
             /\ \/ ~Calm
                \/ w.pc \in {"idle", "load", "mark", "clearkb", "execute"}
    <2>1. Statements'
      BY <1>3 DEF Statements, Telling
    <2>2. Calm => ~Dropping /\ \A r \in open \cup applied : ~Settling(r)
      BY <1>3 DEF Dropping, Settling, Telling
    <2>3. QED
      BY <2>1, <2>2, QuietCalm
  <1>4. QED
    BY <1>2, <1>3

\* A handler that has nothing to settle goes on to send a message.
LEMMA SendCalm ==
    ASSUME CalmInv, [Next]_vars, Typed,
           UNCHANGED <<storeVars, told, backendVars>>,
           NEW s \in Session, NEW out \in Reply, w' = Send(s, out),
           out.note # "none" =>
             /\ s.plan = store.plan /\ HasPlan(s) /\ out.clear
             /\ out.next = IF out.note = "cancelled" THEN "interpret"
                                                     ELSE "save",
           w.pc \in {"load", "clearkb", "execute"}
    PROVE  CalmInv'
  <1>1. w'.pc = "send" /\ w'.s = s /\ w'.out = out
    BY SendType DEF Typed, TypeOK
  <1>2. Statements'
    BY <1>1 DEF Statements, Telling, storeVars
  <1>3. ~Dropping /\ \A r \in open \cup applied : ~Settling(r)
    BY DEF Dropping, Settling, Telling
  <1>4. QED
    BY <1>2, <1>3, QuietCalm

\* What is saved may be another plan than the stored one: a handler that
\* interprets a message drops that one for sure.
LEMMA InterpretCalm ==
    ASSUME CalmInv, IInv, [Next]_vars, w.pc = "interpret",
           UNCHANGED <<storeVars, told, backendVars>>,
           NEW s \in Session, NEW out \in Reply, w' = Send(s, out),
           out.note = "none", out.next = "save",
           \/ s.plan = w.s.plan \/ s.plan = NoPlan
           \/ s.plan.id # store.plan.id
    PROVE  CalmInv'
  <1>1. w'.pc = "send" /\ w'.s = s /\ w'.out = out /\ Typed
    BY SendType DEF IInv, Typed, TypeOK
  <1>2. Statements'
    BY <1>1 DEF Statements, Telling
  <1>3. HasPlan(store) /\ Dropping => Dropping'
    BY <1>1, NoPlanFacts DEF Dropping, HasPlan, storeVars
  <1>4. \A r \in open \cup applied : ~Settling(r)
    BY DEF Settling, Telling
  <1>5. QED
    BY <1>1, <1>2, <1>3, <1>4, QuietCalm

LEMMA OutsideCalm ==
    ASSUME CalmInv, IInv, [Next]_vars,
           \/ User \/ (\E u \in sent \ inbox : Redeliver(u))
           \/ (\E p \in PlanIds : Expire(p))
           \/ (\E u \in inbox : TakeLock(u))
           \/ WorkerTimeout \/ Crash \/ UNCHANGED vars
    PROVE  CalmInv'
  <1>1. Typed
    BY DEF IInv
  <1>2. CASE \/ User \/ (\E u \in sent \ inbox : Redeliver(u))
             \/ (\E p \in PlanIds : Expire(p)) \/ UNCHANGED vars
    <2>1. w' = w /\ UNCHANGED <<storeVars, told, backendVars>>
      BY <1>2 DEF User, UserWrites, UserTaps, UserTapsForeignButton, Issue,
                  Redeliver, Expire, screenVars, vars
    <2>2. QED
      BY <1>1, <2>1, RestingCalm
  <1>3. ASSUME NEW u \in inbox, TakeLock(u)
        PROVE  CalmInv'
    <2>1. [Idle EXCEPT !.pc = "load", !.upd = u].pc = "load"
      BY IdleType DEF Worker
    <2>2. /\ w' = w \/ w'.pc = "load"
          /\ w.pc = "idle" /\ UNCHANGED <<storeVars, told, backendVars>>
      BY <1>3, <2>1 DEF TakeLock, screenVars
    <2>3. QED
      BY <1>1, <2>2, RestingCalm
  <1>4. CASE WorkerTimeout \/ Crash
    <2>1. /\ w'.pc = "idle" /\ Fault
          /\ UNCHANGED <<storeVars, told, backendVars>>
      BY <1>4, IdleType DEF WorkerTimeout, Crash, screenVars
    <2>2. ~Calm
      BY <1>1, <2>1 DEF Fault, Calm, Typed, TypeOK
    <2>3. QED
      BY <1>1, <2>1, <2>2, RestingCalm
  <1>5. QED
    BY <1>2, <1>3, <1>4

LEMMA HandleMessageCalm ==
    ASSUME CalmInv, IInv, [Next]_vars, handleMessage
    PROVE  CalmInv'
  <1> DEFINE s == AdoptSender(store, w.upd.from)
             warning == [Text("interpret") EXCEPT !.note = "cancelled",
                                                  !.clear = TRUE]
             v == [w EXCEPT !.pc = "interpret", !.s = Hydrate(s)]
  <1>1. /\ w.pc = "load" /\ Typed
        /\ UNCHANGED <<storeVars, told, backendVars>>
        /\ \/ w' = Fail
           \/ w' = Send(s, Text("save"))
           \/ w' = Send(Hydrate(s), warning) /\ HasPlan(s)
           \/ w' = v
    BY DEF handleMessage, screenVars, IInv
  <1>2. /\ s \in Session
        /\ HasPlan(s) => s.plan = store.plan
        /\ Hydrate(s) \in Session /\ Hydrate(s).plan = s.plan
    BY <1>1, LoadedSession, HydratedSession
  <1>3. /\ warning \in Reply /\ warning.note = "cancelled"
        /\ warning.next = "interpret" /\ warning.clear
    BY DEF Text, Reply, Notices
  <1>4. v.pc = "interpret"
    BY Facts DEF Worker
  <1> HIDE DEF s, warning, v
  <1>5. CASE w' = Fail
    BY <1>1, <1>5, Facts, FailType, RestingCalm
  <1>6. CASE w' = Send(s, Text("save"))
    BY <1>1, <1>2, <1>6, TextType, SendCalm
  <1>7. CASE w' = Send(Hydrate(s), warning) /\ HasPlan(s)
    BY <1>1, <1>2, <1>3, <1>7, SendCalm DEF HasPlan
  <1>8. CASE w' = v
    <2>1. Statements'
      BY <1>4, <1>8 DEF Statements, Telling
    <2>2. ~Dropping /\ \A r \in open \cup applied : ~Settling(r)
      BY <1>1 DEF Dropping, Settling, Telling
    <2>3. QED
      BY <1>1, <2>1, <2>2, QuietCalm
  <1>9. QED
    BY <1>1, <1>5, <1>6, <1>7, <1>8

LEMMA InterpretMessageCalm ==
    ASSUME CalmInv, IInv, [Next]_vars, interpretMessage
    PROVE  CalmInv'
  <1>1. /\ w.pc = "interpret" /\ w.s \in Session
        /\ UNCHANGED <<storeVars, told, backendVars>>
    BY Facts DEF interpretMessage, screenVars, Worker
  <1>2. PICK s : /\ s \in {w.s, CountClarification(w.s),
                           ClearPendingPlan(ResetClarification(w.s))}
                 /\ w' = Send(s, Text("save"))
    BY DEF interpretMessage, handleListBookings
  <1>3. s \in Session /\ (s.plan = w.s.plan \/ s.plan = NoPlan)
    <2>1. CASE s \in {w.s, CountClarification(w.s)}
      BY <1>1, <2>1, ClarificationType, ClarificationFields
    <2>2. CASE s = ClearPendingPlan(ResetClarification(w.s))
      <3>1. ResetClarification(w.s) \in Session
        BY <1>1, ClarificationType
      <3>2. QED
        BY <2>2, <3>1, ClearType DEF ClearPendingPlan, Session
    <2>3. QED
      BY <1>2, <2>1, <2>2
  <1>4. QED
    BY <1>1, <1>2, <1>3, TextType, InterpretCalm

LEMMA PreviewCalm ==
    ASSUME CalmInv, IInv, [Next]_vars,
           handleFindNextSlot \/ handleWritePreview
    PROVE  CalmInv'
  <1>1. /\ w.pc = "interpret" /\ w.s \in Session /\ nextPlan <= MaxPlans
        /\ UNCHANGED <<storeVars, told, backendVars>>
        /\ generatePlanID \in PlanIds
    <2>1. w.pc = "interpret" /\ nextPlan <= MaxPlans
      BY DEF handleFindNextSlot, handleWritePreview
    <2>2. QED
      BY <2>1, Facts, NewPlan
      DEF handleFindNextSlot, handleWritePreview, screenVars, Worker, IInv
  <1>2. PICK d \in Drafts :
          \E s \in {SetPendingPlan(ResetClarification(w.s),
                                   generatePlanID, d),
                    SetWritePlan(ResetClarification(w.s),
                                 generatePlanID, d)},
             out \in {Text("save"), Preview("slots", Len(d.cands)),
                      Preview("bookings", Len(d.cands)),
                      Preview("confirm", 0)} :
            w' = Send(s, out)
    BY DEF handleFindNextSlot, handleWritePreview
  <1>3. PICK s \in {SetPendingPlan(ResetClarification(w.s),
                                   generatePlanID, d),
                    SetWritePlan(ResetClarification(w.s),
                                 generatePlanID, d)},
             out \in {Text("save"), Preview("slots", Len(d.cands)),
                      Preview("bookings", Len(d.cands)),
                      Preview("confirm", 0)} :
            w' = Send(s, out)
    BY <1>2
  <1>4. s \in Session /\ s.plan.id = generatePlanID
    BY <1>1, PreviewedSession
  <1>5. out \in Reply /\ out.next = "save" /\ out.note = "none"
    <2>1. Len(d.cands) \in Nat
      BY AgentAssumption DEF Draft
    <2>2. \A kb \in Kinds, n \in Nat :
            /\ Preview(kb, n) \in Reply /\ Preview(kb, n).next = "save"
            /\ Preview(kb, n).note = "none"
      BY PreviewType
    <2>3. {"slots", "bookings", "confirm"} \subseteq Kinds
      BY DEF Kinds
    <2>4. Text("save") \in Reply /\ Text("save").next = "save"
            /\ Text("save").note = "none"
      BY TextType
    <2>5. QED
      BY <2>1, <2>2, <2>3, <2>4
  <1>6. s.plan.id # store.plan.id
    <2>1. store.plan.id < nextPlan
      BY DEF IInv, StoreOK, PlanSound
    <2>2. QED
      BY <1>4, <2>1, Facts DEF generatePlanID
  <1>7. QED
    BY <1>1, <1>3, <1>4, <1>5, <1>6, InterpretCalm

LEMMA HandleCallbackCalm ==
    ASSUME CalmInv, IInv, [Next]_vars, handleCallback
    PROVE  CalmInv'
  <1> DEFINE s == AdoptSender(store, w.upd.from)
             h == Hydrate(s)
             x == [Send(ClearPendingPlan(h), Text("mark"))
                     EXCEPT !.pc = "save", !.after = "send"]
             v == [w EXCEPT !.pc = "clearkb", !.s = h]
  <1>1. /\ s \in Session /\ h \in Session /\ w.pc = "load" /\ Typed
        /\ UNCHANGED <<storeVars, told, backendVars>>
        /\ \/ w' = Fail
           \/ w' = Send(s, Text("mark"))
           \/ w' = Send(s, Text("save"))
           \/ w' = Send(h, Text("mark"))
           \/ w' = x
           \/ w' = v
    BY CallbackOutcomes DEF IInv, screenVars
  <1>2. v.pc = "clearkb" /\ x.pc = "save"
    BY Facts DEF Worker, Send
  <1> HIDE DEF s, x, v, h
  <1>3. CASE w' = Fail
    BY <1>1, <1>3, Facts, FailType, RestingCalm
  <1>4. CASE \E t \in {s, h}, next \in {"mark", "save"} :
               w' = Send(t, Text(next))
    <2>1. PICK t \in {s, h}, next \in {"mark", "save"} :
            w' = Send(t, Text(next))
      BY <1>4
    <2>2. Text(next) \in Reply /\ Text(next).note = "none"
      BY TextType
    <2>3. QED
      BY <1>1, <2>1, <2>2, SendCalm
  <1>5. CASE w' = x \/ w' = v
    <2>1. Statements'
      BY <1>2, <1>5 DEF Statements, Telling
    <2>2. ~Dropping /\ \A r \in open \cup applied : ~Settling(r)
      BY <1>1 DEF Dropping, Settling, Telling
    <2>3. QED
      BY <1>1, <2>1, <2>2, QuietCalm
  <1>6. QED
    BY <1>1, <1>3, <1>4, <1>5

LEMMA ClearPreviewKeyboardCalm ==
    ASSUME CalmInv, IInv, [Next]_vars, clearPreviewKeyboard
    PROVE  CalmInv'
  <1>1. /\ w.pc = "clearkb" /\ Typed /\ w.s \in Session
        /\ w.s.plan = store.plan /\ HasPlan(w.s)
        /\ UNCHANGED <<storeVars, told, backendVars>>
        /\ w' = Fail \/ w' = Pressed(w.upd.button)
    BY HandledSession DEF clearPreviewKeyboard, IInv
  <1>2. /\ w.upd.button \in {"cancel", "pick", "confirm"}
        /\ w.upd.button = "pick" => w.upd.index \in 1..Len(w.s.plan.cands)
    <2>1. w.s.plan \in PendingPlan
      BY <1>1, PlanIsPending
    <2>2. w.upd \in Update
      BY <1>1, InHandler DEF Handling
    <2>3. Len(w.s.plan.cands) \in Nat
      BY <2>1 DEF PendingPlan
    <2>4. QED
      BY <1>1, <2>2, <2>3 DEF Typed, WorkerOK, Update
  <1>3. CASE w' = Fail
    BY <1>1, <1>3, Facts, FailType, RestingCalm
  <1>4. CASE w' = Pressed(w.upd.button) /\ w.upd.button = "cancel"
    <2> DEFINE o == [Text("save") EXCEPT !.note = "unchanged",
                                         !.clear = TRUE]
    <2>1. /\ o \in Reply /\ o.next = "save" /\ o.note = "unchanged"
          /\ o.clear
      BY DEF Text, Reply, Notices
    <2>2. w' = Send(w.s, o)
      BY <1>4 DEF Pressed
    <2> HIDE DEF o
    <2>3. QED
      BY <1>1, <2>1, <2>2, SendCalm
  <1>5. CASE w' = Pressed(w.upd.button) /\ w.upd.button = "pick"
    <2> DEFINE s == SelectCandidate(w.s, w.upd.index)
               o == Preview("confirm", 0)
    <2>1. s \in Session
      BY <1>1, <1>2, <1>5, SelectCandidateType
    <2>2. o \in Reply /\ o.note = "none"
      BY PreviewType DEF Kinds
    <2>3. w' = Send(s, o)
      BY <1>5 DEF Pressed
    <2> HIDE DEF s, o
    <2>4. QED
      BY <1>1, <2>1, <2>2, <2>3, SendCalm
  <1>6. CASE w' = Pressed(w.upd.button) /\ w.upd.button = "confirm"
    <2>1. w' = Send(w.s, Text("execute"))
      BY <1>6 DEF Pressed
    <2>2. QED
      BY <1>1, <2>1, TextType, SendCalm
  <1>7. QED
    BY <1>1, <1>2, <1>3, <1>4, <1>5, <1>6

LEMMA AnswerNotes ==
    ASSUME Typed, w.pc \in {"execute", "await"},
           NEW v \in {Blocked, Policy, Failure}
    PROVE  \E out \in Reply : v = Send(w.s, out) /\ out.note = "none"
  <1> DEFINE o1 == [Text("save") EXCEPT !.clear = TRUE]
             o2 == Text("mark")
             o3 == [Text("save") EXCEPT !.kb = "retry"]
  <1>1. /\ o1 \in Reply /\ o2 \in Reply /\ o3 \in Reply
        /\ o1.note = "none" /\ o2.note = "none" /\ o3.note = "none"
    BY DEF Text, Reply, Kinds
  <1>2. /\ Blocked = Send(w.s, o1) /\ Policy = Send(w.s, o2)
        /\ Failure = Send(w.s, o3)
    BY DEF Blocked, Policy, Failure
  <1> HIDE DEF o1, o2, o3
  <1>3. QED
    BY <1>1, <1>2

\* A request is made when nothing was said or requested of its plan.
LEMMA ExecuteConfirmedCalm ==
    ASSUME CalmInv, IInv, [Next]_vars, ExecuteConfirmed
    PROVE  CalmInv'
  <1> DEFINE v == [w EXCEPT !.pc = "await", !.run = TheRun]
  <1>1. /\ w.pc = "execute" /\ Typed /\ w.s \in Session
        /\ w.s.plan = store.plan /\ HasPlan(w.s)
        /\ UNCHANGED <<storeVars, told, applied, rejected, effects>>
    BY HandledSession DEF ExecuteConfirmed, IInv, screenVars
  <1>2. \/ w' \in {Blocked, Failure} /\ UNCHANGED <<open, nextRun>>
        \/ /\ HasRequest(w.s.plan)
           /\ open' = open \cup {TheRun}
           /\ w' = v
    BY DEF ExecuteConfirmed, TheRun
  <1>3. CASE w' \in {Blocked, Failure} /\ UNCHANGED <<open, nextRun>>
    <2>1. UNCHANGED backendVars
      BY <1>1, <1>3 DEF backendVars
    <2>2. PICK out \in Reply : w' = Send(w.s, out) /\ out.note = "none"
      BY <1>1, <1>3, AnswerNotes
    <2>3. QED
      BY <1>1, <2>1, <2>2, SendCalm
  <1>4. CASE /\ HasRequest(w.s.plan)
             /\ open' = open \cup {TheRun}
             /\ w' = v
    <2>1. TheRun.n = nextRun /\ TheRun.plan = store.plan.id
      BY <1>1, <1>4, TheRunOK
    <2>2. /\ v.pc = "await" /\ v.s = w.s /\ v.run = TheRun
      BY Facts DEF Worker
    <2>3. store' = store /\ retired' = retired /\ store.plan.id # 0
      BY <1>1 DEF storeVars, HasPlan
    <2> HIDE DEF v
    <2>4. Statements'
      BY <1>1, <1>4, <2>1, <2>2, <2>3 DEF Statements, Telling
    <2>5. TheRun \notin runs
      <3>1. \A r \in runs : r.n \in Nat
        BY Facts DEF Run, Runs
      <3>2. \A r \in runs : r.n < nextRun
        BY DEF IInv, History, RunOK
      <3>3. QED
        BY <2>1, <3>1, <3>2
    <2>6. Ledger'
      BY <1>1, <1>4, <2>1, <2>3, <2>5 DEF CalmInv, Ledger, runs
    <2>7. faults' <= MaxFaults /\ (NoFaultYet' => NoFaultYet)
      BY <1>1, FaultSteps DEF CalmInv
    <2>8. ASSUME NoFaultYet
          PROVE  Settled'
      <3>1. Settled
        BY <2>8 DEF CalmInv
      <3>2. ~Dropping /\ \A r \in open \cup applied : ~Settling(r)
        BY <1>1 DEF Dropping, Settling, Telling
      <3>3. /\ \A t \in told : t.what # "done" => t.plan # store.plan.id
            /\ \A r \in open \cup applied : r.plan # store.plan.id
        BY <3>1, <3>2 DEF Settled
      <3>4. \A r \in open' \cup applied' :
              r.plan = store'.plan.id => Settling(r)'
        <4>1. w'.pc = "await" /\ w'.run = TheRun
          BY <1>4, <2>2
        <4>2. QED
          BY <1>1, <1>4, <2>3, <3>3, <4>1 DEF Settling
      <3>5. Kept'
        BY <1>1, <1>4, <2>1, <3>1, <3>3
        DEF Settled, Kept
      <3>6. QED
        BY <1>1, <2>3, <3>3, <3>4, <3>5 DEF Settled
    <2>9. QED
      BY <2>4, <2>6, <2>7, <2>8 DEF CalmInv
  <1>5. QED
    BY <1>2, <1>3, <1>4

\* The answer to a request: a refusal settles it, a success is said.
LEMMA AwaitResultCalm ==
    ASSUME CalmInv, IInv, [Next]_vars, AwaitResult
    PROVE  CalmInv'
  <1>1. /\ w.pc = "await" /\ Typed /\ w.s \in Session
        /\ w.s.plan = store.plan /\ HasPlan(w.s)
        /\ store' = store
        /\ UNCHANGED <<storeVars, told, backendVars>>
    BY HandledSession
    DEF AwaitResult, IInv, screenVars, CalmInv, Statements, storeVars
  <1>2. ~Dropping
    BY <1>1 DEF Dropping
  <1>3. CASE w' \in {Policy, Failure} /\ (Calm => w.run \in rejected)
    <2>1. PICK out \in Reply : w' = Send(w.s, out) /\ out.note = "none"
      BY <1>1, <1>3, AnswerNotes
    <2>2. w'.pc = "send" /\ w'.out = out
      BY <1>1, <2>1, Facts, SendType
    <2>3. Statements'
      BY <2>1, <2>2 DEF Statements, Telling
    <2>4. Calm => \A r \in open \cup applied : ~Settling(r)
      <3>1. \A r \in open \cup applied : Settling(r) => r = w.run
        BY <1>1 DEF Settling, Telling
      <3>2. QED
        BY <1>3, <3>1 DEF CalmInv, Ledger
    <2>5. QED
      BY <1>1, <1>2, <2>3, <2>4, QuietCalm
  <1>4. CASE w' = Success
    <2> DEFINE o == [Text("save") EXCEPT !.note = "done", !.clear = TRUE]
    <2>1. /\ o \in Reply /\ o.note = "done" /\ o.clear /\ o.next = "save"
      BY DEF Text, Reply, Notices
    <2>2. Success = Send(w.s, o)
      BY DEF Success
    <2> HIDE DEF o
    <2>3. w'.pc = "send" /\ w'.out = o /\ w'.s = w.s
      BY <1>1, <1>4, <2>1, <2>2, Facts, SendType
    <2>4. Statements'
      BY <1>1, <2>1, <2>3 DEF Statements, Telling
    <2>5. ASSUME NEW r \in open \cup applied, Settling(r)
          PROVE  Settling(r)'
      <3>1. r = w.run
        BY <1>1, <2>5 DEF Settling, Telling
      <3>2. QED
        BY <1>1, <2>1, <2>3, <3>1 DEF Settling, Telling
    <2>6. QED
      BY <1>1, <1>2, <2>4, <2>5, QuietCalm
  <1>5. ~(Calm /\ Fault)
    BY <1>1 DEF Calm, Fault, Typed, TypeOK
  <1>6. QED
    BY <1>3, <1>4, <1>5 DEF AwaitResult

LEMMA BackendCalm ==
    ASSUME CalmInv, IInv, [Next]_vars,
           NEW r \in open, BackendApplies(r) \/ BackendRejects(r)
    PROVE  CalmInv'
  <1>1. /\ w' = w /\ store' = store /\ retired' = retired /\ told' = told
        /\ faults' = faults
    BY DEF BackendApplies, BackendRejects, storeVars, screenVars
  <1>2. /\ open' \cup applied' \subseteq open \cup applied
        /\ open' \cup effects' \subseteq open \cup effects
        /\ effects \subseteq effects'
    BY DEF BackendApplies, BackendRejects
  <1>3. Statements'
    BY <1>1 DEF CalmInv, Statements, Telling
  <1>4. /\ open' \cap applied' = {}
        /\ (open' \cup applied') \cap rejected' = {}
    BY DEF BackendApplies, BackendRejects, CalmInv, Ledger
  <1>5. Ledger'
    BY <1>1, <1>2, <1>4 DEF CalmInv, Ledger
  <1>6. ASSUME NoFaultYet
        PROVE  Settled'
    <2>1. Settled
      BY <1>6 DEF CalmInv
    <2>2. Dropping' = Dropping
      BY <1>1 DEF Dropping
    <2>3. \A q : Settling(q)' = Settling(q)
      BY <1>1 DEF Settling, Telling
    <2>4. Kept'
      BY <1>1, <1>2, <2>1 DEF Settled, Kept
    <2>5. QED
      BY <1>1, <1>2, <2>1, <2>2, <2>3, <2>4 DEF Settled
  <1>7. QED
    BY <1>1, <1>3, <1>5, <1>6 DEF CalmInv, NoFaultYet

\* What is written to the store retires the plan it replaces.
LEMMA WriteLedger ==
    ASSUME CalmInv, NEW s, Write(s), UNCHANGED <<told, backendVars>>
    PROVE  Ledger'
  <1>1. /\ store' = s /\ retired \subseteq retired'
        /\ store.plan.id # 0 /\ s.plan.id # store.plan.id =>
             store.plan.id \in retired'
    BY DEF Write, HasPlan
  <1>2. /\ told' = told /\ open' = open /\ applied' = applied
        /\ rejected' = rejected
    BY DEF backendVars
  <1>3. QED
    BY <1>1, <1>2 DEF CalmInv, Ledger

LEMMA SaveCalm ==
    ASSUME CalmInv, IInv, [Next]_vars, Save
    PROVE  CalmInv'
  <1>1. /\ w.pc = "save" /\ Typed /\ UNCHANGED <<told, backendVars>>
        /\ w \in Worker
        /\ PlanSound(w.s, retired, nextPlan, runs, shown)
    BY HandledSession, Facts DEF Save, IInv, screenVars
  <1>2. faults' <= MaxFaults /\ (NoFaultYet' => Calm /\ NoFaultYet)
    BY <1>1, FaultSteps DEF CalmInv
  <1>3. w'.pc = "mark" \/ (w'.pc = "send" /\ w'.out.note = "none")
    <2>1. CASE w' = Fail
      BY <1>1, <2>1, FailType
    <2>2. CASE w' = [w EXCEPT !.pc = w.after]
      <3>1. w'.pc = w.after /\ w'.out = w.out
        BY <1>1, <2>2 DEF Worker
      <3>2. w.after = "send" => w.out.note = "none"
        BY <1>1, TextType DEF Typed, WorkerOK
      <3>3. QED
        BY <1>1, <3>1, <3>2 DEF Worker
    <2>3. QED
      BY <2>1, <2>2 DEF Save
  <1>4. Statements'
    BY <1>3 DEF Statements, Telling
  <1>5. Ledger'
    <2>1. CASE Write(w.s)
      BY <1>1, <2>1, WriteLedger
    <2>2. CASE UNCHANGED storeVars
      BY <1>1, <2>2 DEF CalmInv, Ledger, storeVars, backendVars
    <2>3. QED
      BY <2>1, <2>2 DEF Save
  <1>6. ASSUME NoFaultYet'
        PROVE  Settled'
    <2>1. Settled /\ Write(w.s)
      <3>1. faults \in Nat
        BY <1>1 DEF Typed, TypeOK
      <3>2. QED
        BY <1>2, <1>6, <3>1 DEF CalmInv, Save, Calm, Fault
    <2>2. /\ store' = w.s /\ told' = told /\ open' = open
          /\ applied' = applied /\ effects' = effects
      BY <1>1, <2>1 DEF Write, backendVars
    <2>3. w.s.plan.id \notin retired
      BY <1>1 DEF PlanSound
    <2>4. \A t \in told : t.what # "done" => t.plan # w.s.plan.id
      BY <2>1, <2>3 DEF Settled, CalmInv, Ledger, Dropping
    <2>5. \A r \in open \cup applied : r.plan # w.s.plan.id
      BY <1>1, <2>1, <2>3 DEF Settled, CalmInv, Ledger, Settling, Telling
    <2>6. Kept'
      BY <2>1, <2>2 DEF Settled, Kept
    <2>7. QED
      BY <2>2, <2>4, <2>5, <2>6 DEF Settled
  <1>7. QED
    BY <1>2, <1>4, <1>5, <1>6 DEF CalmInv

LEMMA MarkCalm ==
    ASSUME CalmInv, IInv, [Next]_vars, MarkUpdateProcessed
    PROVE  CalmInv'
  <1>1. /\ w.pc = "mark" /\ w'.pc = "idle" /\ Typed
        /\ UNCHANGED <<told, backendVars>>
    BY IdleType DEF MarkUpdateProcessed, IInv, screenVars
  <1>2. store'.plan = store.plan /\ retired' = retired
    <2> DEFINE t == [store EXCEPT !.last = w.upd.id]
    <2>1. t.plan = store.plan
      BY Facts DEF Session
    <2>2. \/ UNCHANGED storeVars
          \/ \E s \in {store, t} : Write(s)
      BY DEF MarkUpdateProcessed
    <2> HIDE DEF t
    <2>3. QED
      BY <2>1, <2>2 DEF Write, storeVars
  <1>3. faults' <= MaxFaults /\ (NoFaultYet' => NoFaultYet)
    BY <1>1, FaultSteps DEF CalmInv
  <1>4. Statements'
    BY <1>1 DEF Statements, Telling
  <1>5. Ledger'
    BY <1>1, <1>2 DEF CalmInv, Ledger, backendVars
  <1>6. ASSUME NoFaultYet
        PROVE  Settled'
    <2>1. Settled
      BY <1>6 DEF CalmInv
    <2>2. ~Dropping /\ \A r \in open \cup applied : ~Settling(r)
      BY <1>1 DEF Dropping, Settling, Telling
    <2>3. Kept'
      BY <1>1, <2>1 DEF Settled, Kept, backendVars
    <2>4. QED
      BY <1>1, <1>2, <2>1, <2>2, <2>3 DEF Settled, backendVars
  <1>7. QED
    BY <1>3, <1>4, <1>5, <1>6 DEF CalmInv

\* A message about the stored plan, or one that states nothing.
LEMMA SendTextCalm ==
    ASSUME CalmInv, IInv, [Next]_vars, SendText
    PROVE  CalmInv'
  <1> DEFINE t == [what |-> w.out.note, plan |-> w.s.plan.id,
                   op |-> OpOf(w.s.plan)]
             a == AfterSend(w.s, w.out)
             v == [w EXCEPT !.pc = w.out.next, !.s = a]
  <1>1. /\ w.pc = "send" /\ Typed /\ w \in Worker /\ w.s \in Session
        /\ w.out \in Reply /\ (w.out.kb # "none" => HasPlan(w.s))
        /\ store' = store /\ retired' = retired /\ open' = open
        /\ applied' = applied /\ rejected' = rejected /\ effects' = effects
    BY Facts
    DEF SendText, IInv, Typed, WorkerOK, Worker, storeVars, backendVars
  <1>2. /\ told' = told \/ (told' = told \cup {t} /\ Telling)
        /\ Delivered(w.s, w.out) /\ Telling => told' = told \cup {t}
    BY <1>1 DEF SendText, Delivered, screenVars, Telling
  <1>3. /\ v.pc = w.out.next /\ v.s = a
        /\ v.pc \in {"interpret", "execute", "save", "mark"}
    BY <1>1 DEF Worker, Reply
  <1>4. t.plan = w.s.plan.id /\ t.what = w.out.note
    OBVIOUS
  <1> HIDE DEF t
  <1>5. Telling => /\ w.s.plan = store.plan /\ w.s.plan.id # 0 /\ w.out.clear
                   /\ w.out.next = IF w.out.note = "cancelled"
                                     THEN "interpret" ELSE "save"
    BY DEF CalmInv, Statements, HasPlan
  <1>6. Statements'
    <2>1. CASE w' = v
      BY <1>3, <2>1 DEF Statements, Telling
    <2>2. CASE w' = Fail
      BY <1>1, <2>2, FailType DEF Statements, Telling
    <2>3. CASE w' = w
      BY <1>1, <2>3 DEF CalmInv, Statements, Telling
    <2>4. QED
      BY <2>1, <2>2, <2>3 DEF SendText
  <1>7. Ledger'
    BY <1>1, <1>2, <1>4, <1>5 DEF CalmInv, Ledger
  <1>8. faults' <= MaxFaults /\ (NoFaultYet' => Calm /\ NoFaultYet)
    BY <1>1, FaultSteps DEF CalmInv
  <1>9. ASSUME NoFaultYet'
        PROVE  Settled'
    <2>1. Settled /\ Delivered(w.s, w.out) /\ w' = v
      <3>1. faults \in Nat
        BY <1>1 DEF Typed, TypeOK
      <3>2. QED
        BY <1>8, <1>9, <3>1 DEF CalmInv, SendText, Calm, Fault
    <2>2. w'.pc = w.out.next /\ w'.s = a
      BY <1>3, <2>1
    <2>3. /\ w.out.clear => a.plan = NoPlan
          /\ ~w.out.clear => a.plan.id = w.s.plan.id
      BY <1>1, AfterSendFields
    <2> HIDE DEF v, a
    <2>4. CASE ~Telling
      <3>1. told' = told
        BY <1>2, <2>4
      <3>2. HasPlan(store) /\ Dropping => Dropping'
        BY <1>1, <2>2, <2>3, NoPlanFacts DEF Dropping, HasPlan
      <3>3. \A x \in told : x.what # "done" /\ x.plan = store.plan.id =>
              Dropping'
        BY <2>1, <3>2 DEF Settled, CalmInv, Ledger, HasPlan
      <3>4. \A r \in open \cup applied : r.plan # store.plan.id
        BY <1>1, <2>1, <2>4 DEF Settled, Settling
      <3>5. Kept'
        BY <1>1, <2>1, <3>1 DEF Settled, Kept
      <3>6. QED
        BY <1>1, <3>1, <3>3, <3>4, <3>5 DEF Settled
    <2>5. CASE Telling
      <3>1. told' = told \cup {t} /\ t.plan = store.plan.id
              /\ store.plan.id # 0
        BY <1>2, <1>4, <1>5, <2>1, <2>5
      <3>2. w'.s.plan.id # store.plan.id
        BY <1>5, <2>2, <2>3, <2>5, NoPlanFacts
      <3>3. w'.pc = IF w.out.note = "cancelled" THEN "interpret" ELSE "save"
        BY <1>5, <2>2, <2>5
      <3>4. Dropping'
        BY <1>1, <3>2, <3>3 DEF Dropping
      <3>5. \A r \in open \cup applied : r.plan = store.plan.id =>
              w.out.note = "done"
        BY <1>1, <2>1 DEF Settled, Settling
      <3>6. \A r \in open \cup applied : r.plan = store.plan.id =>
              Settling(r)'
        BY <1>1, <3>2, <3>3, <3>5 DEF Settling
      <3>7. effects \subseteq applied
        BY <1>1 DEF Typed, TypeOK
      <3>8. Kept'
        BY <1>1, <1>4, <2>1, <3>1, <3>5, <3>7 DEF Settled, Kept
      <3>9. QED
        BY <1>1, <3>4, <3>6, <3>8 DEF Settled
    <2>6. QED
      BY <2>4, <2>5
  <1>10. QED
    BY <1>6, <1>7, <1>8, <1>9 DEF CalmInv

LEMMA CalmInit == Init => CalmInv
  <1> SUFFICES ASSUME Init PROVE CalmInv
    OBVIOUS
  <1>1. /\ w = Idle /\ told = {} /\ open = {} /\ applied = {}
        /\ rejected = {} /\ effects = {} /\ faults = MaxFaults
    BY DEF Init
  <1>2. Statements
    BY <1>1, IdleType DEF Statements, Telling
  <1>3. Ledger /\ Settled
    BY <1>1 DEF Ledger, Settled, Kept
  <1>4. QED
    BY <1>1, <1>2, <1>3, AgentAssumption DEF CalmInv

LEMMA CalmNext ==
    ASSUME CalmInv, IInv, [Next]_vars
    PROVE  CalmInv'
  <1>1. CASE Environment
    BY <1>1, OutsideCalm, BackendCalm DEF Environment
  <1>2. CASE Message
    BY <1>2, HandleMessageCalm, InterpretMessageCalm, PreviewCalm DEF Message
  <1>3. CASE Callback
    BY <1>3, HandleCallbackCalm, ClearPreviewKeyboardCalm,
       ExecuteConfirmedCalm, AwaitResultCalm DEF Callback
  <1>4. CASE SendText \/ Save \/ MarkUpdateProcessed
    BY <1>4, SendTextCalm, SaveCalm, MarkCalm
  <1>5. CASE \/ User \/ (\E u \in inbox : TakeLock(u))
             \/ WorkerTimeout \/ Crash \/ UNCHANGED vars
    BY <1>5, OutsideCalm
  <1>6. QED
    BY <1>1, <1>2, <1>3, <1>4, <1>5 DEF Next, Process

LEMMA CalmAlways == Spec => []CalmInv
  BY CalmInit, CalmNext, IInvAlways, PTL DEF Spec

\* As long as no call has failed: when the user was told that a request is
\* cancelled or that nothing was changed, nothing of that plan is executed,
\* then or later.
THEOREM CancelledIsCancelled == Spec => []PromisesKept
  <1>1. CalmInv => PromisesKept
    BY DEF CalmInv, Settled, Kept, PromisesKept
  <1>2. QED
    BY <1>1, CalmAlways, PTL
=============================================================================
