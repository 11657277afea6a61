--------------------------- MODULE ChatAgent_proofs ---------------------------
(***************************************************************************)
(* ChatAgent keeps to its types, for every set of users, bookings and      *)
(* drafts and every bound.  TypeOK is not inductive as it stands: what a   *)
(* worker knows at each step of a handler (WorkerOK), and what is known of *)
(* a tap (TapsOK), strengthen it to Typed.                                 *)
(***************************************************************************)
EXTENDS ChatAgent, WellFoundedInduction, TLAPS

-----------------------------------------------------------------------------
(***************************************************************************)
(* Filtering the candidates: an induction on how many have been seen.  The *)
(* least element of a set of numbers takes the place of an induction rule: *)
(* sets can be named in a proof where predicates cannot.                   *)
(***************************************************************************)

LEMMA LeastNatural ==
    ASSUME NEW T \in SUBSET Nat, T # {}
    PROVE  \E m \in T : \A k \in T : m <= k
  <1> DEFINE R == OpToRel(<, Nat)
  <1>1. IsWellFoundedOn(R, Nat)
    BY NatLessThanWellFounded
  <1>2. \A x, y \in Nat : <<x, y>> \in R <=> x < y
    BY DEF OpToRel
  <1> HIDE DEF R
  <1>3. PICK m \in T : \A k \in T : ~ (<<k, m>> \in R)
    BY <1>1, WFMin
  <1>4. \A k \in T : ~ (k < m)
    BY <1>2, <1>3
  <1>5. QED
    BY <1>3, <1>4

\* A set of numbers that has 0, and with each number the next up to n, has
\* n.
LEMMA Induction ==
    ASSUME NEW n \in Nat, NEW S, 0 \in S,
           \A i \in 0..n : i < n /\ i \in S => i + 1 \in S
    PROVE  n \in S
  <1> DEFINE T == (0..n) \ S
  <1>1. SUFFICES ASSUME T # {} PROVE FALSE
    OBVIOUS
  <1>2. T \in SUBSET Nat
    OBVIOUS
  <1>3. PICK m \in T : \A k \in T : m <= k
    BY <1>1, <1>2, LeastNatural
  <1>4. m # 0 /\ m - 1 \in 0..n /\ m - 1 < n
    BY <1>3
  <1>5. m - 1 \in S
    BY <1>3, <1>4
  <1>6. (m - 1) + 1 \in S
    BY <1>4, <1>5
  <1>7. QED
    BY <1>3, <1>6

\* The recursive function is there: Keeping(c) is it.
LEMMA KeepingUnfolds ==
    ASSUME NEW c \in Seq(Targets \cup {NoTarget})
    PROVE  /\ Keeping(c)[0] = <<>>
           /\ \A i \in 1..Len(c) :
                Keeping(c)[i] = KeepOne(Keeping(c)[i - 1], c[i])
  <1> DEFINE n == Len(c)
             Is(f, k) == f = [i \in 0..k |-> IF i = 0 THEN <<>>
                                             ELSE KeepOne(f[i - 1], c[i])]
             S == {k \in 0..n : \E f : Is(f, k)}
  <1>1. n \in Nat
    OBVIOUS
  <1>2. 0 \in S
    <2>1. Is([i \in 0..0 |-> <<>>], 0)
      OBVIOUS
    <2> HIDE DEF Is
    <2>2. QED
      BY <1>1, <2>1
  <1>3. ASSUME NEW k \in 0..n, k < n, k \in S
        PROVE  k + 1 \in S
    <2>1. PICK f : Is(f, k)
      BY <1>3
    <2> DEFINE g == [i \in 0..(k + 1) |->
                       IF i = k + 1 THEN KeepOne(f[k], c[k + 1]) ELSE f[i]]
    <2>2. \A i \in 0..(k + 1) : g[i] = IF i = 0 THEN <<>>
                                       ELSE KeepOne(g[i - 1], c[i])
      <3>1. \A i \in 0..k : g[i] = f[i]
        BY <1>3
      <3>2. g[k + 1] = KeepOne(f[k], c[k + 1])
        BY <1>3
      <3>3. \A i \in 0..k : f[i] = IF i = 0 THEN <<>>
                                   ELSE KeepOne(f[i - 1], c[i])
        BY <2>1
      <3>4. \A i \in 0..(k + 1) : i \in 0..k \/ i = k + 1
        BY <1>3
      <3>5. \A i \in 0..k : i # 0 => i - 1 \in 0..k
        BY <1>3
      <3>6. k \in 0..k /\ k + 1 # 0 /\ (k + 1) - 1 = k
        BY <1>3
      <3> HIDE DEF g
      <3>7. QED
        BY <3>1, <3>2, <3>3, <3>4, <3>5, <3>6
    <2>3. g = [i \in 0..(k + 1) |-> g[i]]
      OBVIOUS
    <2> HIDE DEF g
    <2>4. Is(g, k + 1)
      BY <2>2, <2>3
    <2> HIDE DEF Is
    <2>5. QED
      BY <1>1, <1>3, <2>4
  <1>4. \E f : Is(f, n)
    <2> HIDE DEF Is
    <2>1. \A i \in 0..n : i < n /\ i \in S => i + 1 \in S
      BY <1>3
    <2>2. n \in S
      <3> HIDE DEF S, n
      <3>1. QED
        BY <1>1, <1>2, <2>1, Induction
    <2>3. QED
      BY <2>2
  <1>5. Is(Keeping(c), n)
    BY <1>4 DEF Keeping
  <1>6. QED
    BY <1>1, <1>5

\* Only bookings and slots with an identifier are kept, and none is added.
LEMMA KeepingType ==
    ASSUME NEW c \in Seq(Targets \cup {NoTarget})
    PROVE  /\ toPendingCandidates(c) \in Seq(Targets)
           /\ Len(toPendingCandidates(c)) <= Len(c)
  <1> DEFINE n == Len(c)
             S == {k \in 0..n : /\ Keeping(c)[k] \in Seq(Targets)
                                /\ Len(Keeping(c)[k]) <= k}
  <1>1. n \in Nat
    OBVIOUS
  <1>2. 0 \in S
    <2>1. Keeping(c)[0] = <<>>
      BY KeepingUnfolds
    <2>2. <<>> \in Seq(Targets) /\ Len(<<>>) <= 0
      OBVIOUS
    <2> DEFINE out == Keeping(c)[0]
    <2>3. out \in Seq(Targets) /\ Len(out) <= 0
      BY <2>1, <2>2
    <2> HIDE DEF out
    <2>4. QED
      BY <1>1, <2>3 DEF out
  <1>3. ASSUME NEW k \in 0..n, k < n, k \in S
        PROVE  k + 1 \in S
    <2> DEFINE out == Keeping(c)[k]
    <2>1. out \in Seq(Targets) /\ Len(out) <= k
      BY <1>3
    <2>2. k + 1 \in 1..Len(c) /\ (k + 1) - 1 = k
      BY <1>3
    <2>3. Keeping(c)[k + 1] = KeepOne(out, c[k + 1])
      BY <2>2, KeepingUnfolds
    <2>4. c[k + 1] \in Targets \cup {NoTarget}
      BY <2>2
    <2> HIDE DEF out
    <2>5. /\ KeepOne(out, c[k + 1]) \in Seq(Targets)
          /\ Len(KeepOne(out, c[k + 1])) <= k + 1
      BY <1>3, <2>1, <2>4 DEF KeepOne
    <2>6. QED
      BY <1>1, <1>3, <2>3, <2>5
  <1>4. n \in S
    <2> HIDE DEF S, n
    <2>1. QED
      BY <1>1, <1>2, <1>3, Induction
  <1>5. QED
    BY <1>4 DEF toPendingCandidates

LEMMA CandidatesType ==
    ASSUME NEW d \in Drafts
    PROVE  /\ toPendingCandidates(d.cands) \in Seq(Targets)
           /\ Len(toPendingCandidates(d.cands)) <= Len(d.cands)
  <1>1. d.cands \in Seq(Targets \cup {NoTarget})
    BY AgentAssumption DEF Draft
  <1>2. QED
    BY <1>1, KeepingType

-----------------------------------------------------------------------------
(***************************************************************************)
(* The operations on a session keep its type.                              *)
(***************************************************************************)

LEMMA ConstantTypes ==
    /\ NoKey \in Keys
    /\ NoPlan \notin PendingPlan
    /\ EmptySession \in Session
    /\ NoOp \in Op
    /\ \A p \in PlanIds, i \in Intents : buildIdempotencyKey(p, i) \in Keys
  BY SessionAssumption
  DEF NoKey, Keys, buildIdempotencyKey, Intents, PlanIds, NoPlan, PendingPlan,
      EmptySession, Session, NoOp, OpOf, Op

LEMMA PlanIsPending ==
    ASSUME NEW s \in Session, HasPlan(s)
    PROVE  s.plan \in PendingPlan
  BY DEF Session, HasPlan, NoPlan

LEMMA OpOfType ==
    ASSUME NEW s \in Session
    PROVE  OpOf(s.plan) \in Op
  BY DEF Session, OpOf, Op, PendingPlan, NoPlan, Intents

LEMMA AdoptSenderType ==
    ASSUME NEW s \in Session, NEW from \in Users \cup {NoUser}
    PROVE  AdoptSender(s, from) \in Session
  <1>1. EmptySession \in Session
    BY ConstantTypes
  <1>2. QED
    BY <1>1 DEF AdoptSender, Session

LEMMA HydrateType ==
    ASSUME NEW s \in Session
    PROVE  Hydrate(s) \in Session
  BY DEF Hydrate, Session

LEMMA SetPendingPlanType ==
    ASSUME NEW s \in Session, NEW id \in PlanIds, NEW d \in Drafts
    PROVE  SetPendingPlan(s, id, d) \in Session
  <1>1. d.intent \in Intents /\ d.target \in Targets \cup {NoTarget}
    BY AgentAssumption DEF Draft
  <1>2. toPendingCandidates(d.cands) \in Seq(Targets)
    BY CandidatesType
  <1>3. [id |-> id, intent |-> d.intent, target |-> d.target,
         cands |-> toPendingCandidates(d.cands), key |-> NoKey, msg |-> 0]
           \in PendingPlan
    BY <1>1, <1>2, ConstantTypes DEF PendingPlan
  <1>4. QED
    BY <1>3 DEF SetPendingPlan, Session

LEMMA SetWritePlanType ==
    ASSUME NEW s \in Session, NEW id \in PlanIds, NEW d \in Drafts
    PROVE  SetWritePlan(s, id, d) \in Session
  <1>1. d.intent \in Intents /\ d.target \in Targets \cup {NoTarget}
    BY AgentAssumption DEF Draft
  <1>2. toPendingCandidates(d.cands) \in Seq(Targets)
    BY CandidatesType
  <1>3. [id |-> id, intent |-> d.intent, target |-> d.target,
         cands |-> toPendingCandidates(d.cands),
         key |-> buildIdempotencyKey(id, d.intent), msg |-> 0]
           \in PendingPlan
    BY <1>1, <1>2, ConstantTypes DEF PendingPlan
  <1>4. QED
    BY <1>3 DEF SetWritePlan, SetPendingPlan, Session

LEMMA ClearType ==
    ASSUME NEW s \in Session
    PROVE  ClearPendingPlan(s) \in Session
  BY DEF ClearPendingPlan, Session

LEMMA SelectCandidateType ==
    ASSUME NEW s \in Session, HasPlan(s), NEW i \in 1..Len(s.plan.cands)
    PROVE  SelectCandidate(s, i) \in Session /\ HasPlan(SelectCandidate(s, i))
  <1>1. s.plan \in PendingPlan
    BY PlanIsPending
  <1>2. s.plan.cands[i] \in Targets
    BY <1>1 DEF PendingPlan
  <1>3. DEFINE intent == IF s.plan.intent = "cancel" THEN "cancel" ELSE "create"
  <1>4. intent \in Intents /\ buildIdempotencyKey(s.plan.id, intent) \in Keys
    BY <1>1, ConstantTypes DEF Intents, PendingPlan
  <1>5. [s.plan EXCEPT !.intent = intent, !.target = s.plan.cands[i],
                       !.key = buildIdempotencyKey(s.plan.id, intent)]
           \in PendingPlan
    BY <1>1, <1>2, <1>4 DEF PendingPlan
  <1>6. QED
    BY <1>1, <1>5 DEF SelectCandidate, Session, HasPlan, PendingPlan

LEMMA ClarificationType ==
    ASSUME NEW s \in Session
    PROVE  CountClarification(s) \in Session /\ ResetClarification(s) \in Session
  BY DEF CountClarification, ResetClarification, Session

-----------------------------------------------------------------------------
(***************************************************************************)
(* Types: what a worker knows at each step of its handler.                 *)
(***************************************************************************)

TapsOK ==
    \A u \in sent : u.kind = "tap" =>
        u.button # "none" /\ (u.button = "pick" => u.index # 0)

WorkerOK ==
    /\ w.pc # "idle" => w.upd \in sent
    /\ w.pc \in {"clearkb", "execute", "await"} => HasPlan(w.s)
    /\ w.pc = "send" /\ w.out.kb # "none" => HasPlan(w.s)
    /\ w.pc = "send" /\ w.out.next = "execute" =>
         HasPlan(w.s) /\ w.out.clear = FALSE /\ w.out.kb = "none"
    /\ w.pc = "clearkb" => /\ w.upd.button \in {"cancel", "pick", "confirm"}
                           /\ w.upd.button = "pick" => w.upd.index # 0
                           /\ w.upd.index <= Len(w.s.plan.cands)
    /\ w.after = "send" => /\ w.pc \in {"save", "send", "mark"}
                           /\ w.out = Text("mark")

Typed == TypeOK /\ TapsOK /\ WorkerOK

LEMMA IdleType ==
    Idle \in Worker /\ NoUpdate.from = NoUser /\ Idle.pc = "idle"
      /\ Idle.after = "mark"
  <1>1. Text("mark") \in Reply
    BY DEF Text, Reply
  <1>2. QED
    BY <1>1, ConstantTypes DEF Idle, Worker, PCs, NoUpdate

LEMMA TextType ==
    ASSUME NEW n \in {"interpret", "execute", "save", "mark"}
    PROVE  /\ Text(n) \in Reply
           /\ Text(n).next = n /\ Text(n).kb = "none"
           /\ Text(n).clear = FALSE /\ Text(n).note = "none"
  BY DEF Text, Reply

LEMMA SendType ==
    ASSUME w \in Worker, NEW s \in Session, NEW out \in Reply
    PROVE  /\ Send(s, out) \in Worker
           /\ Send(s, out).pc = "send"
           /\ Send(s, out).s = s
           /\ Send(s, out).out = out
           /\ Send(s, out).upd = w.upd
           /\ Send(s, out).after = w.after
           /\ Send(s, out).run = w.run
  BY DEF Send, Worker, PCs

LEMMA FailType ==
    ASSUME w \in Worker
    PROVE  /\ Fail \in Worker
           /\ Fail.pc = "mark"
           /\ Fail.s = w.s
           /\ Fail.out = w.out
           /\ Fail.upd = w.upd
           /\ Fail.after = w.after
  BY DEF Fail, Worker, PCs

LEMMA PreviewType ==
    ASSUME NEW kb \in Kinds, NEW n \in Nat
    PROVE  /\ Preview(kb, n) \in Reply
           /\ Preview(kb, n).kb = kb
           /\ Preview(kb, n).next = "save"
           /\ Preview(kb, n).clear = FALSE
           /\ Preview(kb, n).note = "none"
  BY DEF Preview, Text, Reply

LEMMA AfterSendType ==
    ASSUME NEW s \in Session, NEW out \in Reply, nextMsg \in Nat,
           out.kb # "none" => HasPlan(s)
    PROVE  /\ AfterSend(s, out) \in Session
           /\ ~out.clear => AfterSend(s, out).plan.id = s.plan.id
  <1>1. CASE out.clear
    BY <1>1, ClearType DEF AfterSend
  <1>2. CASE ~out.clear /\ KeepsMsg(out.kb)
    <2>1. s.plan \in PendingPlan
      BY <1>2, PlanIsPending DEF KeepsMsg
    <2>2. [s.plan EXCEPT !.msg = nextMsg] \in PendingPlan
            /\ [s.plan EXCEPT !.msg = nextMsg].id = s.plan.id
      BY <2>1 DEF PendingPlan
    <2>3. QED
      BY <1>2, <2>2 DEF AfterSend, Session
  <1>3. CASE ~out.clear /\ ~KeepsMsg(out.kb)
    BY <1>3 DEF AfterSend
  <1>4. QED
    BY <1>1, <1>2, <1>3

LEMMA TypedInit == Init => Typed
  <1> SUFFICES ASSUME Init PROVE Typed
    OBVIOUS
  <1>1. TypeOK
    BY ConstantTypes, IdleType, AgentAssumption, SessionAssumption
    DEF Init, TypeOK
  <1>2. TapsOK /\ WorkerOK
    BY IdleType DEF Init, TapsOK, WorkerOK
  <1>3. QED
    BY <1>1, <1>2 DEF Typed

LEMMA TypedIssue ==
    ASSUME Typed, NEW u \in Update, Issue(u),
           u.kind = "tap" =>
             u.button # "none" /\ (u.button = "pick" => u.index # 0)
    PROVE  Typed'
  <1>1. TypeOK'
    BY DEF Typed, TypeOK, Issue, storeVars, screenVars, planVars, backendVars
  <1>2. TapsOK' /\ WorkerOK'
    BY DEF Typed, TapsOK, WorkerOK, Issue
  <1>3. QED
    BY <1>1, <1>2 DEF Typed

LEMMA NoUpdateType ==
    /\ NoUpdate \in [id : Nat, kind : {"message", "tap"},
                     from : Users \cup {NoUser}, plan : PlanIds \cup {0},
                     button : {"none", "confirm", "cancel", "pick", "malformed"},
                     index : Nat, saw : Op, late : BOOLEAN]
    /\ NoUpdate.kind = "message"
  BY ConstantTypes DEF NoUpdate

LEMMA TypedUser ==
    ASSUME Typed, User
    PROVE  Typed'
  <1>1. nextUpd \in Nat
    BY DEF Typed, TypeOK
  <1>2. ASSUME NEW from \in Users \cup {NoUser}, UserWrites(from)
        PROVE  Typed'
    <2>1. [NoUpdate EXCEPT !.id = nextUpd, !.from = from] \in Update
            /\ [NoUpdate EXCEPT !.id = nextUpd, !.from = from].kind = "message"
      BY <1>1, NoUpdateType DEF Update
    <2>2. QED
      BY <1>2, <2>1, TypedIssue DEF UserWrites
  <1>3. ASSUME NEW from \in Users, NEW k \in shown, NEW b \in Buttons(k),
               UserTaps(from, k, b)
        PROVE  Typed'
    <2>1. k \in Keyboard /\ expired \subseteq PlanIds
      BY DEF Typed, TypeOK
    <2>2. \/ b = <<"cancel", 0>>
          \/ b = <<"confirm", 0>>
          \/ \E i \in 1..k.picks : b = <<"pick", i>>
      BY DEF Buttons
    <2>3. b[1] \in {"confirm", "cancel", "pick"} /\ b[2] \in Nat
            /\ (b[1] = "pick" => b[2] # 0)
      BY <2>1, <2>2 DEF Keyboard
    <2>4. DEFINE u == [id |-> nextUpd, kind |-> "tap", from |-> from,
                       plan |-> k.plan, button |-> b[1], index |-> b[2],
                       saw |-> k.op, late |-> k.plan \in expired]
    <2>5. u \in Update
      BY <1>1, <2>1, <2>3 DEF Update, Keyboard
    <2>6. Issue(u)
      BY <1>3 DEF UserTaps
    <2>7. u.button # "none" /\ (u.button = "pick" => u.index # 0)
      BY <2>3
    <2>8. QED
      BY <2>5, <2>6, <2>7, TypedIssue
  <1>4. ASSUME NEW from \in Users, UserTapsForeignButton(from)
        PROVE  Typed'
    <2>1. DEFINE u == [NoUpdate EXCEPT !.id = nextUpd, !.kind = "tap",
                                       !.from = from, !.button = "malformed"]
    <2>2. u \in Update /\ u.button = "malformed"
      BY <1>1, NoUpdateType DEF Update
    <2>3. QED
      BY <1>4, <2>2, TypedIssue DEF UserTapsForeignButton
  <1>5. QED
    BY <1>2, <1>3, <1>4 DEF User

LEMMA TypedEnvironment ==
    ASSUME Typed, Environment
    PROVE  Typed'
  <1>1. ASSUME NEW u \in sent \ inbox, Redeliver(u)
        PROVE  Typed'
    <2>1. TypeOK'
      BY <1>1 DEF Typed, TypeOK, Redeliver, Fault, storeVars, userVars,
                  screenVars, planVars, backendVars
    <2>2. QED
      BY <1>1, <2>1 DEF Typed, TapsOK, WorkerOK, Redeliver, userVars
  <1>2. ASSUME NEW p \in PlanIds, Expire(p)
        PROVE  Typed'
    <2>1. TypeOK'
      BY <1>2 DEF Typed, TypeOK, Expire, storeVars, userVars, screenVars,
                  backendVars
    <2>2. QED
      BY <1>2, <2>1 DEF Typed, TapsOK, WorkerOK, Expire, userVars
  <1>3. ASSUME NEW r \in open, BackendApplies(r) \/ BackendRejects(r)
        PROVE  Typed'
    <2>1. r \in Run
      BY DEF Typed, TypeOK
    <2>2. /\ open' \subseteq open
          /\ applied' \subseteq applied \cup {r} /\ applied \subseteq applied'
          /\ rejected' \subseteq rejected \cup {r}
          /\ effects' \subseteq effects \cup {r}
          /\ effects' = effects \/ r \in applied'
      BY <1>3 DEF BackendApplies, BackendRejects
    <2>3. UNCHANGED <<store, retired, w, inbox, sent, nextUpd, shown, live,
                      nextMsg, told, nextPlan, expired, nextRun, faults>>
      BY <1>3 DEF BackendApplies, BackendRejects, storeVars, userVars,
                  screenVars, planVars
    <2>4. open' \subseteq Run /\ applied' \subseteq Run
            /\ rejected' \subseteq Run /\ effects' \subseteq applied'
      BY <2>1, <2>2 DEF Typed, TypeOK
    <2>5. TypeOK'
      BY <2>3, <2>4 DEF Typed, TypeOK
    <2>6. QED
      BY <2>3, <2>5 DEF Typed, TapsOK, WorkerOK
  <1>4. QED
    BY <1>1, <1>2, <1>3 DEF Environment

LEMMA WriteType ==
    ASSUME TypeOK, NEW s \in Session, Write(s)
    PROVE  store' \in Session /\ retired' \subseteq PlanIds
  <1>1. HasPlan(store) => store.plan.id \in PlanIds
    BY PlanIsPending DEF TypeOK, PendingPlan
  <1>2. QED
    BY <1>1 DEF TypeOK, Write

LEMMA TypedLock ==
    ASSUME Typed, NEW u \in inbox, TakeLock(u)
    PROVE  Typed'
  <1>1. u \in sent /\ u \in Update
    BY DEF Typed, TypeOK
  <1>2. DEFINE v == [Idle EXCEPT !.pc = "load", !.upd = u]
  <1>3. v \in Worker /\ v.pc = "load" /\ v.upd = u /\ v.after = "mark"
    BY <1>1, IdleType DEF Worker, PCs
  <1>4. w' = w \/ w' = v
    BY DEF TakeLock
  <1>5. TypeOK'
    BY <1>3, <1>4 DEF Typed, TypeOK, TakeLock, Fault, Calm, storeVars,
                      userVars, screenVars, planVars, backendVars
  <1>6. TapsOK' /\ WorkerOK'
    BY <1>1, <1>3, <1>4 DEF Typed, TapsOK, WorkerOK, TakeLock, userVars
  <1>7. QED
    BY <1>5, <1>6 DEF Typed

LEMMA TypedMark ==
    ASSUME Typed, MarkUpdateProcessed
    PROVE  Typed'
  <1>1. w.upd \in Update /\ store \in Session
    BY DEF Typed, TypeOK, WorkerOK, MarkUpdateProcessed
  <1>2. [store EXCEPT !.last = w.upd.id] \in Session
    BY <1>1 DEF Session, Update
  <1>3. store' \in Session /\ retired' \subseteq PlanIds
    BY <1>1, <1>2, WriteType
    DEF Typed, TypeOK, MarkUpdateProcessed, storeVars
  <1>4. TypeOK'
    BY <1>3, IdleType
    DEF Typed, TypeOK, MarkUpdateProcessed, Fault, Calm, userVars, screenVars,
        planVars, backendVars
  <1>5. QED
    BY <1>4, IdleType DEF Typed, TapsOK, WorkerOK, MarkUpdateProcessed, userVars

LEMMA TypedStop ==
    ASSUME Typed, WorkerTimeout \/ Crash
    PROVE  Typed'
  <1>1. /\ w' = Idle /\ inbox' \subseteq inbox /\ faults' = faults - 1
        /\ UNCHANGED <<store, retired, sent, nextUpd, shown, live, nextMsg,
                       told, nextPlan, expired, open, applied, rejected,
                       effects, nextRun>>
        /\ faults > 0
    BY DEF WorkerTimeout, Crash, Fault, storeVars, userVars, screenVars,
           planVars, backendVars
  <1>2. TypeOK'
    BY <1>1, IdleType DEF Typed, TypeOK
  <1>3. QED
    BY <1>1, <1>2, IdleType DEF Typed, TapsOK, WorkerOK

\* Most steps of a handler change the worker and no more.
LEMMA TypedWorker ==
    ASSUME Typed, w' \in Worker, WorkerOK', faults' \in Nat,
           UNCHANGED <<storeVars, inbox, userVars, screenVars, planVars,
                       backendVars>>
    PROVE  Typed'
  BY DEF Typed, TypeOK, TapsOK, storeVars, userVars, screenVars, planVars,
         backendVars

LEMMA FaultsType ==
    ASSUME Typed, Calm \/ Fault
    PROVE  faults' \in Nat
  BY DEF Typed, TypeOK, Calm, Fault

LEMMA TypedSendText ==
    ASSUME Typed, SendText
    PROVE  Typed'
  <1>1. w \in Worker /\ w.pc = "send" /\ w.s \in Session /\ w.out \in Reply
    BY DEF Typed, TypeOK, SendText, Worker
  <1>2. w.out.kb # "none" => HasPlan(w.s)
    BY <1>1 DEF Typed, WorkerOK
  <1>3. AfterSend(w.s, w.out) \in Session
          /\ (~w.out.clear => AfterSend(w.s, w.out).plan.id = w.s.plan.id)
    BY <1>1, <1>2, AfterSendType DEF Typed, TypeOK
  <1>4. /\ told' \subseteq Notice /\ shown' \subseteq Keyboard
        /\ live' \subseteq Nat /\ nextMsg' \in Nat
    <2>1. CASE UNCHANGED screenVars
      BY <2>1 DEF Typed, TypeOK, screenVars
    <2>2. CASE Delivered(w.s, w.out)
      <3>1. w.s.plan.id \in PlanIds \cup {0} /\ OpOf(w.s.plan) \in Op
        BY <1>1, OpOfType DEF Session, PendingPlan, NoPlan
      <3>2. told' \subseteq Notice
        <4>1. w.out.note # "none" =>
                [what |-> w.out.note, plan |-> w.s.plan.id,
                 op |-> OpOf(w.s.plan)] \in Notice
          BY <1>1, <3>1 DEF Notice, Reply
        <4>2. QED
          BY <2>2, <4>1 DEF Typed, TypeOK, Delivered
      <3>3. CASE w.out.kb = "none"
        BY <2>2, <3>2, <3>3 DEF Typed, TypeOK, Delivered
      <3>4. CASE w.out.kb # "none"
        <4>1. w.s.plan.id \in PlanIds
          BY <1>1, <1>2, <3>4, PlanIsPending DEF PendingPlan
        <4>2. DEFINE k == [msg |-> nextMsg, plan |-> w.s.plan.id,
                           kind |-> w.out.kb, op |-> OpOf(w.s.plan),
                           picks |-> w.out.picks, user |-> w.s.user]
        <4>3. k \in Keyboard
          BY <1>1, <3>1, <3>4, <4>1
          DEF Typed, TypeOK, Keyboard, Reply, Session
        <4>4. shown' = shown \cup {k} /\ live' = live \cup {nextMsg}
                /\ nextMsg' = nextMsg + 1
          BY <2>2, <3>4 DEF Delivered
        <4> HIDE DEF k
        <4>5. QED
          BY <3>2, <4>3, <4>4 DEF Typed, TypeOK
      <3>5. QED
        BY <3>3, <3>4
    <2>3. QED
      BY <2>1, <2>2 DEF SendText
  <1>5. DEFINE v == [w EXCEPT !.pc = w.out.next, !.s = AfterSend(w.s, w.out)]
  <1>6. /\ v \in Worker /\ v.pc = w.out.next /\ v.out = w.out /\ v.upd = w.upd
        /\ v.s = AfterSend(w.s, w.out) /\ v.after = w.after
    BY <1>1, <1>3 DEF Worker, Reply, PCs
  <1>7. w' = v \/ w' = Fail \/ w' = w
    BY DEF SendText
  <1>8. w' \in Worker
    BY <1>1, <1>6, <1>7, FailType
  <1>9. WorkerOK'
    <2>1. CASE w' = Fail
      BY <1>1, <2>1, FailType DEF Typed, WorkerOK, SendText, userVars
    <2>2. CASE w' = v
      <3>1. w.out.next \in {"interpret", "execute", "save", "mark"}
        BY <1>1 DEF Reply
      <3>2. w.out.next = "execute" => HasPlan(AfterSend(w.s, w.out))
        BY <1>1, <1>3 DEF Typed, WorkerOK, HasPlan
      <3>3. sent' = sent
        BY DEF SendText, userVars
      <3>4. w.after = "send" => /\ w.out = Text("mark")
                                /\ w.out.next = "mark" /\ w.out.kb = "none"
        BY TextType DEF Typed, WorkerOK
      <3>5. w.upd \in sent
        BY <1>1 DEF Typed, WorkerOK
      <3>6. QED
        BY <1>6, <2>2, <3>1, <3>2, <3>3, <3>4, <3>5 DEF WorkerOK
    <2>3. CASE w' = w
      BY <2>3 DEF Typed, WorkerOK, SendText, userVars
    <2>4. QED
      BY <1>7, <2>1, <2>2, <2>3
  <1>10. faults' \in Nat
    BY FaultsType DEF SendText
  <1>11. UNCHANGED <<store, retired, inbox, sent, nextUpd, nextPlan, expired,
                     open, applied, rejected, effects, nextRun>>
    BY DEF SendText, storeVars, userVars, planVars, backendVars
  <1>12. TypeOK'
    BY <1>4, <1>8, <1>10, <1>11 DEF Typed, TypeOK
  <1>13. QED
    BY <1>9, <1>11, <1>12 DEF Typed, TapsOK

LEMMA TypedSave ==
    ASSUME Typed, Save
    PROVE  Typed'
  <1>1. w \in Worker /\ w.pc = "save" /\ w.s \in Session
          /\ w.after \in {"send", "mark"}
    BY DEF Typed, TypeOK, Save, Worker
  <1>2. DEFINE v == [w EXCEPT !.pc = w.after]
  <1>3. /\ v \in Worker /\ v.pc = w.after /\ v.out = w.out /\ v.upd = w.upd
        /\ v.s = w.s /\ v.after = w.after
    BY <1>1 DEF Worker, PCs
  <1>4. w' = v \/ w' = Fail
    BY DEF Save
  <1>5. w' \in Worker
    BY <1>1, <1>3, <1>4, FailType
  <1>6. WorkerOK'
    <2>1. sent' = sent /\ w.upd \in sent
      BY <1>1 DEF Typed, WorkerOK, Save, userVars
    <2>2. w.after = "send" => /\ w.out = Text("mark")
                              /\ w.out.kb = "none" /\ w.out.next = "mark"
      BY TextType DEF Typed, WorkerOK
    <2>3. CASE w' = Fail
      BY <1>1, <2>1, <2>2, <2>3, FailType DEF WorkerOK
    <2>4. CASE w' = v
      BY <1>1, <1>3, <2>1, <2>2, <2>4 DEF WorkerOK
    <2>5. QED
      BY <1>4, <2>3, <2>4
  <1>7. store' \in Session /\ retired' \subseteq PlanIds
    BY <1>1, WriteType DEF Typed, TypeOK, Save, storeVars
  <1>8. faults' \in Nat
    BY FaultsType DEF Save
  <1>9. UNCHANGED <<inbox, sent, nextUpd, shown, live, nextMsg, told, nextPlan,
                    expired, open, applied, rejected, effects, nextRun>>
    BY DEF Save, userVars, screenVars, planVars, backendVars
  <1>10. TypeOK'
    BY <1>5, <1>7, <1>8, <1>9 DEF Typed, TypeOK
  <1>11. QED
    BY <1>6, <1>9, <1>10 DEF Typed, TapsOK

\* The steps a handler is cut into, other than a call to send or save.
Handling == {"load", "interpret", "clearkb", "execute", "await"}

LEMMA InHandler ==
    ASSUME Typed, w.pc \in Handling
    PROVE  /\ w \in Worker /\ w.after = "mark" /\ w.upd \in sent
           /\ w.upd \in Update /\ w.s \in Session /\ w.run \in Run \cup {NoRun}
  BY DEF Typed, TypeOK, WorkerOK, Worker, Handling

LEMMA SendKeepsWorkerOK ==
    ASSUME Typed, w.pc \in Handling, sent' = sent,
           NEW s \in Session, NEW out \in Reply, w' = Send(s, out),
           out.kb # "none" => HasPlan(s),
           out.next = "execute" =>
             HasPlan(s) /\ out.clear = FALSE /\ out.kb = "none"
    PROVE  w' \in Worker /\ WorkerOK'
  BY InHandler, SendType DEF WorkerOK

LEMMA FailKeepsWorkerOK ==
    ASSUME Typed, w.pc \in Handling, sent' = sent, w' = Fail
    PROVE  w' \in Worker /\ WorkerOK'
  BY InHandler, FailType DEF WorkerOK

\* A step that only sends or fails keeps the types.
LEMMA TypedSteps ==
    ASSUME Typed, w.pc \in Handling, Calm \/ Fault,
           UNCHANGED <<storeVars, inbox, userVars, screenVars, planVars,
                       backendVars>>,
           \/ w' = Fail
           \/ \E s \in Session, out \in Reply :
                /\ w' = Send(s, out)
                /\ out.kb # "none" => HasPlan(s)
                /\ out.next = "execute" =>
                     HasPlan(s) /\ out.clear = FALSE /\ out.kb = "none"
    PROVE  Typed'
  <1>1. sent' = sent
    BY DEF userVars
  <1>2. w' \in Worker /\ WorkerOK'
    BY <1>1, SendKeepsWorkerOK, FailKeepsWorkerOK
  <1>3. QED
    BY <1>2, FaultsType, TypedWorker

LEMMA TypedHandleMessage ==
    ASSUME Typed, handleMessage
    PROVE  Typed'
  <1>1. w.pc = "load" /\ w.pc \in Handling
    BY DEF handleMessage, Handling
  <1>2. store \in Session /\ w.upd.from \in Users \cup {NoUser}
    BY <1>1, InHandler DEF Typed, TypeOK, Update
  <1>3. DEFINE s == AdoptSender(store, w.upd.from)
               warning == [Text("interpret") EXCEPT !.note = "cancelled",
                                                    !.clear = TRUE]
               v == [w EXCEPT !.pc = "interpret", !.s = Hydrate(s)]
  <1>4. s \in Session /\ Hydrate(s) \in Session
    BY <1>2, AdoptSenderType, HydrateType
  <1>5. /\ warning \in Reply /\ warning.kb = "none"
        /\ warning.next = "interpret"
    BY DEF Text, Reply, Notices
  <1>6. /\ v \in Worker /\ v.pc = "interpret" /\ v.upd = w.upd
        /\ v.after = w.after
    BY <1>1, <1>4, InHandler DEF Worker, PCs
  <1>7. /\ Calm \/ Fault
        /\ UNCHANGED <<storeVars, inbox, userVars, screenVars, planVars,
                       backendVars>>
        /\ \/ w' = Fail
           \/ w' = Send(s, Text("save"))
           \/ w' = Send(Hydrate(s), warning)
           \/ w' = v
    BY DEF handleMessage
  <1> HIDE DEF s, warning, v
  <1>8. CASE w' = Fail
    BY <1>1, <1>7, <1>8, TypedSteps
  <1>9. CASE w' = Send(s, Text("save"))
    BY <1>1, <1>4, <1>7, <1>9, TextType, TypedSteps
  <1>10. CASE w' = Send(Hydrate(s), warning)
    BY <1>1, <1>4, <1>5, <1>7, <1>10, TypedSteps
  <1>11. CASE w' = v
    <2>1. sent' = sent
      BY <1>7 DEF userVars
    <2>2. WorkerOK'
      BY <1>1, <1>6, <1>11, <2>1, InHandler DEF WorkerOK
    <2>3. QED
      BY <1>6, <1>7, <1>11, <2>2, FaultsType, TypedWorker
  <1>12. QED
    BY <1>7, <1>8, <1>9, <1>10, <1>11

LEMMA TypedInterpretMessage ==
    ASSUME Typed, interpretMessage
    PROVE  Typed'
  <1>1. w.pc \in Handling
    BY DEF interpretMessage, Handling
  <1>2. \E s \in Session : w' = Send(s, Text("save"))
    <2>1. ClearPendingPlan(ResetClarification(w.s)) \in Session
      BY <1>1, InHandler, ClarificationType, ClearType
    <2>2. QED
      BY <1>1, <2>1, InHandler, ClarificationType
      DEF interpretMessage, handleListBookings
  <1>3. Calm /\ UNCHANGED <<storeVars, inbox, userVars, screenVars, planVars,
                            backendVars>>
    BY DEF interpretMessage, Calm
  <1>4. QED
    BY <1>1, <1>2, <1>3, TextType, TypedSteps

\* The identifier of a new plan is one that no plan has.
LEMMA NewPlan ==
    ASSUME Typed, nextPlan <= MaxPlans
    PROVE  /\ generatePlanID \in PlanIds
           /\ nextPlan + 1 \in 1..(MaxPlans + 1)
  BY SessionAssumption DEF Typed, TypeOK, generatePlanID, PlanIds

LEMMA TypedPreview ==
    ASSUME Typed, w.pc \in Handling, nextPlan <= MaxPlans,
           nextPlan' = nextPlan + 1,
           UNCHANGED <<storeVars, inbox, userVars, screenVars, expired,
                       backendVars, faults>>,
           NEW s \in Session, HasPlan(s), NEW out \in Reply,
           w' = Send(s, out), out.next = "save"
    PROVE  Typed'
  <1>1. sent' = sent
    BY DEF userVars
  <1>2. w' \in Worker /\ WorkerOK'
    BY <1>1, SendKeepsWorkerOK
  <1>3. nextPlan' \in 1..(MaxPlans + 1)
    BY NewPlan
  <1>4. QED
    BY <1>2, <1>3 DEF Typed, TypeOK, TapsOK, storeVars, userVars, screenVars,
                      backendVars

LEMMA TypedHandleFindNextSlot ==
    ASSUME Typed, handleFindNextSlot
    PROVE  Typed'
  <1>1. w.pc \in Handling /\ nextPlan <= MaxPlans
    BY DEF handleFindNextSlot, Handling
  <1>2. PICK d \in Drafts :
          w' = Send(SetPendingPlan(ResetClarification(w.s), generatePlanID, d),
                    Preview("slots", Len(d.cands)))
    BY DEF handleFindNextSlot
  <1>3. DEFINE s == SetPendingPlan(ResetClarification(w.s), generatePlanID, d)
  <1>4. s \in Session
    BY <1>1, InHandler, ClarificationType, NewPlan, SetPendingPlanType
  <1>5. s.plan.id = generatePlanID
    BY <1>1, InHandler, ClarificationType DEF SetPendingPlan, Session
  <1>6. HasPlan(s)
    BY <1>1, <1>5, NewPlan DEF HasPlan, PlanIds
  <1>7. Len(d.cands) \in Nat
    BY AgentAssumption DEF Draft
  <1>8. QED
    BY <1>1, <1>2, <1>4, <1>6, <1>7, PreviewType, TypedPreview
    DEF handleFindNextSlot, Kinds

LEMMA TypedHandleWritePreview ==
    ASSUME Typed, handleWritePreview
    PROVE  Typed'
  <1>1. w.pc \in Handling /\ nextPlan <= MaxPlans
    BY DEF handleWritePreview, Handling
  <1>2. PICK d \in Drafts :
          LET s == SetWritePlan(ResetClarification(w.s), generatePlanID, d)
          IN  \/ w' = Send(s, Text("save"))
              \/ w' = Send(s, Preview("slots", Len(d.cands)))
              \/ w' = Send(s, Preview("bookings", Len(d.cands)))
              \/ w' = Send(s, Preview("confirm", 0))
    BY DEF handleWritePreview
  <1>3. DEFINE s == SetWritePlan(ResetClarification(w.s), generatePlanID, d)
  <1>4. s \in Session
    BY <1>1, InHandler, ClarificationType, NewPlan, SetWritePlanType
  <1>5. s.plan.id = generatePlanID
    BY <1>1, InHandler, ClarificationType
    DEF SetWritePlan, SetPendingPlan, Session
  <1>6. HasPlan(s)
    BY <1>1, <1>5, NewPlan DEF HasPlan, PlanIds
  <1>7. Len(d.cands) \in Nat
    BY AgentAssumption DEF Draft
  <1>8. \E out \in Reply : w' = Send(s, out) /\ out.next = "save"
    <2> DEFINE o1 == Text("save")
               o2 == Preview("slots", Len(d.cands))
               o3 == Preview("bookings", Len(d.cands))
               o4 == Preview("confirm", 0)
    <2>1. o1 \in Reply /\ o1.next = "save"
      BY TextType
    <2>2. o2 \in Reply /\ o2.next = "save"
      BY <1>7, PreviewType DEF Kinds
    <2>3. o3 \in Reply /\ o3.next = "save"
      BY <1>7, PreviewType DEF Kinds
    <2>4. o4 \in Reply /\ o4.next = "save"
      BY PreviewType DEF Kinds
    <2>5. \/ w' = Send(s, o1) \/ w' = Send(s, o2)
          \/ w' = Send(s, o3) \/ w' = Send(s, o4)
      BY <1>2
    <2> HIDE DEF o1, o2, o3, o4
    <2>6. QED
      BY <2>1, <2>2, <2>3, <2>4, <2>5
  <1>9. nextPlan' = nextPlan + 1
          /\ UNCHANGED <<storeVars, inbox, userVars, screenVars, expired,
                         backendVars, faults>>
    BY DEF handleWritePreview
  <1> HIDE DEF s
  <1>10. QED
    BY <1>1, <1>4, <1>6, <1>8, <1>9, TypedPreview

\* The outcomes of handleCallback, with the conditions of the last one.
LEMMA CallbackOutcomes ==
    ASSUME Typed, handleCallback
    PROVE  LET s == AdoptSender(store, w.upd.from)
               h == Hydrate(s)
           IN  /\ s \in Session /\ h \in Session
               /\ w.pc = "load" /\ w.upd.kind = "tap"
               /\ Calm \/ Fault
               /\ UNCHANGED <<storeVars, inbox, userVars, screenVars, planVars,
                              backendVars>>
               /\ \/ w' = Fail
                  \/ w' = Send(s, Text("mark"))
                  \/ w' = Send(s, Text("save"))
                  \/ w' = Send(h, Text("mark"))
                  \/ w' = [Send(ClearPendingPlan(h), Text("mark"))
                             EXCEPT !.pc = "save", !.after = "send"]
                  \/ /\ NamesPending(h, w.upd)
                     /\ ~IsPlanExpired(h.plan)
                     /\ w.upd.button # "malformed"
                     /\ w.upd.index <= Len(h.plan.cands)
                     /\ w' = [w EXCEPT !.pc = "clearkb", !.s = h]
  <1>1. w.pc = "load" /\ w.pc \in Handling
    BY DEF handleCallback, Handling
  <1>2. store \in Session /\ w.upd.from \in Users \cup {NoUser}
    BY <1>1, InHandler DEF Typed, TypeOK, Update
  <1>3. AdoptSender(store, w.upd.from) \in Session
    BY <1>2, AdoptSenderType
  <1>4. Hydrate(AdoptSender(store, w.upd.from)) \in Session
    BY <1>3, HydrateType
  <1>5. QED
    BY <1>1, <1>3, <1>4 DEF handleCallback

LEMMA TypedHandleCallback ==
    ASSUME Typed, handleCallback
    PROVE  Typed'
  <1> DEFINE s == AdoptSender(store, w.upd.from)
             h == Hydrate(s)
             x == [Send(ClearPendingPlan(h), Text("mark"))
                     EXCEPT !.pc = "save", !.after = "send"]
             v == [w EXCEPT !.pc = "clearkb", !.s = h]
  <1>1. /\ s \in Session /\ h \in Session
        /\ w.pc = "load" /\ w.upd.kind = "tap"
        /\ Calm \/ Fault
        /\ UNCHANGED <<storeVars, inbox, userVars, screenVars, planVars,
                       backendVars>>
        /\ \/ w' = Fail
           \/ w' = Send(s, Text("mark"))
           \/ w' = Send(s, Text("save"))
           \/ w' = Send(h, Text("mark"))
           \/ w' = x
           \/ /\ NamesPending(h, w.upd)
              /\ w.upd.button # "malformed"
              /\ w.upd.index <= Len(h.plan.cands)
              /\ w' = v
    BY CallbackOutcomes
  <1> HIDE DEF s, h
  <1>2. w.pc \in Handling
    BY <1>1 DEF Handling
  <1>3. sent' = sent /\ w.upd \in sent /\ w \in Worker /\ w.upd \in Update
          /\ w.after = "mark"
    BY <1>1, <1>2, InHandler DEF userVars
  <1>4. CASE \/ w' = Fail
             \/ w' = Send(s, Text("mark"))
             \/ w' = Send(s, Text("save"))
             \/ w' = Send(h, Text("mark"))
    <2>1. /\ Text("mark") \in Reply /\ Text("save") \in Reply
          /\ Text("mark").kb = "none" /\ Text("save").kb = "none"
          /\ Text("mark").next = "mark" /\ Text("save").next = "save"
      BY TextType
    <2>2. QED
      BY <1>1, <1>2, <1>4, <2>1, TypedSteps
  <1>5. CASE w' = x
    <2>1. ClearPendingPlan(h) \in Session
      BY <1>1, ClearType
    <2>2. DEFINE y == Send(ClearPendingPlan(h), Text("mark"))
    <2>3. y \in Worker /\ y.out = Text("mark") /\ y.upd = w.upd
      BY <1>3, <2>1, TextType, SendType
    <2>4. /\ x \in Worker /\ x.pc = "save" /\ x.upd = w.upd
          /\ x.out = Text("mark")
      <3> HIDE DEF y
      <3>1. /\ [y EXCEPT !.pc = "save", !.after = "send"] \in Worker
            /\ [y EXCEPT !.pc = "save", !.after = "send"].pc = "save"
            /\ [y EXCEPT !.pc = "save", !.after = "send"].upd = y.upd
            /\ [y EXCEPT !.pc = "save", !.after = "send"].out = y.out
        BY <2>3 DEF Worker, PCs
      <3>2. QED
        BY <2>3, <3>1 DEF y
    <2> HIDE DEF x
    <2>5. WorkerOK'
      BY <1>3, <1>5, <2>4, TextType DEF WorkerOK
    <2>6. QED
      BY <1>1, <1>5, <2>4, <2>5, FaultsType, TypedWorker
  <1>6. CASE /\ NamesPending(h, w.upd)
             /\ w.upd.button # "malformed"
             /\ w.upd.index <= Len(h.plan.cands)
             /\ w' = v
    <2>1. /\ v \in Worker /\ v.pc = "clearkb" /\ v.upd = w.upd /\ v.s = h
          /\ v.after = w.after
      BY <1>1, <1>3 DEF Worker, PCs
    <2>2. HasPlan(h)
      BY <1>6 DEF NamesPending
    <2>3. /\ w.upd.button \in {"cancel", "pick", "confirm"}
          /\ w.upd.button = "pick" => w.upd.index # 0
      BY <1>1, <1>3, <1>6 DEF Typed, TapsOK, Update
    <2>4. WorkerOK'
      <3> HIDE DEF v
      <3>1. QED
        BY <1>3, <1>6, <2>1, <2>2, <2>3 DEF WorkerOK
    <2>5. QED
      BY <1>1, <1>6, <2>1, <2>4, FaultsType, TypedWorker
  <1>7. QED
    BY <1>1, <1>4, <1>5, <1>6

\* What the buttons lead to.
LEMMA PressedOutcome ==
    ASSUME Typed, w.pc = "clearkb"
    PROVE  \E s \in Session, out \in Reply :
             /\ Pressed(w.upd.button) = Send(s, out)
             /\ out.kb # "none" => HasPlan(s)
             /\ out.next = "execute" =>
                  HasPlan(s) /\ out.clear = FALSE /\ out.kb = "none"
  <1>1. /\ w.pc \in Handling /\ w.s \in Session /\ HasPlan(w.s)
        /\ w.upd.button \in {"cancel", "pick", "confirm"}
        /\ w.upd.button = "pick" => w.upd.index \in 1..Len(w.s.plan.cands)
    <2>1. w.pc \in Handling
      BY DEF Handling
    <2>2. w.s \in Session /\ w.upd \in Update /\ HasPlan(w.s)
      BY <2>1, InHandler DEF Typed, WorkerOK
    <2>3. Len(w.s.plan.cands) \in Nat
      BY <2>2, PlanIsPending DEF PendingPlan
    <2>4. QED
      BY <2>1, <2>2, <2>3 DEF Typed, WorkerOK, Update
  <1>2. CASE w.upd.button = "cancel"
    <2>1. DEFINE o == [Text("save") EXCEPT !.note = "unchanged", !.clear = TRUE]
    <2>2. o \in Reply /\ o.kb = "none" /\ o.next = "save"
      BY DEF Text, Reply, Notices
    <2>3. Pressed(w.upd.button) = Send(w.s, o)
      BY <1>2 DEF Pressed
    <2> HIDE DEF o
    <2>4. QED
      BY <1>1, <2>2, <2>3
  <1>3. CASE w.upd.button = "pick"
    <2>1. SelectCandidate(w.s, w.upd.index) \in Session
            /\ HasPlan(SelectCandidate(w.s, w.upd.index))
      BY <1>1, <1>3, SelectCandidateType
    <2>2. Preview("confirm", 0) \in Reply /\ Preview("confirm", 0).next = "save"
      BY PreviewType DEF Kinds
    <2>3. Pressed(w.upd.button) =
            Send(SelectCandidate(w.s, w.upd.index), Preview("confirm", 0))
      BY <1>3 DEF Pressed
    <2>4. QED
      BY <2>1, <2>2, <2>3
  <1>4. CASE w.upd.button = "confirm"
    <2>1. Pressed(w.upd.button) = Send(w.s, Text("execute"))
      BY <1>4 DEF Pressed
    <2>2. QED
      BY <1>1, <2>1, TextType
  <1>5. QED
    BY <1>1, <1>2, <1>3, <1>4

LEMMA TypedClearPreviewKeyboard ==
    ASSUME Typed, clearPreviewKeyboard
    PROVE  Typed'
  <1>1. w.pc = "clearkb" /\ w.pc \in Handling
    BY DEF clearPreviewKeyboard, Handling
  <1>2. /\ Calm \/ Fault
        /\ live' \subseteq live
        /\ UNCHANGED <<store, retired, inbox, sent, nextUpd, shown, nextMsg,
                       told, nextPlan, expired, open, applied, rejected,
                       effects, nextRun>>
    BY DEF clearPreviewKeyboard, storeVars, userVars, planVars, backendVars
  <1>3. w' \in Worker /\ WorkerOK'
    <2>1. CASE w' = Fail
      BY <1>1, <1>2, <2>1, FailKeepsWorkerOK
    <2>2. CASE w' = Pressed(w.upd.button)
      BY <1>1, <1>2, <2>2, PressedOutcome, SendKeepsWorkerOK
    <2>3. QED
      BY <2>1, <2>2 DEF clearPreviewKeyboard
  <1>4. faults' \in Nat
    BY <1>2, FaultsType
  <1>5. QED
    BY <1>2, <1>3, <1>4 DEF Typed, TypeOK, TapsOK

\* The run that a confirmation makes.
TheRun == [n |-> nextRun, plan |-> w.s.plan.id, key |-> RequestKey(w.s.plan),
           op |-> OpOf(w.s.plan), user |-> w.s.user, upd |-> w.upd.id,
           saw |-> w.upd.saw, late |-> w.upd.late]

LEMMA TheRunType ==
    ASSUME Typed, ExecuteConfirmed
    PROVE  TheRun \in Run
  <1>1. w.pc \in Handling /\ w.pc = "execute" /\ nextRun \in Runs
    BY DEF ExecuteConfirmed, Handling
  <1>2. HasPlan(w.s) /\ w.s \in Session /\ w.upd \in Update
    BY <1>1, InHandler DEF Typed, WorkerOK
  <1>3. w.s.plan \in PendingPlan /\ OpOf(w.s.plan) \in Op
          /\ w.s.user \in Users \cup {NoUser}
    BY <1>2, PlanIsPending, OpOfType DEF Session
  <1>4. QED
    BY <1>1, <1>2, <1>3 DEF TheRun, Run, RequestKey, PendingPlan, Update

\* The answers to the outcomes of an execution.
LEMMA AnswerOutcomes ==
    ASSUME Typed, w.pc \in {"execute", "await"}
    PROVE  \A v \in {Blocked, Policy, Failure, Success} :
             \E out \in Reply : /\ v = Send(w.s, out)
                                /\ out.next \in {"save", "mark"}
                                /\ out.kb # "confirm"
                                /\ out.note = "done" => v = Success
  <1> DEFINE o1 == [Text("save") EXCEPT !.clear = TRUE]
             o2 == Text("mark")
             o3 == [Text("save") EXCEPT !.kb = "retry"]
             o4 == [Text("save") EXCEPT !.note = "done", !.clear = TRUE]
  <1>1. /\ o1 \in Reply /\ o2 \in Reply /\ o3 \in Reply /\ o4 \in Reply
        /\ o1.next = "save" /\ o2.next = "mark"
        /\ o3.next = "save" /\ o4.next = "save"
        /\ o1.kb = "none" /\ o2.kb = "none"
        /\ o3.kb = "retry" /\ o4.kb = "none"
        /\ o1.note = "none" /\ o2.note = "none" /\ o3.note = "none"
    BY DEF Text, Reply, Notices, Kinds
  <1>2. /\ Blocked = Send(w.s, o1) /\ Policy = Send(w.s, o2)
        /\ Failure = Send(w.s, o3) /\ Success = Send(w.s, o4)
    BY DEF Blocked, Policy, Failure, Success
  <1> HIDE DEF o1, o2, o3, o4
  <1>3. QED
    BY <1>1, <1>2

LEMMA AnswerKeepsWorkerOK ==
    ASSUME Typed, w.pc \in {"execute", "await"}, sent' = sent,
           w' \in {Blocked, Policy, Failure, Success}
    PROVE  w' \in Worker /\ WorkerOK'
  <1>1. w.pc \in Handling /\ HasPlan(w.s) /\ w.s \in Session
    BY InHandler DEF Handling, Typed, WorkerOK
  <1>2. PICK out \in Reply : w' = Send(w.s, out) /\ out.next \in {"save", "mark"}
    BY AnswerOutcomes
  <1>3. QED
    BY <1>1, <1>2, SendKeepsWorkerOK

LEMMA TypedExecuteConfirmed ==
    ASSUME Typed, ExecuteConfirmed
    PROVE  Typed'
  <1>1. w.pc = "execute" /\ w.pc \in Handling /\ nextRun \in Nat
    BY DEF ExecuteConfirmed, Handling, Typed, TypeOK
  <1>2. /\ Calm \/ Fault
        /\ UNCHANGED <<store, retired, inbox, sent, nextUpd, shown, live,
                       nextMsg, told, nextPlan, expired, applied, rejected,
                       effects>>
    BY DEF ExecuteConfirmed, storeVars, userVars, screenVars, planVars
  <1> DEFINE v == [w EXCEPT !.pc = "await", !.run = TheRun]
  <1>3. \/ w' \in {Blocked, Failure} /\ UNCHANGED <<open, nextRun>>
        \/ /\ open' = open \cup {TheRun}
           /\ nextRun' = nextRun + 1
           /\ w' = v
    BY DEF ExecuteConfirmed, TheRun
  <1>4. TheRun \in Run
    BY TheRunType
  <1>5. w' \in Worker /\ WorkerOK'
    <2>1. CASE w' \in {Blocked, Failure}
      BY <1>1, <1>2, <2>1, AnswerKeepsWorkerOK
    <2>2. CASE w' = v
      <3>1. /\ v \in Worker /\ v.pc = "await" /\ v.upd = w.upd /\ v.s = w.s
            /\ v.after = w.after
        BY <1>1, <1>4, InHandler DEF Worker, PCs
      <3>2. w.upd \in sent /\ HasPlan(w.s) /\ w.after = "mark"
        BY <1>1, InHandler DEF Typed, WorkerOK
      <3> HIDE DEF v
      <3>3. QED
        BY <1>2, <2>2, <3>1, <3>2 DEF WorkerOK
    <2>3. QED
      BY <1>3, <2>1, <2>2
  <1>6. open' \subseteq Run /\ nextRun' \in Nat
    BY <1>1, <1>3, <1>4 DEF Typed, TypeOK
  <1>7. faults' \in Nat
    BY <1>2, FaultsType
  <1>8. QED
    BY <1>2, <1>5, <1>6, <1>7 DEF Typed, TypeOK, TapsOK

LEMMA TypedAwaitResult ==
    ASSUME Typed, AwaitResult
    PROVE  Typed'
  <1>1. w.pc = "await"
    BY DEF AwaitResult
  <1>2. /\ Calm \/ Fault
        /\ UNCHANGED <<storeVars, inbox, userVars, screenVars, planVars,
                       backendVars>>
    BY DEF AwaitResult
  <1>3. w' \in {Blocked, Policy, Failure, Success}
    BY DEF AwaitResult
  <1>4. QED
    BY <1>1, <1>2, <1>3, AnswerKeepsWorkerOK, FaultsType, TypedWorker
    DEF userVars

LEMMA TypedNext ==
    ASSUME Typed, [Next]_vars
    PROVE  Typed'
  <1>1. CASE User
    BY <1>1, TypedUser
  <1>2. CASE Environment
    BY <1>2, TypedEnvironment
  <1>3. CASE Message
    BY <1>3, TypedHandleMessage, TypedInterpretMessage,
       TypedHandleFindNextSlot, TypedHandleWritePreview DEF Message
  <1>4. CASE Callback
    BY <1>4, TypedHandleCallback, TypedClearPreviewKeyboard,
       TypedExecuteConfirmed, TypedAwaitResult DEF Callback
  <1>5. CASE \E u \in inbox : TakeLock(u)
    BY <1>5, TypedLock
  <1>6. CASE \/ SendText \/ Save \/ MarkUpdateProcessed
             \/ WorkerTimeout \/ Crash
    BY <1>6, TypedSendText, TypedSave, TypedMark, TypedStop
  <1>7. CASE UNCHANGED vars
    BY <1>7 DEF vars, storeVars, userVars, screenVars, planVars, backendVars,
                Typed, TypeOK, TapsOK, WorkerOK
  <1>8. QED
    BY <1>1, <1>2, <1>3, <1>4, <1>5, <1>6, <1>7 DEF Next, Process

LEMMA TypedAlways == Spec => []Typed
  BY TypedInit, TypedNext, PTL DEF Spec

\* Every variable of the bot stays within its type, whatever the users, the
\* network and the process do.
THEOREM TypeCorrect == Spec => []TypeOK
  <1>1. Typed => TypeOK
    BY DEF Typed
  <1>2. QED
    BY <1>1, TypedAlways, PTL
=============================================================================
