------------------------------ MODULE ChatAgent ------------------------------
(***************************************************************************)
(* One chat of the bot: updates accepted by the webhook, the worker that   *)
(* holds the chat's mutex and runs handleMessage or handleCallback on one  *)
(* of them, the session it loads and saves, the keyboards the users see    *)
(* and tap, and the confirmed operations handed to the backend.            *)
(*                                                                         *)
(* A worker is cut into steps at every call that leaves the process and    *)
(* changes something there (Telegram, Redis, the backend): between two     *)
(* steps users tap what is on their screen, plans expire, the backend      *)
(* answers, the worker's context expires or the process crashes.           *)
(*                                                                         *)
(* External: the users and Telegram's delivery, and the backend, taken to  *)
(* apply an operation at most once per idempotency key.                    *)
(***************************************************************************)
EXTENDS ChatSession

CONSTANTS
    Drafts,     \* what interpreting a message and previewing it can yield
    MaxUpdates, \* bound: messages and taps in one behaviour
    MaxFaults   \* bound: faults (lost calls, crashes, redeliveries)

(***************************************************************************)
(* A draft has the intent and target of an interpreted plan with the       *)
(* candidates its preview found: an availability change has neither, a     *)
(* cancellation one target or several candidates, a creation and a search  *)
(* only candidates.                                                        *)
(***************************************************************************)
Draft == [intent : Intents, target : Targets \cup {NoTarget},
          cands : Seq(Targets \cup {NoTarget})]

ASSUME AgentAssumption ==
    /\ Drafts \subseteq Draft
    /\ \A d \in Drafts :
         \/ d.intent = "availability" /\ d.target = NoTarget /\ d.cands = <<>>
         \/ d.intent = "cancel" /\ d.target # NoTarget /\ d.cands = <<>>
         \/ d.intent = "cancel" /\ d.target = NoTarget /\ Len(d.cands) > 1
         \/ d.intent \in {"create", "find"} /\ d.target = NoTarget
    /\ MaxUpdates \in Nat
    /\ MaxFaults \in Nat

VARIABLES
    store,    \* the session in Redis
    w,        \* the worker that holds the chat's lock
    inbox,    \* accepted updates whose goroutine waits for the lock
    sent,     \* every update ever issued
    nextUpd,  \* next update_id
    shown,    \* every keyboard ever displayed
    live,     \* messages whose keyboard can still be tapped
    nextMsg,  \* next message_id
    told,     \* statements made to the users about plans
    nextPlan, \* next plan identifier
    expired,  \* plans older than the plan TTL
    open,     \* operations handed to the backend, not decided yet
    applied,  \* operations the backend answered with success
    rejected, \* operations the backend refused
    effects,  \* operations that took effect
    nextRun,  \* number of the next operation handed over
    retired,  \* plans that were stored and no longer are
    faults    \* faults left

userVars    == <<sent, nextUpd>>
screenVars  == <<shown, live, nextMsg, told>>
planVars    == <<nextPlan, expired>>
backendVars == <<open, applied, rejected, effects, nextRun>>
storeVars   == <<store, retired>>
vars == <<storeVars, w, inbox, userVars, screenVars, planVars, backendVars,
          faults>>

-----------------------------------------------------------------------------
(***************************************************************************)
(* Data.                                                                   *)
(***************************************************************************)

NoOp == OpOf(NoPlan)

Kinds == {"confirm", "slots", "bookings", "retry"}

\* A keyboard: the plan printed on its buttons, what the message above a
\* confirm button says will be done, the number of candidate buttons, and
\* the session's user at that time.
Keyboard == [msg : Nat, plan : PlanIds, kind : Kinds, op : Op, picks : Nat,
             user : Users \cup {NoUser}]

\* The buttons of BuildPreviewKeyboard and buildRetryKeyboard, and of
\* BuildSlotKeyboard and BuildBookingCandidatesKeyboard: a button with its
\* index for each candidate displayed, and one to cancel.
Buttons(k) ==
    {<<"cancel", 0>>} \cup
    IF k.kind \in {"confirm", "retry"} THEN {<<"confirm", 0>>}
                                       ELSE {<<"pick", i>> : i \in 1..k.picks}

\* An update: a message, or a tap with its callback data.  "saw" and "late"
\* say what the tapped message showed and whether the plan had expired.
Update == [id : Nat, kind : {"message", "tap"}, from : Users \cup {NoUser},
           plan : PlanIds \cup {0},
           button : {"none", "confirm", "cancel", "pick", "malformed"},
           index : Nat, saw : Op, late : BOOLEAN]

NoUpdate == [id |-> 0, kind |-> "message", from |-> NoUser, plan |-> 0,
             button |-> "none", index |-> 0, saw |-> NoOp, late |-> FALSE]

\* Bound: each update, delivered again or not, makes one request at most.
Runs == 1..(MaxUpdates + MaxFaults)

\* An operation handed to the backend, and the tap that caused it.
Run == [n : Runs, plan : PlanIds, key : Keys, op : Op,
        user : Users \cup {NoUser}, upd : Nat, saw : Op, late : BOOLEAN]

NoRun == [n |-> 0, plan |-> 0, key |-> NoKey, op |-> NoOp, user |-> NoUser,
          upd |-> 0, saw |-> NoOp, late |-> FALSE]

Notices == {"cancelled", "unchanged", "done"}
Notice == [what : Notices, plan : PlanIds \cup {0}, op : Op]

\* A message to send: the statement it makes, its keyboard with the number
\* of candidates it displays, whether the plan is cleared once it is sent,
\* and the worker's next step.
Reply == [note : Notices \cup {"none"}, kb : Kinds \cup {"none"},
          picks : Nat, clear : BOOLEAN,
          next : {"interpret", "execute", "save", "mark"}]

Text(next) == [note |-> "none", kb |-> "none", picks |-> 0, clear |-> FALSE,
               next |-> next]

PCs == {"idle", "load", "interpret", "send", "clearkb", "execute", "await",
        "save", "mark"}

Worker == [pc : PCs, upd : Update \cup {NoUpdate}, s : Session, out : Reply,
           after : {"send", "mark"}, run : Run \cup {NoRun}]

Idle == [pc |-> "idle", upd |-> NoUpdate, s |-> EmptySession,
         out |-> Text("mark"), after |-> "mark", run |-> NoRun]

runs == open \cup applied \cup rejected

Init ==
    /\ store = EmptySession
    /\ w = Idle
    /\ inbox = {} /\ sent = {} /\ nextUpd = 1
    /\ shown = {} /\ live = {} /\ nextMsg = 1 /\ told = {}
    /\ nextPlan = 1 /\ expired = {}
    /\ open = {} /\ applied = {} /\ rejected = {} /\ effects = {}
    /\ nextRun = 1
    /\ retired = {}
    /\ faults = MaxFaults

Fault == faults > 0 /\ faults' = faults - 1
Calm  == faults' = faults

-----------------------------------------------------------------------------
(***************************************************************************)
(* The users, Telegram and the clock.                                      *)
(***************************************************************************)

Issue(u) ==
    /\ nextUpd <= MaxUpdates
    /\ sent' = sent \cup {u}
    /\ inbox' = inbox \cup {u}
    /\ nextUpd' = nextUpd + 1
    /\ UNCHANGED <<storeVars, w, screenVars, planVars, backendVars, faults>>

UserWrites(from) ==
    Issue([NoUpdate EXCEPT !.id = nextUpd, !.from = from])

\* A tap on a keyboard that is on the screen now; it may be processed after
\* that keyboard is gone.
UserTaps(from, k, b) ==
    /\ k.msg \in live
    /\ Issue([id |-> nextUpd, kind |-> "tap", from |-> from, plan |-> k.plan,
              button |-> b[1], index |-> b[2], saw |-> k.op,
              late |-> k.plan \in expired])

\* A tap on a button printed by an older release, which does not parse.
UserTapsForeignButton(from) ==
    Issue([NoUpdate EXCEPT !.id = nextUpd, !.kind = "tap", !.from = from,
                           !.button = "malformed"])

\* The acknowledgement of an update is lost: Telegram delivers it again.
Redeliver(u) ==
    /\ Fault
    /\ inbox' = inbox \cup {u}
    /\ UNCHANGED <<storeVars, w, userVars, screenVars, planVars, backendVars>>

\* The plan TTL passes.
Expire(p) ==
    /\ p < nextPlan /\ p \notin expired
    /\ expired' = expired \cup {p}
    /\ UNCHANGED <<storeVars, w, inbox, userVars, screenVars, nextPlan,
                   backendVars, faults>>

-----------------------------------------------------------------------------
(***************************************************************************)
(* The worker: lock and deduplication.                                     *)
(***************************************************************************)

\* The session is overwritten in Redis.
Write(s) ==
    /\ store' = s
    /\ retired' = IF HasPlan(store) /\ s.plan.id # store.plan.id
                    THEN retired \cup {store.plan.id} ELSE retired

isDuplicateUpdate(u) == store.last >= u.id

\* A goroutine takes the chat's mutex and reads the session.  A read that
\* fails ends it, with nothing marked.
TakeLock(u) ==
    /\ w.pc = "idle"
    /\ inbox' = inbox \ {u}
    /\ \/ Calm /\ w' = IF isDuplicateUpdate(u)
                         THEN w ELSE [Idle EXCEPT !.pc = "load", !.upd = u]
       \/ Fault /\ w' = w
    /\ UNCHANGED <<storeVars, userVars, screenVars, planVars, backendVars>>

\* Mutant: the mark saves the handler's own copy of the session.
MarkStaleSession ==
    /\ w.pc = "mark"
    /\ w' = Idle
    /\ \/ Calm /\ Write([w.s EXCEPT !.last = w.upd.id])
       \/ Fault /\ UNCHANGED storeVars
    /\ UNCHANGED <<inbox, userVars, screenVars, planVars, backendVars>>

\* The deferred markUpdateProcessed: reads the session again, as the handler
\* may have saved it or not, and stores the update's identifier in it.
MarkUpdateProcessed ==
    /\ w.pc = "mark"
    /\ w' = Idle
    /\ \/ /\ Calm
          /\ Write(IF w.upd.id <= store.last
                     THEN store ELSE [store EXCEPT !.last = w.upd.id])
       \/ Fault /\ UNCHANGED storeVars
    /\ UNCHANGED <<inbox, userVars, screenVars, planVars, backendVars>>

\* The worker's context expires: every call it still makes fails at once,
\* the deferred mark included.
WorkerTimeout ==
    /\ w.pc # "idle"
    /\ Fault
    /\ w' = Idle
    /\ UNCHANGED <<storeVars, inbox, userVars, screenVars, planVars,
                   backendVars>>

\* The process stops (main does not wait for its workers) and is restarted.
Crash ==
    /\ w.pc # "idle" \/ inbox # {}
    /\ Fault
    /\ w' = Idle
    /\ inbox' = {}
    /\ UNCHANGED <<storeVars, userVars, screenVars, planVars, backendVars>>

-----------------------------------------------------------------------------
(***************************************************************************)
(* The worker: Telegram and Redis calls.                                   *)
(***************************************************************************)

\* The worker goes on to send a message.
Send(s, out) == [w EXCEPT !.pc = "send", !.s = s, !.out = out]

\* A handler step returns an error: what was changed in memory is dropped.
Fail == [w EXCEPT !.pc = "mark"]

\* The previews whose message_id is kept in PreviewMsgID.
KeepsMsg(kb) == kb \in {"confirm", "slots", "bookings"}

Delivered(s, out) ==
    /\ told' = IF out.note = "none" THEN told
               ELSE told \cup {[what |-> out.note, plan |-> s.plan.id,
                                op |-> OpOf(s.plan)]}
    /\ IF out.kb = "none"
         THEN UNCHANGED <<shown, live, nextMsg>>
         ELSE /\ shown' = shown \cup
                   {[msg |-> nextMsg, plan |-> s.plan.id, kind |-> out.kb,
                     op |-> OpOf(s.plan), picks |-> out.picks,
                     user |-> s.user]}
              /\ live' = live \cup {nextMsg}
              /\ nextMsg' = nextMsg + 1

\* Mutant: an answered plan stays pending.
AfterSendKeepsPlan(s, out) ==
    IF KeepsMsg(out.kb) THEN [s EXCEPT !.plan.msg = nextMsg] ELSE s

AfterSend(s, out) ==
    IF out.clear THEN ClearPendingPlan(s)
    ELSE IF KeepsMsg(out.kb) THEN [s EXCEPT !.plan.msg = nextMsg] ELSE s

\* SendText and Finalize.  A failed call may have been delivered; when the
\* edit of a progress message fails, the text is sent again as a new one.
SendText ==
    /\ w.pc = "send"
    /\ \/ /\ Calm
          /\ Delivered(w.s, w.out)
          /\ w' = [w EXCEPT !.pc = w.out.next, !.s = AfterSend(w.s, w.out)]
       \/ /\ Fault
          /\ Delivered(w.s, w.out) \/ UNCHANGED screenVars
          /\ w' \in {Fail, w}
    /\ UNCHANGED <<storeVars, inbox, userVars, planVars, backendVars>>

\* store.Save.  A failed call may have been carried out.
Save ==
    /\ w.pc = "save"
    /\ \/ Calm /\ Write(w.s) /\ w' = [w EXCEPT !.pc = w.after]
       \/ Fault /\ (Write(w.s) \/ UNCHANGED storeVars) /\ w' = Fail
    /\ UNCHANGED <<inbox, userVars, screenVars, planVars, backendVars>>

-----------------------------------------------------------------------------
(***************************************************************************)
(* handleMessage.                                                          *)
(***************************************************************************)

\* Up to the warning: load, take the sender over, ask for the provider if
\* it is not known, show "typing", and say that the pending plan is dropped.
handleMessage ==
    /\ w.pc = "load" /\ w.upd.kind = "message"
    /\ LET s == AdoptSender(store, w.upd.from)
           warning == [Text("interpret") EXCEPT !.note = "cancelled",
                                                !.clear = TRUE]
       IN  \/ Fault /\ w' = Fail
           \/ /\ Calm
              /\ \/ s.user = NoUser \/ ~s.hydrated
                 /\ w' = Send(s, Text("save"))
              \/ /\ Calm
                 /\ s.user # NoUser
                 /\ w' = IF HasPlan(s)
                           THEN Send(Hydrate(s), warning)
                           ELSE [w EXCEPT !.pc = "interpret", !.s = Hydrate(s)]
    /\ UNCHANGED <<storeVars, inbox, userVars, screenVars, planVars,
                   backendVars>>

\* A list of bookings, or an answer without a plan: the plan is gone since
\* the warning, so clearing it again changes nothing.  handleFindNextSlot and
\* handleWritePreview answer a failed provider call in the same way.
handleListBookings ==
    Send(ClearPendingPlan(ResetClarification(w.s)), Text("save"))

\* The interpreter fails, asks a question, or finds an intent that leaves no
\* plan pending.
interpretMessage ==
    /\ w.pc = "interpret"
    /\ w' \in {Send(w.s, Text("save")),
                Send(CountClarification(w.s), Text("save")),
                handleListBookings}
    /\ UNCHANGED <<storeVars, inbox, userVars, screenVars, planVars,
                   backendVars, faults>>

\* Mutant: plan identifiers repeat.
generatePlanIDTwice == 1

\* Random, so never used before.
generatePlanID == nextPlan

Preview(kb, picks) == [Text("save") EXCEPT !.kb = kb, !.picks = picks]

\* handleFindNextSlot: slots to pick from, under a plan without a key.
handleFindNextSlot ==
    /\ w.pc = "interpret"
    /\ nextPlan <= MaxPlans
    /\ \E d \in Drafts :
         /\ d.intent = "find"
         /\ w' = Send(SetPendingPlan(ResetClarification(w.s),
                                     generatePlanID, d),
                      Preview("slots", Len(d.cands)))
    /\ nextPlan' = nextPlan + 1
    /\ UNCHANGED <<storeVars, inbox, userVars, screenVars, expired,
                   backendVars, faults>>

\* handleWritePreview: a creation without a slot is answered with a text and
\* leaves a plan no button names; a creation, or a cancellation with several
\* candidates, offers them; the rest asks for confirmation.
handleWritePreview ==
    /\ w.pc = "interpret"
    /\ nextPlan <= MaxPlans
    /\ \E d \in Drafts :
         LET s == SetWritePlan(ResetClarification(w.s), generatePlanID, d)
         IN  /\ d.intent # "find"
             /\ w' = IF d.intent = "create"
                       THEN Send(s, IF d.cands = <<>> THEN Text("save")
                                     ELSE Preview("slots", Len(d.cands)))
                     ELSE IF d.cands # <<>>
                       THEN Send(s, Preview("bookings", Len(d.cands)))
                     ELSE Send(s, Preview("confirm", 0))
    /\ nextPlan' = nextPlan + 1
    /\ UNCHANGED <<storeVars, inbox, userVars, screenVars, expired,
                   backendVars, faults>>

-----------------------------------------------------------------------------
(***************************************************************************)
(* handleCallback.                                                         *)
(***************************************************************************)

\* Mutant: any pending plan will do.
NamesAnyPending(s, u) == HasPlan(s)

\* The callback's data names the pending plan of the session.
NamesPending(s, u) == HasPlan(s) /\ s.plan.id = u.plan

\* Mutant: a plan with a picked candidate no longer expires.
IsPlanExpiredUnlessPicked(plan) ==
    plan.id \in expired /\ plan.target = NoTarget

IsPlanExpired(plan) == plan.id \in expired

\* Up to the switch on the button: a stale tap is answered without a save,
\* so the sender it took over is forgotten; an expired plan is dropped.
handleCallback ==
    /\ w.pc = "load" /\ w.upd.kind = "tap"
    /\ LET u == w.upd
           s == AdoptSender(store, u.from)
           h == Hydrate(s)
       IN  \/ Calm /\ u.button = "malformed" /\ w' = Send(s, Text("mark"))
           \/ Fault /\ u.button # "malformed" /\ w' = Fail
           \/ /\ Calm
              /\ u.button # "malformed"
              /\ \/ ~s.hydrated /\ w' = Send(s, Text("save"))
                 \/ /\ ~NamesPending(h, u)
                    /\ w' = Send(h, Text("mark"))
                 \/ /\ NamesPending(h, u)
                    /\ IsPlanExpired(h.plan)
                    /\ w' = [Send(ClearPendingPlan(h), Text("mark"))
                               EXCEPT !.pc = "save", !.after = "send"]
                 \/ /\ NamesPending(h, u)
                    /\ ~IsPlanExpired(h.plan)
                    /\ u.index > Len(h.plan.cands)
                    /\ w' = Send(h, Text("mark"))
                 \/ /\ NamesPending(h, u)
                    /\ ~IsPlanExpired(h.plan)
                    /\ u.index <= Len(h.plan.cands)
                    /\ w' = [w EXCEPT !.pc = "clearkb", !.s = h]
    /\ UNCHANGED <<storeVars, inbox, userVars, screenVars, planVars,
                   backendVars>>

\* What each button does once the keyboard of the latest preview is gone:
\* the cancel case, handleSlotSelection and handleBookingSelection, and
\* handleConfirm.
Pressed(button) ==
    CASE button = "cancel"  -> Send(w.s, [Text("save") EXCEPT
                                            !.note = "unchanged",
                                            !.clear = TRUE])
      [] button = "pick"    -> Send(SelectCandidate(w.s, w.upd.index),
                                    Preview("confirm", 0))
      [] button = "confirm" -> Send(w.s, Text("execute"))

\* clearPreviewKeyboard removes the buttons of the message in PreviewMsgID;
\* "message is not modified" is a success.
clearPreviewKeyboard ==
    /\ w.pc = "clearkb"
    /\ \/ Calm /\ live' = live \ {w.s.plan.msg} /\ w' = Pressed(w.upd.button)
       \/ Fault /\ live' \in {live, live \ {w.s.plan.msg}} /\ w' = Fail
    /\ UNCHANGED <<storeVars, inbox, userVars, shown, nextMsg, told, planVars,
                   backendVars>>

-----------------------------------------------------------------------------
(***************************************************************************)
(* handleConfirm and ExecuteConfirmed.                                     *)
(***************************************************************************)

\* The answers to the outcomes of ExecuteConfirmed.  A policy violation
\* returns without a save, an error keeps the plan and offers to retry.
Blocked  == Send(w.s, [Text("save") EXCEPT !.clear = TRUE])
Policy   == Send(w.s, Text("mark"))
Failure  == Send(w.s, [Text("save") EXCEPT !.kb = "retry"])
Success  == Send(w.s, [Text("save") EXCEPT !.note = "done", !.clear = TRUE])

\* Intents the executor has a request for; a cancellation needs a booking.
HasRequest(plan) ==
    \/ plan.intent = "availability"
    \/ plan.intent = "cancel" /\ plan.target # NoTarget

\* Mutant: a new key for every request.
FreshRequestKey(plan) == buildIdempotencyKey(nextRun, plan.intent)

\* The Idempotency-Key of the request (":commit" added for a schedule).
RequestKey(plan) == plan.key

\* ExecuteConfirmed up to the request, which carries the session's user and
\* the plan's key.  A request that fails may have reached the backend.
ExecuteConfirmed ==
    /\ w.pc = "execute"
    /\ nextRun \in Runs
    /\ LET plan == w.s.plan
           run  == [n |-> nextRun, plan |-> plan.id, key |-> RequestKey(plan),
                    op |-> OpOf(plan), user |-> w.s.user, upd |-> w.upd.id,
                    saw |-> w.upd.saw, late |-> w.upd.late]
       IN  \/ /\ plan.intent = "create"
              /\ Calm /\ w' = Blocked
              /\ UNCHANGED <<open, nextRun>>
           \/ /\ plan.intent # "create"
              /\ ~HasRequest(plan) \/ plan.intent = "availability"
              /\ Calm /\ w' = Failure
              /\ UNCHANGED <<open, nextRun>>
           \/ /\ HasRequest(plan)
              /\ Calm
              /\ open' = open \cup {run}
              /\ nextRun' = nextRun + 1
              /\ w' = [w EXCEPT !.pc = "await", !.run = run]
           \/ /\ HasRequest(plan)
              /\ Fault /\ w' = Failure
              /\ UNCHANGED <<open, nextRun>>
    /\ UNCHANGED <<storeVars, inbox, userVars, screenVars, planVars, applied,
                   rejected, effects>>

\* Mutant: a run that was not refused is taken to have completed.
CompletedUnlessRejected(r) == r \notin rejected

\* The run's status says that it completed.
Completed(r) == r \in applied

\* The answer arrives, or (a fault) the wait ends without it.
AwaitResult ==
    /\ w.pc = "await"
    /\ \/ Calm /\ Completed(w.run) /\ w' = Success
       \/ Calm /\ w.run \in rejected
          /\ w' \in IF w.run.op.intent = "cancel" THEN {Policy, Failure}
                                                  ELSE {Failure}
       \/ Fault /\ w' = Failure
    /\ UNCHANGED <<storeVars, inbox, userVars, screenVars, planVars,
                   backendVars>>

\* The backend carries out an operation, or repeats the answer it gave to an
\* earlier one with the same idempotency key.
BackendApplies(r) ==
    /\ open' = open \ {r}
    /\ applied' = applied \cup {r}
    /\ effects' = IF \E e \in effects : e.key = r.key
                    THEN effects ELSE effects \cup {r}
    /\ UNCHANGED <<storeVars, w, inbox, userVars, screenVars, planVars,
                   rejected, nextRun, faults>>

BackendRejects(r) ==
    /\ open' = open \ {r}
    /\ rejected' = rejected \cup {r}
    /\ UNCHANGED <<storeVars, w, inbox, userVars, screenVars, planVars,
                   applied, effects, nextRun, faults>>

-----------------------------------------------------------------------------
User ==
    \/ \E from \in Users \cup {NoUser} : UserWrites(from)
    \/ \E from \in Users, k \in shown :
         \E b \in Buttons(k) : UserTaps(from, k, b)
    \/ \E from \in Users : UserTapsForeignButton(from)

Environment ==
    \/ \E u \in sent \ inbox : Redeliver(u)
    \/ \E p \in PlanIds : Expire(p)
    \/ \E r \in open : BackendApplies(r) \/ BackendRejects(r)

Message == handleMessage \/ interpretMessage \/ handleFindNextSlot
             \/ handleWritePreview

Callback == handleCallback \/ clearPreviewKeyboard \/ ExecuteConfirmed
              \/ AwaitResult

Process ==
    \/ \E u \in inbox : TakeLock(u)
    \/ Message \/ Callback
    \/ SendText \/ Save \/ MarkUpdateProcessed
    \/ WorkerTimeout \/ Crash

Next == User \/ Environment \/ Process

Spec == Init /\ [][Next]_vars

-----------------------------------------------------------------------------
(***************************************************************************)
(* Properties.                                                             *)
(***************************************************************************)

\* Every variable stays within its type.
TypeOK ==
    /\ store \in Session
    /\ w \in Worker
    /\ sent \subseteq Update /\ inbox \subseteq sent /\ nextUpd \in Nat
    /\ shown \subseteq Keyboard /\ live \subseteq Nat /\ nextMsg \in Nat
    /\ told \subseteq Notice
    /\ nextPlan \in 1..(MaxPlans + 1) /\ expired \subseteq PlanIds
    /\ open \subseteq Run /\ applied \subseteq Run /\ rejected \subseteq Run
    /\ effects \subseteq applied /\ nextRun \in Nat
    /\ retired \subseteq PlanIds
    /\ faults \in Nat

\* Nothing is handed to the backend that was not previewed, with a button to
\* apply it, to the user it is executed for, and whose plan that same user
\* did not confirm: handleConfirm executes the stored plan with the
\* session's user, whatever was picked, who wrote or tapped in between and
\* which calls failed.
Previewed(r) ==
    \E k \in shown : /\ k.kind = "confirm" /\ k.plan = r.plan
                     /\ k.op = r.op /\ k.user = r.user
Confirmed(r) ==
    \E u \in sent : /\ u.id = r.upd /\ u.button = "confirm"
                    /\ u.plan = r.plan /\ u.from = r.user
RunsAreConsented == \A r \in runs : Previewed(r) /\ Confirmed(r)

\* A plan takes effect at most once, however often it is confirmed, retried
\* or redelivered: every request made for it carries the same key.
OneEffectPerPlan == \A e, f \in effects : e.plan = f.plan => e = f

\* A confirmation given after the plan TTL never executes anything, whatever
\* was stored or picked since.
LateConfirmNeverRuns == \A r \in runs : ~r.late

\* "Done" is said of a plan only when the backend has carried out an operation
\* of it.
DoneMeansEffect ==
    \A t \in told : t.what = "done" => \E e \in effects : e.plan = t.plan

\* A plan dropped from the stored session never comes back, neither by a
\* worker's save nor by the mark that follows a failed one.
RetiredStaysRetired == store.plan.id \notin retired

\* A request is made only for the plan stored at that moment, with the key
\* and the operation stored with it before.
RunIsOfStoredPlan ==
    [][\A r \in open' \ open : /\ r.plan = store.plan.id
                               /\ r.key = store.plan.key
                               /\ r.op = OpOf(store.plan)]_vars

\* The update that was processed last is never forgotten by a later save.
LastProcessedGrows == [][store'.last >= store.last]_vars

\* As long as no call has failed: once the user is told that the request was
\* cancelled or that nothing was changed, nothing of that plan is or will be
\* executed, whatever is tapped on the keyboards that still show it.
NoFaultYet == faults = MaxFaults
PromisesKept ==
    NoFaultYet =>
        \A t \in told : t.what # "done" =>
            \A r \in open \cup effects : r.plan # t.plan

\* The operation of which "done" is said took effect, and not another one of
\* the same plan: README.md:94 gives every confirmed operation a key of its
\* own, and handleConfirm reports the answer to that key as that operation's.
DoneIsTrue ==
    \A t \in told : t.what = "done" =>
        \E e \in effects : e.plan = t.plan /\ e.op = t.op

\* What is executed is what the message under the tapped button showed.
ExecutesWhatWasTapped == \A r \in runs : r.op = r.saw

\* The confirmation flow implements ConfirmGate.
Part(r) == [plan |-> r.plan, op |-> r.op, user |-> r.user]
Handover(r) == [offer |-> Part(r), request |-> r.n]

Gate == INSTANCE ConfirmGate WITH
    Plans <- PlanIds, Operations <- Op, People <- Users, Requests <- Runs,
    offered <- {Part(k) : k \in {k \in shown : k.kind = "confirm"}},
    confirmed <- {Handover(r) : r \in runs},
    closed <- retired,
    done <- {Handover(e) : e \in effects}

GateSpec == Gate!Spec
=============================================================================
