----------------------------- MODULE ChatSession -----------------------------
(***************************************************************************)
(* The per-chat session kept in Redis (internal/session) and the helpers   *)
(* the bot applies to it (internal/bot/sessions.go).  A pure module: the   *)
(* handlers that load, change and save a session are in ChatAgent.         *)
(*                                                                         *)
(* Abstractions.  ProviderID and Timezone are one flag, "hydrated" (both   *)
(* are non-empty).  The dialog history, of no consequence to what is       *)
(* executed, is left out.  A booking or slot is a member of Targets, or    *)
(* NoTarget when the backend gave it no identifier.                        *)
(***************************************************************************)
EXTENDS Naturals, Sequences

CONSTANTS
    Users,      \* Telegram accounts (positive from.id values)
    NoUser,     \* from.id = 0, and the user of a session never used
    Targets,    \* bookings that can be cancelled, slots that can be picked
    NoTarget,   \* no booking_id / slot_id in the plan's parameters
    MaxPlans    \* bound: plans previewed in one behaviour

ASSUME SessionAssumption ==
    /\ NoUser \notin Users
    /\ NoTarget \notin Targets
    /\ MaxPlans \in Nat

(***************************************************************************)
(* "availability" stands for set_working_hours, add_break and close_range, *)
(* which the bot and the executor treat alike.                             *)
(***************************************************************************)
Intents == {"availability", "cancel", "create", "find"}

\* What a plan would do if it were executed.
Op == [intent : Intents, target : Targets \cup {NoTarget}]

PlanIds == 1..MaxPlans

\* SHA-256(chat_id:plan_id:intent), injective; the chat is fixed.
buildIdempotencyKey(planId, intent) == [plan |-> planId, intent |-> intent]
Keys == [plan : PlanIds \cup {0}, intent : Intents]

\* The empty key SetPendingPlan stores for find_next_slot.
NoKey == buildIdempotencyKey(0, "find")

(***************************************************************************)
(* session.PendingPlan: the identifier printed on its buttons, the intent  *)
(* and target of its ActionPlan, the stored candidates, the idempotency    *)
(* key and the message that shows the latest preview (0: none).            *)
(***************************************************************************)
PendingPlan ==
    [id : PlanIds, intent : Intents, target : Targets \cup {NoTarget},
     cands : Seq(Targets), key : Keys, msg : Nat]

\* PendingPlan = nil.
NoPlan == [id |-> 0, intent |-> "find", target |-> NoTarget,
           cands |-> <<>>, key |-> NoKey, msg |-> 0]

Session ==
    [user : Users \cup {NoUser}, hydrated : BOOLEAN,
     plan : PendingPlan \cup {NoPlan}, clar : 0..1, last : Nat]

\* What Get returns for a chat with no stored session.
EmptySession == [user |-> NoUser, hydrated |-> FALSE, plan |-> NoPlan,
                 clar |-> 0, last |-> 0]

HasPlan(s) == s.plan.id # 0

OpOf(plan) == [intent |-> plan.intent, target |-> plan.target]

\* Mutants: the update processed last goes with the rest of the session;
\* the pending plan does not.
AdoptSenderForgetsLast(s, from) ==
    IF s.user # NoUser /\ s.user # from
      THEN [EmptySession EXCEPT !.user = from]
      ELSE [s EXCEPT !.user = from]
AdoptSenderKeepsPlan(s, from) ==
    IF s.user # NoUser /\ s.user # from
      THEN [EmptySession EXCEPT !.user = from, !.last = s.last,
                                !.plan = s.plan]
      ELSE [s EXCEPT !.user = from]

\* The message or the tap comes from a user other than the session's: what
\* belongs to that user is dropped, and the sender becomes the user.
AdoptSender(s, from) ==
    IF s.user # NoUser /\ s.user # from
      THEN [EmptySession EXCEPT !.user = from, !.last = s.last]
      ELSE [s EXCEPT !.user = from]

Hydrate(s) == [s EXCEPT !.hydrated = TRUE]

\* toPendingSlotCandidates and toPendingBookingCandidates skip a candidate
\* without an identifier: out[i] is what they keep of the first i.
KeepOne(out, t) == IF t = NoTarget THEN out ELSE Append(out, t)
Keeping(cands) ==
    LET out[i \in 0..Len(cands)] ==
          IF i = 0 THEN <<>> ELSE KeepOne(out[i - 1], cands[i])
    IN  out

toPendingCandidates(cands) == Keeping(cands)[Len(cands)]

SetPendingPlan(s, id, draft) ==
    [s EXCEPT !.plan = [id |-> id, intent |-> draft.intent,
                        target |-> draft.target,
                        cands |-> toPendingCandidates(draft.cands),
                        key |-> NoKey, msg |-> 0]]

\* handleWritePreview adds the key; handleFindNextSlot leaves it empty.
SetWritePlan(s, id, draft) ==
    [SetPendingPlan(s, id, draft) EXCEPT
       !.plan.key = buildIdempotencyKey(id, draft.intent)]

ClearPendingPlan(s) == [s EXCEPT !.plan = NoPlan]

(***************************************************************************)
(* The i-th candidate is picked: a slot turns the plan into                *)
(* create_booking, a booking into cancel_booking.  The plan keeps its      *)
(* identifier and its candidates, and the key is computed from the         *)
(* identifier and the intent alone.                                        *)
(***************************************************************************)
SelectCandidate(s, i) ==
    LET intent == IF s.plan.intent = "cancel" THEN "cancel" ELSE "create"
    IN  [s EXCEPT !.plan.intent = intent,
                  !.plan.target = s.plan.cands[i],
                  !.plan.key = buildIdempotencyKey(s.plan.id, intent)]

\* Mutant: the second question does not reset the count.
CountClarificationForever(s) == [s EXCEPT !.clar = s.clar + 1]

\* ClarificationCount goes back to 0 at the second question in a row.
CountClarification(s) ==
    [s EXCEPT !.clar = IF s.clar + 1 >= 2 THEN 0 ELSE s.clar + 1]

ResetClarification(s) == [s EXCEPT !.clar = 0]
=============================================================================
