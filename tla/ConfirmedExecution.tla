-------------------------- MODULE ConfirmedExecution --------------------------
(***************************************************************************)
(* The executions of one confirmed plan, one after the other (a plan that  *)
(* stays pending can be confirmed again): ExecuteConfirmed, the ACP runner *)
(* that submits a run and polls it, and the direct request that replaces   *)
(* the run for availability changes and after a contract mismatch.         *)
(* ChatAgent has all this as one request and its answer.                   *)
(*                                                                         *)
(* External, from how src/ uses them: TON-ACP, which keeps one run per     *)
(* idempotency key and carries it out in the background, and the Bookably  *)
(* API, which applies a request at most once per Idempotency-Key.          *)
(***************************************************************************)
EXTENDS Naturals

CONSTANTS
    MaxAttempts, \* bound: confirmations of the plan
    MaxFaults    \* bound: lost requests and answers, duplicates

ASSUME ExecutionAssumption == MaxAttempts \in Nat /\ MaxFaults \in Nat

VARIABLES
    intent,   \* the plan's intent
    complete, \* its parameters name what to change
    attempt,  \* number of the execution
    pc,       \* its next step
    failure,  \* why the run failed, while the direct request is tried
    answers,  \* verdicts given so far
    run,      \* per idempotency key, the run ACP keeps for it
    wire,     \* requests on their way to the Bookably API
    replies,  \* its answers
    effects,  \* requests that changed something
    faults    \* faults left

client == <<attempt, pc, failure, answers>>
vars == <<intent, complete, client, run, wire, replies, effects, faults>>

Attempts == 1..MaxAttempts
Intents  == {"availability", "cancel", "create", "find"}

\* The plan's idempotency key is 0; other keys would be an execution's own.
Keys == 0..MaxAttempts

Verdicts == {"success", "blocked", "policy", "transient", "error"}

\* classifyRunFailure: conflict, validation, not found, unauthorized and
\* forbidden are "refused", the other classes end in a retryable upstream
\* error.  "contract" failures say that agent_id or policy_contract_addr
\* must not be empty; the code in front of that text may be any.
Classes == {"policy", "refused", "upstream"}
Failure == [class : Classes, contract : BOOLEAN]

NoFailure == [class |-> "refused", contract |-> FALSE]

Run == [status : {"none", "pending", "running", "completed", "failed"},
        failure : Failure]
NoRun == [status |-> "none", failure |-> NoFailure]

\* A request to the Bookably API, and whether ACP or the bot made it.
Request == [key : Keys, via : {"acp", "direct"}, attempt : Attempts]
Reply   == [to : Request, ok : BOOLEAN]

PCs == {"idle", "submit", "poll", "direct"}

TypeOK ==
    /\ intent \in Intents /\ complete \in BOOLEAN
    /\ attempt \in 0..MaxAttempts /\ pc \in PCs
    /\ failure \in Failure /\ answers \subseteq Verdicts
    /\ run \in [Keys -> Run]
    /\ wire \subseteq Request /\ replies \subseteq Reply
    /\ effects \subseteq Request
    /\ faults \in 0..MaxFaults

Init ==
    /\ intent \in Intents /\ complete \in BOOLEAN
    /\ attempt = 0 /\ pc = "idle" /\ failure = NoFailure /\ answers = {}
    /\ run = [k \in Keys |-> NoRun]
    /\ wire = {} /\ replies = {} /\ effects = {}
    /\ faults = MaxFaults

Fault == faults > 0 /\ faults' = faults - 1
Calm  == faults' = faults

-----------------------------------------------------------------------------
(***************************************************************************)
(* The bot.                                                                *)
(***************************************************************************)

RunKey == 0

\* Mutant: the direct request has a key of its own.
DirectKeyPerAttempt == attempt

DirectKey == 0

Return(verdict) ==
    /\ pc' = "idle"
    /\ answers' = answers \cup {verdict}
    /\ failure' = NoFailure

\* Mutant: the class of the failure is passed on as it is.
VerdictIsClass(f) == f.class

VerdictOf(f) == CASE f.class = "policy"   -> "policy"
                  [] f.class = "upstream" -> "transient"
                  [] f.class = "refused"  -> "error"

\* Mutant: whatever ACP has no run for is written directly.
directFirstUnlessCancel == intent # "cancel"

shouldExecuteDirectFirst == intent = "availability"
canDirectExecute == intent \in {"availability", "cancel"}

executeDirectBookably(n) ==
    wire' = wire \cup {[key |-> DirectKey, via |-> "direct", attempt |-> n]}

\* Up to the first request: availability changes are written directly, a
\* creation is blocked, a plan without parameters or a search is an error.
ExecuteConfirmed ==
    /\ pc = "idle"
    /\ attempt < MaxAttempts
    /\ attempt' = attempt + 1
    /\ \/ /\ complete /\ shouldExecuteDirectFirst
          /\ pc' = "direct"
          /\ executeDirectBookably(attempt')
          /\ UNCHANGED <<answers, failure>>
       \/ /\ complete /\ intent = "cancel"
          /\ pc' = "submit"
          /\ UNCHANGED <<answers, failure, wire>>
       \/ intent = "create" /\ Return("blocked") /\ UNCHANGED wire
       \/ /\ intent = "find" \/ (~complete /\ intent # "create")
          /\ Return("error")
          /\ UNCHANGED wire
    /\ UNCHANGED <<intent, complete, run, replies, effects, faults>>

\* A run fails: the direct request takes over after a contract mismatch.
RunFails(f) ==
    IF f.contract /\ canDirectExecute
      THEN /\ pc' = "direct"
           /\ failure' = f
           /\ executeDirectBookably(attempt)
           /\ UNCHANGED answers
      ELSE Return(VerdictOf(f)) /\ UNCHANGED wire

\* ACP keeps the run it has for the key.
Keeps(key) ==
    run' = IF run[key].status = "none"
             THEN [run EXCEPT ![key].status = "pending"] ELSE run

\* The run is accepted; or it is refused with the contract mismatch; or the
\* call fails, which is not one of the runner's transient errors, though
\* ACP may have the run.
SubmitRun ==
    /\ pc = "submit"
    /\ \/ /\ Calm
          /\ Keeps(RunKey)
          /\ pc' = "poll"
          /\ UNCHANGED <<answers, failure, wire>>
       \/ /\ Calm
          /\ run[RunKey].status = "none"
          /\ RunFails([class |-> "refused", contract |-> TRUE])
          /\ UNCHANGED run
       \/ /\ Fault
          /\ Keeps(RunKey) \/ UNCHANGED run
          /\ RunFails(NoFailure)
    /\ UNCHANGED <<intent, complete, attempt, replies, effects>>

\* Mutant: a run that has not failed is taken to be completed.
StatusCompleted(r) == r.status # "failed"

StatusIsCompleted(r) == r.status = "completed"

\* One poll of SubmitAndWait; an unfinished run is polled again, a single
\* failed poll ends the wait.
GetRun ==
    /\ pc = "poll"
    /\ LET r == run[RunKey]
       IN  \/ Calm /\ StatusIsCompleted(r) /\ Return("success")
              /\ UNCHANGED wire
           \/ Calm /\ r.status = "failed" /\ RunFails(r.failure)
           \/ Fault /\ RunFails(NoFailure)
    /\ UNCHANGED <<intent, complete, attempt, run, replies, effects>>

\* Mutant: the wait has no deadline while ACP has the run.
PollTimeoutUnlessKept ==
    /\ pc = "poll"
    /\ run[RunKey].status = "none"
    /\ Return("transient")
    /\ UNCHANGED <<intent, complete, attempt, run, wire, replies, effects,
                   faults>>

\* The runner's timeout passes before a poll sees the run finished.
PollTimeout ==
    /\ pc = "poll"
    /\ Return("transient")
    /\ UNCHANGED <<intent, complete, attempt, run, wire, replies, effects,
                   faults>>

\* The answer to the direct request.  As a fallback it can only turn the
\* failure of the run into a success.
doDirectRequest ==
    /\ pc = "direct"
    /\ \E r \in replies :
         /\ r.to.via = "direct" /\ r.to.attempt = attempt
         /\ Return(IF r.ok THEN "success"
                   ELSE IF shouldExecuteDirectFirst THEN "error"
                   ELSE VerdictOf(failure))
    /\ UNCHANGED <<intent, complete, attempt, run, wire, replies, effects,
                   faults>>

\* The client's timeout, a broken connection or a status of 429 or 5xx: the
\* request may have been applied, or may still be.
DirectFails ==
    /\ pc = "direct"
    /\ Return(IF shouldExecuteDirectFirst THEN "transient"
                                          ELSE VerdictOf(failure))
    /\ UNCHANGED <<intent, complete, attempt, run, wire, replies, effects,
                   faults>>

-----------------------------------------------------------------------------
(***************************************************************************)
(* External: TON-ACP and the Bookably API.                                 *)
(***************************************************************************)

\* The policy gate: the run is refused, or its step is sent.
AcpStarts(key) ==
    /\ run[key].status = "pending"
    /\ \/ /\ \E f \in Failure : run' = [run EXCEPT ![key] =
                                   [status |-> "failed", failure |-> f]]
          /\ UNCHANGED wire
       \/ /\ run' = [run EXCEPT ![key].status = "running"]
          /\ wire' = wire \cup
               {[key |-> key, via |-> "acp", attempt |-> attempt]}
    /\ UNCHANGED <<intent, complete, client, replies, effects, faults>>

\* The answer to the step decides the run; if it is lost, the run fails.
AcpEnds(key) ==
    /\ run[key].status = "running"
    /\ \/ /\ Calm
          /\ \E r \in replies :
               /\ r.to.via = "acp" /\ r.to.key = key
               /\ run' = [run EXCEPT ![key] =
                            IF r.ok THEN [@ EXCEPT !.status = "completed"]
                            ELSE [status |-> "failed", failure |-> NoFailure]]
       \/ /\ Fault
          /\ run' = [run EXCEPT ![key] =
                       [status |-> "failed",
                        failure |-> [class |-> "upstream", contract |-> FALSE]]]
    /\ UNCHANGED <<intent, complete, client, wire, replies, effects>>

\* A key whose request was applied gets the same answer again.  The HTTP
\* client may send a request with an Idempotency-Key twice.
BookablyServes(r) ==
    LET applied == \E e \in effects : e.key = r.key
    IN  /\ \/ Calm /\ wire' = wire \ {r}
           \/ Fault /\ wire' = wire
        /\ \/ /\ effects' = IF applied THEN effects ELSE effects \cup {r}
              /\ replies' = replies \cup {[to |-> r, ok |-> TRUE]}
           \/ /\ ~applied
              /\ replies' = replies \cup {[to |-> r, ok |-> FALSE]}
              /\ UNCHANGED effects
        /\ UNCHANGED <<intent, complete, client, run>>

-----------------------------------------------------------------------------
Bot == ExecuteConfirmed \/ SubmitRun \/ GetRun \/ PollTimeout
         \/ doDirectRequest \/ DirectFails

Next ==
    \/ Bot
    \/ \E key \in Keys : AcpStarts(key) \/ AcpEnds(key)
    \/ \E r \in wire : BookablyServes(r)

Spec == Init /\ [][Next]_vars

\* The bot's calls return and its timers run; nothing is assumed of ACP and
\* of the API.
FairSpec == Spec /\ WF_vars(SubmitRun) /\ WF_vars(GetRun)
                 /\ WF_vars(PollTimeout) /\ WF_vars(DirectFails)

-----------------------------------------------------------------------------
\* The plan changes the calendar once, however often it is confirmed and
\* whichever of ACP, still busy with an earlier run, the fallback or a
\* repeated request comes first.
OneEffect == \A e, f \in effects : e = f

\* Success is reported only of a plan that took effect.
SuccessMeansEffect == "success" \in answers => effects # {}

-----------------------------------------------------------------------------
Settlement ==
    INSTANCE SettledPlan WITH
        Changes <- Request,
        executable <- complete /\ canDirectExecute,
        tries <- attempt,
        open <- pc # "idle",
        changes <- effects,
        said <- answers

\* The executor keeps the promise of SettledPlan (ExecuteConfirmed,
\* acp_executor.go 62-139, with the runner): a creation, a search or a plan
\* without parameters never changes the calendar, any other plan once and
\* not before it is confirmed, and it answers a confirmation once, with
\* success only after the change.
SettlementSpec == Settlement!Spec

\* Every confirmation is answered, even if ACP never finishes the run and
\* the API never answers (the deadline of SubmitAndWait, runner.go 67-71,
\* and the client's timeout).
EveryAttemptEnds == Settlement!Answered
=============================================================================
