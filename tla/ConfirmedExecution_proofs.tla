----------------------- MODULE ConfirmedExecution_proofs -----------------------
(***************************************************************************)
(* A confirmed plan changes the calendar once and success means that it    *)
(* did, for every number of confirmations and faults; and the executor     *)
(* implements SettledPlan.  OneEffect is not inductive: that a second      *)
(* request changes nothing rests on its key, so IInv follows the key       *)
(* through the runs ACP keeps and the requests on their way (OneKey), and  *)
(* the effect through what reports it (Witnessed).                         *)
(***************************************************************************)
EXTENDS ConfirmedExecution, TLAPS

\* The bot may carry the plan out.
Executable == complete /\ canDirectExecute

\* All that is under way for the plan carries the plan's own key, also what
\* ACP still does for an earlier confirmation.
OneKey ==
    /\ \A k \in Keys : run[k].status # "none" => k = 0
    /\ \A r \in wire \cup effects : r.key = 0

\* An answer of the API, a run of ACP or a verdict that says the plan was
\* carried out comes after the effect.
Witnessed ==
    /\ \A r \in replies : r.ok => effects # {}
    /\ \A k \in Keys : run[k].status = "completed" => effects # {}
    /\ "success" \in answers => effects # {}

\* Nothing is begun for a plan that must not be executed, or before a
\* confirmation.
Begun == Executable /\ attempt \in Attempts

OnlyBegun ==
    /\ pc # "idle" => Begun
    /\ wire # {} => Begun
    /\ \A k \in Keys : run[k].status # "none" => Begun

IInv ==
    /\ TypeOK
    /\ OneKey
    /\ Witnessed
    /\ OnlyBegun
    /\ OneEffect

-----------------------------------------------------------------------------
\* The constants the steps put into the state have their types.
LEMMA ConstantTypes ==
    /\ 0 \in Keys
    /\ NoFailure \in Failure
    /\ NoRun \in Run
    /\ \A c \in BOOLEAN : [class |-> "refused", contract |-> c] \in Failure
    /\ \A f \in Failure : VerdictOf(f) \in Verdicts \ {"success"}
  <1>1. \A f \in Failure : VerdictOf(f) \in Verdicts \ {"success"}
    BY DEF Failure, Classes, VerdictOf, Verdicts
  <1>2. QED
    BY <1>1, ExecutionAssumption
    DEF Keys, NoFailure, Failure, Classes, NoRun, Run

LEMMA IInvInit == Init => IInv
  <1> SUFFICES ASSUME Init PROVE IInv
    OBVIOUS
  <1>1. TypeOK
    BY ConstantTypes, ExecutionAssumption DEF Init, TypeOK, PCs
  <1>2. OneKey /\ Witnessed /\ OnlyBegun /\ OneEffect
    BY DEF Init, OneKey, Witnessed, OnlyBegun, OneEffect, NoRun
  <1>3. QED
    BY <1>1, <1>2 DEF IInv

LEMMA IInvUnchanged ==
    ASSUME IInv, UNCHANGED vars
    PROVE  IInv'
  BY DEF IInv, TypeOK, OneKey, Witnessed, OnlyBegun, OneEffect, Begun,
         Executable, canDirectExecute, vars, client

-----------------------------------------------------------------------------
(***************************************************************************)
(* What the parts of an action do, stated once: a verdict is given, or the *)
(* direct request is sent.                                                 *)
(***************************************************************************)

\* The bot writes the plan with the plan's key, whatever became of the run.
LEMMA DirectIsRequest ==
    ASSUME NEW n \in Attempts
    PROVE  /\ [key |-> DirectKey, via |-> "direct", attempt |-> n] \in Request
           /\ [key |-> DirectKey, via |-> "direct", attempt |-> n].key = 0
  BY ConstantTypes DEF Request, DirectKey

\* A failed run ends in a verdict other than success, or goes on with the
\* direct request of this plan.
LEMMA RunFailsEffect ==
    ASSUME IInv, NEW f \in Failure, pc # "idle", RunFails(f)
    PROVE  /\ pc' \in {"idle", "direct"}
           /\ failure' \in Failure
           /\ answers' \subseteq Verdicts
           /\ "success" \in answers' => "success" \in answers
           /\ wire' \subseteq Request
           /\ \A r \in wire' : r.key = 0
           /\ wire' # {} => Begun
  <1>1. Begun
    BY DEF IInv, OnlyBegun
  <1>2. attempt \in Attempts
    BY <1>1 DEF Begun
  <1>3. wire \subseteq Request /\ answers \subseteq Verdicts
    BY DEF IInv, TypeOK
  <1>4. \A r \in wire : r.key = 0
    BY DEF IInv, OneKey
  <1>5. CASE f.contract /\ canDirectExecute
    BY <1>1, <1>2, <1>3, <1>4, <1>5, DirectIsRequest
    DEF RunFails, executeDirectBookably
  <1>6. CASE ~(f.contract /\ canDirectExecute)
    BY <1>1, <1>3, <1>4, <1>6, ConstantTypes DEF RunFails, Return
  <1>7. QED
    BY <1>5, <1>6

-----------------------------------------------------------------------------
(***************************************************************************)
(* Every step preserves IInv.                                              *)
(***************************************************************************)

LEMMA ExecuteConfirmedIInv ==
    ASSUME IInv, ExecuteConfirmed
    PROVE  IInv'
  <1>1. attempt' \in Attempts /\ attempt' = attempt + 1 /\ pc = "idle"
    BY ExecutionAssumption DEF IInv, TypeOK, ExecuteConfirmed, Attempts
  <1>2. UNCHANGED <<intent, complete, run, replies, effects, faults>>
    BY DEF ExecuteConfirmed
  <1>3. CASE complete /\ shouldExecuteDirectFirst /\ pc' = "direct"
             /\ executeDirectBookably(attempt')
             /\ UNCHANGED <<answers, failure>>
    <2>1. Begun'
      BY <1>1, <1>2, <1>3 DEF Begun, Executable, canDirectExecute,
                              shouldExecuteDirectFirst
    <2>2. /\ wire' \subseteq Request
          /\ \A r \in wire' : r.key = 0
      BY <1>1, <1>3, DirectIsRequest
      DEF IInv, TypeOK, OneKey, executeDirectBookably
    <2>3. TypeOK'
      BY <1>1, <1>2, <1>3, <2>2 DEF IInv, TypeOK, PCs, Attempts
    <2>4. OneKey' /\ Witnessed' /\ OnlyBegun' /\ OneEffect'
      BY <1>2, <1>3, <2>1, <2>2
      DEF IInv, OneKey, Witnessed, OnlyBegun, OneEffect
    <2>5. QED
      BY <2>3, <2>4 DEF IInv
  <1>4. CASE complete /\ intent = "cancel" /\ pc' = "submit"
             /\ UNCHANGED <<answers, failure, wire>>
    <2>1. Begun'
      BY <1>1, <1>2, <1>4 DEF Begun, Executable, canDirectExecute
    <2>2. TypeOK'
      BY <1>1, <1>2, <1>4 DEF IInv, TypeOK, PCs, Attempts
    <2>3. OneKey' /\ Witnessed' /\ OnlyBegun' /\ OneEffect'
      BY <1>2, <1>4, <2>1
      DEF IInv, OneKey, Witnessed, OnlyBegun, OneEffect
    <2>4. QED
      BY <2>2, <2>3 DEF IInv
  <1>5. ASSUME NEW verdict \in {"blocked", "error"}, Return(verdict),
               UNCHANGED wire
        PROVE  IInv'
    <2>1. TypeOK'
      BY <1>1, <1>2, <1>5, ConstantTypes
      DEF IInv, TypeOK, PCs, Attempts, Verdicts, Return
    <2>2. Begun => Begun'
      BY <1>1, <1>2 DEF Begun, Executable, canDirectExecute
    <2>3. OneKey' /\ Witnessed' /\ OnlyBegun' /\ OneEffect'
      BY <1>2, <1>5, <2>2
      DEF IInv, OneKey, Witnessed, OnlyBegun, OneEffect, Return
    <2>4. QED
      BY <2>1, <2>3 DEF IInv
  <1>6. QED
    BY <1>3, <1>4, <1>5 DEF ExecuteConfirmed

\* What the bot does while its execution is open: the request or the verdict
\* that RunFails gives, or a success that it has seen.
LEMMA OpenStep ==
    ASSUME IInv, pc # "idle",
           UNCHANGED <<intent, complete, attempt, replies, effects>>,
           pc' \in PCs, failure' \in Failure,
           answers' \subseteq Verdicts,
           "success" \in answers' => effects # {},
           wire' \subseteq Request, \A r \in wire' : r.key = 0,
           run' \in [Keys -> Run],
           \A k \in Keys : run'[k].status # "none" => k = 0,
           \A k \in Keys : run'[k].status = "completed" => effects # {},
           faults' \in 0..MaxFaults
    PROVE  IInv'
  <1>1. Begun /\ Begun'
    BY DEF IInv, OnlyBegun, Begun, Executable, canDirectExecute
  <1>2. TypeOK'
    BY DEF IInv, TypeOK
  <1>3. OneKey' /\ Witnessed' /\ OneEffect'
    BY DEF IInv, OneKey, Witnessed, OneEffect
  <1>4. OnlyBegun'
    BY <1>1 DEF OnlyBegun
  <1>5. QED
    BY <1>2, <1>3, <1>4 DEF IInv

LEMMA KeepsRun ==
    ASSUME IInv, Keeps(RunKey) \/ UNCHANGED run
    PROVE  /\ run' \in [Keys -> Run]
           /\ \A k \in Keys : run'[k].status # "none" => k = 0
           /\ \A k \in Keys : run'[k].status = "completed" => effects # {}
  <1>1. run \in [Keys -> Run] /\ 0 \in Keys
    BY ConstantTypes DEF IInv, TypeOK
  <1>2. CASE UNCHANGED run
    BY <1>1, <1>2 DEF IInv, OneKey, Witnessed
  <1>3. CASE Keeps(RunKey)
    BY <1>1, <1>3 DEF IInv, OneKey, Witnessed, Keeps, RunKey, Run
  <1>4. QED
    BY <1>2, <1>3

LEMMA FaultsType ==
    ASSUME IInv, Fault \/ Calm
    PROVE  faults' \in 0..MaxFaults
  BY ExecutionAssumption DEF IInv, TypeOK, Fault, Calm

LEMMA SubmitRunIInv ==
    ASSUME IInv, SubmitRun
    PROVE  IInv'
  <1>1. /\ pc # "idle"
        /\ UNCHANGED <<intent, complete, attempt, replies, effects>>
        /\ Keeps(RunKey) \/ UNCHANGED run
        /\ Fault \/ Calm
    BY DEF SubmitRun
  <1>2. faults' \in 0..MaxFaults
    BY <1>1, FaultsType
  <1>3. "success" \in answers => effects # {}
    BY DEF IInv, Witnessed
  <1>4. CASE pc' = "poll" /\ UNCHANGED <<answers, failure, wire>>
    <2>1. /\ failure' \in Failure /\ answers' \subseteq Verdicts
          /\ wire' \subseteq Request /\ \A r \in wire' : r.key = 0
          /\ pc' \in PCs
      BY <1>4 DEF IInv, TypeOK, OneKey, PCs
    <2>2. QED
      BY <1>1, <1>2, <1>3, <1>4, <2>1, KeepsRun, OpenStep
  <1>5. ASSUME NEW f \in Failure, RunFails(f)
        PROVE  IInv'
    <2>1. pc' \in PCs
      BY <1>1, <1>5, RunFailsEffect DEF PCs
    <2>2. QED
      BY <1>1, <1>2, <1>3, <1>5, <2>1, KeepsRun, RunFailsEffect, OpenStep
  <1>6. QED
    BY <1>4, <1>5, ConstantTypes DEF SubmitRun

\* The execution is answered with a verdict; success needs the effect.
LEMMA ReturnIInv ==
    ASSUME IInv, pc # "idle", NEW verdict \in Verdicts, Return(verdict),
           verdict = "success" => effects # {},
           UNCHANGED <<intent, complete, attempt, run, wire, replies, effects>>,
           faults' \in 0..MaxFaults
    PROVE  IInv'
  <1>1. /\ pc' \in PCs /\ failure' \in Failure
        /\ answers' \subseteq Verdicts
        /\ "success" \in answers' => effects # {}
    BY ConstantTypes DEF IInv, TypeOK, Witnessed, Return, PCs
  <1>2. /\ wire' \subseteq Request /\ \A r \in wire' : r.key = 0
    BY DEF IInv, TypeOK, OneKey
  <1>3. QED
    BY <1>1, <1>2, KeepsRun, OpenStep

LEMMA GetRunIInv ==
    ASSUME IInv, GetRun
    PROVE  IInv'
  <1>1. /\ pc # "idle"
        /\ Fault \/ Calm
        /\ UNCHANGED <<intent, complete, attempt, run, replies, effects>>
    BY DEF GetRun
  <1>2. faults' \in 0..MaxFaults
    BY <1>1, FaultsType
  <1>3. 0 \in Keys /\ run[0] \in Run
    BY ConstantTypes DEF IInv, TypeOK
  <1>4. CASE StatusIsCompleted(run[0]) /\ Return("success") /\ UNCHANGED wire
    <2>1. effects # {}
      BY <1>3, <1>4 DEF IInv, Witnessed, StatusIsCompleted
    <2>2. QED
      BY <1>1, <1>2, <1>4, <2>1, ReturnIInv DEF Verdicts
  <1>5. ASSUME NEW f \in Failure, RunFails(f)
        PROVE  IInv'
    <2>1. "success" \in answers => effects # {}
      BY DEF IInv, Witnessed
    <2>2. pc' \in PCs
      BY <1>1, <1>5, RunFailsEffect DEF PCs
    <2>3. QED
      BY <1>1, <1>2, <1>5, <2>1, <2>2, KeepsRun, RunFailsEffect, OpenStep
  <1>6. run[0].failure \in Failure
    BY <1>3 DEF Run
  <1>7. QED
    BY <1>4, <1>5, <1>6, ConstantTypes DEF GetRun, RunKey

LEMMA PollTimeoutIInv ==
    ASSUME IInv, PollTimeout
    PROVE  IInv'
  <1>1. pc # "idle" /\ Return("transient") /\ faults' \in 0..MaxFaults
    BY DEF PollTimeout, IInv, TypeOK
  <1>2. QED
    BY <1>1, ReturnIInv DEF PollTimeout, Verdicts

LEMMA doDirectRequestIInv ==
    ASSUME IInv, doDirectRequest
    PROVE  IInv'
  <1>1. PICK r \in replies :
          Return(IF r.ok THEN "success"
                 ELSE IF shouldExecuteDirectFirst THEN "error"
                 ELSE VerdictOf(failure))
    BY DEF doDirectRequest
  <1>2. pc # "idle" /\ faults' \in 0..MaxFaults /\ failure \in Failure
    BY DEF doDirectRequest, IInv, TypeOK
  <1>3. UNCHANGED <<intent, complete, attempt, run, wire, replies, effects>>
    BY DEF doDirectRequest
  <1>4. CASE r.ok
    <2>1. effects # {}
      BY <1>4 DEF IInv, Witnessed
    <2>2. QED
      BY <1>1, <1>2, <1>3, <1>4, <2>1, ReturnIInv DEF Verdicts
  <1>5. CASE ~r.ok
    <2>1. PICK verdict \in Verdicts \ {"success"} : Return(verdict)
      BY <1>1, <1>2, <1>5, ConstantTypes DEF Verdicts
    <2>2. QED
      BY <1>2, <1>3, <2>1, ReturnIInv
  <1>6. QED
    BY <1>4, <1>5

LEMMA DirectFailsIInv ==
    ASSUME IInv, DirectFails
    PROVE  IInv'
  <1>1. pc # "idle" /\ faults' \in 0..MaxFaults /\ failure \in Failure
    BY DEF DirectFails, IInv, TypeOK
  <1>2. PICK verdict \in Verdicts \ {"success"} : Return(verdict)
    BY <1>1, ConstantTypes DEF DirectFails, Verdicts
  <1>3. QED
    BY <1>1, <1>2, ReturnIInv DEF DirectFails

\* ACP sends a step only for the run of the plan's key.
LEMMA AcpStartsIInv ==
    ASSUME IInv, NEW key \in Keys, AcpStarts(key)
    PROVE  IInv'
  <1>1. UNCHANGED <<intent, complete, client, replies, effects, faults>>
    BY DEF AcpStarts
  <1>2. key = 0 /\ Begun
    BY DEF IInv, OneKey, OnlyBegun, AcpStarts
  <1>3. Begun'
    BY <1>1, <1>2 DEF Begun, Executable, canDirectExecute, client
  <1>4. run \in [Keys -> Run] /\ run[key] \in Run
    BY DEF IInv, TypeOK
  <1>5. run' \in [Keys -> Run] /\ \A k \in Keys \ {key} : run'[k] = run[k]
    BY <1>4 DEF AcpStarts, Run
  <1>6. run'[key].status \in {"failed", "running"}
    BY <1>4 DEF AcpStarts, Run
  <1>7. wire' \subseteq Request /\ \A r \in wire' : r.key = 0
    <2> DEFINE new == [key |-> key, via |-> "acp", attempt |-> attempt]
    <2>1. new \in Request /\ new.key = 0
      BY <1>2 DEF Request, Begun
    <2>2. wire' = wire \/ wire' = wire \cup {new}
      BY DEF AcpStarts
    <2> HIDE DEF new
    <2>3. QED
      BY <2>1, <2>2 DEF IInv, TypeOK, OneKey
  <1>8. TypeOK'
    BY <1>1, <1>5, <1>7 DEF IInv, TypeOK, client
  <1>9. OneKey' /\ Witnessed' /\ OnlyBegun' /\ OneEffect'
    BY <1>1, <1>2, <1>3, <1>5, <1>6, <1>7
    DEF IInv, OneKey, Witnessed, OnlyBegun, OneEffect, client
  <1>10. QED
    BY <1>8, <1>9 DEF IInv

LEMMA AcpEndsIInv ==
    ASSUME IInv, NEW key \in Keys, AcpEnds(key)
    PROVE  IInv'
  <1>1. /\ UNCHANGED <<intent, complete, client, wire, replies, effects>>
        /\ Fault \/ Calm
    BY DEF AcpEnds
  <1>2. key = 0 /\ Begun
    BY DEF IInv, OneKey, OnlyBegun, AcpEnds
  <1>3. Begun'
    BY <1>1, <1>2 DEF Begun, Executable, canDirectExecute, client
  <1>4. run \in [Keys -> Run] /\ run[key] \in Run
    BY DEF IInv, TypeOK
  <1>5. /\ run' \in [Keys -> Run]
        /\ \A k \in Keys \ {key} : run'[k] = run[k]
        /\ run'[key].status = "completed" => \E r \in replies : r.ok
    <2>1. [class |-> "upstream", contract |-> FALSE] \in Failure
      BY DEF Failure, Classes
    <2> DEFINE failed(f) == [status |-> "failed", failure |-> f]
    <2>2. \A f \in Failure : failed(f) \in Run /\ failed(f).status # "completed"
      BY DEF Run
    <2>3. [run[key] EXCEPT !.status = "completed"] \in Run
      BY <1>4 DEF Run
    <2>4. PICK new \in Run :
            /\ run' = [run EXCEPT ![key] = new]
            /\ new.status = "completed" => \E r \in replies : r.ok
      <3>1. \/ \E f \in Failure : run' = [run EXCEPT ![key] = failed(f)]
            \/ /\ run' = [run EXCEPT ![key] =
                            [run[key] EXCEPT !.status = "completed"]]
               /\ \E r \in replies : r.ok
        BY <2>1, ConstantTypes DEF AcpEnds
      <3> HIDE DEF failed
      <3>2. QED
        BY <2>2, <2>3, <3>1
    <2>5. QED
      BY <1>4, <2>4
  <1>6. faults' \in 0..MaxFaults
    BY <1>1, FaultsType
  <1>7. TypeOK'
    BY <1>1, <1>5, <1>6 DEF IInv, TypeOK, client
  <1>8. OneKey' /\ Witnessed' /\ OnlyBegun' /\ OneEffect'
    BY <1>1, <1>2, <1>3, <1>5
    DEF IInv, OneKey, Witnessed, OnlyBegun, OneEffect, client
  <1>9. QED
    BY <1>7, <1>8 DEF IInv

\* The API applies a request when it has applied none with its key; since
\* all requests of the plan share the key, that is the first of them.
LEMMA BookablyServesEffect ==
    ASSUME IInv, NEW r \in wire, BookablyServes(r)
    PROVE  /\ effects' = effects \/ (effects = {} /\ effects' = {r})
           /\ \A q \in replies' : q.ok => effects' # {}
           /\ r \in Request /\ r.key = 0 /\ Begun
           /\ wire' \subseteq wire
           /\ replies' \subseteq Reply
  <1>1. r \in Request /\ r.key = 0 /\ Begun /\ \A e \in effects : e.key = r.key
    BY DEF IInv, TypeOK, OneKey, OnlyBegun
  <1>2. effects' = effects \/ (effects = {} /\ effects' = {r})
    BY <1>1 DEF BookablyServes
  <1>3. [to |-> r, ok |-> TRUE] \in Reply /\ [to |-> r, ok |-> FALSE] \in Reply
    BY <1>1 DEF Reply
  <1>4. replies' \subseteq Reply
    BY <1>3 DEF IInv, TypeOK, BookablyServes
  <1>5. \A q \in replies' : q.ok => effects' # {}
    BY DEF IInv, Witnessed, BookablyServes
  <1>6. QED
    BY <1>1, <1>2, <1>4, <1>5 DEF BookablyServes

LEMMA BookablyServesIInv ==
    ASSUME IInv, NEW r \in wire, BookablyServes(r)
    PROVE  IInv'
  <1>1. /\ UNCHANGED <<intent, complete, client, run>>
        /\ Fault \/ Calm
    BY DEF BookablyServes
  <1>2. Begun'
    BY <1>1, BookablyServesEffect
    DEF Begun, Executable, canDirectExecute, client
  <1>3. faults' \in 0..MaxFaults
    BY <1>1, FaultsType
  <1>4. TypeOK'
    BY <1>1, <1>3, BookablyServesEffect DEF IInv, TypeOK, client
  <1>5. effects # {} => effects' # {}
    BY BookablyServesEffect
  <1>6. OneKey' /\ Witnessed' /\ OnlyBegun' /\ OneEffect'
    BY <1>1, <1>2, <1>5, BookablyServesEffect
    DEF IInv, OneKey, Witnessed, OnlyBegun, OneEffect, client
  <1>7. QED
    BY <1>4, <1>6 DEF IInv

LEMMA IInvStep ==
    ASSUME IInv, [Next]_vars
    PROVE  IInv'
  BY ExecuteConfirmedIInv, SubmitRunIInv, GetRunIInv, PollTimeoutIInv,
     doDirectRequestIInv, DirectFailsIInv, AcpStartsIInv, AcpEndsIInv,
     BookablyServesIInv, IInvUnchanged
  DEF Next, Bot

LEMMA IInvAlways == Spec => []IInv
  BY IInvInit, IInvStep, PTL DEF Spec

-----------------------------------------------------------------------------
\* Every variable of the execution keeps its type, for every number of
\* confirmations and faults.
THEOREM TypeCorrect == Spec => []TypeOK
<1>1. IInv => TypeOK
  BY DEF IInv
<1>2. QED
  BY <1>1, IInvAlways, PTL

\* The calendar is changed once (OneEffect), whichever of ACP, the fallback
\* and repeated requests comes first.
THEOREM EffectOnce == Spec => []OneEffect
<1>1. IInv => OneEffect
  BY DEF IInv
<1>2. QED
  BY <1>1, IInvAlways, PTL

\* Success is reported only of a plan that took effect.
THEOREM SuccessIsTrue == Spec => []SuccessMeansEffect
<1>1. IInv => SuccessMeansEffect
  BY DEF IInv, Witnessed, SuccessMeansEffect
<1>2. QED
  BY <1>1, IInvAlways, PTL

-----------------------------------------------------------------------------
(***************************************************************************)
(* The executor implements SettledPlan: a confirmation that can be         *)
(* executed is a try, any other is refused; a verdict answers the try; an  *)
(* applied request is the change; all else is hidden.                      *)
(***************************************************************************)

Settled == <<Executable, attempt, pc # "idle", effects, answers>>

LEMMA SettlementInit == Init => Settlement!Init
  BY DEF Init, Settlement!Init, Intents, canDirectExecute

LEMMA ExecuteConfirmedSettles ==
    ASSUME IInv, ExecuteConfirmed
    PROVE  Settlement!Next
  <1>1. /\ pc = "idle" /\ attempt' = attempt + 1
        /\ Executable' = Executable
        /\ effects' = effects
    BY DEF ExecuteConfirmed, Executable, canDirectExecute
  <1>2. CASE Executable /\ pc' # "idle" /\ answers' = answers
    <2>1. Settlement!Try
      BY <1>1, <1>2 DEF Settlement!Try, Executable
    <2>2. QED
      BY <2>1 DEF Settlement!Next
  <1>3. ASSUME NEW verdict \in {"blocked", "error"}, Return(verdict),
               ~Executable
        PROVE  Settlement!Next
    <2>1. verdict \in Verdicts /\ verdict # "success"
      BY DEF Verdicts
    <2>2. Settlement!Refuse(verdict)
      BY <1>1, <1>3, <2>1 DEF Settlement!Refuse, Return, Executable
    <2>3. QED
      BY <2>1, <2>2 DEF Settlement!Next
  <1>4. intent = "create" => ~Executable
    BY DEF Executable, canDirectExecute
  <1>5. intent = "find" \/ ~complete => ~Executable
    BY DEF Executable, canDirectExecute
  <1>6. intent \in {"availability", "cancel"} /\ complete => Executable
    BY DEF Executable, canDirectExecute
  <1>7. QED
    BY <1>2, <1>3, <1>4, <1>5, <1>6
    DEF ExecuteConfirmed, shouldExecuteDirectFirst

\* A verdict answers the open try.
LEMMA ReturnSettles ==
    ASSUME IInv, pc # "idle", NEW verdict \in Verdicts, Return(verdict),
           verdict = "success" => effects # {},
           UNCHANGED <<intent, complete, attempt, effects>>
    PROVE  Settlement!Next
  <1>1. Settlement!Answer(verdict)
    BY DEF Settlement!Answer, Return, canDirectExecute
  <1>2. QED
    BY <1>1 DEF Settlement!Next, Settlement!Reply

LEMMA RunFailsSettles ==
    ASSUME IInv, pc # "idle", NEW f \in Failure, RunFails(f),
           UNCHANGED <<intent, complete, attempt, effects>>
    PROVE  Settlement!Next \/ Settled' = Settled
  <1>1. CASE f.contract /\ canDirectExecute
    BY <1>1 DEF RunFails, Settled, Executable, canDirectExecute
  <1>2. CASE ~(f.contract /\ canDirectExecute)
    BY <1>2, ConstantTypes, ReturnSettles DEF RunFails
  <1>3. QED
    BY <1>1, <1>2

LEMMA BotSettles ==
    ASSUME IInv, Bot
    PROVE  Settlement!Next \/ Settled' = Settled
  <1>1. failure \in Failure /\ run[RunKey].failure \in Failure
    BY ConstantTypes DEF IInv, TypeOK, Run, RunKey
  <1>2. CASE SubmitRun
    <2>1. pc # "idle" /\ UNCHANGED <<intent, complete, attempt, effects>>
      BY <1>2 DEF SubmitRun
    <2>2. CASE pc' = "poll" /\ answers' = answers
      BY <2>1, <2>2 DEF Settled, Executable, canDirectExecute
    <2>3. CASE \E f \in Failure : RunFails(f)
      BY <2>1, <2>3, RunFailsSettles
    <2>4. QED
      BY <1>2, <2>2, <2>3, ConstantTypes DEF SubmitRun
  <1>3. CASE GetRun
    <2>1. pc # "idle" /\ UNCHANGED <<intent, complete, attempt, effects>>
      BY <1>3 DEF GetRun
    <2>2. CASE StatusIsCompleted(run[RunKey]) /\ Return("success")
      <3>1. effects # {}
        BY <2>2, ConstantTypes DEF IInv, Witnessed, StatusIsCompleted, RunKey
      <3>2. QED
        BY <2>1, <2>2, <3>1, ReturnSettles DEF Verdicts
    <2>3. CASE \E f \in Failure : RunFails(f)
      BY <2>1, <2>3, RunFailsSettles
    <2>4. QED
      BY <1>1, <1>3, <2>2, <2>3, ConstantTypes DEF GetRun
  <1>4. CASE PollTimeout
    BY <1>4, ReturnSettles DEF PollTimeout, Verdicts
  <1>5. CASE doDirectRequest
    <2>1. PICK r \in replies :
            Return(IF r.ok THEN "success"
                   ELSE IF shouldExecuteDirectFirst THEN "error"
                   ELSE VerdictOf(failure))
      BY <1>5 DEF doDirectRequest
    <2>2. pc # "idle" /\ UNCHANGED <<intent, complete, attempt, effects>>
      BY <1>5 DEF doDirectRequest
    <2>3. r.ok => effects # {}
      BY DEF IInv, Witnessed
    <2>4. PICK verdict \in Verdicts :
            /\ Return(verdict)
            /\ verdict = "success" => effects # {}
      BY <1>1, <2>1, <2>3, ConstantTypes DEF Verdicts
    <2>5. QED
      BY <2>2, <2>4, ReturnSettles
  <1>6. CASE DirectFails
    <2>1. PICK verdict \in Verdicts \ {"success"} : Return(verdict)
      BY <1>1, <1>6, ConstantTypes DEF DirectFails, Verdicts
    <2>2. QED
      BY <1>6, <2>1, ReturnSettles DEF DirectFails
  <1>7. QED
    BY <1>2, <1>3, <1>4, <1>5, <1>6, ExecuteConfirmedSettles DEF Bot

\* What ACP does is hidden; what the API applies is the plan's one change.
LEMMA ExternalSettles ==
    ASSUME IInv,
           \/ \E key \in Keys : AcpStarts(key) \/ AcpEnds(key)
           \/ \E r \in wire : BookablyServes(r)
    PROVE  Settlement!Next \/ Settled' = Settled
  <1>1. CASE \E key \in Keys : AcpStarts(key) \/ AcpEnds(key)
    BY <1>1 DEF AcpStarts, AcpEnds, Settled, Executable, canDirectExecute,
                client
  <1>2. ASSUME NEW r \in wire, BookablyServes(r)
        PROVE  Settlement!Next \/ Settled' = Settled
    <2>1. UNCHANGED <<intent, complete, attempt, pc, answers>>
      BY <1>2 DEF BookablyServes, client
    <2>2. CASE effects' = effects
      BY <2>1, <2>2 DEF Settled, Executable, canDirectExecute
    <2>3. CASE effects = {} /\ effects' = {r}
      <3>1. r \in Request /\ Begun
        BY <1>2, BookablyServesEffect
      <3>2. Settlement!Change(r)
        BY <2>1, <2>3, <3>1
        DEF Settlement!Change, Begun, Executable, canDirectExecute, Attempts
      <3>3. QED
        BY <3>1, <3>2 DEF Settlement!Next
    <2>4. QED
      BY <1>2, <2>2, <2>3, BookablyServesEffect
  <1>3. QED
    BY <1>1, <1>2

LEMMA SettlementStep ==
    ASSUME IInv, [Next]_vars
    PROVE  [Settlement!Next]_(Settlement!vars)
  <1>1. UNCHANGED vars => Settled' = Settled
    BY DEF vars, client, Settled, Executable, canDirectExecute
  <1>2. Settlement!Next \/ Settled' = Settled
    BY <1>1, BotSettles, ExternalSettles DEF Next
  <1>3. QED
    BY <1>2 DEF Settlement!vars, Settled, Executable

\* The executor implements SettledPlan, except that each try is answered,
\* which is liveness.
THEOREM ImplementsSettledPlan == Spec => SettlementSpec
<1>1. Settlement!Spec <=> Settlement!Init /\ [][Settlement!Next]_(Settlement!vars)
  BY DEF Settlement!Spec
<1>2. QED
  BY <1>1, SettlementInit, SettlementStep, IInvAlways, PTL
  DEF Spec, SettlementSpec
=============================================================================
