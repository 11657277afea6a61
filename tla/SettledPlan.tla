----------------------------- MODULE SettledPlan -----------------------------
(***************************************************************************)
(* What the execution of a confirmed plan promises, whoever carries it     *)
(* out: the plan changes the calendar at most once and only if it is one   *)
(* that may be executed, nothing changes before it is tried, each try is   *)
(* answered, and success is an answer only after the change.  The change   *)
(* may come late, even after an answer that says it failed.                *)
(***************************************************************************)
EXTENDS Naturals

CONSTANTS
    Changes,  \* what may be done to the calendar
    Verdicts

VARIABLES
    executable, \* the plan may be executed at all
    tries,      \* how often its execution was begun
    open,       \* the last try has no answer yet
    changes,    \* what was done to the calendar
    said        \* the answers given

vars == <<executable, tries, open, changes, said>>

Init ==
    /\ executable \in BOOLEAN
    /\ tries = 0 /\ open = FALSE /\ changes = {} /\ said = {}

Try ==
    /\ executable /\ ~open
    /\ tries' = tries + 1 /\ open' = TRUE
    /\ UNCHANGED <<executable, changes, said>>

Change(x) ==
    /\ tries > 0 /\ executable
    /\ changes = {}
    /\ changes' = {x}
    /\ UNCHANGED <<executable, tries, open, said>>

Answer(verdict) ==
    /\ open
    /\ verdict = "success" => changes # {}
    /\ open' = FALSE /\ said' = said \cup {verdict}
    /\ UNCHANGED <<executable, tries, changes>>

\* A plan that must not be executed is refused at once.
Refuse(verdict) ==
    /\ ~executable /\ verdict # "success"
    /\ tries' = tries + 1 /\ said' = said \cup {verdict}
    /\ UNCHANGED <<executable, open, changes>>

Reply == \E verdict \in Verdicts : Answer(verdict)

Next ==
    \/ Try
    \/ \E x \in Changes : Change(x)
    \/ Reply
    \/ \E verdict \in Verdicts : Refuse(verdict)

Spec == Init /\ [][Next]_vars

\* No try is left without an answer.
Answered == open ~> ~open
=============================================================================
