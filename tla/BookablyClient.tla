---------------------------- MODULE BookablyClient ----------------------------
(***************************************************************************)
(* One read from the Bookably API at a time, as client.go makes it: the    *)
(* request, one more after a 429 that asks for a short pause, and the      *)
(* reading of the answer.  The actions say what happens to call and leave  *)
(* the rest to the module that makes the calls; how the API answers and    *)
(* what fails is also chosen there.                                        *)
(***************************************************************************)
EXTENDS Naturals

VARIABLE call

\* send: waiting for the head of an answer; wait: pausing after a 429;
\* read: reading the body; over: returned to the adapter.
Stages == {"idle", "send", "wait", "read", "over"}

\* The errors of the domain, as errorKind tells them apart.
Statuses == {"ok", "forbidden", "not_found", "conflict", "validation",
             "rate_limit", "upstream", "timeout"}

NoBody == [items |-> {}, next |-> {}]
NoCall == [stage |-> "idle", sends |-> 0, status |-> "ok", body |-> NoBody]

CallTypeOK ==
    /\ DOMAIN call = DOMAIN NoCall
    /\ call.stage \in Stages /\ call.sends \in 0..2 /\ call.status \in Statuses

CallInit == call = NoCall

StartCall == call' = [NoCall EXCEPT !.stage = "send"]
EndCall   == call' = NoCall

Return(status) ==
    call' = [call EXCEPT !.stage = "over", !.status = status]

\* Mutant: a second 429 is waited for, too.
EveryRateLimitIsRetried == TRUE

MayRetry == call.sends = 0

\* The head of an answer that is not retried arrives.
Answered(status, body) ==
    /\ call.stage = "send"
    /\ status = "rate_limit" => ~MayRetry
    /\ call' = [call EXCEPT !.stage = "read", !.sends = @ + 1,
                            !.status = status, !.body = body]

\* A 429 with a Retry-After that is short enough, or none.
RetryLater ==
    /\ call.stage = "send" /\ MayRetry
    /\ call' = [call EXCEPT !.stage = "wait", !.sends = @ + 1]

\* A 429 with a Retry-After that is too long or no number.
RetryRefused ==
    /\ call.stage = "send" /\ MayRetry
    /\ Return("rate_limit")

\* No answer: the connection failed, or the attempt or the caller timed out.
SendFails(status) ==
    /\ call.stage = "send"
    /\ Return(status)

PauseEnds ==
    /\ call.stage = "wait"
    /\ call' = [call EXCEPT !.stage = "send"]

\* The caller's context ends during the pause.
PauseInterrupted ==
    /\ call.stage = "wait"
    /\ Return("timeout")

ReadWhole ==
    /\ call.stage = "read"
    /\ Return(call.status)

\* The connection breaks, the body is no JSON, or the attempt's context, which
\* ended when the request returned, cuts the reading.
ReadCut ==
    /\ call.stage = "read"
    /\ Return("upstream")
===============================================================================
