----------------------------- MODULE ConfirmGate -----------------------------
(***************************************************************************)
(* What the confirmation flow promises, whatever the chat, the network and *)
(* the process do: an operation takes effect only after it was offered to  *)
(* a user and that user confirmed the plan it belongs to, while the plan   *)
(* was still pending; a plan belongs to one user and has one effect.       *)
(***************************************************************************)
CONSTANTS
    Plans,      \* plan identifiers
    Operations, \* what a plan may do
    People,     \* the users of the chat
    Requests    \* numbers of the requests made to the backend

VARIABLES
    offered,   \* operations previewed with a button to apply them
    confirmed, \* requests made for them
    closed,    \* plans that are no longer pending and never will be again
    done       \* requests that took effect

vars == <<offered, confirmed, closed, done>>

Offers    == [plan : Plans, op : Operations, user : People]
Handovers == [offer : Offers, request : Requests]

TypeOK ==
    /\ offered \subseteq Offers
    /\ confirmed \subseteq Handovers
    /\ closed \subseteq Plans
    /\ done \subseteq Handovers

Init == offered = {} /\ confirmed = {} /\ closed = {} /\ done = {}

Offer(o) ==
    /\ \A q \in offered : q.plan = o.plan => q.user = o.user
    /\ offered' = offered \cup {o}
    /\ UNCHANGED <<confirmed, closed, done>>

Confirm(h) ==
    /\ h.offer \in offered
    /\ h.offer.plan \notin closed
    /\ \A g \in confirmed : g.request # h.request
    /\ confirmed' = confirmed \cup {h}
    /\ UNCHANGED <<offered, closed, done>>

TakeEffect(h) ==
    /\ h \in confirmed
    /\ \A d \in done : d.offer.plan # h.offer.plan
    /\ done' = done \cup {h}
    /\ UNCHANGED <<offered, confirmed, closed>>

Close(p) ==
    /\ closed' = closed \cup {p}
    /\ UNCHANGED <<offered, confirmed, done>>

Next ==
    \/ \E o \in Offers : Offer(o)
    \/ \E h \in Handovers : Confirm(h)
    \/ \E h \in confirmed : TakeEffect(h)
    \/ \E p \in Plans : Close(p)

Spec == Init /\ [][Next]_vars
=============================================================================
