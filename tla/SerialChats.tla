----------------------------- MODULE SerialChats -----------------------------
(***************************************************************************)
(* What the intake of updates promises to the handlers: those of one chat  *)
(* run one at a time, each is given an update that is later than the last  *)
(* one the session remembers, and each comes to an end.  The session may   *)
(* be forgotten, and a handler that had read it may bring it back.         *)
(***************************************************************************)
EXTENDS Naturals

CONSTANTS
    Chats,
    Jobs,   \* whatever runs handlers
    Ids     \* identifiers of updates, in the order of their issue

VARIABLES
    handling, \* per chat, the handlers that run: at most one
    begun,    \* per chat, the updates given to a handler so far
    top       \* per chat, the last update that the session remembers, or 0

vars == <<handling, begun, top>>

Init ==
    /\ handling = [c \in Chats |-> {}]
    /\ begun = [c \in Chats |-> {}]
    /\ top = [c \in Chats |-> 0]

Begin(c, job, id) ==
    /\ handling[c] = {}
    /\ id > top[c]
    /\ handling' = [handling EXCEPT ![c] = {[job |-> job, id |-> id]}]
    /\ begun' = [begun EXCEPT ![c] = @ \cup {id}]
    /\ UNCHANGED top

\* The update is remembered, or that fails.
Finish(c) ==
    \E h \in handling[c] :
        /\ handling' = [handling EXCEPT ![c] = {}]
        /\ top' = top \/ top' = [top EXCEPT ![c] = h.id]
        /\ UNCHANGED begun

Forget(c) ==
    /\ top' = [top EXCEPT ![c] = 0]
    /\ UNCHANGED <<handling, begun>>

\* A handler saves the session it read before it was forgotten.
Recall(c) ==
    /\ top[c] = 0
    /\ \E h \in handling[c], id \in begun[c] :
          id < h.id /\ top' = [top EXCEPT ![c] = id]
    /\ UNCHANGED <<handling, begun>>

\* The process stops and starts again.
Restart ==
    /\ handling' = [c \in Chats |-> {}]
    /\ UNCHANGED <<begun, top>>

Next ==
    \/ \E c \in Chats :
          \/ \E job \in Jobs, id \in Ids : Begin(c, job, id)
          \/ Finish(c) \/ Forget(c) \/ Recall(c)
    \/ Restart

Spec == Init /\ [][Next]_vars

\* Each handler comes to an end.
Ended == \A c \in Chats : handling[c] # {} ~> handling[c] = {}
=============================================================================
