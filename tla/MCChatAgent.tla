----------------------------- MODULE MCChatAgent -----------------------------
EXTENDS ChatAgent, SequencesExt

\* What previewing may find, by intent: one draft of each shape that the
\* handlers tell apart.
Availability ==
    [intent |-> "availability", target |-> NoTarget, cands |-> <<>>]
Offer(intent, ts) == [intent |-> intent, target |-> NoTarget, cands |-> ts]

\* The candidates in some order; one of them may lack its identifier.
InOrder == SetToSeq(Targets)
Partial == <<NoTarget>> \o InOrder

CancelDrafts == {Offer("cancel", InOrder)}
OtherDrafts == {Availability, Offer("create", Partial), Offer("find", InOrder)}

\* Bound of AgentRepicked: one request, then candidates picked and previews
\* confirmed, in time and each at most once.
PicksAndConfirms ==
    /\ expired = {}
    /\ \A u \in sent : IF u.id = 1
                         THEN u.kind = "message" /\ u.from \in Users
                         ELSE u.button \in {"pick", "confirm"}
    /\ \A t, u \in sent :
         t.button = u.button /\ t.index = u.index /\ t.saw = u.saw => t = u

UserSymmetry == Permutations(Users)
=============================================================================
