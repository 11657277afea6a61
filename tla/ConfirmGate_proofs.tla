-------------------------- MODULE ConfirmGate_proofs --------------------------
(***************************************************************************)
(* What ConfirmGate promises to whoever relies on it.  ChatAgent is proved *)
(* to implement ConfirmGate (ImplementsGate), so it inherits these.        *)
(***************************************************************************)
EXTENDS ConfirmGate, TLAPS

\* The state of the gate keeps to its type.
THEOREM GateTyped == Spec => []TypeOK
<1>1. Init => TypeOK
  BY DEF Init, TypeOK
<1>2. TypeOK /\ [Next]_vars => TypeOK'
  <2> SUFFICES ASSUME TypeOK, [Next]_vars PROVE TypeOK'
    OBVIOUS
  <2>1. CASE \E o \in Offers : Offer(o)
    BY <2>1 DEF TypeOK, Offer
  <2>2. CASE \E h \in Handovers : Confirm(h)
    BY <2>2 DEF TypeOK, Confirm
  <2>3. CASE \E h \in confirmed : TakeEffect(h)
    BY <2>3 DEF TypeOK, TakeEffect
  <2>4. CASE \E p \in Plans : Close(p)
    BY <2>4 DEF TypeOK, Close
  <2>5. CASE UNCHANGED vars
    BY <2>5 DEF TypeOK, vars
  <2>6. QED
    BY <2>1, <2>2, <2>3, <2>4, <2>5 DEF Next
<1>3. QED
  BY <1>1, <1>2, PTL DEF Spec

\* What took effect was confirmed, what was confirmed was offered, and a
\* plan belongs to one user.
Consent ==
    /\ done \subseteq confirmed
    /\ \A h \in confirmed : h.offer \in offered
    /\ \A o, q \in offered : o.plan = q.plan => o.user = q.user

\* A plan has one effect.
OneEffect == \A d, e \in done : d.offer.plan = e.offer.plan => d = e

\* Nothing takes effect without its user's confirmation of what was offered,
\* nor twice, nor for two users.
THEOREM GateHolds == Spec => [](Consent /\ OneEffect)
<1> DEFINE Inv == Consent /\ OneEffect
<1>1. Init => Inv
  BY DEF Init, Consent, OneEffect
<1>2. Inv /\ [Next]_vars => Inv'
  <2> SUFFICES ASSUME Inv, [Next]_vars PROVE Inv'
    OBVIOUS
  <2>1. CASE \E o \in Offers : Offer(o)
    <3>1. PICK o \in Offers : Offer(o)
      BY <2>1
    <3>2. Consent'
      BY <3>1 DEF Consent, Offer
    <3>3. OneEffect'
      BY <3>1 DEF OneEffect, Offer
    <3>4. QED
      BY <3>2, <3>3
  <2>2. CASE \E h \in Handovers : Confirm(h)
    BY <2>2 DEF Consent, OneEffect, Confirm
  <2>3. CASE \E h \in confirmed : TakeEffect(h)
    BY <2>3 DEF Consent, OneEffect, TakeEffect
  <2>4. CASE \E p \in Plans : Close(p)
    BY <2>4 DEF Consent, OneEffect, Close
  <2>5. CASE UNCHANGED vars
    BY <2>5 DEF Consent, OneEffect, vars
  <2>6. QED
    BY <2>1, <2>2, <2>3, <2>4, <2>5 DEF Next
<1>3. QED
  BY <1>1, <1>2, PTL DEF Spec
=============================================================================
