--------------------------- MODULE Answering_proofs ---------------------------
(***************************************************************************)
(* Whoever writes in a chat, the searches are made with the provider that  *)
(* this user is, and the bot acts on a reply only when the model has       *)
(* finished it; a list of bookings is whole, the slots proposed are the    *)
(* next ones, and what the bot says of the bookings to cancel is true: for *)
(* every calendar, message, failure and number of messages.  IInv is       *)
(* inductive; SInv, on what a search has found so far, is inductive given  *)
(* IInv; CInv, on what a cancellation asks for, given both.                *)
(***************************************************************************)
EXTENDS Answering, FiniteSetTheorems, TLAPS

Universe == Bookings \cup Services \cup Slots
Intents  == {"unknown", "list", "find", "create", "cancel"}

\* The steps from the arrival of a message to the model's reply, and those
\* made for a provider that is resolved.
BeforePlan == {"idle", "me", "services", "profile", "typing", "interpret"}
Resolved   == {"typing", "interpret", "zone", "bookings", "resolve", "slots"}

\* What the handler looks for has these fields.
IsSearch ==
    search = [provider |-> search.provider, interval |-> search.interval,
              cursor |-> search.cursor, found |-> search.found,
              service |-> search.service]

HandlerTypes ==
    /\ session \in Session /\ s \in Session
    /\ msg \in Messages \cup {NoMessage}
    /\ pc \in PCs /\ live \in BOOLEAN
    /\ plan.intent \in Intents \cup {"none"}
    /\ pc \in BeforePlan => plan.intent = "none"
    /\ search.provider \in Providers \cup {NoProvider}
    /\ IsSearch
    /\ received \in 0..MaxMessages /\ changes \in 0..MaxChanges
    /\ faults \in 0..MaxFaults

\* What was there is of the calendar; a cache entry is one set of services.
WorldTypes ==
    /\ there \subseteq Universe /\ kept \subseteq there /\ seen \subseteq Universe
    /\ pc = "idle" => kept = {}
    /\ cache \in [Providers -> SUBSET SUBSET Services]
    /\ \A p \in Providers : cache[p] = {} \/ \E v \in SUBSET Services : cache[p] = {v}

\* A request is sent at most twice, and the answer is to the question asked.
CallShape ==
    /\ CallTypeOK
    /\ call.stage = "send" => call.sends \in 0..1
    /\ call.stage = "wait" => call.sends = 1

CallOK ==
    /\ CallShape
    /\ (call.stage # "idle") = (pc \in Reads)
    /\ pc = "me" => call.body.items \subseteq {ProviderOf[s.user]} \ {NoProvider}
    /\ pc \in {"services", "resolve"} => call.body.items \subseteq Services

\* The stream has no more than the model has sent.
StreamShape ==
    /\ StreamTypeOK
    /\ stream.pieces + (IF stream.pending = "piece" THEN 1 ELSE 0) <= model.sent
    /\ stream.done \/ stream.pending = "done" => model.done
    /\ stream.verdict = "ok" => stream.done

StreamOK ==
    /\ StreamShape
    /\ stream.open => pc = "interpret"

\* A provider that is resolved is the user's, in the store and from the
\* answer to who the user is to the searches.
ActorOK ==
    /\ session.provider # NoProvider =>
         session.user \in Users /\ session.provider = ProviderOf[session.user]
    /\ pc # "idle" =>
         /\ msg \in Messages
         /\ s.user = msg.from
         /\ s.provider \in {NoProvider, Actor}
    /\ pc \in {"services", "profile"} =>
         search.provider = Actor /\ Actor \in Providers
    /\ pc \in Resolved => s.provider = Actor /\ Actor \in Providers
    /\ pc = "resolve" => search.provider = s.provider

\* The model is asked about ordinary messages only.
AskedOK == pc = "interpret" => msg.looks = "ordinary"

IInv ==
    /\ HandlerTypes
    /\ WorldTypes
    /\ CallOK
    /\ StreamOK
    /\ ActorOK
    /\ AskedOK
    /\ ActsOnFinishedAnswer
-----------------------------------------------------------------------------
(***************************************************************************)
(* The read in progress.                                                   *)
(***************************************************************************)

LEMMA StartCallShape ==
    ASSUME StartCall
    PROVE  CallShape' /\ call'.stage # "idle" /\ call'.body.items = {}
  <1>1. call' = [stage |-> "send", sends |-> 0, status |-> "ok", body |-> NoBody]
    BY DEF StartCall, NoCall
  <1>2. QED
    BY <1>1 DEF CallShape, CallTypeOK, NoCall, NoBody, Stages, Statuses

LEMMA EndCallShape ==
    ASSUME EndCall
    PROVE  CallShape' /\ call'.stage = "idle" /\ call'.body.items = {}
  <1>1. call' = [stage |-> "idle", sends |-> 0, status |-> "ok", body |-> NoBody]
    BY DEF EndCall, NoCall
  <1>2. QED
    BY <1>1 DEF CallShape, CallTypeOK, NoCall, NoBody, Stages, Statuses

LEMMA AnsweredShape ==
    ASSUME CallShape, NEW status \in Statuses, NEW body, Answered(status, body)
    PROVE  CallShape' /\ call'.stage = "read" /\ call'.body = body
  <1>1. /\ DOMAIN call = {"stage", "sends", "status", "body"}
        /\ call.sends \in 0..1
    BY DEF CallShape, CallTypeOK, NoCall, Answered
  <1>2. call' = [call EXCEPT !.stage = "read", !.sends = call.sends + 1,
                             !.status = status, !.body = body]
    BY DEF Answered
  <1>3. /\ DOMAIN call' = DOMAIN call
        /\ call'.stage = "read" /\ call'.sends = call.sends + 1
        /\ call'.status = status /\ call'.body = body
    BY <1>1, <1>2
  <1>4. QED
    BY <1>1, <1>3 DEF CallShape, CallTypeOK, NoCall, Stages

LEMMA ReturnShape ==
    ASSUME CallShape, NEW status \in Statuses, Return(status)
    PROVE  CallShape' /\ call'.stage = "over" /\ call'.body = call.body
  <1>1. DOMAIN call = {"stage", "sends", "status", "body"} /\ call.sends \in 0..2
    BY DEF CallShape, CallTypeOK, NoCall
  <1>2. call' = [call EXCEPT !.stage = "over", !.status = status]
    BY DEF Return
  <1>3. /\ DOMAIN call' = DOMAIN call
        /\ call'.stage = "over" /\ call'.sends = call.sends
        /\ call'.status = status /\ call'.body = call.body
    BY <1>1, <1>2
  <1>4. QED
    BY <1>1, <1>3 DEF CallShape, CallTypeOK, NoCall, Stages

LEMMA PauseShape ==
    ASSUME CallShape, RetryLater \/ PauseEnds
    PROVE  CallShape' /\ call'.stage \in {"wait", "send"} /\ call'.body = call.body
  <1>1. /\ DOMAIN call = {"stage", "sends", "status", "body"}
        /\ call.sends \in 0..2 /\ call.status \in Statuses
    BY DEF CallShape, CallTypeOK, NoCall
  <1>2. CASE RetryLater
    <2>1. /\ call.sends = 0
          /\ call' = [call EXCEPT !.stage = "wait", !.sends = call.sends + 1]
      BY <1>2 DEF RetryLater, MayRetry
    <2>2. /\ DOMAIN call' = DOMAIN call
          /\ call'.stage = "wait" /\ call'.sends = 1
          /\ call'.status = call.status /\ call'.body = call.body
      BY <1>1, <2>1
    <2>3. QED
      BY <1>1, <2>2 DEF CallShape, CallTypeOK, NoCall, Stages
  <1>3. CASE PauseEnds
    <2>1. call.sends = 1 /\ call' = [call EXCEPT !.stage = "send"]
      BY <1>3 DEF PauseEnds, CallShape
    <2>2. /\ DOMAIN call' = DOMAIN call
          /\ call'.stage = "send" /\ call'.sends = 1
          /\ call'.status = call.status /\ call'.body = call.body
      BY <1>1, <2>1
    <2>3. QED
      BY <1>1, <2>2 DEF CallShape, CallTypeOK, NoCall, Stages
  <1>4. QED
    BY <1>2, <1>3

\* Whatever becomes of the read, it goes on or returns, and what it holds is
\* nothing, what it held, or what the API lists.
LEMMA CallStepShape ==
    ASSUME CallShape, CallStep
    PROVE  /\ CallShape' /\ call'.stage # "idle"
           /\ \/ call'.body \in {NoBody, call.body}
              \/ call'.body \in Bodies
  <1>1. CASE \E body \in Bodies : Answered("ok", body)
    <2>1. "ok" \in Statuses
      BY DEF Statuses
    <2>2. QED
      BY <1>1, <2>1, AnsweredShape
  <1>2. CASE \E status \in Refusals : Answered(status, NoBody)
    BY <1>2, AnsweredShape, DataAssumption
  <1>3. CASE RetryLater \/ PauseEnds
    BY <1>3, PauseShape
  <1>4. CASE RetryRefused \/ PauseInterrupted \/ ReadWhole \/ ReadCut
               \/ \E status \in {"upstream", "timeout"} : SendFails(status)
    <2>1. call.status \in Statuses
      BY DEF CallShape, CallTypeOK
    <2>2. \E status \in Statuses : Return(status)
      BY <1>4, <2>1
      DEF RetryRefused, PauseInterrupted, ReadWhole, ReadCut, SendFails, Statuses
    <2>3. QED
      BY <2>2, ReturnShape
  <1>5. QED
    BY <1>1, <1>2, <1>3, <1>4 DEF CallStep

\* What the API lists of the user and of services.
LEMMA BodiesItems ==
    ASSUME NEW body \in Bodies
    PROVE  /\ pc = "me" => body.items = {ProviderOf[s.user]} \ {NoProvider}
           /\ pc \in {"services", "resolve"} => body.items \subseteq Services
  <1>1. CASE pc = "me"
    <2>1. Bodies = {[items |-> {ProviderOf[s.user]} \ {NoProvider}, next |-> {}]}
      BY <1>1 DEF Bodies
    <2>2. QED
      BY <1>1, <2>1
  <1>2. CASE pc \in {"services", "resolve"}
    <2>1. Bodies = {[items |-> {v \in Services \cap there :
                                   v.provider = search.provider}, next |-> {}]}
      BY <1>2 DEF Bodies
    <2>2. QED
      BY <1>2, <2>1
  <1>3. QED
    BY <1>1, <1>2

-----------------------------------------------------------------------------
(***************************************************************************)
(* The stream.                                                             *)
(***************************************************************************)

Streams == [open : BOOLEAN, pending : Events, pieces : 0..Pieces,
            done : BOOLEAN, verdict : Verdicts]

LEMMA AskShape ==
    ASSUME Ask \/ StreamReset
    PROVE  StreamShape'
  <1>1. PICK open \in BOOLEAN :
          stream' = [open |-> open, pending |-> "none", pieces |-> 0,
                     done |-> FALSE, verdict |-> "none"]
    BY DEF Ask, StreamReset, NoStream
  <1>2. model' = [sent |-> 0, done |-> FALSE]
    BY DEF Ask, StreamReset, Silent
  <1>3. 0 \in 0..Pieces
    BY LLMAssumption
  <1>4. StreamTypeOK'
    BY <1>1, <1>2, <1>3 DEF StreamTypeOK, Events, Verdicts
  <1>5. QED
    BY <1>1, <1>2, <1>4 DEF StreamShape

LEMMA ModelSendsShape ==
    ASSUME StreamShape, NEW event \in Events \ {"none"}, ModelSends(event)
    PROVE  StreamShape' /\ stream'.open
  <1>1. /\ stream \in [open : BOOLEAN, pending : Events, pieces : 0..Pieces,
                       done : BOOLEAN, verdict : Verdicts]
        /\ model.sent \in 0..Pieces /\ ~model.done
        /\ stream.open /\ stream.pending = "none"
        /\ stream.pieces <= model.sent /\ ~stream.done
    BY DEF StreamShape, StreamTypeOK, ModelSends
  <1>2. /\ stream' = [stream EXCEPT !.pending = event]
        /\ model' = [sent |-> model.sent + (IF event = "piece" THEN 1 ELSE 0),
                     done |-> event = "done"]
        /\ event = "piece" => model.sent < Pieces
    BY DEF ModelSends
  <1>3. model' \in [sent : 0..Pieces, done : BOOLEAN]
    BY <1>1, <1>2, LLMAssumption
  <1>4. stream' \in [open : BOOLEAN, pending : Events, pieces : 0..Pieces,
                     done : BOOLEAN, verdict : Verdicts]
    BY <1>1, <1>2
  <1>5. /\ stream'.open /\ stream'.pieces = stream.pieces
        /\ stream'.pending = event /\ ~stream'.done
        /\ stream'.verdict = stream.verdict
    BY <1>1, <1>2
  <1>6. stream.verdict # "ok"
    BY <1>1 DEF StreamShape
  <1>7. QED
    BY <1>1, <1>2, <1>3, <1>4, <1>5, <1>6, LLMAssumption
    DEF StreamShape, StreamTypeOK

\* An event is taken in.
LEMMA FlushShape ==
    ASSUME StreamShape, stream.open, NEW f, f = flushEvent(stream)
    PROVE  /\ f \in Streams
           /\ f.pending = "none" /\ f.pieces <= model.sent
           /\ f.done => model.done
           /\ f.verdict = "ok" => f.done
  <1>1. /\ stream \in Streams
        /\ model.sent \in 0..Pieces
        /\ stream.pieces + (IF stream.pending = "piece" THEN 1 ELSE 0) <= model.sent
        /\ stream.done \/ stream.pending = "done" => model.done
        /\ stream.verdict = "ok" => stream.done
    BY DEF StreamShape, StreamTypeOK, Streams
  <1>2. "none" \in Events /\ "upstream" \in Verdicts /\ Pieces \in Nat
    BY LLMAssumption DEF Events, Verdicts
  <1>3. CASE stream.pending = "piece"
    <2>1. f = [stream EXCEPT !.pending = "none", !.pieces = stream.pieces + 1]
      BY <1>3 DEF flushEvent
    <2>2. stream.pieces \in 0..Pieces /\ stream.pieces + 1 <= model.sent
      BY <1>1, <1>3 DEF Streams
    <2>3. stream.pieces + 1 \in 0..Pieces
      BY <1>1, <1>2, <2>2
    <2>4. f \in Streams /\ f.pieces = stream.pieces + 1
      BY <1>1, <1>2, <2>1, <2>3 DEF Streams
    <2>5. /\ f.pending = "none" /\ f.done = stream.done
          /\ f.verdict = stream.verdict
      BY <1>1, <2>1 DEF Streams
    <2>6. QED
      BY <1>1, <2>2, <2>4, <2>5
  <1>4. CASE stream.pending # "piece"
    <2>1. PICK done \in BOOLEAN, open \in BOOLEAN, verdict \in Verdicts :
            /\ f = [stream EXCEPT !.pending = "none", !.done = done,
                                  !.open = open, !.verdict = verdict]
            /\ done => stream.done \/ stream.pending = "done"
            /\ stream.done => done
            /\ verdict \in {stream.verdict, "upstream"}
      <3>1. CASE stream.pending = "done"
        <4>1. f = [stream EXCEPT !.pending = "none", !.done = TRUE]
          BY <3>1 DEF flushEvent
        <4>2. f = [stream EXCEPT !.pending = "none", !.done = TRUE,
                                 !.open = stream.open, !.verdict = stream.verdict]
          BY <1>1, <4>1 DEF Streams
        <4>3. QED
          BY <1>1, <3>1, <4>2 DEF Streams
      <3>2. CASE stream.pending = "bad"
        <4>1. f = [stream EXCEPT !.pending = "none", !.open = FALSE,
                                 !.verdict = "upstream"]
          BY <3>2 DEF flushEvent, Conclude
        <4>2. f = [stream EXCEPT !.pending = "none", !.done = stream.done,
                                 !.open = FALSE, !.verdict = "upstream"]
          BY <1>1, <4>1 DEF Streams
        <4>3. QED
          BY <1>1, <1>2, <4>2 DEF Streams
      <3>3. CASE stream.pending \notin {"done", "bad"}
        <4>1. f = [stream EXCEPT !.pending = "none"]
          BY <1>4, <3>3 DEF flushEvent
        <4>2. f = [stream EXCEPT !.pending = "none", !.done = stream.done,
                                 !.open = stream.open, !.verdict = stream.verdict]
          BY <1>1, <4>1 DEF Streams
        <4>3. QED
          BY <1>1, <4>2 DEF Streams
      <3>4. QED
        BY <3>1, <3>2, <3>3
    <2>2. /\ f \in Streams
          /\ f.pending = "none" /\ f.pieces = stream.pieces /\ f.done = done
          /\ f.verdict = verdict
      BY <1>1, <1>2, <2>1 DEF Streams
    <2>3. QED
      BY <1>1, <1>4, <2>1, <2>2 DEF Streams
  <1>5. QED
    BY <1>3, <1>4

\* A stream that ends well has had its [DONE].
LEMMA CompletedShape ==
    ASSUME NEW f \in Streams, f.verdict = "ok" => f.done,
           NEW d, d = Completed(f)
    PROVE  /\ d \in Streams
           /\ d.pending = f.pending /\ d.pieces = f.pieces /\ d.done = f.done
           /\ d.verdict = "ok" => d.done
  <1>1. CASE ~f.open
    BY <1>1 DEF Completed
  <1>2. CASE f.open
    <2>1. PICK verdict \in {"ok", "upstream"} :
            /\ d = [f EXCEPT !.open = FALSE, !.verdict = verdict]
            /\ verdict = "ok" => f.done
      BY <1>2 DEF Completed, Conclude
    <2>2. verdict \in Verdicts
      BY DEF Verdicts
    <2>3. QED
      BY <2>1, <2>2 DEF Streams
  <1>3. QED
    BY <1>1, <1>2 DEF Streams

LEMMA BlankLineShape ==
    ASSUME StreamShape, BlankLine \/ StreamEnds
    PROVE  StreamShape'
  <1>1. /\ stream.open /\ model' = model
        /\ stream' \in {flushEvent(stream), Completed(flushEvent(stream))}
    BY DEF BlankLine, StreamEnds
  <1>2. PICK f : f = flushEvent(stream)
    OBVIOUS
  <1>3. PICK d : d = Completed(f)
    OBVIOUS
  <1>4. PICK e \in {f, d} : stream' = e
    BY <1>1, <1>2, <1>3
  <1>5. /\ f \in Streams
        /\ f.pending = "none" /\ f.pieces <= model.sent
        /\ f.done => model.done
        /\ f.verdict = "ok" => f.done
    BY <1>1, <1>2, FlushShape
  <1>6. /\ d \in Streams
        /\ d.pending = f.pending /\ d.pieces = f.pieces /\ d.done = f.done
        /\ d.verdict = "ok" => d.done
    BY <1>3, <1>5, CompletedShape
  <1>7. /\ e \in Streams /\ e.pending = "none"
        /\ e.pieces + 0 <= model.sent
        /\ e.done => model.done
        /\ e.verdict = "ok" => e.done
    BY <1>5, <1>6 DEF Streams
  <1>8. QED
    BY <1>1, <1>4, <1>7 DEF StreamShape, StreamTypeOK, Streams

LEMMA StreamFailsShape ==
    ASSUME StreamShape, NEW verdict \in {"upstream", "timeout"},
           StreamFails(verdict)
    PROVE  StreamShape'
  <1>1. /\ stream' = [stream EXCEPT !.open = FALSE, !.verdict = verdict]
        /\ model' = model
    BY DEF StreamFails, Conclude
  <1>2. verdict \in Verdicts
    BY DEF Verdicts
  <1>3. /\ stream' \in [open : BOOLEAN, pending : Events, pieces : 0..Pieces,
                        done : BOOLEAN, verdict : Verdicts]
        /\ stream'.pieces = stream.pieces /\ stream'.pending = stream.pending
        /\ stream'.done = stream.done /\ stream'.verdict = verdict
    BY <1>1, <1>2 DEF StreamShape, StreamTypeOK
  <1>4. QED
    BY <1>1, <1>3 DEF StreamShape, StreamTypeOK

\* Events are only received on an open stream.
LEMMA StreamStepShape ==
    ASSUME StreamShape, StreamStep
    PROVE  StreamShape' /\ stream.open
  <1>1. CASE \E event \in {"piece", "done", "note", "bad"} : ModelSends(event)
    <2>1. {"piece", "done", "note", "bad"} = Events \ {"none"}
      BY DEF Events
    <2>2. QED
      BY <1>1, <2>1, ModelSendsShape DEF ModelSends
  <1>2. CASE BlankLine \/ StreamEnds
    BY <1>2, BlankLineShape DEF BlankLine, StreamEnds
  <1>3. CASE \E verdict \in {"upstream", "timeout"} : StreamFails(verdict)
    BY <1>3, StreamFailsShape DEF StreamFails
  <1>4. QED
    BY <1>1, <1>2, <1>3 DEF StreamStep

-----------------------------------------------------------------------------
(***************************************************************************)
(* A step of the handler ends one read and starts another, or none.        *)
(***************************************************************************)

Turn ==
    /\ CallShape'
    /\ (call'.stage # "idle") = (pc' \in Reads)
    /\ call'.body.items = {}

LEMMA GoTurns ==
    ASSUME NEW to \in Reads, Go(to)
    PROVE  Turn /\ pc' = to
  BY StartCallShape DEF Go, Turn

LEMMA SayTurns ==
    ASSUME NEW kind, NEW items, Say(kind, items)
    PROVE  Turn /\ pc' = "reply"
  BY EndCallShape DEF Say, Turn, Reads

\* A search is for the provider of the session, or there is none.
Searches ==
    /\ IsSearch'
    /\ search'.provider \in {search.provider, s.provider}
    /\ pc' # "reply" => search'.provider = s.provider

LEMMA SearchForSearches ==
    ASSUME NEW p, NEW interval, NEW service, SearchFor(p, interval, service)
    PROVE  Searches
  <1>1. search' = [provider |-> s.provider, interval |-> interval, cursor |-> {},
                   found |-> <<>>, service |-> service]
    BY DEF SearchFor, NoSearch
  <1>2. QED
    BY <1>1 DEF Searches, IsSearch

LEMMA RefuseTurns ==
    ASSUME NEW status, Refuse(status), IsSearch
    PROVE  Turn /\ Searches /\ pc' = "reply"
  BY SayTurns DEF Refuse, Searches, IsSearch

LEMMA StartSlotsTurns ==
    ASSUME NEW p, NEW service, StartSlots(p, service)
    PROVE  Turn /\ Searches /\ pc' = "slots"
  BY SearchForSearches, GoTurns DEF StartSlots, Reads

LEMMA resolveServiceByNameTurns ==
    ASSUME NEW p, NEW services, resolveServiceByName(p, services), IsSearch
    PROVE  Turn /\ Searches /\ pc' \in {"reply", "slots"}
  <1> DEFINE matches == UNION {ServicesNamed(name, services) :
                                 name \in p.params.serviceName}
  <1>1. \/ Refuse("not_found") \/ Refuse("conflict")
        \/ \E v \in matches : StartSlots(p, v.id)
    BY DEF resolveServiceByName
  <1>2. QED
    BY <1>1, RefuseTurns, StartSlotsTurns

LEMMA ActOnTurns ==
    ASSUME NEW p, p.intent \in Intents, ActOn(p), IsSearch
    PROVE  /\ Turn /\ Searches /\ plan' = p
           /\ pc' \in {"reply", "zone", "bookings", "resolve", "slots"}
  <1>1. plan' = p
    BY DEF ActOn
  <1>2. \/ Refuse("unknown") \/ Refuse("question")
        \/ StartList(p) \/ StartFind(p) \/ StartCreate(p) \/ StartCancel(p)
    BY DEF ActOn, Intents
  <1>3. CASE Refuse("unknown") \/ Refuse("question")
    BY <1>1, <1>3, RefuseTurns
  <1>4. CASE StartList(p)
    BY <1>1, <1>4, SearchForSearches, GoTurns DEF StartList, Reads
  <1>5. CASE StartFind(p)
    BY <1>1, <1>5, RefuseTurns, StartSlotsTurns DEF StartFind
  <1>6. CASE StartCreate(p)
    <2>1. CASE \E service \in p.params.service : StartSlots(p, service)
      BY <1>1, <2>1, StartSlotsTurns
    <2>2. CASE Refuse("validation")
      BY <1>1, <2>2, RefuseTurns
    <2>3. CASE SearchFor(p, <<0, 0>>, {}) /\ Go("resolve")
      BY <1>1, <2>3, SearchForSearches, GoTurns DEF Reads
    <2>4. CASE \E services \in cache[s.provider] : resolveServiceByName(p, services)
      BY <1>1, <2>4, resolveServiceByNameTurns
    <2>5. QED
      BY <1>6, <2>1, <2>2, <2>3, <2>4 DEF StartCreate
  <1>7. CASE StartCancel(p)
    BY <1>1, <1>7, SearchForSearches, GoTurns DEF StartCancel, Reads
  <1>8. QED
    BY <1>2, <1>3, <1>4, <1>5, <1>6, <1>7

\* What a turn of the handler leaves alone, and how the rest keeps its type.
Frame ==
    /\ UNCHANGED <<session, msg, live, there, kept, seen, received, changes>>
    /\ faults' \in 0..MaxFaults

LEMMA FaultsType ==
    ASSUME IInv, Fault \/ Calm
    PROVE  faults' \in 0..MaxFaults
  BY BoundsAssumption DEF IInv, HandlerTypes, Fault, Calm

LEMMA QuietFrame ==
    ASSUME IInv, QuietButFaults, Fault \/ Calm
    PROVE  Frame
  BY FaultsType DEF QuietButFaults, Frame, history

CacheOK ==
    /\ cache \in [Providers -> SUBSET SUBSET Services]
    /\ \A p \in Providers : cache[p] = {} \/ \E v \in SUBSET Services : cache[p] = {v}

\* The provider of the user whose message is in hand.
LEMMA TheActor ==
    ASSUME IInv, pc # "idle"
    PROVE  /\ msg \in Messages /\ msg.from \in Users /\ s.user = msg.from
           /\ Actor \in Providers \cup {NoProvider}
           /\ Actor = ProviderOf[s.user]
           /\ msg.looks \in {"injection", "agenda", "ordinary"}
           /\ msg.looks = "ordinary" => msg.reply.intent \in Intents
  BY UsersAssumption, MessagesAssumption DEF IInv, ActorOK, Actor, Intents

\* A turn keeps the invariant if the plan, the session's copy and the search
\* are still right.
LEMMA TurnIInv ==
    ASSUME IInv, pc # "idle", Turn, Frame, StreamOK', CacheOK', IsSearch',
           pc' \in PCs \ {"idle", "interpret"},
           plan'.intent \in Intents \cup {"none"},
           pc' \in BeforePlan => plan'.intent = "none",
           ActsOnFinishedAnswer',
           s' \in Session, s'.user = s.user, s'.provider \in {NoProvider, Actor},
           search'.provider \in Providers \cup {NoProvider},
           pc' \in {"services", "profile"} =>
             search'.provider = Actor /\ Actor \in Providers,
           pc' \in Resolved => s'.provider = Actor /\ Actor \in Providers,
           pc' = "resolve" => search'.provider = s'.provider
    PROVE  IInv'
  <1>1. Actor' = Actor /\ UNCHANGED <<session, msg>>
    BY DEF Frame, Actor
  <1>2. HandlerTypes'
    BY DEF IInv, HandlerTypes, Frame
  <1>3. WorldTypes'
    BY DEF IInv, WorldTypes, Frame, CacheOK
  <1>4. CallOK'
    BY DEF Turn, CallOK
  <1>5. ActorOK'
    BY <1>1 DEF IInv, ActorOK
  <1>6. QED
    BY <1>2, <1>3, <1>4, <1>5 DEF IInv, AskedOK

\* Reads are made while no stream is open.
LEMMA NoStreamStays ==
    ASSUME IInv, UNCHANGED <<stream, model>>, ~stream.open
    PROVE  StreamOK'
  BY DEF IInv, StreamOK, StreamShape, StreamTypeOK

LEMMA ServicesKeptCache ==
    ASSUME IInv, ServicesKept, pc \in {"services", "resolve"}
    PROVE  CacheOK' /\ (Fault \/ Calm)
  <1>1. call.body.items \in SUBSET Services /\ CacheOK
    BY DEF IInv, CallOK, CacheOK, WorldTypes
  <1>2. \/ cache' = [cache EXCEPT ![search.provider] = {call.body.items}]
        \/ UNCHANGED cache
    BY DEF ServicesKept
  <1>3. QED
    BY <1>1, <1>2 DEF CacheOK, ServicesKept

-----------------------------------------------------------------------------
(***************************************************************************)
(* The steps up to the plan.                                               *)
(***************************************************************************)

\* The API says which provider the user is.
LEMMA MeReturnedIInv ==
    ASSUME IInv, MeReturned
    PROVE  IInv'
  <1>1. /\ pc = "me" /\ UNCHANGED <<s, plan, stream, model, cache>>
        /\ plan.intent = "none" /\ ~stream.open
        /\ call.body.items \subseteq {ProviderOf[s.user]} \ {NoProvider}
    BY DEF MeReturned, Got, IInv, HandlerTypes, BeforePlan, StreamOK, CallOK
  <1>2. Frame /\ CacheOK' /\ StreamOK'
    BY <1>1, QuietFrame, NoStreamStays
    DEF MeReturned, Quiet, Calm, IInv, WorldTypes, CacheOK
  <1>3. ActsOnFinishedAnswer'
    BY <1>1 DEF ActsOnFinishedAnswer
  <1>4. s \in Session /\ IsSearch /\ s.provider \in {NoProvider, Actor}
        /\ search.provider \in Providers \cup {NoProvider}
    BY <1>1 DEF IInv, HandlerTypes, ActorOK
  <1>5. CASE Say("forbidden", <<>>) /\ UNCHANGED search
    <2>1. Turn /\ pc' = "reply" /\ IsSearch'
      BY <1>4, <1>5, SayTurns DEF IsSearch
    <2>2. QED
      BY <1>1, <1>2, <1>3, <1>4, <1>5, <2>1, TurnIInv DEF PCs, BeforePlan, Resolved
  <1>6. CASE \E provider \in call.body.items :
               /\ search' = [search EXCEPT !.provider = provider]
               /\ Go("services") \/ Go("profile")
    <2>1. PICK provider \in call.body.items :
            /\ search' = [search EXCEPT !.provider = provider]
            /\ Go("services") \/ Go("profile")
      BY <1>6
    <2>2. provider = Actor /\ Actor \in Providers
      BY <1>1, TheActor
    <2>3. Turn /\ pc' \in {"services", "profile"}
      BY <2>1, GoTurns DEF Reads
    <2>4. search' = [provider |-> provider, interval |-> search.interval,
                     cursor |-> search.cursor, found |-> search.found,
                     service |-> search.service]
      BY <1>4, <2>1 DEF IsSearch
    <2>5. IsSearch' /\ search'.provider = provider
      BY <2>4 DEF IsSearch
    <2>6. QED
      BY <1>1, <1>2, <1>3, <1>4, <2>2, <2>3, <2>5, TurnIInv
      DEF PCs, Reads, BeforePlan, Resolved
  <1>7. QED
    BY <1>5, <1>6 DEF MeReturned

LEMMA ServicesReturnedIInv ==
    ASSUME IInv, ServicesReturned
    PROVE  IInv'
  <1>1. /\ pc = "services" /\ UNCHANGED <<s, plan, search, stream, model>>
        /\ plan.intent = "none" /\ ~stream.open /\ Go("profile")
    BY DEF ServicesReturned, Got, IInv, HandlerTypes, BeforePlan, StreamOK
  <1>2. Frame /\ CacheOK' /\ StreamOK'
    BY <1>1, QuietFrame, NoStreamStays, ServicesKeptCache DEF ServicesReturned
  <1>3. Turn /\ pc' = "profile"
    BY <1>1, GoTurns DEF Reads
  <1>4. ActsOnFinishedAnswer' /\ IsSearch'
    BY <1>1 DEF ActsOnFinishedAnswer, IInv, HandlerTypes, IsSearch
  <1>5. /\ s \in Session /\ s.provider \in {NoProvider, Actor}
        /\ search.provider = Actor /\ Actor \in Providers
    BY <1>1 DEF IInv, HandlerTypes, ActorOK
  <1>6. QED
    BY <1>1, <1>2, <1>3, <1>4, <1>5, TurnIInv DEF PCs, Reads, BeforePlan, Resolved

LEMMA ProfileReturnedIInv ==
    ASSUME IInv, ProfileReturned
    PROVE  IInv'
  <1>1. /\ pc = "profile" /\ UNCHANGED <<plan, search, stream, model, cache>>
        /\ plan.intent = "none" /\ ~stream.open
        /\ s' = [s EXCEPT !.provider = search.provider]
        /\ pc' = "typing" /\ EndCall
    BY DEF ProfileReturned, Got, IInv, HandlerTypes, BeforePlan, StreamOK
  <1>2. Frame /\ CacheOK' /\ StreamOK'
    BY <1>1, QuietFrame, NoStreamStays
    DEF ProfileReturned, Quiet, Calm, IInv, WorldTypes, CacheOK
  <1>3. Turn
    BY <1>1, EndCallShape DEF Turn, Reads
  <1>4. ActsOnFinishedAnswer' /\ IsSearch'
    BY <1>1 DEF ActsOnFinishedAnswer, IInv, HandlerTypes, IsSearch
  <1>5. /\ s \in Session
        /\ search.provider = Actor /\ Actor \in Providers
    BY <1>1 DEF IInv, HandlerTypes, ActorOK
  <1>6. s' \in Session /\ s'.user = s.user /\ s'.provider = Actor
    BY <1>1, <1>5 DEF Session
  <1>7. QED
    BY <1>1, <1>2, <1>3, <1>4, <1>5, <1>6, TurnIInv DEF PCs, BeforePlan, Resolved

LEMMA ReadFailedIInv ==
    ASSUME IInv, ReadFailed
    PROVE  IInv'
  <1>1. /\ pc \in Reads /\ UNCHANGED <<s, plan, search, stream, model, cache>>
        /\ ~stream.open /\ SayError(call.status)
    BY DEF ReadFailed, Failed, IInv, StreamOK, Reads
  <1>2. Frame /\ CacheOK' /\ StreamOK'
    BY <1>1, QuietFrame, NoStreamStays
    DEF ReadFailed, Quiet, Calm, IInv, WorldTypes, CacheOK
  <1>3. Turn /\ pc' = "reply"
    BY <1>1, SayTurns DEF SayError
  <1>4. ActsOnFinishedAnswer'
    BY <1>1, <1>2 DEF ActsOnFinishedAnswer, IInv, Frame
  <1>5. /\ s \in Session /\ IsSearch' /\ pc # "idle"
        /\ s.provider \in {NoProvider, Actor}
        /\ search.provider \in Providers \cup {NoProvider}
        /\ plan.intent \in Intents \cup {"none"}
    BY <1>1 DEF IInv, HandlerTypes, ActorOK, IsSearch, Reads
  <1>6. QED
    BY <1>1, <1>2, <1>3, <1>4, <1>5, TurnIInv DEF PCs, BeforePlan, Resolved

-----------------------------------------------------------------------------
(***************************************************************************)
(* The plan, and the steps after it.                                       *)
(***************************************************************************)

\* Acting on a plan keeps the invariant, if the plan is not from a reply that
\* the model has not finished.
LEMMA ActOnIInv ==
    ASSUME IInv, pc \in {"typing", "interpret"}, NEW p, p.intent \in Intents, ActOn(p),
           ~stream.open, UNCHANGED <<s, stream, model, cache>>, Frame,
           msg.looks = "ordinary" /\ p.intent # "unknown" =>
             model.done /\ model.sent = Pieces
    PROVE  IInv'
  <1>1. IsSearch /\ s \in Session /\ s.provider = Actor /\ Actor \in Providers
        /\ search.provider \in Providers \cup {NoProvider}
    BY DEF IInv, HandlerTypes, ActorOK, Resolved
  <1>2. /\ Turn /\ Searches /\ plan' = p
        /\ pc' \in {"reply", "zone", "bookings", "resolve", "slots"}
    BY <1>1, ActOnTurns
  <1>3. CacheOK' /\ StreamOK'
    BY NoStreamStays DEF IInv, WorldTypes, CacheOK
  <1>4. ActsOnFinishedAnswer'
    BY <1>2 DEF ActsOnFinishedAnswer, Frame
  <1>5. /\ IsSearch' /\ search'.provider \in Providers \cup {NoProvider}
        /\ pc' = "resolve" => search'.provider = s'.provider
    BY <1>1, <1>2 DEF Searches
  <1>6. pc' \in PCs \ {"idle", "interpret"} /\ pc' \notin BeforePlan
    BY <1>2 DEF PCs, Reads, BeforePlan
  <1>7. QED
    BY <1>1, <1>2, <1>3, <1>4, <1>5, <1>6, TurnIInv DEF BeforePlan

\* The model is asked with nothing planned.
LEMMA InterpretIInv ==
    ASSUME IInv, Interpret
    PROVE  IInv'
  <1>1. /\ pc = "typing" /\ UNCHANGED <<s, cache>> /\ ~stream.open
        /\ plan.intent = "none"
    BY DEF Interpret, IInv, HandlerTypes, BeforePlan, StreamOK
  <1>2. Frame
    BY QuietFrame DEF Interpret, Quiet, Calm
  <1>3. msg.looks \in {"injection", "agenda", "ordinary"}
    BY <1>1, TheActor
  <1>4. CASE msg.looks = "injection"
    <2>1. ActOn(Unknown) /\ UNCHANGED <<stream, model>>
      BY <1>4 DEF Interpret
    <2>2. Unknown.intent \in Intents
      BY DEF Unknown, Intents
    <2>3. QED
      BY <1>1, <1>2, <1>4, <2>1, <2>2, ActOnIInv
  <1>5. CASE msg.looks = "agenda"
    <2>1. ActOn(Agenda) /\ UNCHANGED <<stream, model>>
      BY <1>5 DEF Interpret
    <2>2. Agenda.intent \in Intents
      BY DEF Agenda, Intents
    <2>3. QED
      BY <1>1, <1>2, <1>5, <2>1, <2>2, ActOnIInv
  <1>6. CASE msg.looks = "ordinary"
    <2>1. Ask /\ pc' = "interpret" /\ UNCHANGED <<plan, search, call, answer>>
      BY <1>6 DEF Interpret
    <2>2. StreamOK'
      BY <2>1, AskShape DEF StreamOK
    <2>3. CallOK'
      BY <1>1, <2>1 DEF IInv, CallOK, CallShape, CallTypeOK, Reads
    <2>4. Actor' = Actor /\ UNCHANGED <<session, msg>>
      BY <1>2 DEF Actor, Frame
    <2>5. HandlerTypes'
      BY <1>1, <1>2, <2>1
      DEF IInv, HandlerTypes, Frame, PCs, BeforePlan, IsSearch
    <2>6. WorldTypes'
      BY <1>1, <1>2, <2>1 DEF IInv, WorldTypes, Frame
    <2>7. ActorOK'
      BY <1>1, <2>1, <2>4 DEF IInv, ActorOK, Resolved
    <2>8. ActsOnFinishedAnswer'
      BY <1>1, <2>1 DEF ActsOnFinishedAnswer
    <2>9. QED
      BY <1>6, <2>2, <2>3, <2>4, <2>5, <2>6, <2>7, <2>8 DEF IInv, AskedOK
  <1>7. QED
    BY <1>3, <1>4, <1>5, <1>6

\* A reply that is read to its end is one that the model has sent.
LEMMA InterpretedIInv ==
    ASSUME IInv, Interpreted
    PROVE  IInv'
  <1>1. /\ pc = "interpret" /\ UNCHANGED <<s, stream, model, cache>> /\ ~stream.open
        /\ plan.intent = "none"
    BY DEF Interpreted, IInv, HandlerTypes, BeforePlan
  <1>2. Frame
    BY QuietFrame DEF Interpreted, Quiet, Calm
  <1>3. CASE stream.verdict = "ok" /\ ActOn(PlanFromReply)
    <2>1. CASE PlanFromReply = Unknown
      <3>1. Unknown.intent = "unknown" /\ "unknown" \in Intents
        BY DEF Unknown, Intents
      <3>2. QED
        BY <1>1, <1>2, <1>3, <2>1, <3>1, ActOnIInv
    <2>2. CASE PlanFromReply # Unknown
      <3>1. /\ ReplyIsWhole /\ PlanFromReply.intent = msg.reply.intent
        BY <2>2 DEF PlanFromReply
      <3>2. model.done /\ model.sent = Pieces
        BY <1>1, <1>3, <3>1, LLMAssumption
        DEF IInv, StreamOK, StreamShape, StreamTypeOK, ReplyIsWhole
      <3>3. msg.looks = "ordinary"
        BY <1>1 DEF IInv, AskedOK
      <3>4. PlanFromReply.intent \in Intents
        BY <1>1, <3>1, <3>3, TheActor
      <3>5. QED
        BY <1>1, <1>2, <1>3, <3>2, <3>4, ActOnIInv
    <2>3. QED
      BY <2>1, <2>2
  <1>4. CASE SayError(stream.verdict) /\ UNCHANGED <<plan, search>>
    <2>1. Turn /\ pc' = "reply"
      BY <1>4, SayTurns DEF SayError
    <2>2. CacheOK' /\ StreamOK'
      BY <1>1, NoStreamStays DEF IInv, WorldTypes, CacheOK
    <2>3. ActsOnFinishedAnswer'
      BY <1>1, <1>4 DEF ActsOnFinishedAnswer
    <2>4. /\ s \in Session /\ IsSearch' /\ s.provider \in {NoProvider, Actor}
          /\ search.provider \in Providers \cup {NoProvider}
      BY <1>1, <1>4 DEF IInv, HandlerTypes, ActorOK, IsSearch
    <2>5. QED
      BY <1>1, <1>2, <1>4, <2>1, <2>2, <2>3, <2>4, TurnIInv
      DEF PCs, BeforePlan, Resolved
  <1>5. QED
    BY <1>3, <1>4 DEF Interpreted

\* After the plan the handler looks for what the plan asks, with the provider
\* of its session.
LEMMA SearchTurnIInv ==
    ASSUME IInv, pc \in {"zone", "bookings", "resolve", "slots"}, Turn, Frame,
           UNCHANGED <<s, plan, stream, model>>, CacheOK', IsSearch',
           search'.provider \in {search.provider, s.provider},
           pc' \in {"reply", "bookings", "slots"}
    PROVE  IInv'
  <1>1. /\ s \in Session /\ s.provider = Actor /\ Actor \in Providers
        /\ search.provider \in Providers \cup {NoProvider}
        /\ plan.intent \in Intents \cup {"none"} /\ ~stream.open
    BY DEF IInv, HandlerTypes, ActorOK, Resolved, StreamOK
  <1>2. StreamOK'
    BY <1>1, NoStreamStays
  <1>3. ActsOnFinishedAnswer'
    BY DEF IInv, ActsOnFinishedAnswer, Frame
  <1>4. pc' \in PCs \ {"idle", "interpret"} /\ pc' \notin BeforePlan
    BY DEF PCs, Reads, BeforePlan
  <1>5. QED
    BY <1>1, <1>2, <1>3, <1>4, TurnIInv DEF BeforePlan

LEMMA ZoneReturnedIInv ==
    ASSUME IInv, ZoneReturned
    PROVE  IInv'
  <1>1. /\ pc = "zone" /\ UNCHANGED <<s, plan, stream, model, cache>> /\ IsSearch
        /\ CacheOK'
    BY DEF ZoneReturned, Got, IInv, HandlerTypes, WorldTypes, CacheOK
  <1>2. Frame
    BY QuietFrame DEF ZoneReturned, Quiet, Calm
  <1>3. \/ Refuse("validation")
        \/ Go("bookings") /\ \E interval : SearchFor(plan, interval, {})
    BY DEF ZoneReturned
  <1>4. Turn /\ Searches /\ pc' \in {"reply", "bookings"}
    BY <1>1, <1>3, RefuseTurns, SearchForSearches, GoTurns DEF Reads
  <1>5. QED
    BY <1>1, <1>2, <1>4, SearchTurnIInv DEF Searches

\* A page is followed by another, or the answer.
LEMMA BookingsReturnedIInv ==
    ASSUME IInv, BookingsReturned
    PROVE  IInv'
  <1>1. /\ pc = "bookings" /\ UNCHANGED <<s, plan, stream, model, cache>>
        /\ IsSearch /\ CacheOK'
    BY DEF BookingsReturned, Got, IInv, HandlerTypes, WorldTypes, CacheOK
  <1>2. Frame
    BY QuietFrame DEF BookingsReturned, Quiet, Calm
  <1>3. PICK found :
          /\ search' = [search EXCEPT !.found = found, !.cursor = call.body.next]
          /\ SayBookings(found) \/ Go("bookings")
    BY DEF BookingsReturned
  <1>4. search' = [provider |-> search.provider, interval |-> search.interval,
                   cursor |-> call.body.next, found |-> found,
                   service |-> search.service]
    BY <1>1, <1>3 DEF IsSearch
  <1>5. IsSearch' /\ search'.provider = search.provider
    BY <1>4 DEF IsSearch
  <1>6. CASE SayBookings(found)
    <2>1. \E kind, items : Say(kind, items)
      BY <1>6 DEF SayBookings, SayMatches
    <2>2. QED
      BY <1>1, <1>2, <1>5, <2>1, SayTurns, SearchTurnIInv
  <1>7. CASE Go("bookings")
    BY <1>1, <1>2, <1>5, <1>7, GoTurns, SearchTurnIInv DEF Reads
  <1>8. QED
    BY <1>3, <1>6, <1>7

LEMMA ServicesListedIInv ==
    ASSUME IInv, ServicesListed
    PROVE  IInv'
  <1>1. /\ pc = "resolve" /\ UNCHANGED <<s, plan, stream, model>> /\ IsSearch
        /\ ServicesKept /\ resolveServiceByName(plan, call.body.items)
    BY DEF ServicesListed, Got, IInv, HandlerTypes
  <1>2. Frame /\ CacheOK'
    BY <1>1, QuietFrame, ServicesKeptCache DEF ServicesListed
  <1>3. Turn /\ Searches /\ pc' \in {"reply", "slots"}
    BY <1>1, resolveServiceByNameTurns
  <1>4. QED
    BY <1>1, <1>2, <1>3, SearchTurnIInv DEF Searches

LEMMA SlotsReturnedIInv ==
    ASSUME IInv, SlotsReturned
    PROVE  IInv'
  <1>1. /\ pc = "slots" /\ UNCHANGED <<s, plan, search, stream, model, cache>>
        /\ IsSearch' /\ CacheOK'
    BY DEF SlotsReturned, Got, IInv, HandlerTypes, IsSearch, WorldTypes, CacheOK
  <1>2. Frame
    BY QuietFrame DEF SlotsReturned, Quiet, Calm
  <1>3. \E kind, items : Say(kind, items)
    BY DEF SlotsReturned
  <1>4. QED
    BY <1>1, <1>2, <1>3, SayTurns, SearchTurnIInv

-----------------------------------------------------------------------------
(***************************************************************************)
(* The arrival of a message, and the end of its handler.                   *)
(***************************************************************************)

\* A session that another user left keeps no provider.
LEMMA ReceiveIInv ==
    ASSUME IInv, NEW m \in Messages, Receive(m)
    PROVE  IInv'
  <1> DEFINE first == ProviderAtFirst(m)
  <1>1. /\ pc = "idle" /\ received < MaxMessages /\ received' = received + 1
        /\ msg' = m /\ live' = TRUE /\ kept' = there /\ seen' = there
        /\ s' = [user |-> m.from, provider |-> first]
        /\ UNCHANGED <<session, plan, search, stream, model, cache, there, changes,
                       faults>>
        /\ plan.intent = "none" /\ ~stream.open /\ m.from \in Users
    BY MessagesAssumption
    DEF Receive, IInv, HandlerTypes, BeforePlan, StreamOK
  <1>2. /\ first \in {NoProvider, ProviderOf[m.from]}
        /\ first # NoProvider => ProviderOf[m.from] \in Providers
    BY <1>1, UsersAssumption
    DEF ProviderAtFirst, IInv, ActorOK, HandlerTypes, Session
  <1>3. s' \in Session /\ s'.user = m.from /\ s'.provider = first
    BY <1>1, <1>2, UsersAssumption DEF Session
  <1>4. \/ first = NoProvider /\ Go("me")
        \/ first # NoProvider /\ pc' = "typing" /\ UNCHANGED call
    BY DEF Receive
  <1> HIDE DEF first
  <1>5. pc' \in {"me", "typing"}
    BY <1>4, GoTurns DEF Reads
  <1>6. HandlerTypes'
    BY <1>1, <1>3, <1>5, BoundsAssumption
    DEF IInv, HandlerTypes, PCs, Reads, BeforePlan, IsSearch
  <1>7. WorldTypes'
    BY <1>1, <1>5 DEF IInv, WorldTypes
  <1>8. CallOK'
    <2>1. CASE Go("me")
      BY <2>1, GoTurns DEF Turn, CallOK, Reads
    <2>2. CASE pc' = "typing" /\ UNCHANGED call
      BY <1>1, <2>2 DEF IInv, CallOK, CallShape, CallTypeOK, Reads
    <2>3. QED
      BY <1>4, <2>1, <2>2
  <1>9. StreamOK'
    BY <1>1, NoStreamStays
  <1>10. ActorOK'
    <2>1. Actor' = ProviderOf[m.from] /\ session' = session
      BY <1>1 DEF Actor
    <2>2. pc' = "typing" => s'.provider = Actor' /\ Actor' \in Providers
      BY <1>2, <1>3, <1>4, <2>1, GoTurns DEF Reads
    <2>3. QED
      BY <1>1, <1>2, <1>3, <1>5, <2>1, <2>2 DEF IInv, ActorOK, Resolved
  <1>11. AskedOK' /\ ActsOnFinishedAnswer'
    BY <1>1, <1>5 DEF AskedOK, ActsOnFinishedAnswer
  <1>12. QED
    BY <1>6, <1>7, <1>8, <1>9, <1>10, <1>11 DEF IInv

\* A session that is stored has its own user's provider, or none.
LEMMA FinishIInv ==
    ASSUME IInv, pc \in {"typing", "reply"}, NEW stored \in {session, s},
           Finish(stored), Fault \/ Calm
    PROVE  IInv'
  <1>1. /\ session' = stored /\ s' = NoSession /\ msg' = NoMessage
        /\ pc' = "idle" /\ live' = TRUE /\ plan' = NoPlan /\ search' = NoSearch
        /\ kept' = {} /\ seen' = {}
        /\ StreamReset
        /\ UNCHANGED <<call, cache, there, received, changes>>
    BY DEF Finish
  <1>2. faults' \in 0..MaxFaults
    BY FaultsType
  <1>3. /\ NoSession \in Session /\ NoPlan.intent = "none"
        /\ NoSearch = [provider |-> NoProvider, interval |-> <<0, 0>>, cursor |-> {},
                       found |-> <<>>, service |-> {}]
    BY DEF NoSession, Session, NoPlan, NoSearch
  <1>4. IsSearch' /\ search'.provider = NoProvider
    BY <1>1, <1>3 DEF IsSearch
  <1>5. stored \in Session
    BY DEF IInv, HandlerTypes
  <1>6. HandlerTypes'
    BY <1>1, <1>2, <1>3, <1>4, <1>5 DEF IInv, HandlerTypes, PCs
  <1>7. WorldTypes'
    BY <1>1 DEF IInv, WorldTypes
  <1>8. CallOK'
    BY <1>1 DEF IInv, CallOK, CallShape, CallTypeOK, Reads
  <1>9. stream'.open = FALSE /\ StreamOK'
    BY <1>1, AskShape DEF StreamReset, NoStream, StreamOK
  <1>10. stored.provider # NoProvider =>
           stored.user \in Users /\ stored.provider = ProviderOf[stored.user]
    BY TheActor DEF IInv, ActorOK
  <1>11. ActorOK'
    BY <1>1, <1>10 DEF ActorOK, Resolved
  <1>12. AskedOK' /\ ActsOnFinishedAnswer'
    BY <1>1, <1>3 DEF AskedOK, ActsOnFinishedAnswer
  <1>13. QED
    BY <1>6, <1>7, <1>8, <1>9, <1>11, <1>12 DEF IInv

LEMMA HandleIInv ==
    ASSUME IInv, Handle
    PROVE  IInv'
  <1>1. CASE Reply
    BY <1>1, FinishIInv DEF Reply
  <1>2. CASE GiveUp
    BY <1>2, FinishIInv DEF GiveUp
  <1>3. QED
    BY <1>1, <1>2, MeReturnedIInv, ServicesReturnedIInv, ProfileReturnedIInv,
       ReadFailedIInv, InterpretIInv, InterpretedIInv, ZoneReturnedIInv,
       BookingsReturnedIInv, ServicesListedIInv, SlotsReturnedIInv DEF Handle

-----------------------------------------------------------------------------
(***************************************************************************)
(* The other steps, and the theorems.                                      *)
(***************************************************************************)

\* Steps of the world and of the handler's deadline.
LEMMA ChangeIInv ==
    ASSUME IInv, NEW x \in Changing, Change(x)
    PROVE  IInv'
  <1>1. /\ changes < MaxChanges /\ changes' = changes + 1
        /\ there' = (there \ {x}) \cup ({x} \ there)
        /\ \/ UNCHANGED <<kept, seen>>
           \/ kept' = kept \cap there' /\ seen' = seen \cup there'
        /\ pc = "idle" => UNCHANGED <<kept, seen>>
        /\ pc # "idle" => kept' = kept \cap there' /\ seen' = seen \cup there'
        /\ UNCHANGED <<session, s, msg, pc, live, plan, search, call, stream, model,
                       cache, received, faults>>
    BY DEF Change, handler, history
  <1>2. there' \subseteq Universe
    BY <1>1, DataAssumption DEF IInv, WorldTypes, Universe
  <1>3. kept' \subseteq there' /\ seen' \subseteq Universe
    <2>1. CASE pc = "idle"
      <3>1. kept = {}
        BY <2>1 DEF IInv, WorldTypes
      <3>2. QED
        BY <1>1, <2>1, <3>1 DEF IInv, WorldTypes
    <2>2. CASE pc # "idle"
      BY <1>1, <1>2, <2>2 DEF IInv, WorldTypes
    <2>3. QED
      BY <2>1, <2>2
  <1>4. WorldTypes'
    BY <1>1, <1>2, <1>3 DEF IInv, WorldTypes
  <1>5. HandlerTypes'
    BY <1>1, BoundsAssumption DEF IInv, HandlerTypes, IsSearch
  <1>6. CallOK' /\ StreamOK'
    BY <1>1
    DEF IInv, CallOK, CallShape, CallTypeOK, StreamOK, StreamShape, StreamTypeOK
  <1>7. ActorOK' /\ AskedOK' /\ ActsOnFinishedAnswer'
    BY <1>1 DEF IInv, ActorOK, Actor, AskedOK, ActsOnFinishedAnswer
  <1>8. QED
    BY <1>4, <1>5, <1>6, <1>7 DEF IInv

LEMMA DeadlineIInv ==
    ASSUME IInv, Deadline
    PROVE  IInv'
  <1>1. /\ live' = FALSE /\ (Fault \/ Calm)
        /\ UNCHANGED <<session, s, msg, pc, plan, search, call, stream, model, cache,
                       there, kept, seen, received, changes>>
    BY DEF Deadline, history
  <1>2. HandlerTypes'
    BY <1>1, FaultsType DEF IInv, HandlerTypes, IsSearch
  <1>3. WorldTypes' /\ CallOK' /\ StreamOK'
    BY <1>1
    DEF IInv, WorldTypes, CallOK, CallShape, CallTypeOK, StreamOK, StreamShape,
        StreamTypeOK
  <1>4. ActorOK' /\ AskedOK' /\ ActsOnFinishedAnswer'
    BY <1>1 DEF IInv, ActorOK, Actor, AskedOK, ActsOnFinishedAnswer
  <1>5. QED
    BY <1>2, <1>3, <1>4 DEF IInv

\* A read does not change the handler that waits for it.
LEMMA CallStepIInv ==
    ASSUME IInv, CallStep
    PROVE  IInv'
  <1>1. /\ pc \in Reads /\ (Fault \/ Calm)
        /\ UNCHANGED <<session, s, msg, pc, live, plan, search, stream, model, cache,
                       there, kept, seen, received, changes>>
    BY DEF CallStep, handler, history
  <1>2. /\ CallShape' /\ call'.stage # "idle"
        /\ call'.body \in {NoBody, call.body} \/ call'.body \in Bodies
    BY CallStepShape DEF IInv, CallOK
  <1>3. CallOK'
    <2>1. CASE call'.body \in Bodies
      BY <1>1, <1>2, <2>1, BodiesItems DEF CallOK
    <2>2. CASE call'.body \in {NoBody, call.body}
      BY <1>1, <1>2, <2>2 DEF IInv, CallOK, NoBody
    <2>3. QED
      BY <1>2, <2>1, <2>2
  <1>4. HandlerTypes'
    BY <1>1, FaultsType DEF IInv, HandlerTypes, IsSearch
  <1>5. WorldTypes' /\ StreamOK'
    BY <1>1 DEF IInv, WorldTypes, StreamOK, StreamShape, StreamTypeOK
  <1>6. ActorOK' /\ AskedOK' /\ ActsOnFinishedAnswer'
    BY <1>1 DEF IInv, ActorOK, Actor, AskedOK, ActsOnFinishedAnswer
  <1>7. QED
    BY <1>3, <1>4, <1>5, <1>6 DEF IInv

\* The model sends while nothing is planned.
LEMMA StreamStepIInv ==
    ASSUME IInv, StreamStep
    PROVE  IInv'
  <1>1. /\ Fault \/ Calm
        /\ UNCHANGED <<session, s, msg, pc, live, plan, search, call, cache,
                       there, kept, seen, received, changes>>
    BY DEF StreamStep, handler, history
  <1>2. StreamShape' /\ pc = "interpret"
    BY StreamStepShape DEF IInv, StreamOK
  <1>3. HandlerTypes'
    BY <1>1, FaultsType DEF IInv, HandlerTypes, IsSearch
  <1>4. WorldTypes' /\ CallOK'
    BY <1>1 DEF IInv, WorldTypes, CallOK, CallShape, CallTypeOK
  <1>5. StreamOK'
    BY <1>1, <1>2 DEF StreamOK
  <1>6. ActorOK' /\ AskedOK'
    BY <1>1 DEF IInv, ActorOK, Actor, AskedOK
  <1>7. ActsOnFinishedAnswer'
    BY <1>1, <1>2 DEF IInv, HandlerTypes, BeforePlan, ActsOnFinishedAnswer
  <1>8. QED
    BY <1>3, <1>4, <1>5, <1>6, <1>7 DEF IInv

LEMMA InitIInv == Init => IInv
  <1> SUFFICES ASSUME Init
               PROVE  IInv
    OBVIOUS
  <1>1. /\ session = NoSession /\ s = NoSession /\ msg = NoMessage /\ pc = "idle"
        /\ live = TRUE /\ plan = NoPlan /\ search = NoSearch
        /\ cache = [p \in Providers |-> {}] /\ there = Calendar
        /\ kept = {} /\ seen = {} /\ received = 0 /\ changes = 0 /\ faults = 0
        /\ call = [stage |-> "idle", sends |-> 0, status |-> "ok", body |-> NoBody]
        /\ stream = NoStream /\ model = Silent
    BY DEF Init, CallInit, NoCall, StreamInit
  <1>2. /\ NoSession \in Session /\ NoSession.provider = NoProvider
        /\ NoPlan.intent = "none"
        /\ NoSearch = [provider |-> NoProvider, interval |-> <<0, 0>>, cursor |-> {},
                       found |-> <<>>, service |-> {}]
    BY DEF NoSession, Session, NoPlan, NoSearch
  <1>3. IsSearch /\ search.provider = NoProvider
    BY <1>1, <1>2 DEF IsSearch
  <1>4. HandlerTypes
    BY <1>1, <1>2, <1>3, BoundsAssumption DEF HandlerTypes, PCs
  <1>5. WorldTypes
    BY <1>1, DataAssumption DEF WorldTypes, Universe
  <1>6. CallOK
    BY <1>1 DEF CallOK, CallShape, CallTypeOK, NoCall, Stages, Statuses, Reads
  <1>7. StreamOK
    BY <1>1, LLMAssumption
    DEF StreamOK, StreamShape, StreamTypeOK, NoStream, Silent, Events, Verdicts
  <1>8. ActorOK /\ AskedOK /\ ActsOnFinishedAnswer
    BY <1>1, <1>2 DEF ActorOK, Resolved, AskedOK, ActsOnFinishedAnswer
  <1>9. QED
    BY <1>4, <1>5, <1>6, <1>7, <1>8 DEF IInv

LEMMA StutterIInv ==
    ASSUME IInv, UNCHANGED vars
    PROVE  IInv'
  <1>1. UNCHANGED <<session, s, msg, pc, live, plan, search, call, stream, model,
                    cache, there, kept, seen, received, changes, faults>>
    BY DEF vars, handler, history, bounds
  <1>2. HandlerTypes' /\ WorldTypes'
    BY <1>1 DEF IInv, HandlerTypes, IsSearch, WorldTypes
  <1>3. CallOK' /\ StreamOK'
    BY <1>1
    DEF IInv, CallOK, CallShape, CallTypeOK, StreamOK, StreamShape, StreamTypeOK
  <1>4. ActorOK' /\ AskedOK' /\ ActsOnFinishedAnswer'
    BY <1>1 DEF IInv, ActorOK, Actor, AskedOK, ActsOnFinishedAnswer
  <1>5. QED
    BY <1>2, <1>3, <1>4 DEF IInv

LEMMA IInvAlways == Spec => []IInv
<1>1. IInv /\ [Next]_vars => IInv'
  BY ReceiveIInv, ChangeIInv, DeadlineIInv, CallStepIInv, StreamStepIInv,
     HandleIInv, StutterIInv DEF Next, Work
<1>2. QED
  BY <1>1, InitIInv, PTL DEF Spec

\* Types, at most one kept list of services per provider, and that what was
\* there throughout is still there.
THEOREM TypeCorrect == Spec => []TypeOK
<1>1. ASSUME NEW v
      PROVE  Cardinality({}) <= 1 /\ Cardinality({v}) <= 1
  <2>1. Cardinality({}) = 0
    BY FS_EmptySet
  <2>2. Cardinality({v}) = 1
    BY FS_Singleton
  <2>3. QED
    BY <2>1, <2>2
<1>2. IInv => TypeOK
  <2> SUFFICES ASSUME IInv
               PROVE  TypeOK
    OBVIOUS
  <2>1. \A p \in Providers :
          cache[p] \subseteq SUBSET Services /\ Cardinality(cache[p]) <= 1
    BY <1>1 DEF IInv, WorldTypes
  <2>2. QED
    BY <2>1
    DEF IInv, HandlerTypes, Intents, WorldTypes, Universe, CallOK, CallShape,
        StreamOK, StreamShape, TypeOK
<1>3. QED
  BY <1>2, IInvAlways, PTL

\* Whoever writes in the chat, searches are made with the provider that this
\* user is, and a stored session has its own user's (handleMessage,
\* hydrateSessionProviderInfo).
THEOREM ActorsOwnProvider == Spec => []ProviderIsActors
<1>1. IInv => ProviderIsActors
  <2> SUFFICES ASSUME IInv
               PROVE  ProviderIsActors
    OBVIOUS
  <2>1. session.provider # NoProvider =>
          session.user # NoUser /\ session.provider = ProviderOf[session.user]
    BY UsersAssumption DEF IInv, ActorOK
  <2>2. QED
    BY <2>1 DEF IInv, ActorOK, Resolved, ProviderIsActors
<1>2. QED
  BY <1>1, IInvAlways, PTL

\* The bot acts on a reply only when the model has sent all of it and the mark
\* of its end (parseOpenRouterSSE).
THEOREM OnlyFinishedAnswers == Spec => []ActsOnFinishedAnswer
<1>1. IInv => ActsOnFinishedAnswer
  BY DEF IInv
<1>2. QED
  BY <1>1, IInvAlways, PTL

-----------------------------------------------------------------------------
(***************************************************************************)
(* Lists: what listing a set, sorting a list and cutting it leave of it.   *)
(***************************************************************************)

\* A set that is listed is listed whole, each of its elements once.
LEMMA SetToSeqsLists ==
    ASSUME NEW S, IsFiniteSet(S), NEW listed \in SetToSeqs(S)
    PROVE  /\ listed \in Seq(S) /\ Len(listed) = Cardinality(S)
           /\ Items(listed) = S
           /\ \A i, j \in DOMAIN listed : listed[i] = listed[j] => i = j
  <1> DEFINE n == Cardinality(S)
  <1>1. n \in Nat
    BY FS_CardinalityType
  <1>2. /\ listed \in [1..n -> S]
        /\ \A i, j \in 1..n : i # j => listed[i] # listed[j]
    BY DEF SetToSeqs
  <1>3. listed \in Injection(1..n, S)
    BY <1>2 DEF Injection, IsInjective
  <1>4. Cardinality(1..n) = n
    BY <1>1, FS_Interval
  <1>5. listed \in Surjection(1..n, S)
    BY <1>3, <1>4, FS_Injection
  <1>6. \A x \in S : \E i \in 1..n : listed[i] = x
    BY <1>5 DEF Surjection
  <1> HIDE DEF n
  <1>7. listed \in Seq(S) /\ Len(listed) = n /\ DOMAIN listed = 1..n
    BY <1>1, <1>2
  <1>8. Items(listed) = S
    BY <1>2, <1>6, <1>7 DEF Items
  <1>9. QED
    BY <1>2, <1>7, <1>8 DEF n

\* Sorting by time rearranges what is at the places that are sorted.
LEMMA ChronologiesSortPlaces ==
    ASSUME NEW T, NEW items \in Seq(T), NEW places \in SUBSET DOMAIN items,
           NEW sorted \in ChronologiesOf(items, places)
    PROVE  /\ sorted \in Seq(T) /\ Len(sorted) = Cardinality(places)
           /\ Items(sorted) = {items[k] : k \in places}
           /\ \A i, j \in DOMAIN sorted : i < j => ~(sorted[j].at < sorted[i].at)
           /\ (\A i, j \in DOMAIN items : items[i] = items[j] => i = j) =>
                \A i, j \in DOMAIN sorted : sorted[i] = sorted[j] => i = j
  <1> DEFINE n == Cardinality(places)
  <1>1. /\ DOMAIN items = 1..Len(items) /\ items \in [DOMAIN items -> T]
        /\ Len(items) \in Nat
    OBVIOUS
  <1>2. IsFiniteSet(places) /\ n \in Nat
    <2>1. Len(items) \in Int /\ places \subseteq 1..Len(items)
      BY <1>1
    <2>2. IsFiniteSet(1..Len(items))
      BY <2>1, FS_Interval
    <2>3. IsFiniteSet(places)
      BY <2>1, <2>2, FS_Subset
    <2>4. QED
      BY <2>3, FS_CardinalityType
  <1>3. \E at \in SetToSeqs(places) : sorted = [i \in DOMAIN at |-> items[at[i]]]
    BY Zenon DEF ChronologiesOf
  <1> PICK at \in SetToSeqs(places) : sorted = [i \in DOMAIN at |-> items[at[i]]]
    BY Zenon, <1>3
  <1>4. /\ at \in Seq(places) /\ Len(at) = n /\ Items(at) = places
        /\ \A i, j \in DOMAIN at : at[i] = at[j] => i = j
    BY <1>2, SetToSeqsLists
  <1>5. \A i, j \in DOMAIN sorted : i < j => ~(sorted[j].at < sorted[i].at)
    BY DEF ChronologiesOf
  <1> HIDE DEF n
  <1>6. DOMAIN at = 1..n /\ at \in [1..n -> places]
    BY <1>2, <1>4
  <1>7. sorted \in [1..n -> T] /\ DOMAIN sorted = 1..n
    BY <1>1, <1>3, <1>6
  <1>8. sorted \in Seq(T) /\ Len(sorted) = n
    BY <1>2, <1>7
  <1>9. Items(sorted) = {items[at[i]] : i \in 1..n}
    BY <1>3, <1>6, <1>7 DEF Items
  <1>10. places = {at[i] : i \in 1..n}
    BY <1>4, <1>6 DEF Items
  <1>11. Items(sorted) = {items[k] : k \in places}
    BY <1>9, <1>10
  <1>12. (\A i, j \in DOMAIN items : items[i] = items[j] => i = j) =>
            \A i, j \in DOMAIN sorted : sorted[i] = sorted[j] => i = j
    BY <1>3, <1>4, <1>6, <1>7
  <1>13. QED
    BY <1>5, <1>8, <1>11, <1>12 DEF n

LEMMA ChronologiesSort ==
    ASSUME NEW T, NEW items \in Seq(T), NEW sorted \in Chronologies(items)
    PROVE  /\ sorted \in Seq(T) /\ Len(sorted) = Len(items)
           /\ Items(sorted) = Items(items)
           /\ \A i, j \in DOMAIN sorted : i < j => ~(sorted[j].at < sorted[i].at)
           /\ (\A i, j \in DOMAIN items : items[i] = items[j] => i = j) =>
                \A i, j \in DOMAIN sorted : sorted[i] = sorted[j] => i = j
  <1>1. sorted \in ChronologiesOf(items, DOMAIN items)
    BY DEF Chronologies
  <1>2. Len(items) \in Nat /\ DOMAIN items = 1..Len(items)
    OBVIOUS
  <1>3. Cardinality(DOMAIN items) = Len(items)
    BY <1>2, FS_Interval
  <1>4. QED
    BY <1>1, <1>3, ChronologiesSortPlaces DEF Items

\* A list that is cut keeps what comes first.
LEMMA FirstOfKeeps ==
    ASSUME NEW T, NEW items \in Seq(T), NEW n \in Nat
    PROVE  /\ Len(FirstOf(n, items)) = Minimum(n, Len(items))
           /\ \A i \in 1..Minimum(n, Len(items)) :
                i \in DOMAIN items /\ FirstOf(n, items)[i] = items[i]
           /\ DOMAIN FirstOf(n, items) = 1..Minimum(n, Len(items))
  <1>1. Len(items) \in Nat /\ Minimum(n, Len(items)) \in 0..Len(items)
    BY DEF Minimum
  <1>2. QED
    BY <1>1 DEF FirstOf

\* Items that differ are as many as the list is long.
LEMMA DistinctCount ==
    ASSUME NEW T, NEW items \in Seq(T),
           \A i, j \in DOMAIN items : items[i] = items[j] => i = j
    PROVE  Cardinality(Items(items)) = Len(items)
  <1> DEFINE n == Len(items)
  <1>1. n \in Nat /\ DOMAIN items = 1..n /\ items \in [1..n -> T]
    OBVIOUS
  <1>2. IsFiniteSet(1..n) /\ Cardinality(1..n) = n
    BY <1>1, FS_Interval
  <1> HIDE DEF n
  <1>3. items \in [1..n -> Items(items)] /\ Items(items) = {items[i] : i \in 1..n}
    BY <1>1 DEF Items
  <1>4. items \in Bijection(1..n, Items(items))
    BY <1>1, <1>3 DEF Bijection, Injection, Surjection, IsInjective
  <1>5. ExistsBijection(1..n, Items(items))
    BY <1>4 DEF ExistsBijection
  <1>6. QED
    BY <1>2, <1>5, FS_Bijection DEF n

\* Lists of bookings in their order.
Rising(found) == \A i, j \in DOMAIN found : i < j => Before(found[i], found[j])

LEMMA BeforeIsOrder ==
    /\ \A b \in Bookings : ~Before(b, b)
    /\ \A a, b, c \in Bookings : Before(a, b) /\ Before(b, c) => Before(a, c)
    /\ \A a, b \in Bookings : a = b \/ Before(a, b) \/ Before(b, a)
  <1>1. /\ \A b \in Bookings : b.at \in Int /\ b.id \in Int
        /\ \A b, c \in Bookings : b.id = c.id => b = c
    BY DataAssumption
  <1>2. QED
    BY <1>1 DEF Before

LEMMA RisingTogether ==
    ASSUME NEW f \in Seq(Bookings), NEW g \in Seq(Bookings), Rising(f), Rising(g),
           \A i \in DOMAIN f, j \in DOMAIN g : Before(f[i], g[j])
    PROVE  /\ f \o g \in Seq(Bookings) /\ Rising(f \o g)
           /\ Items(f \o g) = Items(f) \cup Items(g)
  <1> DEFINE h == f \o g
             n == Len(f)
             m == Len(g)
  <1>1. /\ n \in Nat /\ m \in Nat /\ DOMAIN f = 1..n /\ DOMAIN g = 1..m
        /\ h \in Seq(Bookings) /\ DOMAIN h = 1..(n + m)
        /\ \A i \in 1..n : h[i] = f[i]
        /\ \A i \in (n + 1)..(n + m) : i - n \in 1..m /\ h[i] = g[i - n]
        /\ \A i \in 1..m : i + n \in (n + 1)..(n + m) /\ (i + n) - n = i
        /\ \A i \in 1..(n + m) : i \in 1..n \/ i \in (n + 1)..(n + m)
    OBVIOUS
  <1> HIDE DEF h, n, m
  <1>2. ASSUME NEW i \in DOMAIN h, NEW j \in DOMAIN h, i < j
        PROVE  Before(h[i], h[j])
    <2>1. CASE i \in 1..n /\ j \in 1..n
      BY <1>1, <1>2, <2>1 DEF Rising
    <2>2. CASE i \in 1..n /\ j \in (n + 1)..(n + m)
      BY <1>1, <1>2, <2>2
    <2>3. CASE i \in (n + 1)..(n + m) /\ j \in (n + 1)..(n + m)
      <3>1. i - n < j - n
        BY <1>1, <1>2, <2>3
      <3>2. QED
        BY <1>1, <1>2, <2>3, <3>1 DEF Rising
    <2>4. QED
      BY <1>1, <1>2, <2>1, <2>2, <2>3
  <1>3. Items(h) = Items(f) \cup Items(g)
    <2>1. \A x \in Items(f) : x \in Items(h)
      BY <1>1 DEF Items
    <2>2. ASSUME NEW x \in Items(g) PROVE x \in Items(h)
      <3>1. PICK i \in 1..m : x = g[i]
        BY <1>1, <2>2 DEF Items
      <3>2. h[i + n] = x /\ i + n \in DOMAIN h
        BY <1>1, <3>1
      <3>3. QED
        BY <3>2 DEF Items
    <2>3. \A x \in Items(h) : x \in Items(f) \cup Items(g)
      BY <1>1 DEF Items
    <2>4. QED
      BY <2>1, <2>2, <2>3
  <1>4. QED
    BY <1>1, <1>2, <1>3 DEF Rising, h

\* Some booking of a set is its first, and some its last.
LEMMA FirstAndLast ==
    ASSUME NEW S \in SUBSET Bookings, S # {}
    PROVE  /\ \E m \in S : \A b \in S : b = m \/ Before(m, b)
           /\ \E m \in S : \A b \in S : b = m \/ Before(b, m)
  <1> DEFINE Below(b) == {a \in S : Before(a, b)}
             Above(b) == {a \in S : Before(b, a)}
             R == StrictSubsetOrdering(S)
             F == FiniteSubsetsOf(S)
  <1>1. IsFiniteSet(S)
    BY DataAssumption, FS_Subset
  <1>2. F = SUBSET S
    BY <1>1, FS_FiniteSubsetsOfFinite
  <1>3. IsWellFoundedOn(R, F)
    BY FS_StrictSubsetOrderingWellFounded
  <1>4. \A X, Y \in SUBSET S : X \subseteq Y /\ X # Y => <<X, Y>> \in R
    BY DEF StrictSubsetOrdering
  <1> HIDE DEF R, F
  <1>5. \E m \in S : \A b \in S : b = m \/ Before(m, b)
    <2> DEFINE B == {Below(b) : b \in S}
    <2>1. B \subseteq F /\ B # {}
      BY <1>2
    <2>2. PICK X \in B : \A Y \in B : ~(<<Y, X>> \in R)
      BY <1>3, <2>1, WFMin
    <2>3. PICK m \in S : X = Below(m)
      BY <2>2
    <2>4. ASSUME NEW a \in S, Before(a, m) PROVE FALSE
      <3>1. Below(a) \subseteq Below(m)
        BY <2>4, BeforeIsOrder
      <3>2. a \in Below(m) /\ a \notin Below(a)
        BY <2>4, BeforeIsOrder
      <3>3. <<Below(a), Below(m)>> \in R
        BY <1>4, <3>1, <3>2
      <3>4. QED
        BY <2>2, <2>3, <3>3
    <2>5. QED
      BY <2>4, BeforeIsOrder
  <1>6. \E m \in S : \A b \in S : b = m \/ Before(b, m)
    <2> DEFINE B == {Above(b) : b \in S}
    <2>1. B \subseteq F /\ B # {}
      BY <1>2
    <2>2. PICK X \in B : \A Y \in B : ~(<<Y, X>> \in R)
      BY <1>3, <2>1, WFMin
    <2>3. PICK m \in S : X = Above(m)
      BY <2>2
    <2>4. ASSUME NEW a \in S, Before(m, a) PROVE FALSE
      <3>1. Above(a) \subseteq Above(m)
        BY <2>4, BeforeIsOrder
      <3>2. a \in Above(m) /\ a \notin Above(a)
        BY <2>4, BeforeIsOrder
      <3>3. <<Above(a), Above(m)>> \in R
        BY <1>4, <3>1, <3>2
      <3>4. QED
        BY <2>2, <2>3, <3>3
    <2>5. QED
      BY <2>4, BeforeIsOrder
  <1>7. QED
    BY <1>5, <1>6

-----------------------------------------------------------------------------
(***************************************************************************)
(* What is known of a search while it runs.                                *)
(***************************************************************************)

\* What the plan asks of the bookings, and the pages to come.
Upcoming == StatusAsked = "upcoming"
Wanted(b) ==
    /\ b \in Bookings /\ b.provider = Actor
    /\ Within(search.interval, b.at) /\ InDirection(b.at)
Ahead(b) == \A c \in search.cursor : Before(c, b)
Matching ==
    {x \in Slots : x.service \in search.service /\ Within(search.interval, x.at)}

HasAnswer == call.stage \in {"read", "over"} /\ call.status = "ok"

SeenSince == pc # "idle" => there \subseteq seen

\* Services are kept under their own provider.
CacheOwn == \A p \in Providers : \A vs \in cache[p] : \A v \in vs : v.provider = p
OwnServices ==
    /\ CacheOwn
    /\ pc \in {"services", "resolve"} =>
         \A v \in call.body.items : v.provider = search.provider
    /\ pc = "resolve" => plan.intent = "create" /\ plan.params.service = {}

\* The service asked for, if it is known by name only.
Named(params, id) ==
    params.service = {} =>
      \E v \in Services :
        v.id = id /\ v.provider = Actor /\ params.serviceName \subseteq v.names

SlotsAsked ==
    pc = "slots" =>
      LET from == SearchFrom(plan.params, Now)
      IN  /\ plan.intent # "cancel"
          /\ search.interval = <<from, from + defaultSlotsWindow>>
          /\ \E id : search.service = {id} /\ Named(plan.params, id)

SlotsListed ==
    pc = "slots" /\ HasAnswer =>
      /\ call.body.items \subseteq Matching \cap seen
      /\ kept \cap Matching \subseteq call.body.items

DaysAsked ==
    /\ pc = "zone" => plan.intent = "cancel"
    /\ pc = "bookings" /\ plan.intent = "list" =>
         search.interval = buildBookingFilter(plan.params, Now, OffsetOf[Actor])

\* The pages that have been read: all that is asked for up to the cursor.
PagesRead ==
    pc = "bookings" =>
      /\ search.cursor \subseteq Bookings
      /\ search.found \in Seq(Bookings) /\ Rising(search.found)
      /\ search.cursor = {} => search.found = <<>>
      /\ \A b \in Items(search.found) :
           /\ Wanted(b) /\ (Upcoming => b \in seen)
           /\ \A c \in search.cursor : b = c \/ Before(b, c)
      /\ Upcoming =>
           \A b \in kept : Wanted(b) => b \in Items(search.found) \/ Ahead(b)

\* The page in hand: all that is asked for from the cursor to its last.
IsPage(items, next) ==
    /\ \A b \in items : Wanted(b) /\ Ahead(b) /\ (Upcoming => b \in seen)
    /\ \/ next = {}
       \/ next = search.cursor /\ items = {}
       \/ \E m \in items : next = {m} /\ \A b \in items : b = m \/ Before(b, m)
    /\ Upcoming =>
         \A b \in kept :
           Wanted(b) /\ Ahead(b) =>
             b \in items \/ \E m \in items : next = {m} /\ Before(m, b)

PageListed ==
    pc = "bookings" /\ HasAnswer => IsPage(call.body.items, call.body.next)

Lists == OwnServices /\ SlotsListed /\ PageListed
\* The date of a cancellation may be read out of the message's words.
PlanRead == plan.intent # "cancel" => IsParams(plan.params)

Asked == PlanRead /\ SlotsAsked /\ DaysAsked /\ PagesRead

SInv == SeenSince /\ Lists /\ Asked /\ ListIsWhole /\ SlotsAreNext

-----------------------------------------------------------------------------
(***************************************************************************)
(* What the API lists.                                                     *)
(***************************************************************************)

LEMMA ServicesBody ==
    ASSUME NEW body \in Bodies, pc \in {"services", "resolve"}
    PROVE  \A v \in body.items : v.provider = search.provider
  <1>1. Bodies = {[items |-> {v \in Services \cap there :
                                v.provider = search.provider}, next |-> {}]}
    BY DEF Bodies
  <1>2. QED
    BY <1>1

LEMMA SlotsBody ==
    ASSUME NEW body \in Bodies, pc = "slots", SeenSince, kept \subseteq there
    PROVE  /\ body.items \subseteq Matching \cap seen
           /\ kept \cap Matching \subseteq body.items
  <1>1. Bodies = {[items |-> {x \in Slots \cap there :
                     x.service \in search.service /\ Within(search.interval, x.at)},
                   next |-> {}]}
    BY DEF Bodies
  <1>2. body.items = {x \in Slots \cap there :
                     x.service \in search.service /\ Within(search.interval, x.at)}
    BY <1>1
  <1>3. there \subseteq seen
    BY DEF SeenSince
  <1>4. QED
    BY <1>2, <1>3 DEF Matching

\* A page is the first bookings of those asked for.
LEMMA PageIsFirst ==
    /\ Page \in SUBSET Bookings
    /\ Page = {} => BookingsAsked = {}
    /\ \A b \in BookingsAsked \ Page : \A m \in Page : Before(m, b)
  <1> DEFINE A == BookingsAsked
             Below(b) == {a \in A : Before(a, b)}
  <1>1. /\ A \in SUBSET Bookings
        /\ Page = {b \in A : Cardinality(Below(b)) < PageSize}
    BY DEF BookingsAsked, Page
  <1> HIDE DEF A
  <1>2. \A b \in A : IsFiniteSet(Below(b)) /\ Cardinality(Below(b)) \in Nat
    BY <1>1, DataAssumption, FS_Subset, FS_CardinalityType
  <1>3. ASSUME A # {}
        PROVE  Page # {}
    <2>1. PICK m \in A : \A b \in A : b = m \/ Before(m, b)
      BY <1>1, <1>3, FirstAndLast
    <2>2. Below(m) = {}
      BY <1>1, <2>1, BeforeIsOrder
    <2>3. Cardinality(Below(m)) < PageSize
      <3>1. Cardinality({}) = 0
        BY FS_EmptySet
      <3>2. 0 < PageSize
        BY DataAssumption
      <3>3. QED
        BY <2>2, <3>1, <3>2
    <2>4. QED
      BY <1>1, <2>3
  <1>4. ASSUME NEW b \in A \ Page, NEW m \in Page
        PROVE  Before(m, b)
    <2>1. m \in A /\ Cardinality(Below(m)) < PageSize
      BY <1>1
    <2>2. ~(Cardinality(Below(b)) < PageSize)
      BY <1>1
    <2>3. SUFFICES ASSUME Before(b, m) PROVE FALSE
      BY <1>1, <1>4, <2>1, BeforeIsOrder
    <2>4. Below(b) \in SUBSET Below(m)
      BY <1>1, <2>1, <2>3, BeforeIsOrder
    <2>5. Cardinality(Below(b)) <= Cardinality(Below(m))
      BY <1>2, <2>1, <2>4, FS_Subset
    <2> HIDE DEF Below
    <2>6. QED
      BY <1>2, <2>1, <2>2, <2>5, DataAssumption
  <1>5. QED
    BY <1>1, <1>3, <1>4 DEF A

LEMMA PageIsPage ==
    ASSUME IInv, SeenSince, pc = "bookings", NEW body \in Bodies
    PROVE  IsPage(body.items, body.next)
  <1>1. Bodies = [items : {Page}, next : NextCursors]
    BY DEF Bodies
  <1>2. body.items = Page /\ body.next \in NextCursors
    BY <1>1
  <1>3. Actor = ProviderOf[s.user] /\ there \subseteq seen /\ kept \subseteq there
    BY TheActor DEF SeenSince, IInv, WorldTypes
  <1>4. \A b \in BookingsAsked : Wanted(b) /\ Ahead(b) /\ (Upcoming => b \in seen)
    BY <1>3 DEF BookingsAsked, Wanted, Ahead, Upcoming, StatusAsked, InDirection
  <1>5. Upcoming => \A b \in kept : Wanted(b) /\ Ahead(b) => b \in BookingsAsked
    BY <1>3 DEF BookingsAsked, Wanted, Ahead, Upcoming, StatusAsked, InDirection
  <1>6. Page \subseteq BookingsAsked
    BY DEF Page
  <1>7. CASE Page = {}
    <2>1. body.next \in {{}, search.cursor}
      BY <1>2, <1>7 DEF NextCursors
    <2>2. BookingsAsked = {}
      BY <1>7, PageIsFirst
    <2>3. QED
      BY <1>2, <1>5, <1>7, <2>1, <2>2 DEF IsPage
  <1>8. CASE Page # {}
    <2>1. PICK m \in Page : \A b \in Page : b = m \/ Before(b, m)
      BY <1>8, PageIsFirst, FirstAndLast
    <2>2. {b \in Page : \A a \in Page \ {b} : Before(a, b)} = {m}
      BY <2>1, PageIsFirst, BeforeIsOrder
    <2>3. \/ body.next = {m}
          \/ body.next = {} /\ Page = BookingsAsked
      BY <1>2, <1>8, <2>2 DEF NextCursors
    <2>4. CASE body.next = {m}
      BY <1>2, <1>4, <1>5, <1>6, <2>1, <2>4, PageIsFirst DEF IsPage
    <2>5. CASE body.next = {} /\ Page = BookingsAsked
      BY <1>2, <1>4, <1>5, <2>5 DEF IsPage
    <2>6. QED
      BY <2>3, <2>4, <2>5
  <1>9. QED
    BY <1>7, <1>8

\* A day is the instants from its start to its end.
LEMMA DayBounds ==
    ASSUME NEW t \in Int, NEW offset \in Int, NEW d \in Int, NEW e \in Int
    PROVE  /\ LocalDay(t, offset) \in Int
           /\ Within(<<DayStart(d, offset), DayEnd(e, offset)>>, t) <=>
                d <= LocalDay(t, offset) /\ LocalDay(t, offset) <= e
  <1> DEFINE x == t + offset
             q == x \div 1440
  <1>1. x \in Int /\ q \in Int /\ q * 1440 <= x /\ x < (q + 1) * 1440
    OBVIOUS
  <1>2. LocalDay(t, offset) = q
    BY DEF LocalDay, DayLength, Hour
  <1>3. /\ DayStart(d, offset) = d * 1440 - offset
        /\ DayEnd(e, offset) = (e + 1) * 1440 - offset - 1
    BY DEF DayStart, DayEnd, DayLength, Hour
  <1>4. Within(<<DayStart(d, offset), DayEnd(e, offset)>>, t) <=>
          d * 1440 <= x /\ x < (e + 1) * 1440
    BY <1>3 DEF Within
  <1> HIDE DEF x, q
  <1>5. /\ d * 1440 <= x <=> d <= q
        /\ x < (e + 1) * 1440 <=> q <= e
    BY <1>1
  <1>6. QED
    BY <1>1, <1>2, <1>4, <1>5

\* The interval of a list is the first seven of the days asked for.
LEMMA ListedDays ==
    ASSUME NEW params, IsParams(params), NEW r \in params.range,
           NEW t \in Int, NEW offset \in Int
    PROVE  /\ r \in Int \X Int /\ r = CHOOSE q \in params.range : TRUE
           /\ Within(buildBookingFilter(params, Now, offset), t) <=>
                LocalDay(t, offset) \in r[1] .. Minimum(r[2], r[1] + 6)
  <1>1. /\ r \in Int \X Int /\ r[1] \in Int /\ r[2] \in Int
        /\ \A q \in params.range : q = r
    BY DEF IsParams
  <1>2. r = CHOOSE q \in params.range : TRUE
    BY <1>1
  <1>3. ListDays(params, LocalDay(Now, offset)) = r
    BY <1>2 DEF ListDays
  <1>4. clampedToWeek(params) <=> r[2] - r[1] + 1 > 7
    BY <1>1 DEF clampedToWeek
  <1> DEFINE last == IF clampedToWeek(params) THEN r[1] + 6 ELSE r[2]
  <1>5. last \in Int /\ last = Minimum(r[2], r[1] + 6)
    BY <1>1, <1>4 DEF Minimum
  <1>6. buildBookingFilter(params, Now, offset) =
          <<DayStart(r[1], offset), DayEnd(last, offset)>>
    BY <1>3 DEF buildBookingFilter
  <1> HIDE DEF last
  <1>7. /\ LocalDay(t, offset) \in Int
        /\ Within(buildBookingFilter(params, Now, offset), t) <=>
             r[1] <= LocalDay(t, offset) /\ LocalDay(t, offset) <= last
    <2>1. \A d, e \in Int :
            /\ LocalDay(t, offset) \in Int
            /\ Within(<<DayStart(d, offset), DayEnd(e, offset)>>, t) <=>
                 d <= LocalDay(t, offset) /\ LocalDay(t, offset) <= e
      BY DayBounds
    <2>2. Within(<<DayStart(r[1], offset), DayEnd(last, offset)>>, t) <=>
            r[1] <= LocalDay(t, offset) /\ LocalDay(t, offset) <= last
      BY <1>1, <1>5, <2>1
    <2>3. QED
      BY <1>1, <1>6, <2>1, <2>2
  <1>8. LocalDay(t, offset) \in r[1] .. Minimum(r[2], r[1] + 6) <=>
          r[1] <= LocalDay(t, offset) /\ LocalDay(t, offset) <= last
    <2>1. \A a, b, x \in Int : x \in a..b <=> a <= x /\ x <= b
      OBVIOUS
    <2>2. QED
      BY <1>1, <1>5, <1>7, <2>1
  <1>9. QED
    BY <1>1, <1>2, <1>7, <1>8

-----------------------------------------------------------------------------
(***************************************************************************)
(* Steps that leave the search alone.                                      *)
(***************************************************************************)

\* Time goes by: what was there throughout only loses, what was there at some
\* time only gains.
LEMMA LaterSInv ==
    ASSUME SInv, UNCHANGED <<pc, msg, plan, search, answer, call, cache>>,
           kept' \subseteq kept, seen \subseteq seen', SeenSince'
    PROVE  SInv'
  <1>1. Actor' = Actor /\ Upcoming' = Upcoming /\ HasAnswer' = HasAnswer
    BY DEF Actor, Upcoming, StatusAsked, HasAnswer
  <1>2. /\ \A b : Wanted(b)' = Wanted(b) /\ Ahead(b)' = Ahead(b)
        /\ Matching' = Matching
    BY <1>1 DEF Wanted, Ahead, Matching, InDirection, StatusAsked
  <1>3. OwnServices'
    BY DEF SInv, Lists, OwnServices, CacheOwn
  <1>4. SlotsListed'
    BY <1>1, <1>2 DEF SInv, Lists, SlotsListed
  <1>5. PageListed'
    <2>1. SUFFICES ASSUME pc = "bookings" /\ HasAnswer
                   PROVE  IsPage(call.body.items, call.body.next)'
      BY <1>1 DEF PageListed
    <2>2. IsPage(call.body.items, call.body.next)
      BY <2>1 DEF SInv, Lists, PageListed
    <2>3. QED
      BY <1>1, <1>2, <2>2 DEF IsPage
  <1>6. PlanRead' /\ SlotsAsked' /\ DaysAsked'
    <2>1. \A params, id : Named(params, id)' = Named(params, id)
      BY <1>1 DEF Named
    <2>2. QED
      BY <1>1, <2>1 DEF SInv, Asked, PlanRead, SlotsAsked, DaysAsked
  <1>7. PagesRead'
    BY <1>1, <1>2 DEF SInv, Asked, PagesRead
  <1>8. ListIsWhole'
    BY <1>1 DEF SInv, ListIsWhole
  <1>9. SlotsAreNext'
    BY <1>1 DEF SInv, SlotsAreNext
  <1>10. QED
    BY <1>3, <1>4, <1>5, <1>6, <1>7, <1>8, <1>9 DEF SInv, Lists, Asked

\* A read holds an answer that the API has just given, or had given before.
LEMMA CallStepAnswer ==
    ASSUME CallShape, CallStep, HasAnswer'
    PROVE  call'.body \in Bodies \/ (HasAnswer /\ call'.body = call.body)
  <1>1. DOMAIN call = {"stage", "sends", "status", "body"}
    BY DEF CallShape, CallTypeOK, NoCall
  <1>2. CASE \E body \in Bodies : Answered("ok", body)
    BY <1>1, <1>2 DEF Answered
  <1>3. CASE \E status \in Refusals : Answered(status, NoBody)
    <2>1. "ok" \notin Refusals
      BY DataAssumption
    <2>2. PICK status \in Refusals :
            call' = [call EXCEPT !.stage = "read", !.sends = @ + 1,
                                 !.status = status, !.body = NoBody]
      BY <1>3 DEF Answered
    <2>3. call'.status = status
      BY <1>1, <2>2
    <2>4. QED
      BY <2>1, <2>3 DEF HasAnswer
  <1>4. CASE RetryLater \/ PauseEnds
    <2>1. call'.stage \in {"wait", "send"}
      BY <1>4, PauseShape
    <2>2. QED
      BY <2>1 DEF HasAnswer
  <1>5. CASE RetryRefused \/ PauseInterrupted \/ ReadCut
               \/ \E status \in {"upstream", "timeout"} : SendFails(status)
    <2>1. PICK status \in {"rate_limit", "upstream", "timeout"} : Return(status)
      BY <1>5 DEF RetryRefused, PauseInterrupted, ReadCut, SendFails
    <2>2. call'.status = status
      BY <1>1, <2>1 DEF Return
    <2>3. QED
      BY <2>2 DEF HasAnswer
  <1>6. CASE ReadWhole
    <2>1. /\ call.stage = "read"
          /\ call' = [call EXCEPT !.stage = "over", !.status = call.status]
      BY <1>6 DEF ReadWhole, Return
    <2>2. call'.status = call.status /\ call'.body = call.body
      BY <1>1, <2>1
    <2>3. QED
      BY <2>1, <2>2 DEF HasAnswer
  <1>7. QED
    BY <1>2, <1>3, <1>4, <1>5, <1>6 DEF CallStep

LEMMA CallStepSInv ==
    ASSUME IInv, SInv, CallStep
    PROVE  SInv'
  <1>1. /\ pc \in Reads
        /\ UNCHANGED <<s, msg, pc, plan, search, answer, cache, there, kept, seen>>
    BY DEF CallStep, handler, history
  <1>2. Actor' = Actor /\ Upcoming' = Upcoming
    BY <1>1 DEF Actor, Upcoming, StatusAsked
  <1>3. /\ \A b : Wanted(b)' = Wanted(b) /\ Ahead(b)' = Ahead(b)
        /\ Matching' = Matching
    BY <1>1, <1>2 DEF Wanted, Ahead, Matching, InDirection, StatusAsked
  <1>4. SeenSince' /\ SeenSince
    BY <1>1 DEF SInv, SeenSince
  <1>5. OwnServices'
    <2>1. call'.body \in {NoBody, call.body} \/ call'.body \in Bodies
      BY CallStepShape DEF IInv, CallOK
    <2>2. pc \in {"services", "resolve"} =>
            \A v \in call'.body.items : v.provider = search.provider
      <3>1. CASE call'.body \in Bodies
        BY <3>1, ServicesBody
      <3>2. CASE call'.body \in {NoBody, call.body}
        BY <3>2 DEF SInv, Lists, OwnServices, NoBody
      <3>3. QED
        BY <2>1, <3>1, <3>2
    <2>3. QED
      BY <1>1, <2>2 DEF SInv, Lists, OwnServices, CacheOwn
  <1>6. CallShape /\ kept \subseteq there
    BY DEF IInv, CallOK, WorldTypes
  <1>7. SlotsListed'
    <2> SUFFICES ASSUME pc = "slots", HasAnswer'
                 PROVE  /\ call'.body.items \subseteq Matching \cap seen
                        /\ kept \cap Matching \subseteq call'.body.items
      BY <1>1, <1>3 DEF SlotsListed
    <2>1. CASE call'.body \in Bodies
      BY <1>4, <1>6, <2>1, SlotsBody
    <2>2. CASE HasAnswer /\ call'.body = call.body
      BY <2>2 DEF SInv, Lists, SlotsListed
    <2>3. QED
      BY <1>6, <2>1, <2>2, CallStepAnswer
  <1>8. PageListed'
    <2> SUFFICES ASSUME pc = "bookings", HasAnswer'
                 PROVE  IsPage(call.body.items, call.body.next)'
      BY <1>1 DEF PageListed
    <2>1. IsPage(call'.body.items, call'.body.next)
      <3>1. CASE call'.body \in Bodies
        BY <1>4, <3>1, PageIsPage
      <3>2. CASE HasAnswer /\ call'.body = call.body
        BY <3>2 DEF SInv, Lists, PageListed
      <3>3. QED
        BY <1>6, <3>1, <3>2, CallStepAnswer
    <2>2. QED
      BY <1>1, <1>2, <1>3, <2>1 DEF IsPage
  <1>9. PlanRead' /\ SlotsAsked' /\ DaysAsked'
    <2>1. \A params, id : Named(params, id)' = Named(params, id)
      BY <1>2 DEF Named
    <2>2. QED
      BY <1>1, <1>2, <2>1 DEF SInv, Asked, PlanRead, SlotsAsked, DaysAsked
  <1>10. PagesRead'
    BY <1>1, <1>2, <1>3 DEF SInv, Asked, PagesRead
  <1>11. ListIsWhole' /\ SlotsAreNext'
    BY <1>1 DEF Reads, ListIsWhole, SlotsAreNext
  <1>12. QED
    BY <1>4, <1>5, <1>7, <1>8, <1>9, <1>10, <1>11 DEF SInv, Lists, Asked

-----------------------------------------------------------------------------
(***************************************************************************)
(* Steps of the handler, by what comes next.                               *)
(***************************************************************************)

\* No search runs.
LEMMA RestSInv ==
    ASSUME pc' \in {"idle", "me", "profile", "typing", "interpret"},
           SeenSince', CacheOwn', PlanRead'
    PROVE  SInv'
  BY DEF SInv, Lists, OwnServices, SlotsListed, PageListed, Asked, SlotsAsked,
         DaysAsked, PagesRead, ListIsWhole, SlotsAreNext

LEMMA SaySInv ==
    ASSUME NEW kind, kind \notin {"list", "slots"}, NEW items, Say(kind, items),
           SeenSince', CacheOwn', PlanRead'
    PROVE  SInv'
  <1>1. pc' = "reply" /\ answer'.kind = kind
    BY DEF Say
  <1>2. QED
    BY <1>1 DEF SInv, Lists, OwnServices, SlotsListed, PageListed, Asked,
       SlotsAsked, DaysAsked, PagesRead, ListIsWhole, SlotsAreNext

\* A read begins, without an answer.
LEMMA GoSInv ==
    ASSUME NEW to \in Reads, Go(to), SeenSince', CacheOwn', PlanRead',
           to = "resolve" => plan'.intent = "create" /\ plan'.params.service = {},
           SlotsAsked', DaysAsked', PagesRead'
    PROVE  SInv'
  <1>1. /\ pc' = to
        /\ call' = [stage |-> "send", sends |-> 0, status |-> "ok", body |-> NoBody]
    BY DEF Go, StartCall, NoCall
  <1>2. ~HasAnswer' /\ call'.body.items = {}
    BY <1>1 DEF HasAnswer, NoBody
  <1>3. pc' # "reply"
    BY <1>1 DEF Reads
  <1>4. QED
    BY <1>1, <1>2, <1>3 DEF SInv, Lists, OwnServices, SlotsListed, PageListed, Asked,
       ListIsWhole, SlotsAreNext

LEMMA RefuseSInv ==
    ASSUME NEW status, status \notin {"list", "slots"}, Refuse(status),
           SeenSince', CacheOwn', PlanRead'
    PROVE  SInv'
  BY SaySInv DEF Refuse

LEMMA ErrorSInv ==
    ASSUME NEW status \in Statuses \cup Verdicts, SayError(status),
           SeenSince', CacheOwn', PlanRead'
    PROVE  SInv'
  <1>1. errorKind(status) \notin {"list", "slots"}
    BY DEF errorKind, Statuses, Verdicts
  <1>2. QED
    BY <1>1, SaySInv DEF SayError

\* What stays as it is.
LEMMA FrameSInv ==
    ASSUME SInv, Frame, pc # "idle"
    PROVE  SeenSince' /\ Actor' = Actor
  BY DEF SInv, SeenSince, Frame, Actor

-----------------------------------------------------------------------------
(***************************************************************************)
(* A search begins.                                                        *)
(***************************************************************************)

LEMMA SearchForFields ==
    ASSUME NEW p, NEW interval, NEW service, SearchFor(p, interval, service)
    PROVE  /\ search'.interval = interval /\ search'.service = service
           /\ search'.cursor = {} /\ search'.found = <<>>
  <1>1. search' = [provider |-> s.provider, interval |-> interval, cursor |-> {},
                   found |-> <<>>, service |-> service]
    BY DEF SearchFor, NoSearch
  <1>2. QED
    BY <1>1

\* Nothing has been read, and everything is ahead.
LEMMA NothingRead ==
    ASSUME NEW p, NEW interval, NEW service, SearchFor(p, interval, service)
    PROVE  PagesRead'
  <1>1. search'.cursor = {} /\ search'.found = <<>>
    BY SearchForFields
  <1>2. <<>> \in Seq(Bookings) /\ Rising(<<>>) /\ Items(<<>>) = {}
    BY DEF Rising, Items
  <1>3. \A b : Ahead(b)'
    BY <1>1 DEF Ahead
  <1>4. QED
    BY <1>1, <1>2, <1>3 DEF PagesRead

LEMMA StartSlotsSInv ==
    ASSUME SInv, Frame, pc # "idle", CacheOwn', PlanRead',
           NEW p, plan' = p, p.intent # "cancel",
           NEW id, Named(p.params, id), StartSlots(p, id)
    PROVE  SInv'
  <1> DEFINE from == SearchFrom(p.params, Now)
  <1>1. SearchFor(p, <<from, from + defaultSlotsWindow>>, {id}) /\ Go("slots")
    BY DEF StartSlots
  <1>2. /\ search'.interval = <<from, from + defaultSlotsWindow>>
        /\ search'.service = {id}
    BY <1>1, SearchForFields
  <1>3. SeenSince' /\ Actor' = Actor
    BY FrameSInv
  <1>4. pc' = "slots"
    BY <1>1 DEF Go
  <1>5. Named(p.params, id)'
    BY <1>3 DEF Named
  <1>6. SlotsAsked'
    BY <1>2, <1>5 DEF SlotsAsked
  <1>7. DaysAsked' /\ PagesRead'
    BY <1>4 DEF DaysAsked, PagesRead
  <1>8. QED
    BY <1>1, <1>3, <1>6, <1>7, GoSInv DEF Reads

\* A name that one service of the provider's has.
LEMMA resolveServiceByNameSInv ==
    ASSUME SInv, Frame, pc # "idle", CacheOwn', PlanRead',
           NEW p, plan' = p, p.intent = "create", IsParams(p.params),
           NEW services \in SUBSET Services,
           \A v \in services : v.provider = Actor,
           resolveServiceByName(p, services)
    PROVE  SInv'
  <1> DEFINE matches == UNION {ServicesNamed(name, services) :
                                 name \in p.params.serviceName}
  <1>1. \/ Refuse("not_found") \/ Refuse("conflict")
        \/ \E v \in matches : StartSlots(p, v.id)
    BY DEF resolveServiceByName
  <1>2. CASE Refuse("not_found") \/ Refuse("conflict")
    BY <1>2, RefuseSInv, FrameSInv
  <1>3. CASE \E v \in matches : StartSlots(p, v.id)
    <2>1. PICK v \in matches : StartSlots(p, v.id)
      BY <1>3
    <2>2. PICK name \in p.params.serviceName : v \in services /\ name \in v.names
      BY <2>1 DEF ServicesNamed
    <2>3. p.params.serviceName \subseteq v.names
      BY <2>2 DEF IsParams
    <2>4. Named(p.params, v.id)
      BY <2>2, <2>3 DEF Named
    <2>5. QED
      BY <2>1, <2>4, StartSlotsSInv
  <1>4. QED
    BY <1>1, <1>2, <1>3

LEMMA ActOnSInv ==
    ASSUME IInv, SInv, Frame, pc \in {"typing", "interpret"}, UNCHANGED cache,
           NEW p, p.intent \in Intents, p.intent # "cancel" => IsParams(p.params),
           ActOn(p)
    PROVE  SInv'
  <1>1. plan' = p /\ PlanRead'
    BY DEF ActOn, PlanRead
  <1>2. CacheOwn' /\ SeenSince' /\ Actor' = Actor /\ CacheOwn /\ pc # "idle"
    BY FrameSInv DEF SInv, Lists, OwnServices, CacheOwn
  <1>3. s.provider = Actor /\ Actor \in Providers
    BY DEF IInv, ActorOK, Resolved
  <1>4. \/ Refuse("unknown") \/ Refuse("question")
        \/ p.intent = "list" /\ StartList(p)
        \/ p.intent = "find" /\ StartFind(p)
        \/ p.intent = "create" /\ StartCreate(p)
        \/ p.intent = "cancel" /\ StartCancel(p)
    <2>1. p.intent \in {"unknown", "list", "find", "create", "cancel"}
      BY DEF Intents
    <2>2. /\ p.intent = "unknown" => Refuse("unknown")
          /\ p.intent # "unknown" /\ NeedsClarification(p) => Refuse("question")
          /\ p.intent = "list" /\ ~NeedsClarification(p) => StartList(p)
          /\ p.intent = "find" /\ ~NeedsClarification(p) => StartFind(p)
          /\ p.intent = "create" /\ ~NeedsClarification(p) => StartCreate(p)
          /\ p.intent = "cancel" /\ ~NeedsClarification(p) => StartCancel(p)
      BY DEF ActOn
    <2>3. QED
      BY <2>1, <2>2
  <1>5. CASE Refuse("unknown") \/ Refuse("question")
    BY <1>1, <1>2, <1>5, RefuseSInv
  <1>6. CASE p.intent = "list" /\ StartList(p)
    <2>1. /\ SearchFor(p, buildBookingFilter(p.params, Now, OffsetOf[Actor]), {})
          /\ Go("bookings")
      BY <1>3, <1>6 DEF StartList, Offset
    <2>2. search'.interval = buildBookingFilter(p.params, Now, OffsetOf[Actor])
      BY <2>1, SearchForFields
    <2>3. PagesRead' /\ pc' = "bookings"
      BY <2>1, NothingRead DEF Go
    <2>4. SlotsAsked' /\ DaysAsked'
      BY <1>1, <1>2, <2>2, <2>3 DEF SlotsAsked, DaysAsked
    <2>5. QED
      BY <1>1, <1>2, <2>1, <2>3, <2>4, GoSInv DEF Reads
  <1>7. CASE p.intent = "find" /\ StartFind(p)
    <2>1. CASE Refuse("validation")
      BY <1>1, <1>2, <2>1, RefuseSInv
    <2>2. CASE \E id \in p.params.service : StartSlots(p, id)
      BY <1>1, <1>2, <1>7, <2>2, StartSlotsSInv DEF Named
    <2>3. QED
      BY <1>7, <2>1, <2>2 DEF StartFind
  <1>8. CASE p.intent = "create" /\ StartCreate(p)
    <2>1. CASE \E id \in p.params.service : StartSlots(p, id)
      BY <1>1, <1>2, <1>8, <2>1, StartSlotsSInv DEF Named
    <2>2. CASE Refuse("validation")
      BY <1>1, <1>2, <2>2, RefuseSInv
    <2>3. CASE p.params.service = {} /\ SearchFor(p, <<0, 0>>, {}) /\ Go("resolve")
      <3>1. pc' = "resolve"
        BY <2>3 DEF Go
      <3>2. SlotsAsked' /\ DaysAsked' /\ PagesRead'
        BY <3>1 DEF SlotsAsked, DaysAsked, PagesRead
      <3>3. QED
        BY <1>1, <1>2, <1>8, <2>3, <3>2, GoSInv DEF Reads
    <2>4. CASE \E services \in cache[s.provider] : resolveServiceByName(p, services)
      <3>1. PICK services \in cache[Actor] : resolveServiceByName(p, services)
        BY <1>3, <2>4
      <3>2. services \in SUBSET Services /\ \A v \in services : v.provider = Actor
        BY <1>2, <1>3 DEF CacheOwn, IInv, WorldTypes
      <3>3. QED
        BY <1>1, <1>2, <1>8, <3>1, <3>2, resolveServiceByNameSInv
    <2>5. QED
      BY <1>8, <2>1, <2>2, <2>3, <2>4 DEF StartCreate
  <1>9. CASE p.intent = "cancel" /\ StartCancel(p)
    <2>1. SearchFor(p, <<0, 0>>, {}) /\ Go("zone") /\ pc' = "zone"
      BY <1>9 DEF StartCancel, Go
    <2>2. SlotsAsked' /\ DaysAsked' /\ PagesRead'
      BY <1>1, <1>9, <2>1 DEF SlotsAsked, DaysAsked, PagesRead
    <2>3. QED
      BY <1>1, <1>2, <2>1, <2>2, GoSInv DEF Reads
  <1>10. QED
    BY <1>4, <1>5, <1>6, <1>7, <1>8, <1>9

\* The plans that the handler makes have parameters of the right form.
LEMMA PlansRead ==
    /\ IsParams(NoPlan.params) /\ IsParams(Unknown.params)
    /\ pc = "typing" /\ IInv => IsParams(Agenda.params)
    /\ pc = "interpret" /\ IInv =>
         PlanFromReply.intent \in Intents
         /\ (PlanFromReply.intent # "cancel" => IsParams(PlanFromReply.params))
  <1>1. IsParams(NoParams)
    BY DEF IsParams, NoParams
  <1>2. NoPlan.params = NoParams /\ Unknown.params = NoParams
    BY DEF NoPlan, Unknown
  <1>3. ASSUME pc = "typing", IInv
        PROVE  IsParams(Agenda.params)
    <2> DEFINE today == LocalDay(Now, Offset)
    <2>1. Offset \in Int /\ Now \in Int
      BY <1>3, UsersAssumption, DataAssumption DEF IInv, ActorOK, Resolved, Offset
    <2>2. today \in Int
      BY <2>1, DayBounds
    <2> HIDE DEF today
    <2>3. Agenda.params.range = {<<today, today + 6>>}
      BY DEF Agenda, NoParams, today
    <2>4. /\ Agenda.params.notBefore = {} /\ Agenda.params.serviceName = {}
          /\ Agenda.params.approx = {} /\ DOMAIN Agenda.params = DOMAIN NoParams
      BY DEF Agenda, NoParams
    <2>5. QED
      BY <2>2, <2>3, <2>4 DEF IsParams
  <1>4. ASSUME pc = "interpret", IInv
        PROVE  /\ PlanFromReply.intent \in Intents
               /\ PlanFromReply.intent # "cancel" => IsParams(PlanFromReply.params)
    <2>1. msg.looks = "ordinary" /\ msg \in Messages
      BY <1>4, TheActor DEF IInv, AskedOK
    <2>2. IsParams(msg.reply.params) /\ msg.reply.intent \in Intents
      BY <2>1, MessagesAssumption DEF Intents
    <2>3. CASE PlanFromReply = Unknown
      BY <1>1, <2>3 DEF Unknown, Intents
    <2>4. CASE PlanFromReply # Unknown
      <3>1. /\ PlanFromReply.intent = msg.reply.intent
            /\ msg.reply.intent # "cancel" => PlanFromReply.params = msg.reply.params
        BY <2>4 DEF PlanFromReply
      <3>2. QED
        BY <2>2, <3>1
    <2>5. QED
      BY <2>3, <2>4
  <1>5. QED
    BY <1>1, <1>2, <1>3, <1>4

-----------------------------------------------------------------------------
(***************************************************************************)
(* The handler's steps.                                                    *)
(***************************************************************************)

\* What a turn leaves of the caches, if it does not write them.
LEMMA QuietSInv ==
    ASSUME IInv, SInv, pc # "idle", QuietButFaults, Fault \/ Calm,
           UNCHANGED <<plan, cache>>
    PROVE  Frame /\ SeenSince' /\ Actor' = Actor /\ CacheOwn' /\ PlanRead'
  <1>1. Frame
    BY QuietFrame
  <1>2. QED
    BY <1>1, FrameSInv
    DEF SInv, Lists, OwnServices, CacheOwn, Asked, PlanRead

LEMMA MeReturnedSInv ==
    ASSUME IInv, SInv, MeReturned
    PROVE  SInv'
  <1>1. pc = "me" /\ UNCHANGED <<plan, cache>> /\ QuietButFaults /\ Calm
    BY DEF MeReturned, Got, Quiet, QuietButFaults, Calm
  <1>2. SeenSince' /\ CacheOwn' /\ PlanRead'
    BY <1>1, QuietSInv
  <1>3. Say("forbidden", <<>>) \/ Go("services") \/ Go("profile")
    BY DEF MeReturned
  <1>4. CASE Say("forbidden", <<>>)
    BY <1>2, <1>4, SaySInv
  <1>5. ASSUME NEW to \in {"services", "profile"}, Go(to)
        PROVE  SInv'
    <2>1. pc' = to
      BY <1>5 DEF Go
    <2>2. SlotsAsked' /\ DaysAsked' /\ PagesRead'
      BY <2>1 DEF SlotsAsked, DaysAsked, PagesRead
    <2>3. QED
      BY <1>2, <1>5, <2>2, GoSInv DEF Reads
  <1>6. QED
    BY <1>3, <1>4, <1>5

\* What the API listed of a provider is kept under this provider.
LEMMA ServicesKeptOwn ==
    ASSUME IInv, SInv, pc \in {"services", "resolve"}, ServicesKept
    PROVE  CacheOwn'
  <1>1. CacheOwn /\ \A v \in call.body.items : v.provider = search.provider
    BY DEF SInv, Lists, OwnServices
  <1>2. cache \in [Providers -> SUBSET SUBSET Services]
    BY DEF IInv, WorldTypes
  <1>3. \/ cache' = [cache EXCEPT ![search.provider] = {call.body.items}]
        \/ UNCHANGED cache
    BY DEF ServicesKept
  <1>4. QED
    BY <1>1, <1>2, <1>3 DEF CacheOwn

LEMMA ServicesReturnedSInv ==
    ASSUME IInv, SInv, ServicesReturned
    PROVE  SInv'
  <1>1. /\ pc = "services" /\ UNCHANGED plan /\ QuietButFaults
        /\ ServicesKept /\ Go("profile")
    BY DEF ServicesReturned, Got
  <1>2. CacheOwn' /\ (Fault \/ Calm)
    BY <1>1, ServicesKeptOwn DEF ServicesKept
  <1>3. SeenSince' /\ PlanRead'
    BY <1>1, <1>2, QuietFrame, FrameSInv DEF SInv, Asked, PlanRead
  <1>4. pc' = "profile"
    BY <1>1 DEF Go
  <1>5. QED
    BY <1>2, <1>3, <1>4, RestSInv

LEMMA ProfileReturnedSInv ==
    ASSUME IInv, SInv, ProfileReturned
    PROVE  SInv'
  <1>1. /\ pc = "profile" /\ UNCHANGED <<plan, cache>> /\ QuietButFaults /\ Calm
        /\ pc' = "typing"
    BY DEF ProfileReturned, Got, Quiet, QuietButFaults, Calm
  <1>2. QED
    BY <1>1, QuietSInv, RestSInv

LEMMA ReadFailedSInv ==
    ASSUME IInv, SInv, ReadFailed
    PROVE  SInv'
  <1>1. /\ pc # "idle" /\ UNCHANGED <<plan, cache>> /\ QuietButFaults /\ Calm
        /\ SayError(call.status)
    BY DEF ReadFailed, Failed, Quiet, QuietButFaults, Calm, Reads
  <1>2. call.status \in Statuses
    BY DEF IInv, CallOK, CallShape, CallTypeOK
  <1>3. QED
    BY <1>1, <1>2, QuietSInv, ErrorSInv

LEMMA InterpretSInv ==
    ASSUME IInv, SInv, Interpret
    PROVE  SInv'
  <1>1. pc = "typing" /\ UNCHANGED cache /\ QuietButFaults /\ Calm
    BY DEF Interpret, Quiet, QuietButFaults, Calm
  <1>2. Frame
    BY <1>1, QuietFrame
  <1>3. \/ ActOn(Unknown) \/ ActOn(Agenda)
        \/ pc' = "interpret" /\ UNCHANGED plan
    BY <1>1, TheActor DEF Interpret
  <1>4. CASE ActOn(Unknown) \/ ActOn(Agenda)
    <2>1. Unknown.intent \in Intents /\ Agenda.intent \in Intents
      BY DEF Unknown, Agenda, Intents
    <2>2. QED
      BY <1>1, <1>2, <1>4, <2>1, PlansRead, ActOnSInv
  <1>5. CASE pc' = "interpret" /\ UNCHANGED plan
    BY <1>1, <1>5, QuietSInv, RestSInv
  <1>6. QED
    BY <1>3, <1>4, <1>5

LEMMA InterpretedSInv ==
    ASSUME IInv, SInv, Interpreted
    PROVE  SInv'
  <1>1. pc = "interpret" /\ UNCHANGED cache /\ QuietButFaults /\ Calm
    BY DEF Interpreted, Quiet, QuietButFaults, Calm
  <1>2. Frame
    BY <1>1, QuietFrame
  <1>3. \/ ActOn(PlanFromReply)
        \/ SayError(stream.verdict) /\ UNCHANGED plan
    BY DEF Interpreted
  <1>4. CASE ActOn(PlanFromReply)
    BY <1>1, <1>2, <1>4, PlansRead, ActOnSInv
  <1>5. CASE SayError(stream.verdict) /\ UNCHANGED plan
    <2>1. stream.verdict \in Verdicts
      BY DEF IInv, StreamOK, StreamShape, StreamTypeOK
    <2>2. QED
      BY <1>1, <1>5, <2>1, QuietSInv, ErrorSInv
  <1>6. QED
    BY <1>3, <1>4, <1>5

\* The search for the booking to cancel starts with nothing read.
LEMMA ZoneReturnedSInv ==
    ASSUME IInv, SInv, ZoneReturned
    PROVE  SInv'
  <1>1. pc = "zone" /\ UNCHANGED <<plan, cache>> /\ QuietButFaults /\ Calm
    BY DEF ZoneReturned, Got, Quiet, QuietButFaults, Calm
  <1>2. SeenSince' /\ CacheOwn' /\ PlanRead'
    BY <1>1, QuietSInv
  <1>3. \/ Refuse("validation")
        \/ Go("bookings") /\ \E interval : SearchFor(plan, interval, {})
    BY DEF ZoneReturned
  <1>4. CASE Refuse("validation")
    BY <1>2, <1>4, RefuseSInv
  <1>5. CASE Go("bookings") /\ \E interval : SearchFor(plan, interval, {})
    <2>1. plan'.intent = "cancel" /\ pc' = "bookings"
      BY <1>1, <1>5 DEF SInv, Asked, DaysAsked, Go
    <2>2. SlotsAsked' /\ DaysAsked'
      BY <2>1 DEF SlotsAsked, DaysAsked
    <2>3. PagesRead'
      BY <1>5, NothingRead
    <2>4. QED
      BY <1>2, <1>5, <2>2, <2>3, GoSInv DEF Reads
  <1>6. QED
    BY <1>3, <1>4, <1>5

LEMMA ServicesListedSInv ==
    ASSUME IInv, SInv, ServicesListed
    PROVE  SInv'
  <1>1. /\ pc = "resolve" /\ UNCHANGED plan /\ QuietButFaults
        /\ ServicesKept /\ resolveServiceByName(plan, call.body.items)
    BY DEF ServicesListed, Got
  <1>2. CacheOwn' /\ (Fault \/ Calm)
    BY <1>1, ServicesKeptOwn DEF ServicesKept
  <1>3. Frame
    BY <1>1, <1>2, QuietFrame
  <1>4. plan.intent = "create" /\ IsParams(plan.params) /\ PlanRead'
    BY <1>1 DEF SInv, Lists, OwnServices, Asked, PlanRead
  <1>5. search.provider = Actor
    BY <1>1 DEF IInv, ActorOK, Resolved
  <1>6. call.body.items \in SUBSET Services
        /\ \A v \in call.body.items : v.provider = Actor
    BY <1>1, <1>5 DEF IInv, CallOK, SInv, Lists, OwnServices
  <1>7. QED
    BY <1>1, <1>2, <1>3, <1>4, <1>6, resolveServiceByNameSInv

\* The slots that are cut off come after those that are proposed.
LEMMA SlotsReturnedSInv ==
    ASSUME IInv, SInv, SlotsReturned
    PROVE  SInv'
  <1> DEFINE items == call.body.items
             from  == SearchFrom(plan.params, Now)
             to    == from + defaultSlotsWindow
  <1>1. /\ pc = "slots" /\ HasAnswer /\ UNCHANGED <<plan, cache>>
        /\ QuietButFaults /\ Calm
    BY DEF SlotsReturned, Got, HasAnswer, Quiet, QuietButFaults, Calm
  <1>2. Frame /\ SeenSince' /\ Actor' = Actor /\ CacheOwn' /\ PlanRead'
    BY <1>1, QuietSInv
  <1>3. items \subseteq Matching \cap seen /\ kept \cap Matching \subseteq items
    BY <1>1 DEF SInv, Lists, SlotsListed
  <1>4. /\ plan.intent # "cancel" /\ search.interval = <<from, to>>
        /\ \E id : search.service = {id} /\ Named(plan.params, id)
    BY <1>1 DEF SInv, Asked, SlotsAsked
  <1>5. from \in Int /\ to \in Int
    <2>1. IsParams(plan.params) /\ Now \in Int
      BY <1>4, DataAssumption DEF SInv, Asked, PlanRead
    <2>2. from \in Int
      BY <2>1 DEF SearchFrom, parseOptionalDateTimeUTC, IsParams
    <2>3. defaultSlotsWindow \in Int
      BY DEF defaultSlotsWindow, DayLength, Hour
    <2> HIDE DEF from
    <2>4. QED
      BY <2>2, <2>3
  <1> HIDE DEF from, to
  <1>6. \A x \in items : /\ x \in Slots \cap seen /\ x.at \in Int
                         /\ from <= x.at /\ x.at <= to
                         /\ x.service \in search.service /\ Named(plan.params, x.service)
    BY <1>3, <1>4, DataAssumption DEF Matching, Within
  <1>7. \A y \in kept \cap Slots :
          y.service \in search.service /\ from <= y.at /\ y.at <= to => y \in items
    BY <1>3, <1>4 DEF Matching, Within
  <1>8. items \in SUBSET Slots /\ IsFiniteSet(items)
    BY <1>6, DataAssumption, FS_Subset
  <1>9. PICK slots \in SetToSeqs(items) :
          IF slots = <<>> THEN Say("not_found", <<>>)
          ELSE \E next \in FindSlots(slots) : Say("slots", next)
    BY DEF SlotsReturned
  <1> HIDE DEF items
  <1>10. CASE slots = <<>>
    BY <1>2, <1>9, <1>10, SaySInv
  <1>11. CASE slots # <<>>
    <2>1. slots \in Seq(items) /\ Items(slots) = items
      BY <1>8, SetToSeqsLists
    <2>2. PICK sorted \in Chronologies(slots) :
            Say("slots", FirstOf(MaxResults, sorted))
      BY <1>9, <1>11 DEF FindSlots
    <2>3. /\ sorted \in Seq(items) /\ Len(sorted) = Len(slots)
          /\ Items(sorted) = items
          /\ \A i, j \in DOMAIN sorted : i < j => ~(sorted[j].at < sorted[i].at)
      BY <2>1, ChronologiesSort
    <2> DEFINE offered == FirstOf(MaxResults, sorted)
               k == Minimum(MaxResults, Len(sorted))
    <2>4. MaxResults \in Nat /\ MaxResults = 2
      BY DEF MaxResults
    <2>5. Len(slots) \in Nat /\ Len(slots) # 0
      BY <1>11, <2>1
    <2>6. k \in 1..MaxResults /\ k <= Len(sorted)
      BY <2>3, <2>4, <2>5 DEF Minimum
    <2>7. /\ Len(offered) = k /\ DOMAIN offered = 1..k
          /\ \A i \in 1..k : i \in DOMAIN sorted /\ offered[i] = sorted[i]
      BY <2>3, <2>4, FirstOfKeeps
    <2> HIDE DEF offered, k
    <2>8. Items(offered) = {sorted[i] : i \in 1..k}
      BY <2>7 DEF Items
    <2>9. Items(offered) \subseteq items
      BY <2>3, <2>7, <2>8
    <2>10. ASSUME NEW x \in Items(offered), NEW y \in kept \cap Slots,
                  y.service = x.service, y.at >= from, y.at < x.at
           PROVE  y \in Items(offered)
      <3>1. x \in items /\ y.at \in Int
        BY <2>9, <2>10, DataAssumption
      <3>2. y.at <= to /\ y.service \in search.service
        BY <1>5, <1>6, <2>10, <3>1
      <3>3. y \in items
        BY <1>7, <2>10, <3>2
      <3>4. PICK i \in 1..k : x = sorted[i] /\ i \in DOMAIN sorted
        BY <2>7, <2>8
      <3>5. PICK j \in DOMAIN sorted : y = sorted[j]
        BY <2>3, <3>3 DEF Items
      <3>6. i \in Int /\ j \in Int /\ 1 <= j
        BY <2>3, <3>4, <3>5
      <3>7. ~(i < j)
        BY <2>3, <2>10, <3>4, <3>5
      <3>8. j \in 1..k
        BY <2>6, <3>4, <3>6, <3>7
      <3>9. QED
        BY <2>8, <3>5, <3>8
    <2>11. pc' = "reply" /\ answer' = [kind |-> "slots", items |-> offered]
      BY <2>2 DEF Say, offered
    <2>12. SlotsAreNext'
      <3>1. UNCHANGED <<plan, kept, seen, msg>>
        BY <1>1, <1>2 DEF Frame
      <3>2. /\ Len(offered) \in 1..MaxResults
            /\ Items(offered) \subseteq seen
            /\ \A x \in Items(offered) :
                 /\ x.at >= from
                 /\ Named(plan.params, x.service)
                 /\ \A y \in kept \cap Slots :
                      y.service = x.service /\ y.at >= from /\ y.at < x.at =>
                        y \in Items(offered)
        BY <1>5, <1>6, <2>6, <2>7, <2>9, <2>10
      <3>3. QED
        BY <1>2, <2>11, <3>1, <3>2 DEF SlotsAreNext, Named, from
    <2>13. ListIsWhole'
      BY <2>11 DEF ListIsWhole
    <2>14. OwnServices' /\ SlotsListed' /\ PageListed' /\ SlotsAsked' /\ DaysAsked'
           /\ PagesRead'
      BY <1>2, <2>11 DEF OwnServices, SlotsListed, PageListed, SlotsAsked, DaysAsked,
         PagesRead
    <2>15. QED
      BY <1>2, <2>12, <2>13, <2>14 DEF SInv, Lists, Asked
  <1>12. QED
    BY <1>10, <1>11

\* A page continues the pages before it.
LEMMA PageContinues ==
    ASSUME IInv, SInv, pc = "bookings", HasAnswer,
           NEW listed \in Listings(call.body.items),
           NEW found, found = search.found \o listed
    PROVE  /\ found \in Seq(Bookings) /\ Rising(found)
           /\ Items(found) = Items(search.found) \cup call.body.items
           /\ \A b \in Items(found) : Wanted(b) /\ (Upcoming => b \in seen)
           /\ search.cursor = {} => search.found = <<>>
  <1> DEFINE items == call.body.items
  <1>1. PagesRead /\ IsPage(items, call.body.next)
    BY DEF SInv, Asked, Lists, PageListed
  <1>2. \A b \in items : Wanted(b) /\ Ahead(b) /\ (Upcoming => b \in seen)
    BY <1>1 DEF IsPage
  <1>3. items \in SUBSET Bookings /\ IsFiniteSet(items)
    BY <1>2, DataAssumption, FS_Subset DEF Wanted
  <1>4. listed \in SetToSeqs(items) /\ Rising(listed)
    BY DEF Listings, Rising
  <1>5. listed \in Seq(items) /\ Items(listed) = items
    BY <1>3, <1>4, SetToSeqsLists
  <1>6. listed \in Seq(Bookings)
    BY <1>3, <1>5
  <1>7. /\ search.found \in Seq(Bookings) /\ Rising(search.found)
        /\ search.cursor = {} => search.found = <<>>
        /\ search.cursor \subseteq Bookings
        /\ \A b \in Items(search.found) :
             /\ Wanted(b) /\ (Upcoming => b \in seen)
             /\ \A c \in search.cursor : b = c \/ Before(b, c)
    BY <1>1 DEF PagesRead
  <1> HIDE DEF items
  <1>8. ASSUME NEW i \in DOMAIN search.found, NEW j \in DOMAIN listed
        PROVE  Before(search.found[i], listed[j])
    <2>1. search.found[i] \in Items(search.found) /\ listed[j] \in items
      BY <1>5, <1>8 DEF Items
    <2>2. search.cursor # {}
      BY <1>7, <1>8
    <2>3. PICK c \in search.cursor : c \in Bookings
      BY <1>7, <2>2
    <2>4. Before(c, listed[j])
      BY <1>2, <2>1, <2>3 DEF Ahead
    <2>5. search.found[i] = c \/ Before(search.found[i], c)
      BY <1>7, <2>1, <2>3
    <2>6. search.found[i] \in Bookings /\ listed[j] \in Bookings
      BY <1>3, <1>7, <2>1 DEF Wanted
    <2>7. QED
      BY <2>3, <2>4, <2>5, <2>6, BeforeIsOrder
  <1>9. /\ found \in Seq(Bookings) /\ Rising(found)
        /\ Items(found) = Items(search.found) \cup Items(listed)
    BY <1>4, <1>6, <1>7, <1>8, RisingTogether
  <1>10. QED
    BY <1>2, <1>5, <1>7, <1>9 DEF items

\* When the last page has been read, all that is asked for has been found.
LEMMA LastPageCompletes ==
    ASSUME SInv, pc = "bookings", HasAnswer, LastPage(call.body.next), Upcoming,
           NEW b \in kept, Wanted(b)
    PROVE  b \in Items(search.found) \cup call.body.items
  <1> DEFINE items == call.body.items
             next  == call.body.next
  <1>1. PagesRead /\ IsPage(items, next)
    BY DEF SInv, Asked, Lists, PageListed
  <1>2. b \in Items(search.found) \/ Ahead(b)
    BY <1>1 DEF PagesRead
  <1>3. \A x \in items : Wanted(x) /\ Ahead(x)
    BY <1>1 DEF IsPage
  <1>4. Ahead(b) => b \in items \/ \E m \in items : next = {m} /\ Before(m, b)
    BY <1>1 DEF IsPage
  <1>5. ASSUME NEW m \in items, next = {m}
        PROVE  FALSE
    <2>1. m \in search.cursor
      BY <1>5 DEF LastPage
    <2>2. Before(m, m) /\ m \in Bookings
      BY <1>3, <1>5, <2>1 DEF Ahead, Wanted
    <2>3. QED
      BY <2>2, BeforeIsOrder
  <1>6. QED
    BY <1>2, <1>4, <1>5

LEMMA BookingsReturnedSInv ==
    ASSUME IInv, SInv, BookingsReturned
    PROVE  SInv'
  <1> DEFINE items == call.body.items
             next  == call.body.next
  <1>1. /\ pc = "bookings" /\ HasAnswer /\ UNCHANGED <<s, plan, cache>>
        /\ QuietButFaults /\ Calm
    BY DEF BookingsReturned, Got, HasAnswer, Quiet, QuietButFaults, Calm
  <1>2. Frame /\ SeenSince' /\ Actor' = Actor /\ CacheOwn' /\ PlanRead'
    BY <1>1, QuietSInv
  <1>3. PICK listed \in Listings(items) :
          LET found == search.found \o listed
          IN  /\ search' = [search EXCEPT !.found = found, !.cursor = next]
              /\ IF LastPage(next) THEN SayBookings(found) ELSE Go("bookings")
    BY DEF BookingsReturned
  <1>4. PICK found : found = search.found \o listed
    OBVIOUS
  <1>5. /\ search' = [search EXCEPT !.found = found, !.cursor = next]
        /\ IF LastPage(next) THEN SayBookings(found) ELSE Go("bookings")
    BY <1>3, <1>4
  <1>6. /\ found \in Seq(Bookings) /\ Rising(found)
        /\ Items(found) = Items(search.found) \cup items
        /\ \A b \in Items(found) : Wanted(b) /\ (Upcoming => b \in seen)
    BY <1>1, <1>3, <1>4, PageContinues
  <1>7. PagesRead /\ IsPage(items, next) /\ DaysAsked
    BY <1>1 DEF SInv, Asked, Lists, PageListed
  <1>8. CASE ~LastPage(next)
    <2>1. Go("bookings") /\ pc' = "bookings"
      BY <1>5, <1>8 DEF Go
    <2>2. search = [provider |-> search.provider, interval |-> search.interval,
                    cursor |-> search.cursor, found |-> search.found,
                    service |-> search.service]
      BY DEF IInv, HandlerTypes, IsSearch
    <2>3. /\ search'.found = found /\ search'.cursor = next
          /\ search'.interval = search.interval
      BY <1>5, <2>2
    <2>4. UNCHANGED <<kept, seen>> /\ Upcoming' = Upcoming
          /\ \A b : Wanted(b)' = Wanted(b)
      BY <1>1, <1>2, <2>3 DEF Frame, Upcoming, StatusAsked, Wanted, InDirection
    <2>5. PICK m \in items : next = {m} /\ \A b \in items : b = m \/ Before(b, m)
      BY <1>7, <1>8 DEF IsPage, LastPage
    <2>6. \A b : Ahead(b)' <=> Before(m, b)
      BY <2>3, <2>5 DEF Ahead
    <2>7. /\ m \in Bookings /\ Ahead(m)
          /\ search.cursor = {} => search.found = <<>>
          /\ search.cursor \subseteq Bookings
          /\ \A b \in Items(search.found) : Wanted(b) /\
               \A c \in search.cursor : b = c \/ Before(b, c)
      <3>1. pc = "bookings"
        BY <1>1
      <3>2. /\ search.cursor \subseteq Bookings
            /\ search.cursor = {} => search.found = <<>>
            /\ \A b \in Items(search.found) :
                 /\ Wanted(b) /\ (Upcoming => b \in seen)
                 /\ \A c \in search.cursor : b = c \/ Before(b, c)
        BY <1>7, <3>1 DEF PagesRead
      <3>3. Wanted(m) /\ Ahead(m)
        BY <1>7, <2>5 DEF IsPage
      <3>4. m \in Bookings
        BY <3>3 DEF Wanted
      <3>5. QED
        BY <3>2, <3>3, <3>4
    <2>8. ASSUME NEW b \in Items(found)
          PROVE  b = m \/ Before(b, m)
      <3>1. CASE b \in items
        BY <2>5, <3>1
      <3>2. CASE b \in Items(search.found)
        <4>1. search.cursor # {}
          BY <2>7, <3>2 DEF Items
        <4>2. PICK c \in search.cursor : c \in Bookings
          BY <2>7, <4>1
        <4>3. Before(c, m) /\ (b = c \/ Before(b, c)) /\ b \in Bookings
          BY <2>7, <3>2, <4>2 DEF Ahead, Wanted
        <4>4. QED
          BY <2>7, <4>2, <4>3, BeforeIsOrder
      <3>3. QED
        BY <1>6, <2>8, <3>1, <3>2
    <2>9. ASSUME Upcoming, NEW b \in kept, Wanted(b)
          PROVE  b \in Items(found) \/ Before(m, b)
      <3>1. b \in Items(search.found) \/ Ahead(b)
        BY <1>7, <1>1, <2>9 DEF PagesRead
      <3>2. Ahead(b) => b \in items \/ \E n \in items : next = {n} /\ Before(n, b)
        BY <1>7, <2>9 DEF IsPage
      <3>3. QED
        BY <1>6, <2>5, <3>1, <3>2
    <2>10. PagesRead'
      BY <1>6, <2>3, <2>4, <2>5, <2>6, <2>7, <2>8, <2>9 DEF PagesRead
    <2>11. SlotsAsked' /\ DaysAsked'
      BY <1>1, <1>2, <1>7, <2>1, <2>3 DEF SlotsAsked, DaysAsked
    <2>12. QED
      BY <1>2, <2>1, <2>10, <2>11, GoSInv DEF Reads
  <1>9. CASE LastPage(next)
    <2>1. SayBookings(found)
      BY <1>5, <1>9
    <2>2. \/ plan.intent = "list" /\ \E sorted \in Chronologies(found) : Say("list", sorted)
          \/ \E kind \in {"not_found", "selected", "candidates"} : \E said :
               Say(kind, said)
      BY <2>1 DEF SayBookings, SayMatches
    <2>3. CASE \E kind \in {"not_found", "selected", "candidates"} : \E said :
                 Say(kind, said)
      BY <1>2, <2>3, SaySInv
    <2>4. ASSUME plan.intent = "list", NEW sorted \in Chronologies(found), Say("list", sorted)
          PROVE  SInv'
      <3>1. \A i, j \in DOMAIN found : found[i] = found[j] => i = j
        <4>1. \A i \in DOMAIN found : i \in Int /\ found[i] \in Bookings
          BY <1>6
        <4>2. QED
          BY <1>6, <4>1, BeforeIsOrder DEF Rising
      <3>2. /\ sorted \in Seq(Bookings) /\ Items(sorted) = Items(found)
            /\ \A i, j \in DOMAIN sorted : i < j => ~(sorted[j].at < sorted[i].at)
            /\ \A i, j \in DOMAIN sorted : sorted[i] = sorted[j] => i = j
        BY <1>6, <3>1, ChronologiesSort
      <3>3. Cardinality(Items(sorted)) = Len(sorted)
        BY <3>2, DistinctCount
      <3>4. \A i \in 1..Len(sorted) - 1 : sorted[i].at <= sorted[i + 1].at
        <4> SUFFICES ASSUME NEW i \in 1..Len(sorted) - 1
                     PROVE  sorted[i].at <= sorted[i + 1].at
          OBVIOUS
        <4>1. i \in DOMAIN sorted /\ i + 1 \in DOMAIN sorted /\ i < i + 1
          BY <3>2
        <4>2. sorted[i].at \in Int /\ sorted[i + 1].at \in Int
          BY <3>2, <4>1, DataAssumption
        <4>3. QED
          BY <3>2, <4>1, <4>2
      <3>5. pc' = "reply" /\ answer' = [kind |-> "list", items |-> sorted]
        BY <2>4 DEF Say
      <3>6. ListIsWhole'
        <4>1. UNCHANGED <<plan, kept, seen, msg>>
          BY <1>1, <1>2 DEF Frame
        <4> DEFINE range  == CHOOSE r \in plan.params.range : TRUE
                   days   == range[1] .. Minimum(range[2], range[1] + 6)
                   inDays == {b \in Bookings :
                                /\ b.provider = Actor
                                /\ LocalDay(b.at, OffsetOf[Actor]) \in days
                                /\ (b.at < Now) = (plan.params.status = "past")}
        <4> SUFFICES ASSUME plan.params.range # {}
                     PROVE  /\ Items(sorted) \subseteq inDays
                            /\ plan.params.status = "upcoming" =>
                                 /\ Items(sorted) \subseteq seen
                                 /\ kept \cap inDays \subseteq Items(sorted)
          BY <1>2, <3>3, <3>4, <3>5, <4>1 DEF ListIsWhole
        <4>2. PICK r \in plan.params.range : TRUE
          OBVIOUS
        <4>3. IsParams(plan.params)
          BY <2>4 DEF SInv, Asked, PlanRead
        <4>4. OffsetOf[Actor] \in Int
          BY <1>1, UsersAssumption DEF IInv, ActorOK, Resolved
        <4>5. \A b \in Bookings : b.at \in Int
          BY DataAssumption
        <4>6. search.interval = buildBookingFilter(plan.params, Now, OffsetOf[Actor])
          BY <1>1, <1>7, <2>4 DEF DaysAsked
        <4>7. r = range /\ \A b \in Bookings :
                Within(search.interval, b.at) <=>
                  LocalDay(b.at, OffsetOf[Actor]) \in days
          BY <4>2, <4>3, <4>4, <4>5, <4>6, ListedDays
        <4> HIDE DEF days
        <4>8. \A b : Wanted(b) <=> b \in inDays
          BY <2>4, <4>7 DEF Wanted, InDirection, StatusAsked
        <4> HIDE DEF inDays
        <4>9. Items(sorted) \subseteq inDays
          BY <1>6, <3>2, <4>8
        <4>10. ASSUME plan.params.status = "upcoming"
               PROVE  /\ Items(sorted) \subseteq seen
                      /\ kept \cap inDays \subseteq Items(sorted)
          <5>1. Upcoming
            BY <2>4, <4>10 DEF Upcoming, StatusAsked
          <5>2. \A b \in kept : Wanted(b) => b \in Items(search.found) \cup items
            BY <1>1, <1>9, <5>1, LastPageCompletes
          <5>3. QED
            BY <1>6, <3>2, <4>8, <5>1, <5>2
        <4>11. QED
          BY <4>9, <4>10
      <3>7. /\ OwnServices' /\ SlotsListed' /\ PageListed' /\ SlotsAsked'
            /\ DaysAsked' /\ PagesRead' /\ SlotsAreNext'
        BY <1>2, <3>5 DEF OwnServices, SlotsListed, PageListed, SlotsAsked, DaysAsked,
           PagesRead, SlotsAreNext
      <3>8. QED
        BY <1>2, <3>6, <3>7 DEF SInv, Lists, Asked
    <2>5. QED
      BY <2>2, <2>3, <2>4
  <1>10. QED
    BY <1>8, <1>9

-----------------------------------------------------------------------------
(***************************************************************************)
(* All steps, and the theorems about what is found.                        *)
(***************************************************************************)

LEMMA FinishSInv ==
    ASSUME SInv, NEW stored, Finish(stored)
    PROVE  SInv'
  <1>1. pc' = "idle" /\ plan' = NoPlan /\ UNCHANGED cache
    BY DEF Finish
  <1>2. SeenSince' /\ CacheOwn' /\ PlanRead'
    BY <1>1, PlansRead DEF SInv, Lists, OwnServices, CacheOwn, SeenSince, PlanRead
  <1>3. QED
    BY <1>1, <1>2, RestSInv

LEMMA ReceiveSInv ==
    ASSUME IInv, SInv, NEW m \in Messages, Receive(m)
    PROVE  SInv'
  <1>1. /\ pc' \in {"me", "typing"} /\ seen' = there /\ UNCHANGED <<plan, cache, there>>
    BY DEF Receive, Go
  <1>2. SeenSince' /\ CacheOwn' /\ PlanRead'
    BY <1>1
    DEF SInv, Lists, OwnServices, CacheOwn, SeenSince, Asked, PlanRead
  <1>3. QED
    BY <1>1, <1>2, RestSInv

LEMMA ChangeSInv ==
    ASSUME IInv, SInv, NEW x \in Changing, Change(x)
    PROVE  SInv'
  <1>1. /\ UNCHANGED <<pc, msg, plan, search, answer, call, cache>>
        /\ pc = "idle" => UNCHANGED <<kept, seen>>
        /\ pc # "idle" => kept' = kept \cap there' /\ seen' = seen \cup there'
    BY DEF Change, handler, history
  <1>2. kept' \subseteq kept /\ seen \subseteq seen' /\ SeenSince'
    BY <1>1 DEF SeenSince
  <1>3. QED
    BY <1>1, <1>2, LaterSInv

\* Steps of the deadline and of the model's stream, and none at all.
LEMMA ApartSInv ==
    ASSUME SInv, Deadline \/ StreamStep \/ UNCHANGED vars
    PROVE  SInv'
  <1>1. UNCHANGED <<pc, msg, plan, search, answer, call, cache, there, kept, seen>>
    BY DEF Deadline, StreamStep, vars, handler, history
  <1>2. SeenSince'
    BY <1>1 DEF SInv, SeenSince
  <1>3. QED
    BY <1>1, <1>2, LaterSInv

LEMMA HandleSInv ==
    ASSUME IInv, SInv, Handle
    PROVE  SInv'
  <1>1. CASE Reply \/ GiveUp
    BY <1>1, FinishSInv DEF Reply, GiveUp
  <1>2. QED
    BY <1>1, MeReturnedSInv, ServicesReturnedSInv, ProfileReturnedSInv,
       ReadFailedSInv, InterpretSInv, InterpretedSInv, ZoneReturnedSInv,
       BookingsReturnedSInv, ServicesListedSInv, SlotsReturnedSInv DEF Handle

LEMMA InitSInv == Init => SInv
  <1> SUFFICES ASSUME Init
               PROVE  SInv
    OBVIOUS
  <1>1. pc = "idle" /\ plan = NoPlan /\ cache = [p \in Providers |-> {}]
    BY DEF Init
  <1>2. SeenSince /\ CacheOwn /\ PlanRead
    BY <1>1, PlansRead DEF SeenSince, CacheOwn, PlanRead
  <1>3. QED
    BY <1>1, <1>2 DEF SInv, Lists, OwnServices, SlotsListed, PageListed, Asked,
       SlotsAsked, DaysAsked, PagesRead, ListIsWhole, SlotsAreNext

LEMMA SInvAlways == Spec => []SInv
<1>1. IInv /\ SInv /\ [Next]_vars => SInv'
  BY ReceiveSInv, ChangeSInv, CallStepSInv, ApartSInv, HandleSInv DEF Next, Work
<1>2. QED
  BY <1>1, InitSInv, IInvAlways, PTL DEF Spec

\* A list of bookings has every booking of the days asked for that lies ahead
\* and was there throughout, once and in order, none that is over and none that
\* never was, however the pages fall and whatever is booked and cancelled
\* between them (GetBookings, buildBookingFilter).
THEOREM ListsWhole == Spec => []ListIsWhole
<1>1. SInv => ListIsWhole
  BY DEF SInv
<1>2. QED
  BY <1>1, SInvAlways, PTL

\* The slots proposed are the next of the service asked for: no slot that was
\* free throughout is passed over (FindSlots, resolveServiceID).
THEOREM NextSlotsProposed == Spec => []SlotsAreNext
<1>1. SInv => SlotsAreNext
  BY DEF SInv
<1>2. QED
  BY <1>1, SInvAlways, PTL

-----------------------------------------------------------------------------
(***************************************************************************)
(* The rules on the words of a message, and what a reader takes them for.  *)
(***************************************************************************)

LEMMA LeastPlace ==
    ASSUME NEW S \in SUBSET Nat, S # {}
    PROVE  \E m \in Leftmost(S) : Leftmost(S) = {m}
  <1> DEFINE R == OpToRel(<, Nat)
  <1>1. IsWellFoundedOn(R, Nat)
    BY NatLessThanWellFounded
  <1>2. \A x, y \in Nat : <<x, y>> \in R <=> x < y
    BY DEF OpToRel
  <1> HIDE DEF R
  <1>3. PICK m \in S : \A n \in S : ~(<<n, m>> \in R)
    BY <1>1, WFMin
  <1>4. \A n \in S : ~(n < m)
    BY <1>2, <1>3
  <1>5. \A n \in S : m <= n /\ (n <= m => n = m)
    BY <1>3, <1>4
  <1>6. m \in Leftmost(S) /\ \A n \in Leftmost(S) : n = m
    BY <1>3, <1>5 DEF Leftmost
  <1>7. QED
    BY <1>6

\* Every mark has a number on each side.
LEMMA NumbersBeside ==
    ASSUME NEW text, IsText(text), NEW i \in DOMAIN text.marks
    PROVE  /\ i \in Nat /\ i # 0
           /\ text.numbers[i] \in Nat /\ text.numbers[i + 1] \in Nat
  <1>1. text.numbers \in Seq(Nat) /\ text.marks \in Seq(Marks)
    BY DEF IsText
  <1>2. DOMAIN text.marks = 1..Len(text.marks) /\ Len(text.marks) \in Nat
    BY <1>1
  <1>3. text.marks # <<>>
    BY <1>1, <1>2
  <1>4. Len(text.marks) < Len(text.numbers) /\ Len(text.numbers) \in Nat
    BY <1>1, <1>3 DEF IsText
  <1>5. i \in Nat /\ i # 0 /\ i \in 1..Len(text.numbers) /\ i + 1 \in 1..Len(text.numbers)
    BY <1>2, <1>4
  <1>6. QED
    BY <1>1, <1>5

\* A year that is written is one number.
LEMMA YearIsNumber ==
    ASSUME NEW text, IsText(text), NEW i
    PROVE  WrittenYear(text, i) \in SUBSET Int
  <1>1. \A j \in DOMAIN text.marks : text.numbers[j + 1] \in Nat
    BY NumbersBeside
  <1>2. QED
    BY <1>1 DEF WrittenYear

LEMMA DateIsDay ==
    ASSUME NEW y \in Int, NEW m \in Int, NEW d \in Int
    PROVE  Date(y, m, d) \in Int
  BY DEF Date, YearLength, MonthLength

LEMMA DateAtIsDay ==
    ASSUME NEW text, IsText(text), NEW i \in DatePlaces(text), NEW now \in Int
    PROVE  DateAt(text, i, now) \in Int
  <1> DEFINE written == WrittenYear(text, i)
             today   == now \div DayLength
             coming  == Date(YearOf(today), text.numbers[i + 1], text.numbers[i])
             given   == Date(CHOOSE year \in written : TRUE,
                             text.numbers[i + 1], text.numbers[i])
  <1>1. text.numbers[i] \in Int /\ text.numbers[i + 1] \in Int
    BY DEF DatePlaces
  <1>2. today \in Int /\ YearOf(today) \in Int
    BY DEF DayLength, Hour, YearOf, YearLength, MonthLength
  <1>3. coming \in Int
    BY <1>1, <1>2, DateIsDay
  <1>4. NextOccurrence(coming, now) \in Int
    BY <1>3 DEF NextOccurrence, YearLength, MonthLength
  <1>5. written # {} => given \in Int
    BY <1>1, YearIsNumber, DateIsDay
  <1>6. DateAt(text, i, now) = IF written = {} THEN NextOccurrence(coming, now) ELSE given
    BY DEF DateAt
  <1>7. QED
    BY <1>4, <1>5, <1>6

\* What the rules take for a date.
DateMarks(text) ==
    {i \in DOMAIN text.marks :
        /\ text.marks[i] \in {".", "/"}
        /\ text.numbers[i] <= 99 /\ text.numbers[i + 1] <= 99}

\* In a plain text the leftmost of these is a day and a month.
LEMMA PlainDateIsRead ==
    ASSUME NEW text, IsText(text), NEW now \in Int, PlainlyWritten(text, now)
    PROVE  IF DatePlaces(text) = {}
           THEN NumericDate(text, now) = {}
           ELSE \E i \in DatePlaces(text) : NumericDate(text, now) = {DateAt(text, i, now)}
  <1>1. DateMarks(text) \in SUBSET Nat /\ DatePlaces(text) \subseteq DateMarks(text)
    BY NumbersBeside DEF DateMarks, DatePlaces, IsDateMark
  <1>2. \A i \in DateMarks(text) : i \in DatePlaces(text) \/ i - 1 \in DatePlaces(text)
    BY DEF PlainlyWritten, DateMarks, IsDateMark
  <1>3. reCancelNumericDate(text) = Leftmost(DateMarks(text))
    BY DEF reCancelNumericDate, DateMarks
  <1>4. CASE DatePlaces(text) = {}
    <2>1. DateMarks(text) = {}
      BY <1>2, <1>4
    <2>2. reCancelNumericDate(text) = {}
      BY <1>3, <2>1 DEF Leftmost
    <2>3. QED
      BY <1>4, <2>2 DEF NumericDate
  <1>5. CASE DatePlaces(text) # {}
    <2>1. PICK i \in Leftmost(DateMarks(text)) : Leftmost(DateMarks(text)) = {i}
      BY <1>1, <1>5, LeastPlace
    <2>2. i \in DateMarks(text) /\ \A j \in DateMarks(text) : i <= j
      BY <2>1 DEF Leftmost
    <2>3. i \in DatePlaces(text)
      <3>1. i \in Nat /\ ~(i <= i - 1)
        BY <1>1, <2>2
      <3>2. i - 1 \notin DatePlaces(text)
        BY <1>1, <2>2, <3>1
      <3>3. QED
        BY <1>2, <2>2, <3>2
    <2>4. text.numbers[i] \in 1..31 /\ text.numbers[i + 1] \in 1..12
      BY <2>3 DEF DatePlaces
    <2>5. {j \in reCancelNumericDate(text) :
              text.numbers[j] \in 1..31 /\ text.numbers[j + 1] \in 1..12} = {i}
      BY <1>3, <2>1, <2>4
    <2>6. NumericDate(text, now) = {DateAt(text, i, now)}
      BY <2>5 DEF NumericDate, DateAt
    <2>7. QED
      BY <1>5, <2>3, <2>6
  <1>6. QED
    BY <1>4, <1>5

\* In a text that is plainly written, the rules that look for a day
\* (parseCancelDateFromText: the numeric date, else a word) find the day that a
\* reader finds, and none when there is none.
THEOREM PlainDayIsRead ==
    ASSUME NEW text, IsText(text), NEW now \in Int, PlainlyWritten(text, now)
    PROVE  /\ parseCancelDateFromText(text, now) = DatesSaid(text, now)
           /\ DatesSaid(text, now) \in SUBSET Int
           /\ \A d, e \in DatesSaid(text, now) : d = e
  <1> DEFINE today  == now \div DayLength
             places == {DateAt(text, i, now) : i \in DatePlaces(text)}
             words  == {today + DaysAhead[word] : word \in text.words}
  <1>1. \A d, e \in DatesSaid(text, now) : d = e
    BY DEF PlainlyWritten
  <1>2. DatesSaid(text, now) = places \cup words
    BY DEF DatesSaid
  <1>3. /\ text.words \subseteq {"today", "tomorrow"}
        /\ DaysAhead["today"] = 0 /\ DaysAhead["tomorrow"] = 1
    BY DEF PlainlyWritten, IsText, Words, DaysAhead
  <1>4. today \in Int
    BY DEF DayLength, Hour
  <1>5. places \in SUBSET Int
    BY DateAtIsDay
  <1> HIDE DEF today
  <1>6. words \in SUBSET Int
    BY <1>3, <1>4
  <1>7. CASE DatePlaces(text) # {}
    <2>1. PICK i \in DatePlaces(text) : NumericDate(text, now) = {DateAt(text, i, now)}
      BY <1>7, PlainDateIsRead
    <2>2. DateAt(text, i, now) \in DatesSaid(text, now)
      BY <1>2
    <2>3. parseCancelDateFromText(text, now) = {DateAt(text, i, now)}
      BY <2>1 DEF parseCancelDateFromText
    <2>4. QED
      BY <1>1, <1>2, <1>5, <1>6, <2>2, <2>3
  <1>8. CASE DatePlaces(text) = {}
    <2>1. parseCancelDateFromText(text, now) = WordDate(text, today)
      BY <1>8, PlainDateIsRead DEF parseCancelDateFromText, today
    <2>2. DatesSaid(text, now) = words
      BY <1>2, <1>8
    <2>3. /\ ContainsWord(text, "today") <=> "today" \in text.words
          /\ ContainsWord(text, "tomorrow") <=> "tomorrow" \in text.words
      BY <1>3 DEF ContainsWord
    <2>4. CASE "today" \in text.words
      <3>1. today + DaysAhead["today"] \in words /\ today + DaysAhead["today"] = today
        BY <1>3, <1>4, <2>4
      <3>2. WordDate(text, today) = {today}
        BY <2>3, <2>4 DEF WordDate
      <3>3. QED
        BY <1>1, <1>6, <2>1, <2>2, <3>1, <3>2
    <2>5. CASE "today" \notin text.words /\ "tomorrow" \in text.words
      <3>1. today + DaysAhead["tomorrow"] \in words /\ today + DaysAhead["tomorrow"] = today + 1
        BY <1>3, <1>4, <2>5
      <3>2. WordDate(text, today) = {today + 1}
        BY <2>3, <2>5 DEF WordDate
      <3>3. QED
        BY <1>1, <1>6, <2>1, <2>2, <3>1, <3>2
    <2>6. CASE "today" \notin text.words /\ "tomorrow" \notin text.words
      <3>1. words = {}
        BY <1>3, <2>6
      <3>2. WordDate(text, today) = {}
        BY <2>3, <2>6 DEF WordDate
      <3>3. QED
        BY <1>1, <1>6, <2>1, <2>2, <3>1, <3>2
    <2>7. QED
      BY <2>4, <2>5, <2>6
  <1>9. QED
    BY <1>7, <1>8

\* A clock is a minute of a day.
LEMMA PlainClockIsRead ==
    ASSUME NEW text, IsText(text), NEW now \in Int, PlainlyWritten(text, now)
    PROVE  /\ ClockIn(text) = ClocksSaid(text)
           /\ ClocksSaid(text) \in SUBSET (0..DayLength - 1)
           /\ \A c, d \in ClocksSaid(text) : c = d
  <1> DEFINE clocks == {i \in DOMAIN text.marks :
                          text.marks[i] = ":" /\ text.numbers[i] <= 23
                          /\ text.numbers[i + 1] <= 59}
             clock(i) == text.numbers[i] * Hour + text.numbers[i + 1]
  <1>1. \A c, d \in ClocksSaid(text) : c = d
    BY DEF PlainlyWritten
  <1>2. ClocksSaid(text) = {clock(i) : i \in clocks}
    BY DEF ClocksSaid
  <1>3. clocks \in SUBSET Nat
    BY NumbersBeside
  <1>4. ASSUME NEW i \in clocks
        PROVE  clock(i) \in 0..DayLength - 1
    <2>1. text.numbers[i] \in 0..23 /\ text.numbers[i + 1] \in 0..59
      BY NumbersBeside
    <2>2. \A n \in 0..23, m \in 0..59 : n * Hour + m \in 0..DayLength - 1
      BY DEF DayLength, Hour
    <2>3. QED
      BY <2>1, <2>2
  <1>5. reCancelClock(text) = Leftmost(clocks)
    <2>1. {i \in DOMAIN text.marks :
              /\ text.marks[i] \in {":", ".", " "}
              /\ text.numbers[i] <= 23 /\ text.numbers[i + 1] <= 59} = clocks
      <3>1. ASSUME NEW i \in DOMAIN text.marks, text.marks[i] \in {".", " "}
            PROVE  ~(text.numbers[i] <= 23 /\ text.numbers[i + 1] <= 59)
        <4>1. text.numbers[i] > 23 \/ text.numbers[i + 1] > 59
          BY <3>1 DEF PlainlyWritten
        <4>2. text.numbers[i] \in Nat /\ text.numbers[i + 1] \in Nat
          BY NumbersBeside
        <4>3. QED
          BY <4>1, <4>2
      <3>2. QED
        BY <3>1
    <2>2. QED
      BY <2>1 DEF reCancelClock
  <1>6. ClockIn(text) = {clock(i) : i \in Leftmost(clocks)}
    BY <1>5 DEF ClockIn
  <1> HIDE DEF clocks, clock
  <1>7. CASE clocks = {}
    BY <1>1, <1>2, <1>6, <1>7 DEF Leftmost
  <1>8. CASE clocks # {}
    <2>1. PICK i \in Leftmost(clocks) : Leftmost(clocks) = {i}
      BY <1>3, <1>8, LeastPlace
    <2>2. i \in clocks /\ ClockIn(text) = {clock(i)}
      BY <1>6, <2>1 DEF Leftmost
    <2>3. QED
      BY <1>1, <1>2, <1>4, <2>2
  <1>9. QED
    BY <1>7, <1>8

-----------------------------------------------------------------------------
(***************************************************************************)
(* The search for the booking to cancel finds what the message describes.  *)
(***************************************************************************)

\* The message wishes for what the plan's parameters say.
Meant(params) ==
    LET wish  == msg.wish
        local == OffsetOf[Actor]
    IN  /\ wish.client = params.client
        /\ \A time \in params.approx :
              LET at  == parseCancelApproximateTime(time, local)
                  day == LocalDay(at, local)
              IN  /\ wish.days = {day}
                  /\ \E clock : wish.clock = {clock} /\ DayStart(day, local) + clock = at
        /\ params.approx = {} =>
              \A range \in params.range : range[1] <= range[2] =>
                  wish.days = range[1]..range[2] /\ wish.clock = {}
        /\ ~hasCancelDateContext(params) => wish.days = {} /\ wish.clock = {}

\* The plan to which a reply and the words of its message lead.
SaidParams ==
    enrichCancelParamsFromMessage(msg.reply.params, msg.text, Now, OffsetOf[Actor])

LEMMA DayAndClock ==
    ASSUME NEW x \in Int
    PROVE  x \div DayLength \in Int /\ (x \div DayLength) * DayLength + (x % DayLength) = x
  BY DEF DayLength, Hour

LEMMA DayOfClock ==
    ASSUME NEW d \in Int, NEW c \in 0..DayLength - 1
    PROVE  (d * DayLength + c) \div DayLength = d /\ (d * DayLength + c) % DayLength = c
  <1>1. DayLength = 1440
    BY DEF DayLength, Hour
  <1>2. c \in 0..1439
    BY <1>1
  <1>3. (d * 1440 + c) \div 1440 = d
    BY <1>2
  <1>4. (d * 1440 + c) % 1440 = c
    BY <1>2
  <1>5. QED
    BY <1>1, <1>3, <1>4

\* A time that the message gives, in UTC, is the day and the clock it means.
LEMMA TimeIsMeant ==
    ASSUME NEW time, time.at \in Int, NEW local \in Int,
           NEW at, at = IF time.form = "utc" THEN time.at + local ELSE time.at,
           NEW T, T = parseCancelApproximateTime(time, local)
    PROVE  /\ T \in Int /\ LocalDay(T, local) = at \div DayLength
           /\ DayStart(LocalDay(T, local), local) + (at % DayLength) = T
  <1>1. T \in Int /\ at \in Int /\ T + local = at
    BY DEF parseCancelApproximateTime
  <1>2. LocalDay(T, local) = at \div DayLength
    BY <1>1 DEF LocalDay
  <1> DEFINE q == (at \div DayLength) * DayLength
             r == at % DayLength
  <1>3. q + r = at /\ q \in Int /\ r \in Int
    BY <1>1, DayAndClock DEF DayLength, Hour
  <1>4. DayStart(LocalDay(T, local), local) = q - local
    BY <1>2 DEF DayStart
  <1> HIDE DEF q, r
  <1>5. (q - local) + r = T
    BY <1>1, <1>3
  <1>6. DayStart(LocalDay(T, local), local) + r = T
    BY <1>4, <1>5
  <1>7. QED
    BY <1>1, <1>2, <1>6 DEF r

\* What a reply says of the date is left as it is; otherwise a plain text says
\* it, and is read as it is meant.
LEMMA WishIsMeant ==
    ASSUME PlainlyAsked, msg \in Messages, msg.looks = "ordinary",
           OffsetOf[Actor] \in Int
    PROVE  /\ IsParams(SaidParams) /\ SaidParams.booking = msg.reply.params.booking
           /\ SaidParams.booking = {} => Meant(SaidParams)
  <1> DEFINE params == msg.reply.params
             local  == OffsetOf[Actor]
             text   == msg.text
             now    == Now + local
             date   == parseCancelDateFromText(text, now)
  <1>1. IsParams(params) /\ IsText(text) /\ Now \in Int
    BY MessagesAssumption, DataAssumption
  <1>2. Understood
    BY DEF PlainlyAsked
  <1>3. CASE hasCancelDateContext(params)
    <2>1. SaidParams = params
      BY <1>3 DEF SaidParams, enrichCancelParamsFromMessage
    <2>2. ASSUME params.booking = {} PROVE Meant(params)
      <3>1. /\ msg.wish.client = params.client
            /\ \A time \in params.approx :
                 LET at == IF time.form = "utc" THEN time.at + local ELSE time.at
                 IN  msg.wish.days = {at \div DayLength} /\ msg.wish.clock = {at % DayLength}
            /\ params.approx = {} =>
                 \A range \in params.range : range[1] <= range[2] =>
                   msg.wish.days = range[1]..range[2] /\ msg.wish.clock = {}
        BY <1>2, <2>2 DEF Understood
      <3>2. ASSUME NEW time \in params.approx
            PROVE  LET T   == parseCancelApproximateTime(time, local)
                       day == LocalDay(T, local)
                   IN  /\ msg.wish.days = {day}
                       /\ \E clock : msg.wish.clock = {clock}
                                       /\ DayStart(day, local) + clock = T
        <4> DEFINE at == IF time.form = "utc" THEN time.at + local ELSE time.at
                   T  == parseCancelApproximateTime(time, local)
        <4>1. time.at \in Int
          BY <1>1 DEF IsParams
        <4>2. /\ LocalDay(T, local) = at \div DayLength
              /\ DayStart(LocalDay(T, local), local) + (at % DayLength) = T
          BY <4>1, TimeIsMeant
        <4>3. msg.wish.days = {at \div DayLength} /\ msg.wish.clock = {at % DayLength}
          BY <3>1
        <4> HIDE DEF at, T
        <4>4. QED
          BY <4>2, <4>3 DEF T
      <3>3. QED
        BY <1>3, <3>1, <3>2 DEF Meant
    <2>3. QED
      BY <1>1, <2>1, <2>2
  <1>4. CASE ~hasCancelDateContext(params)
    <2> DEFINE clocks == ClocksSaid(text)
    <2>1. PlainlyWritten(text, now) /\ now \in Int
      BY <1>1, <1>4 DEF PlainlyAsked
    <2>2. /\ date = DatesSaid(text, now) /\ date \in SUBSET Int
          /\ \A d, e \in date : d = e
      BY <1>1, <2>1, PlainDayIsRead
    <2>3. /\ ClockIn(text) = clocks /\ clocks \in SUBSET (0..DayLength - 1)
          /\ \A c, d \in clocks : c = d
      BY <1>1, <2>1, PlainClockIsRead
    <2>4. clocks # {} => date # {}
      BY <2>1, <2>2 DEF PlainlyWritten
    <2>5. SaidParams = [params EXCEPT
                          !.range  = {<<d, d>> : d \in date},
                          !.approx = {UTC(d * DayLength + c - local) :
                                         d \in date, c \in clocks}]
      BY <1>4, <2>3 DEF SaidParams, enrichCancelParamsFromMessage
    <2> HIDE DEF date, clocks
    <2>6. DOMAIN params = {"client", "booking", "approx", "range", "service",
                           "serviceName", "notBefore", "status"}
      BY <1>1 DEF IsParams, NoParams
    <2>7. /\ DOMAIN SaidParams = DOMAIN params
          /\ SaidParams.range = {<<d, d>> : d \in date}
          /\ SaidParams.approx = {UTC(d * DayLength + c - local) : d \in date, c \in clocks}
          /\ SaidParams.client = params.client
          /\ SaidParams.booking = params.booking
          /\ SaidParams.notBefore = params.notBefore
          /\ SaidParams.serviceName = params.serviceName
      BY <2>5, <2>6
    <2>8. ASSUME NEW d \in date, NEW c \in clocks
          PROVE  LET time == UTC(d * DayLength + c - local)
                 IN  /\ time.at \in Int /\ time.form = "utc"
                     /\ LocalDay(time.at, local) = d /\ DayStart(d, local) + c = time.at
      <3>1. d \in Int /\ c \in 0..DayLength - 1 /\ c \in Int /\ d * DayLength \in Int
        BY <2>2, <2>3 DEF DayLength, Hour
      <3> DEFINE q == d * DayLength
      <3>2. (q + c) \div DayLength = d
        BY <3>1, DayOfClock
      <3>3. q + c - local \in Int /\ (q + c - local) + local = q + c
            /\ (q - local) + c = q + c - local
        <4> HIDE DEF q
        <4>1. q \in Int
          BY <3>1 DEF q
        <4>2. QED
          BY <3>1, <4>1
      <3>4. QED
        BY <3>2, <3>3 DEF UTC, LocalDay, DayStart
    <2>9. IsParams(SaidParams)
      <3>1. \A r, q \in SaidParams.range : r \in Int \X Int /\ r = q
        BY <2>2, <2>7
      <3>2. \A t, u \in SaidParams.approx : t.at \in Int /\ t = u
        <4>1. \A t \in SaidParams.approx : t.at \in Int
          BY <2>7, <2>8
        <4>2. \A t, u \in SaidParams.approx : t = u
          BY <2>2, <2>3, <2>7
        <4>3. QED
          BY <4>1, <4>2
      <3>3. QED
        BY <1>1, <2>7, <3>1, <3>2 DEF IsParams
    <2>10. ASSUME params.booking = {} PROVE Meant(SaidParams)
      <3>1. msg.wish.client = params.client /\ msg.wish.days = date
            /\ msg.wish.clock = clocks
        BY <1>2, <1>4, <2>2, <2>10 DEF Understood, clocks
      <3>2. ASSUME NEW time \in SaidParams.approx
            PROVE  LET T   == parseCancelApproximateTime(time, local)
                       day == LocalDay(T, local)
                   IN  /\ msg.wish.days = {day}
                       /\ \E clock : msg.wish.clock = {clock}
                                       /\ DayStart(day, local) + clock = T
        <4>1. PICK d \in date, c \in clocks : time = UTC(d * DayLength + c - local)
          BY <2>7
        <4>2. date = {d} /\ clocks = {c}
          BY <2>2, <2>3
        <4>3. /\ parseCancelApproximateTime(time, local) = time.at
              /\ LocalDay(time.at, local) = d /\ DayStart(d, local) + c = time.at
          BY <2>8, <4>1 DEF parseCancelApproximateTime
        <4>4. QED
          BY <3>1, <4>2, <4>3
      <3>3. ASSUME SaidParams.approx = {}, NEW range \in SaidParams.range
            PROVE  msg.wish.days = range[1]..range[2] /\ msg.wish.clock = {}
        <4>1. PICK d \in date : range = <<d, d>>
          BY <2>7, <3>3
        <4>2. clocks = {}
          BY <2>7, <3>3, <4>1
        <4>3. d \in Int /\ date = {d} /\ range[1] = d /\ range[2] = d /\ d..d = {d}
          BY <2>2, <4>1
        <4>4. QED
          BY <3>1, <4>2, <4>3
      <3>4. ASSUME ~hasCancelDateContext(SaidParams)
            PROVE  msg.wish.days = {} /\ msg.wish.clock = {}
        <4>1. SaidParams.range = {}
          BY <3>4 DEF hasCancelDateContext
        <4>2. date = {}
          BY <2>7, <4>1
        <4>3. QED
          BY <2>4, <3>1, <4>2
      <3>5. QED
        BY <2>7, <3>1, <3>2, <3>3, <3>4 DEF Meant
    <2>11. QED
      BY <2>7, <2>9, <2>10
  <1>5. QED
    BY <1>3, <1>4

\* The bookings asked for that match are those that the message describes,
\* save those beyond the first 31 of its days.
LEMMA MatchIsMeant ==
    ASSUME NEW params, IsParams(params), Meant(params), params.booking = {},
           NEW local, local = OffsetOf[Actor], local \in Int,
           NEW interval \in buildCancelFilter(params, Now, local),
           NEW b \in Bookings
    PROVE  /\ Within(interval, b.at) /\ IsMatch(b, params, local) => Described(b)
           /\ Described(b) =>
                /\ IsMatch(b, params, local)
                /\ \/ Within(interval, b.at)
                   \/ \E day \in msg.wish.days :
                        b.at > DayStart(day, local) + maxCancelSearchRange
  <1> DEFINE wish == msg.wish
             day  == LocalDay(b.at, local)
             named == wish.client \subseteq b.names
  <1>1. b.at \in Int /\ day \in Int /\ Now \in Int /\ wish.client = params.client
    <2>1. b.at \in Int /\ Now \in Int
      BY DataAssumption
    <2>2. day \in Int
      BY <2>1, DayBounds
    <2>3. QED
      BY <2>1, <2>2 DEF Meant
  <1>2. Described(b) <=>
          /\ named
          /\ wish.days = {} => Within(<<Now, Now + maxCancelSearchRange>>, b.at)
          /\ wish.days # {} => day \in wish.days
          /\ \A clock \in wish.clock :
                b.at - (DayStart(day, local) + clock) \in -6 * Hour .. 6 * Hour
    BY DEF Described
  <1>3. IsMatch(b, params, local) <=>
          /\ named
          /\ \A time \in params.approx :
                cancelTimeMatches(b.at, parseCancelApproximateTime(time, local))
    BY <1>1 DEF IsMatch
  <1> HIDE DEF named, day
  <1>4. CASE params.approx # {}
    <2>1. PICK time \in params.approx :
            interval = dayBoundsInLocation(parseCancelApproximateTime(time, local), local)
      BY <1>4 DEF buildCancelFilter
    <2>2. params.approx = {time} /\ time.at \in Int
      BY <2>1 DEF IsParams
    <2> DEFINE T == parseCancelApproximateTime(time, local)
               D == LocalDay(T, local)
    <2>3. T \in Int
      BY <2>2 DEF parseCancelApproximateTime
    <2>4. PICK clock : /\ wish.days = {D} /\ wish.clock = {clock}
                       /\ DayStart(D, local) + clock = T
      BY <2>1 DEF Meant
    <2>5. D \in Int /\ interval = <<DayStart(D, local), DayEnd(D, local)>>
      BY <2>1, <2>3, DayBounds DEF dayBoundsInLocation
    <2>6. Within(interval, b.at) <=> day = D
      <3>1. Within(interval, b.at) <=> D <= day /\ day <= D
        BY <1>1, <2>5, DayBounds DEF day
      <3>2. QED
        BY <1>1, <2>5, <3>1
    <2> HIDE DEF T, D
    <2>7. IsMatch(b, params, local) <=> named /\ b.at - T \in -6 * Hour .. 6 * Hour
      BY <1>3, <2>2 DEF cancelTimeMatches, T
    <2>8. Described(b) <=>
            named /\ day = D /\ b.at - (DayStart(day, local) + clock) \in -6 * Hour .. 6 * Hour
      BY <1>2, <2>4
    <2>9. QED
      BY <2>4, <2>6, <2>7, <2>8
  <1>5. CASE params.approx = {} /\ params.range # {}
    <2>1. PICK range \in params.range :
            \E asked \in parseCancelDateRangeInLocation(range, local) :
               interval = clampCancelFilterRange(asked)
      BY <1>5 DEF buildCancelFilter
    <2>2. range \in Int \X Int /\ range[1] \in Int /\ range[2] \in Int
      BY <2>1 DEF IsParams
    <2>3. range[1] <= range[2]
      BY <2>1, <2>2 DEF parseCancelDateRangeInLocation
    <2> DEFINE first == DayStart(range[1], local)
               last  == DayEnd(range[2], local)
    <2>4. interval = <<first, Minimum(last, first + maxCancelSearchRange)>>
      BY <2>1, <2>3 DEF parseCancelDateRangeInLocation, clampCancelFilterRange
    <2>5. first \in Int /\ last \in Int /\ maxCancelSearchRange \in Int
      BY <2>2 DEF DayStart, DayEnd, DayLength, Hour, maxCancelSearchRange
    <2>6. wish.days = range[1]..range[2] /\ wish.clock = {}
      BY <1>5, <2>3 DEF Meant
    <2>7. Within(<<first, last>>, b.at) <=> range[1] <= day /\ day <= range[2]
      BY <1>1, <2>2, DayBounds DEF day
    <2> HIDE DEF first, last
    <2>8. Within(interval, b.at) <=>
            Within(<<first, last>>, b.at) /\ b.at <= first + maxCancelSearchRange
      BY <1>1, <2>4, <2>5 DEF Within, Minimum
    <2>9. day \in wish.days <=> range[1] <= day /\ day <= range[2]
      BY <1>1, <2>2, <2>6
    <2>10. range[1] \in wish.days
      BY <2>2, <2>3, <2>6
    <2>11. Described(b) <=> named /\ day \in wish.days
      BY <1>2, <2>6, <2>10
    <2>12. IsMatch(b, params, local) <=> named
      BY <1>3, <1>5
    <2>13. b.at <= first + maxCancelSearchRange \/ b.at > first + maxCancelSearchRange
      BY <1>1, <2>5
    <2>14. QED
      BY <2>7, <2>8, <2>9, <2>10, <2>11, <2>12, <2>13 DEF first
  <1>6. CASE params.approx = {} /\ params.range = {}
    <2>1. interval = <<Now, Now + maxCancelSearchRange>>
      BY <1>6 DEF buildCancelFilter
    <2>2. wish.days = {} /\ wish.clock = {}
      BY <1>6 DEF Meant, hasCancelDateContext
    <2>3. QED
      BY <1>2, <1>3, <1>6, <2>1, <2>2
  <1>7. QED
    BY <1>4, <1>5, <1>6

\* The search for a booking to cancel is made with what was said; a 404, which
\* passes for an empty list, comes from the API only.
CancelSaid ==
    pc \in {"zone", "bookings"} /\ plan.intent = "cancel" =>
      msg.looks = "ordinary" /\ plan.params = SaidParams

ZoneListed ==
    pc = "zone" =>
      /\ search.provider = Actor
      /\ HasAnswer => call.body.items = {OffsetOf[Actor]}

CancelAsked ==
    pc = "bookings" /\ plan.intent = "cancel" =>
      search.interval \in buildCancelFilter(plan.params, Now, OffsetOf[Actor])

OnlyRefusals == call.status = "not_found" => "not_found" \in Refusals

Cancels == OnlyRefusals /\ CancelSaid /\ ZoneListed /\ CancelAsked

CInv == Cancels /\ OfferedFits /\ ClaimsAreTrue

\* The bookings found that match, in the order of their time; of one that is
\* named, the first.
LEMMA MatchesInOrder ==
    ASSUME NEW found \in Seq(Bookings), NEW params, NEW local,
           NEW matches \in CancelMatches(params, found, local)
    PROVE  /\ matches \in Seq(Bookings)
           /\ \A b \in Items(matches) : b \in Items(found) /\ IsMatch(b, params, local)
           /\ params.booking = {} =>
                /\ \A b \in Items(found) : IsMatch(b, params, local) => b \in Items(matches)
                /\ \A i, j \in DOMAIN matches : i < j => ~(matches[j].at < matches[i].at)
  <1> DEFINE matching == {b \in Items(found) : IsMatch(b, params, local)}
             places   == {i \in DOMAIN found : IsMatch(found[i], params, local)}
             sorts    == ChronologiesOf(found, places)
  <1>1. matches \in IF params.booking = {} THEN sorts
                    ELSE {FirstOf(1, sorted) : sorted \in sorts}
    BY DEF CancelMatches
  <1>2. places \in SUBSET DOMAIN found /\ {found[k] : k \in places} = matching
    BY DEF Items
  <1> HIDE DEF places
  <1>3. ASSUME NEW sorted \in sorts
        PROVE  /\ sorted \in Seq(Bookings) /\ Items(sorted) = matching
               /\ \A i, j \in DOMAIN sorted : i < j => ~(sorted[j].at < sorted[i].at)
    <2>1. sorted \in Seq(Bookings)
      BY <1>2, ChronologiesSortPlaces
    <2>2. Items(sorted) = {found[k] : k \in places}
      BY <1>2, ChronologiesSortPlaces
    <2>3. \A i, j \in DOMAIN sorted : i < j => ~(sorted[j].at < sorted[i].at)
      BY <1>2, ChronologiesSortPlaces
    <2>4. QED
      BY <1>2, <2>1, <2>2, <2>3
  <1> HIDE DEF matching, sorts
  <1>4. ASSUME NEW sorted \in sorts, matches = FirstOf(1, sorted)
        PROVE  matches \in Seq(Bookings) /\ Items(matches) \subseteq matching
    <2>1. sorted \in Seq(Bookings) /\ Items(sorted) = matching
      BY <1>3
    <2>2. /\ \A i \in 1..Minimum(1, Len(sorted)) :
               i \in DOMAIN sorted /\ matches[i] = sorted[i]
          /\ DOMAIN matches = 1..Minimum(1, Len(sorted))
      BY <1>4, <2>1, FirstOfKeeps
    <2>3. matches \in Seq(Bookings)
      BY <1>4, <2>1 DEF FirstOf, Minimum
    <2>4. Items(matches) \subseteq Items(sorted)
      BY <2>2 DEF Items
    <2>5. QED
      BY <2>1, <2>3, <2>4
  <1>5. QED
    BY <1>1, <1>3, <1>4 DEF matching

\* What is found when the last page has been read.
LEMMA CancelFinds ==
    ASSUME IInv, SInv, Cancels, pc = "bookings", plan.intent = "cancel", HasAnswer,
           LastPage(call.body.next),
           NEW listed \in Listings(call.body.items),
           NEW found, found = search.found \o listed,
           NEW matches \in CancelMatches(plan.params, found, OffsetOf[Actor]),
           PlainlyAsked
    PROVE  /\ matches \in Seq(Bookings)
           /\ \A b \in Items(matches) : b \in seen /\ Fits(b)
           /\ plan.params.booking = {} =>
                /\ \A i, j \in DOMAIN matches : i < j => ~(matches[j].at < matches[i].at)
                /\ \A b \in kept \cap Bookings : Fits(b) =>
                     \/ b \in Items(matches)
                     \/ \E day \in msg.wish.days :
                          b.at > DayStart(day, OffsetOf[Actor]) + maxCancelSearchRange
  <1> DEFINE params   == plan.params
             local    == OffsetOf[Actor]
             interval == search.interval
  <1>1. /\ msg.looks = "ordinary" /\ params = SaidParams
        /\ interval \in buildCancelFilter(params, Now, local)
    BY DEF Cancels, CancelSaid, CancelAsked
  <1>2. msg \in Messages /\ local \in Int
    BY TheActor, UsersAssumption DEF IInv, ActorOK, Resolved
  <1>3. /\ IsParams(params) /\ params.booking = msg.reply.params.booking
        /\ params.booking = {} => Meant(params)
    BY <1>1, <1>2, WishIsMeant
  <1>4. Upcoming
    BY DEF Upcoming, StatusAsked
  <1>5. /\ found \in Seq(Bookings)
        /\ Items(found) = Items(search.found) \cup call.body.items
        /\ \A b \in Items(found) : Wanted(b) /\ b \in seen
    BY <1>4, PageContinues
  <1>6. \A b \in kept : Wanted(b) => b \in Items(found)
    BY <1>4, <1>5, LastPageCompletes
  <1>7. /\ matches \in Seq(Bookings)
        /\ \A b \in Items(matches) : b \in Items(found) /\ IsMatch(b, params, local)
    BY <1>5, MatchesInOrder
  <1>8. params.booking = {} =>
          /\ \A b \in Items(found) : IsMatch(b, params, local) => b \in Items(matches)
          /\ \A i, j \in DOMAIN matches : i < j => ~(matches[j].at < matches[i].at)
    <2>1. found \in Seq(Bookings) /\ matches \in CancelMatches(params, found, local)
      BY <1>5
    <2> HIDE DEF params, local
    <2>2. QED
      BY <2>1, MatchesInOrder
  <1> HIDE DEF params, local, interval
  <1>9. /\ \A b : Fits(b) <=> b.provider = Actor /\ b.at >= Now /\ Described(b)
        /\ \A b \in Bookings : InDirection(b.at) <=> b.at >= Now
    BY DataAssumption DEF Fits, InDirection, StatusAsked
  <1>10. CASE params.booking = {}
    <2>1. Meant(params)
      BY <1>3, <1>10
    <2>2. ASSUME NEW b \in Bookings
          PROVE  /\ Within(interval, b.at) /\ IsMatch(b, params, local) => Described(b)
                 /\ Described(b) =>
                      /\ IsMatch(b, params, local)
                      /\ \/ Within(interval, b.at)
                         \/ \E day \in msg.wish.days :
                              b.at > DayStart(day, local) + maxCancelSearchRange
      BY <1>1, <1>2, <1>3, <1>10, <2>1, MatchIsMeant DEF local
    <2>3. ASSUME NEW b \in Items(matches)
          PROVE  b \in seen /\ Fits(b)
      <3>1. IsMatch(b, params, local) /\ Wanted(b) /\ b \in seen
        BY <1>5, <1>7
      <3>2. /\ b \in Bookings /\ b.provider = Actor /\ b.at >= Now
            /\ Within(interval, b.at)
        BY <1>9, <3>1 DEF Wanted, interval
      <3>3. QED
        BY <1>9, <2>2, <3>1, <3>2
    <2>4. ASSUME NEW b \in kept \cap Bookings, Fits(b),
                 ~ \E day \in msg.wish.days :
                      b.at > DayStart(day, local) + maxCancelSearchRange
          PROVE  b \in Items(matches)
      <3>1. b.provider = Actor /\ InDirection(b.at) /\ Described(b)
        BY <1>9, <2>4
      <3>2. IsMatch(b, params, local) /\ Within(interval, b.at)
        BY <2>2, <2>4, <3>1
      <3>3. b \in Items(found)
        BY <1>6, <3>1, <3>2 DEF Wanted, interval
      <3>4. QED
        BY <1>8, <1>10, <3>2, <3>3
    <2>5. QED
      BY <1>7, <1>8, <1>10, <2>3, <2>4 DEF local
  <1>11. CASE params.booking # {}
    <2>1. ASSUME NEW b \in Items(matches)
          PROVE  b \in seen /\ Fits(b)
      <3>1. IsMatch(b, params, local) /\ Wanted(b) /\ b \in seen
        BY <1>5, <1>7
      <3>2. b \in Bookings /\ b.provider = Actor /\ b.at >= Now
        BY <1>9, <3>1 DEF Wanted
      <3>3. b.id \in msg.reply.params.booking
        BY <1>3, <1>11, <3>1 DEF IsMatch
      <3>4. \A c \in Bookings : c.id \in msg.reply.params.booking => Described(c)
        BY <1>3, <1>11 DEF PlainlyAsked, Understood
      <3>5. QED
        BY <1>9, <3>1, <3>2, <3>3, <3>4
    <2>2. QED
      BY <1>7, <1>11, <2>1 DEF params
  <1>12. QED
    BY <1>10, <1>11

\* Three of the bookings that match are offered, the next ones.
LEMMA NextAreOffered ==
    ASSUME NEW matches \in Seq(Bookings), NEW said,
           \/ Len(matches) = 0 /\ said = <<>>
           \/ Len(matches) = 1 /\ said = matches
           \/ said = FirstOf(MaxCandidates, matches)
    PROVE  /\ \A b \in Items(said) : b \in Items(matches)
           /\ (\A i, j \in DOMAIN matches : i < j => ~(matches[j].at < matches[i].at)) =>
                \A b \in Items(matches) :
                  \/ b \in Items(said)
                  \/ Len(said) = MaxCandidates /\ b.at >= said[MaxCandidates].at
  <1>1. DOMAIN matches = 1..Len(matches) /\ Len(matches) \in Nat
    BY DEF MaxCandidates
  <1>2. CASE Len(matches) = 0 /\ said = <<>>
    <2>1. Items(matches) = {} /\ Items(said) = {}
      BY <1>1, <1>2 DEF Items
    <2>2. QED
      BY <2>1
  <1>3. CASE Len(matches) = 1 /\ said = matches
    BY <1>3
  <1>4. CASE said = FirstOf(MaxCandidates, matches)
    <2> DEFINE n == Minimum(MaxCandidates, Len(matches))
    <2>1. MaxCandidates \in Nat /\ MaxCandidates = 3
      BY DEF MaxCandidates
    <2>2. /\ Len(said) = n /\ DOMAIN said = 1..n
          /\ \A i \in 1..n : i \in DOMAIN matches /\ said[i] = matches[i]
      BY <1>4, <2>1, FirstOfKeeps
    <2>3. n \in Nat /\ (\A i \in DOMAIN matches : i \in 1..n \/ (n = 3 /\ 3 < i))
      <3> DEFINE k == Len(matches)
      <3>1. n = IF 3 < k THEN 3 ELSE k
        BY <2>1 DEF Minimum
      <3>2. k \in Nat /\ DOMAIN matches = 1..k
        BY <1>1
      <3> HIDE DEF n, k
      <3>3. QED
        BY <3>1, <3>2
    <2> HIDE DEF n
    <2>4. \A b \in Items(said) : b \in Items(matches)
      BY <2>2 DEF Items
    <2>5. ASSUME \A i, j \in DOMAIN matches : i < j => ~(matches[j].at < matches[i].at),
                 NEW b \in Items(matches)
          PROVE  \/ b \in Items(said)
                 \/ Len(said) = MaxCandidates /\ b.at >= said[MaxCandidates].at
      <3>1. PICK i \in DOMAIN matches : b = matches[i]
        BY DEF Items
      <3>2. CASE i \in 1..n
        BY <2>2, <3>1, <3>2 DEF Items
      <3>3. CASE n = 3 /\ 3 < i
        <4>1. 3 \in DOMAIN matches /\ said[3] = matches[3]
          BY <2>2, <3>3
        <4>2. ~(matches[i].at < matches[3].at)
          BY <2>5, <3>1, <3>3, <4>1
        <4>3. matches[i].at \in Int /\ matches[3].at \in Int
          BY <3>1, <4>1, DataAssumption
        <4>4. b.at >= said[3].at
          BY <3>1, <4>1, <4>2, <4>3
        <4>5. QED
          BY <2>1, <2>2, <3>3, <4>4
      <3>4. QED
        BY <2>3, <3>1, <3>2, <3>3
    <2>6. QED
      BY <2>4, <2>5
  <1>5. QED
    BY <1>2, <1>3, <1>4

\* What a message wishes does not change while it is handled.
LEMMA WishStays ==
    ASSUME UNCHANGED msg
    PROVE  /\ Actor' = Actor /\ PlainlyAsked' = PlainlyAsked
           /\ \A b : Fits(b)' = Fits(b)
  BY DEF Actor, PlainlyAsked, Understood, Fits, Described

LEMMA MatchesAreClaimed ==
    ASSUME IInv, SInv, Cancels, pc = "bookings", plan.intent = "cancel", HasAnswer,
           LastPage(call.body.next), UNCHANGED <<msg, plan, kept, seen>>,
           NEW listed \in Listings(call.body.items),
           NEW found, found = search.found \o listed,
           NEW matches \in CancelMatches(plan.params, found, OffsetOf[Actor]),
           SayMatches(matches)
    PROVE  OfferedFits' /\ ClaimsAreTrue'
  <1>1. /\ Actor' = Actor /\ PlainlyAsked' = PlainlyAsked
        /\ \A b : Fits(b)' = Fits(b)
    BY WishStays
  <1>2. CASE ~PlainlyAsked
    BY <1>1, <1>2 DEF OfferedFits, ClaimsAreTrue
  <1>3. CASE PlainlyAsked
    <2>1. /\ matches \in Seq(Bookings)
          /\ \A b \in Items(matches) : b \in seen /\ Fits(b)
          /\ plan.params.booking = {} =>
               /\ \A i, j \in DOMAIN matches : i < j => ~(matches[j].at < matches[i].at)
               /\ \A b \in kept \cap Bookings : Fits(b) =>
                    \/ b \in Items(matches)
                    \/ \E day \in msg.wish.days :
                         b.at > DayStart(day, OffsetOf[Actor]) + maxCancelSearchRange
      BY <1>3, CancelFinds
    <2> DEFINE said == answer'.items
    <2>2. \/ Len(matches) = 0 /\ said = <<>>
          \/ Len(matches) = 1 /\ said = matches
          \/ said = FirstOf(MaxCandidates, matches)
      BY DEF SayMatches, Say
    <2> HIDE DEF said
    <2>3. /\ \A b \in Items(said) : b \in Items(matches)
          /\ (\A i, j \in DOMAIN matches : i < j => ~(matches[j].at < matches[i].at)) =>
               \A b \in Items(matches) :
                 \/ b \in Items(said)
                 \/ Len(said) = MaxCandidates /\ b.at >= said[MaxCandidates].at
      BY <2>1, <2>2, NextAreOffered
    <2>4. OfferedFits'
      BY <1>1, <2>1, <2>3 DEF OfferedFits, said
    <2>5. ClaimsAreTrue'
      BY <1>1, <2>1, <2>3 DEF ClaimsAreTrue, said
    <2>6. QED
      BY <2>4, <2>5
  <1>4. QED
    BY <1>2, <1>3

-----------------------------------------------------------------------------
(***************************************************************************)
(* The steps, as far as cancellations are concerned.                       *)
(***************************************************************************)

\* No search for bookings runs, and nothing is said.
LEMMA RestCInv ==
    ASSUME pc' \notin {"zone", "bookings", "reply"}, OnlyRefusals'
    PROVE  CInv'
  BY DEF CInv, Cancels, CancelSaid, ZoneListed, CancelAsked, OfferedFits, ClaimsAreTrue

LEMMA SayCInv ==
    ASSUME NEW kind, kind \notin {"selected", "candidates"},
           kind = "not_found" => plan'.intent # "cancel" \/ "not_found" \in Refusals,
           NEW items, Say(kind, items)
    PROVE  CInv'
  <1>1. pc' = "reply" /\ answer'.kind = kind /\ call' = NoCall
    BY DEF Say, EndCall
  <1>2. OnlyRefusals'
    BY <1>1 DEF OnlyRefusals, NoCall
  <1>3. QED
    BY <1>1, <1>2 DEF CInv, Cancels, CancelSaid, ZoneListed, CancelAsked, OfferedFits,
       ClaimsAreTrue

LEMMA ErrorCInv ==
    ASSUME NEW status \in Statuses \cup Verdicts, SayError(status),
           status = "not_found" => "not_found" \in Refusals
    PROVE  CInv'
  <1>1. /\ errorKind(status) \notin {"selected", "candidates"}
        /\ errorKind(status) = "not_found" => status = "not_found"
    BY DEF errorKind, Statuses, Verdicts
  <1>2. QED
    BY <1>1, SayCInv DEF SayError

\* A read begins, without an answer.
LEMMA GoStarts ==
    ASSUME NEW to, Go(to)
    PROVE  pc' = to /\ OnlyRefusals' /\ ~HasAnswer'
  <1>1. pc' = to
        /\ call' = [stage |-> "send", sends |-> 0, status |-> "ok", body |-> NoBody]
    BY DEF Go, StartCall, NoCall
  <1>2. QED
    BY <1>1 DEF OnlyRefusals, HasAnswer

LEMMA GoCInv ==
    ASSUME NEW to \in Reads \ {"zone", "bookings"}, Go(to)
    PROVE  CInv'
  BY GoStarts, RestCInv DEF Reads

LEMMA LaterCInv ==
    ASSUME CInv, UNCHANGED <<pc, msg, plan, search, answer, call>>,
           kept' \subseteq kept, seen \subseteq seen'
    PROVE  CInv'
  <1>1. /\ Actor' = Actor /\ PlainlyAsked' = PlainlyAsked
        /\ \A b : Fits(b)' = Fits(b)
    BY WishStays
  <1>2. SaidParams' = SaidParams /\ HasAnswer' = HasAnswer /\ OnlyRefusals' = OnlyRefusals
    BY <1>1 DEF SaidParams, HasAnswer, OnlyRefusals
  <1>3. Cancels'
    BY <1>1, <1>2 DEF CInv, Cancels, CancelSaid, ZoneListed, CancelAsked
  <1>4. OfferedFits' /\ ClaimsAreTrue'
    BY <1>1 DEF CInv, OfferedFits, ClaimsAreTrue
  <1>5. QED
    BY <1>3, <1>4 DEF CInv

\* Of itself the client reports no 404.
LEMMA CallStepStatus ==
    ASSUME CallShape, CallStep, OnlyRefusals
    PROVE  OnlyRefusals'
  <1>1. DOMAIN call = {"stage", "sends", "status", "body"}
    BY DEF CallShape, CallTypeOK, NoCall
  <1>2. CASE \E body \in Bodies : Answered("ok", body)
    BY <1>1, <1>2 DEF Answered, OnlyRefusals
  <1>3. CASE \E status \in Refusals : Answered(status, NoBody)
    <2>1. PICK status \in Refusals :
            call' = [call EXCEPT !.stage = "read", !.sends = @ + 1,
                                 !.status = status, !.body = NoBody]
      BY <1>3 DEF Answered
    <2>2. QED
      BY <1>1, <2>1 DEF OnlyRefusals
  <1>4. CASE RetryLater \/ PauseEnds
    BY <1>1, <1>4 DEF RetryLater, PauseEnds, OnlyRefusals
  <1>5. CASE RetryRefused \/ PauseInterrupted \/ ReadWhole \/ ReadCut
               \/ \E status \in {"upstream", "timeout"} : SendFails(status)
    <2>1. PICK status \in {"rate_limit", "upstream", "timeout", call.status} :
            Return(status)
      BY <1>5 DEF RetryRefused, PauseInterrupted, ReadWhole, ReadCut, SendFails
    <2>2. QED
      BY <1>1, <2>1 DEF Return, OnlyRefusals
  <1>6. QED
    BY <1>2, <1>3, <1>4, <1>5 DEF CallStep

LEMMA CallStepCInv ==
    ASSUME IInv, CInv, CallStep
    PROVE  CInv'
  <1>1. pc \in Reads /\ UNCHANGED <<msg, pc, plan, search>> /\ CallShape
    BY DEF CallStep, handler, IInv, CallOK
  <1>2. Actor' = Actor /\ SaidParams' = SaidParams
    BY <1>1 DEF Actor, SaidParams
  <1>3. OnlyRefusals'
    BY <1>1, CallStepStatus DEF CInv, Cancels
  <1>4. CancelSaid' /\ CancelAsked'
    BY <1>1, <1>2 DEF CInv, Cancels, CancelSaid, CancelAsked
  <1>5. ZoneListed'
    <2> SUFFICES ASSUME pc = "zone"
                 PROVE  /\ search.provider = Actor
                        /\ HasAnswer' => call'.body.items = {OffsetOf[Actor]}
      BY <1>1, <1>2 DEF ZoneListed
    <2>1. /\ search.provider = Actor
          /\ HasAnswer => call.body.items = {OffsetOf[Actor]}
      BY DEF CInv, Cancels, ZoneListed
    <2>2. Bodies = {[items |-> {OffsetOf[search.provider]}, next |-> {}]}
      BY DEF Bodies
    <2>3. HasAnswer' => call'.body \in Bodies \/ (HasAnswer /\ call'.body = call.body)
      BY <1>1, CallStepAnswer
    <2>4. QED
      BY <2>1, <2>2, <2>3
  <1>6. OfferedFits' /\ ClaimsAreTrue'
    BY <1>1 DEF Reads, OfferedFits, ClaimsAreTrue
  <1>7. QED
    BY <1>3, <1>4, <1>5, <1>6 DEF CInv, Cancels

\* A plan is acted on; one to cancel is what was said.
LEMMA StartSlotsCInv ==
    ASSUME NEW p, NEW id, StartSlots(p, id)
    PROVE  CInv'
  BY GoCInv DEF StartSlots, Reads

LEMMA resolveServiceByNameCInv ==
    ASSUME NEW p, plan' = p, p.intent # "cancel", NEW services,
           resolveServiceByName(p, services)
    PROVE  CInv'
  <1> DEFINE matches == UNION {ServicesNamed(name, services) :
                                 name \in p.params.serviceName}
  <1>1. \/ Refuse("not_found") \/ Refuse("conflict")
        \/ \E v \in matches : StartSlots(p, v.id)
    BY DEF resolveServiceByName
  <1>2. QED
    BY <1>1, SayCInv, StartSlotsCInv DEF Refuse

LEMMA ActOnCInv ==
    ASSUME IInv, pc \in {"typing", "interpret"}, UNCHANGED msg,
           NEW p, p.intent \in Intents, ActOn(p),
           p.intent = "cancel" => msg.looks = "ordinary" /\ p.params = SaidParams
    PROVE  CInv'
  <1>1. plan' = p
    BY DEF ActOn
  <1>2. Actor' = Actor /\ SaidParams' = SaidParams /\ s.provider = Actor
    BY DEF Actor, SaidParams, IInv, ActorOK, Resolved
  <1>3. \/ Refuse("unknown") \/ Refuse("question")
        \/ p.intent = "list" /\ StartList(p)
        \/ p.intent = "find" /\ StartFind(p)
        \/ p.intent = "create" /\ StartCreate(p)
        \/ p.intent = "cancel" /\ StartCancel(p)
    BY DEF ActOn, Intents
  <1>4. CASE Refuse("unknown") \/ Refuse("question")
    BY <1>4, SayCInv DEF Refuse
  <1>5. CASE p.intent = "list" /\ StartList(p)
    <2>1. pc' = "bookings" /\ OnlyRefusals' /\ plan'.intent = "list"
      BY <1>1, <1>5, GoStarts DEF StartList
    <2>2. QED
      BY <2>1 DEF CInv, Cancels, CancelSaid, ZoneListed, CancelAsked, OfferedFits,
         ClaimsAreTrue
  <1>6. CASE p.intent = "find" /\ StartFind(p)
    BY <1>6, SayCInv, StartSlotsCInv DEF StartFind, Refuse
  <1>7. CASE p.intent = "create" /\ StartCreate(p)
    <2>1. CASE \E service \in p.params.service : StartSlots(p, service)
      BY <2>1, StartSlotsCInv
    <2>2. CASE Refuse("validation")
      BY <2>2, SayCInv DEF Refuse
    <2>3. CASE Go("resolve")
      BY <2>3, GoCInv DEF Reads
    <2>4. CASE \E services \in cache[s.provider] : resolveServiceByName(p, services)
      BY <1>1, <1>7, <2>4, resolveServiceByNameCInv
    <2>5. QED
      BY <1>7, <2>1, <2>2, <2>3, <2>4 DEF StartCreate
  <1>8. CASE p.intent = "cancel" /\ StartCancel(p)
    <2>1. search' = [provider |-> s.provider, interval |-> <<0, 0>>, cursor |-> {},
                     found |-> <<>>, service |-> {}]
      BY <1>8 DEF StartCancel, SearchFor, NoSearch
    <2>2. pc' = "zone" /\ OnlyRefusals' /\ ~HasAnswer'
      BY <1>8, GoStarts DEF StartCancel
    <2>3. CancelSaid' /\ ZoneListed' /\ CancelAsked'
      BY <1>1, <1>2, <1>8, <2>1, <2>2 DEF CancelSaid, ZoneListed, CancelAsked
    <2>4. QED
      BY <2>2, <2>3 DEF CInv, Cancels, OfferedFits, ClaimsAreTrue
  <1>9. QED
    BY <1>3, <1>4, <1>5, <1>6, <1>7, <1>8

LEMMA BeforePlanCInv ==
    ASSUME IInv, CInv, MeReturned \/ ServicesReturned \/ ProfileReturned
    PROVE  CInv'
  <1>1. CASE MeReturned
    BY <1>1, SayCInv, GoCInv DEF MeReturned, Reads
  <1>2. CASE ServicesReturned
    BY <1>2, GoCInv DEF ServicesReturned, Reads
  <1>3. CASE ProfileReturned
    <2>1. pc' = "typing" /\ call' = NoCall
      BY <1>3 DEF ProfileReturned, EndCall
    <2>2. QED
      BY <2>1, RestCInv DEF OnlyRefusals, NoCall
  <1>4. QED
    BY <1>1, <1>2, <1>3

LEMMA ReadFailedCInv ==
    ASSUME IInv, CInv, ReadFailed
    PROVE  CInv'
  <1>1. call.status \in Statuses /\ OnlyRefusals
    BY DEF IInv, CallOK, CallShape, CallTypeOK, CInv, Cancels
  <1>2. QED
    BY <1>1, ErrorCInv DEF ReadFailed, OnlyRefusals

LEMMA InterpretCInv ==
    ASSUME IInv, CInv, Interpret
    PROVE  CInv'
  <1>1. pc = "typing" /\ UNCHANGED msg
    BY DEF Interpret, Quiet, QuietButFaults
  <1>2. \/ ActOn(Unknown) \/ ActOn(Agenda)
        \/ pc' = "interpret" /\ UNCHANGED call
    BY <1>1, TheActor DEF Interpret
  <1>3. CASE ActOn(Unknown) \/ ActOn(Agenda)
    <2>1. /\ Unknown.intent \in Intents \ {"cancel"}
          /\ Agenda.intent \in Intents \ {"cancel"}
      BY DEF Unknown, Agenda, Intents
    <2>2. QED
      BY <1>1, <1>3, <2>1, ActOnCInv
  <1>4. CASE pc' = "interpret" /\ UNCHANGED call
    BY <1>4, RestCInv DEF CInv, Cancels, OnlyRefusals
  <1>5. QED
    BY <1>2, <1>3, <1>4

LEMMA InterpretedCInv ==
    ASSUME IInv, CInv, Interpreted
    PROVE  CInv'
  <1>1. pc = "interpret" /\ UNCHANGED msg
    BY DEF Interpreted, Quiet, QuietButFaults
  <1>2. msg.looks = "ordinary" /\ s.provider = Actor
    BY <1>1 DEF IInv, AskedOK, ActorOK, Resolved
  <1>3. CASE ActOn(PlanFromReply)
    <2>1. PlanFromReply.intent \in Intents
      BY <1>1, PlansRead
    <2>2. PlanFromReply.intent = "cancel" => PlanFromReply.params = SaidParams
      BY <1>2 DEF PlanFromReply, Unknown, SaidParams, Offset
    <2>3. QED
      BY <1>1, <1>2, <1>3, <2>1, <2>2, ActOnCInv
  <1>4. CASE SayError(stream.verdict)
    <2>1. stream.verdict \in Verdicts /\ stream.verdict # "not_found"
      BY DEF IInv, StreamOK, StreamShape, StreamTypeOK, Verdicts
    <2>2. QED
      BY <1>4, <2>1, ErrorCInv
  <1>5. QED
    BY <1>3, <1>4 DEF Interpreted

\* The interval is the one for the time zone that the API has given.
LEMMA ZoneReturnedCInv ==
    ASSUME IInv, SInv, CInv, ZoneReturned
    PROVE  CInv'
  <1>1. pc = "zone" /\ HasAnswer /\ UNCHANGED <<msg, plan>>
    BY DEF ZoneReturned, Got, HasAnswer, Quiet, QuietButFaults
  <1>2. plan.intent = "cancel" /\ msg.looks = "ordinary" /\ plan.params = SaidParams
    BY <1>1 DEF SInv, Asked, DaysAsked, CInv, Cancels, CancelSaid
  <1>3. call.body.items = {OffsetOf[Actor]}
    BY <1>1 DEF CInv, Cancels, ZoneListed
  <1>4. Actor' = Actor /\ SaidParams' = SaidParams
    BY <1>1 DEF Actor, SaidParams
  <1> DEFINE filter == buildCancelFilter(plan.params, Now, OffsetOf[Actor])
  <1>5. UNION {buildCancelFilter(plan.params, Now, offset) : offset \in call.body.items}
          = filter
    BY <1>3
  <1>6. \/ Refuse("validation")
        \/ Go("bookings") /\ \E interval \in filter : SearchFor(plan, interval, {})
    BY <1>5 DEF ZoneReturned
  <1>7. CASE Refuse("validation")
    BY <1>7, SayCInv DEF Refuse
  <1>8. CASE Go("bookings") /\ \E interval \in filter : SearchFor(plan, interval, {})
    <2>1. pc' = "bookings" /\ OnlyRefusals'
      BY <1>8, GoStarts
    <2>2. search'.interval \in filter
      BY <1>8, SearchForFields
    <2>3. CancelSaid' /\ ZoneListed' /\ CancelAsked'
      BY <1>1, <1>2, <1>4, <2>1, <2>2 DEF CancelSaid, ZoneListed, CancelAsked
    <2>4. QED
      BY <2>1, <2>3 DEF CInv, Cancels, OfferedFits, ClaimsAreTrue
  <1>9. QED
    BY <1>6, <1>7, <1>8

LEMMA BookingsReturnedCInv ==
    ASSUME IInv, SInv, CInv, BookingsReturned
    PROVE  CInv'
  <1> DEFINE next == call.body.next
  <1>1. /\ pc = "bookings" /\ HasAnswer
        /\ UNCHANGED <<msg, plan, kept, seen>> /\ s.provider = Actor
    BY DEF BookingsReturned, Got, HasAnswer, Quiet, QuietButFaults, history, IInv,
       ActorOK, Resolved
  <1>2. PICK listed \in Listings(call.body.items) :
          LET found == search.found \o listed
          IN  /\ search' = [search EXCEPT !.found = found, !.cursor = next]
              /\ IF LastPage(next) THEN SayBookings(found) ELSE Go("bookings")
    BY DEF BookingsReturned
  <1>3. PICK found : found = search.found \o listed
    OBVIOUS
  <1>4. /\ search' = [search EXCEPT !.found = found, !.cursor = next]
        /\ IF LastPage(next) THEN SayBookings(found) ELSE Go("bookings")
    BY <1>2, <1>3
  <1>5. CASE ~LastPage(next)
    <2>1. pc' = "bookings" /\ OnlyRefusals'
      BY <1>4, <1>5, GoStarts
    <2>2. search'.interval = search.interval
      <3>1. search = [provider |-> search.provider, interval |-> search.interval,
                      cursor |-> search.cursor, found |-> search.found,
                      service |-> search.service]
        BY DEF IInv, HandlerTypes, IsSearch
      <3>2. QED
        BY <1>4, <3>1
    <2>3. Actor' = Actor /\ SaidParams' = SaidParams
      BY <1>1 DEF Actor, SaidParams
    <2>4. CancelSaid' /\ ZoneListed' /\ CancelAsked'
      BY <1>1, <2>1, <2>2, <2>3
      DEF CInv, Cancels, CancelSaid, ZoneListed, CancelAsked
    <2>5. QED
      BY <2>1, <2>4 DEF CInv, Cancels, OfferedFits, ClaimsAreTrue
  <1>6. CASE LastPage(next)
    <2>1. CASE \E sorted : Say("list", sorted)
      BY <2>1, SayCInv
    <2>2. CASE /\ plan.intent = "cancel"
               /\ \E matches \in CancelMatches(plan.params, found, Offset) :
                     SayMatches(matches)
      <3>1. PICK matches \in CancelMatches(plan.params, found, OffsetOf[Actor]) :
              SayMatches(matches)
        BY <1>1, <2>2 DEF Offset
      <3>2. OfferedFits' /\ ClaimsAreTrue'
        BY <1>1, <1>3, <1>6, <2>2, <3>1, MatchesAreClaimed DEF CInv
      <3>3. pc' = "reply" /\ call' = NoCall
        BY <3>1 DEF SayMatches, Say, EndCall
      <3>4. QED
        BY <3>2, <3>3
        DEF CInv, Cancels, CancelSaid, ZoneListed, CancelAsked, OnlyRefusals, NoCall
    <2>3. QED
      BY <1>4, <1>6, <2>1, <2>2 DEF SayBookings
  <1>7. QED
    BY <1>5, <1>6

LEMMA ServicesListedCInv ==
    ASSUME SInv, ServicesListed
    PROVE  CInv'
  <1>1. /\ pc = "resolve" /\ plan' = plan
        /\ resolveServiceByName(plan, call.body.items)
    BY DEF ServicesListed, Got
  <1>2. plan.intent = "create"
    BY <1>1 DEF SInv, Lists, OwnServices
  <1>3. QED
    BY <1>1, <1>2, resolveServiceByNameCInv

LEMMA SlotsReturnedCInv ==
    ASSUME SInv, SlotsReturned
    PROVE  CInv'
  <1>1. pc = "slots" /\ plan' = plan
    BY DEF SlotsReturned, Got
  <1>2. plan'.intent # "cancel"
    BY <1>1 DEF SInv, Asked, SlotsAsked
  <1>3. \/ Say("not_found", <<>>) \/ \E next : Say("slots", next)
    BY DEF SlotsReturned
  <1>4. QED
    BY <1>2, <1>3, SayCInv

LEMMA HandleCInv ==
    ASSUME IInv, SInv, CInv, Handle
    PROVE  CInv'
  <1>1. CASE Reply \/ GiveUp
    <2>1. pc' = "idle" /\ UNCHANGED call
      BY <1>1 DEF Reply, GiveUp, Finish
    <2>2. QED
      BY <2>1, RestCInv DEF CInv, Cancels, OnlyRefusals
  <1>2. QED
    BY <1>1, BeforePlanCInv, ReadFailedCInv, InterpretCInv, InterpretedCInv,
       ZoneReturnedCInv, BookingsReturnedCInv, ServicesListedCInv, SlotsReturnedCInv
    DEF Handle

LEMMA ReceiveCInv ==
    ASSUME CInv, NEW m \in Messages, Receive(m)
    PROVE  CInv'
  <1>1. Go("me") \/ (pc' = "typing" /\ UNCHANGED call)
    BY DEF Receive
  <1>2. QED
    BY <1>1, GoCInv, RestCInv DEF Reads, CInv, Cancels, OnlyRefusals

LEMMA ChangeCInv ==
    ASSUME CInv, NEW x \in Changing, Change(x)
    PROVE  CInv'
  <1>1. UNCHANGED <<pc, msg, plan, search, answer, call>>
    BY DEF Change, handler
  <1>2. kept' \subseteq kept /\ seen \subseteq seen'
    BY DEF Change, history
  <1>3. QED
    BY <1>1, <1>2, LaterCInv

LEMMA ApartCInv ==
    ASSUME CInv, Deadline \/ StreamStep \/ UNCHANGED vars
    PROVE  CInv'
  <1>1. UNCHANGED <<pc, msg, plan, search, answer, call, kept, seen>>
    BY DEF Deadline, StreamStep, vars, handler, history
  <1>2. QED
    BY <1>1, LaterCInv

LEMMA InitCInv == Init => CInv
  BY DEF Init, CInv, Cancels, CancelSaid, ZoneListed, CancelAsked, OnlyRefusals, OfferedFits,
     ClaimsAreTrue, CallInit, NoCall

LEMMA CInvAlways == Spec => []CInv
<1>1. IInv /\ SInv /\ CInv /\ [Next]_vars => CInv'
  BY ReceiveCInv, ChangeCInv, CallStepCInv, ApartCInv, HandleCInv DEF Next, Work
<1>2. QED
  BY <1>1, InitCInv, IInvAlways, SInvAlways, PTL DEF Spec

\* If the model understood the message, or its words are plain, every booking
\* offered for cancellation is one that it describes, of the user's own, that
\* lies ahead and was confirmed while the bot searched (buildCancelFilter, cancelTimeMatches,
\* enrichCancelParamsFromMessage).
THEOREM OffersFit == Spec => []OfferedFits
<1>1. CInv => OfferedFits
  BY DEF CInv
<1>2. QED
  BY <1>1, CInvAlways, PTL

\* And the bot overlooks none of those that lie ahead (buildCancelFilter asks for
\* no others): no other booking that was there throughout fits
\* when one is selected, none at all when none is found, and when three are
\* offered the others come later (GetBookings, PreviewBookingCancel).
THEOREM ClaimsHold == Spec => []ClaimsAreTrue
<1>1. CInv => ClaimsAreTrue
  BY DEF CInv
<1>2. QED
  BY <1>1, CInvAlways, PTL
=============================================================================
