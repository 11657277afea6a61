------------------------------ MODULE LLMStream ------------------------------
(***************************************************************************)
(* The streamed answer of the language model: the server-sent events as    *)
(* parseOpenRouterSSE reads them.  An event is pending between its data    *)
(* line and the blank line that ends it.  The actions leave the rest of    *)
(* the system to the module that asks for the completion.                  *)
(***************************************************************************)
EXTENDS Naturals

CONSTANT Pieces \* the pieces in which the model writes its reply

ASSUME LLMAssumption == Pieces \in Nat \ {0}

VARIABLES
    stream, \* the client's side of the stream
    model   \* what the model has sent

\* "note" carries no text (a role, the usage), "bad" is an error of the
\* model or no JSON.
Events == {"none", "piece", "note", "bad", "done"}
Verdicts == {"none", "ok", "upstream", "timeout"}

NoStream == [open |-> FALSE, pending |-> "none", pieces |-> 0, done |-> FALSE,
             verdict |-> "none"]
Silent == [sent |-> 0, done |-> FALSE]

StreamTypeOK ==
    /\ stream \in [open : BOOLEAN, pending : Events, pieces : 0..Pieces,
                   done : BOOLEAN, verdict : Verdicts]
    /\ model \in [sent : 0..Pieces, done : BOOLEAN]

StreamInit == stream = NoStream /\ model = Silent

Ask == stream' = [NoStream EXCEPT !.open = TRUE] /\ model' = Silent

StreamReset == stream' = NoStream /\ model' = Silent

Conclude(s, verdict) == [s EXCEPT !.open = FALSE, !.verdict = verdict]

\* Mutant: the lines of an event stay for the next one.
flushAgain(s) ==
    CASE s.pending = "piece" -> [s EXCEPT !.pieces = @ + 1]
      [] s.pending = "done"  -> [s EXCEPT !.pending = "none", !.done = TRUE]
      [] s.pending = "bad"   -> Conclude([s EXCEPT !.pending = "none"], "upstream")
      [] OTHER               -> [s EXCEPT !.pending = "none"]

flushEvent(s) ==
    CASE s.pending = "piece" -> [s EXCEPT !.pending = "none", !.pieces = @ + 1]
      [] s.pending = "done"  -> [s EXCEPT !.pending = "none", !.done = TRUE]
      [] s.pending = "bad"   -> Conclude([s EXCEPT !.pending = "none"], "upstream")
      [] OTHER               -> [s EXCEPT !.pending = "none"]

\* Mutant: a stream may end without [DONE].
CompletedAnyhow(s) ==
    IF ~s.open THEN s
    ELSE Conclude(s, IF s.pieces > 0 THEN "ok" ELSE "upstream")

\* After the last line.
Completed(s) ==
    IF ~s.open THEN s
    ELSE Conclude(s, IF s.done /\ s.pieces > 0 THEN "ok" ELSE "upstream")

\* The data line of an event.
ModelSends(event) ==
    /\ stream.open /\ stream.pending = "none" /\ ~model.done
    /\ event = "piece" => model.sent < Pieces
    /\ stream' = [stream EXCEPT !.pending = event]
    /\ model' = [sent |-> model.sent + (IF event = "piece" THEN 1 ELSE 0),
                 done |-> event = "done"]

\* [DONE] ends the loop, other events do not.
BlankLine ==
    /\ stream.open /\ stream.pending # "none"
    /\ stream' = LET s == flushEvent(stream) IN IF s.done THEN Completed(s) ELSE s
    /\ UNCHANGED model

\* The connection is closed: an event without its blank line counts.
StreamEnds ==
    /\ stream.open
    /\ stream' = Completed(flushEvent(stream))
    /\ UNCHANGED model

\* The request is refused, or a read fails; what is pending is lost.
StreamFails(verdict) ==
    /\ stream.open
    /\ stream' = Conclude(stream, verdict)
    /\ UNCHANGED model

\* The whole reply is there; anything less is not the JSON of a plan.
ReplyIsWhole == stream.pieces = Pieces
==============================================================================
