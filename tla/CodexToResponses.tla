-------------------------- MODULE CodexToResponses --------------------------
(***************************************************************************)
(* What becomes of a Codex stream for a Responses reader                   *)
(* (CodexToResponsesState): its events are passed on as they are, less the *)
(* private ones, and the stream always gets a terminal event and [DONE].   *)
(***************************************************************************)
EXTENDS StreamEvents

VARIABLE codex      \* the converter's state

NewCodex ==
    [out |-> <<>>,
     sentDone |-> FALSE,
     ended |-> FALSE,           \* upstream_ended
     override |-> FALSE,        \* response_error_override is set
     gone |-> FALSE,            \* dropped with its stream
     log |-> "none"]

GoneCodex(log) == [NewCodex EXCEPT !.ended = TRUE, !.gone = TRUE, !.log = log]

Log(s, entry) == [s EXCEPT !.log = IF @ = "none" THEN entry ELSE @]

\* Mutant: an error found earlier is forgotten at the end.
LogUsageOk(s) == Log(s, "ok")

LogUsage(s) == Log(s, IF s.override THEN "error" ELSE "ok")

Terminals == {"completed", "incomplete", "failed"}

\* e is the last event.
PushLast(s, e) == [s EXCEPT !.out = @ \o <<e, DoneMark>>, !.sentDone = TRUE]

\* push_compatible_incomplete_terminal and [DONE]: response.completed with the
\* status "incomplete".
Disconnected == [Terminal("error", <<>>) EXCEPT !.type = "completed"]
PushDisconnected(s) == [PushLast(s, Disconnected) EXCEPT !.override = TRUE]

\* fail_with_response_failed and push_semantic_timeout_if_due.
FailResponse(s) == [PushLast(s, Failed) EXCEPT !.override = TRUE]

\* fail_stream: an error event or what is no event.  It is logged at once.
FailStream(s) == Log(PushLast(s, Failed), "error")

PassOn(s, e) ==
    IF e.type \in Terminals
    THEN [PushLast(s, e) EXCEPT !.override = e.type = "failed"]
    ELSE [s EXCEPT !.out = Append(@, e)]

\* The states e may lead to: a failure is stated by response.failed or by an
\* error event.
HandleEvent(s, e) ==
    CASE e.type = "[DONE]" -> {PushDisconnected(s)}
      [] e.type = "failed" -> {PassOn(s, e), FailStream(s)}
      [] OTHER -> {PassOn(s, e)}

----------------------------------------------------------------------------
(* The stream's steps.                                                     *)

Init == codex = NewCodex

Reading == codex.out = <<>> /\ ~codex.ended /\ ~codex.sentDone

Receive(e) == Reading /\ codex' \in HandleEvent(codex, e)

\* No event came in time: the parser is given a response.failed, which is no
\* event when it follows a piece of one.
SemanticTimeout == Reading /\ codex' \in {FailResponse(codex), FailStream(codex)}
ReadError == Reading /\ codex' = FailResponse(codex)

EndOfUpstream ==
    Reading /\ codex' = LogUsage(PushDisconnected([codex EXCEPT !.ended = TRUE]))

Emit(e) ==
    /\ codex.out # <<>>
    /\ e = Head(codex.out)
    /\ codex' = [codex EXCEPT !.out = Tail(@)]

\* The poll after the last event; that of an ended upstream has logged.
Close ==
    /\ codex.out = <<>> /\ (codex.ended \/ codex.sentDone)
    /\ codex' = GoneCodex((IF codex.ended THEN Log(codex, "dropped") ELSE LogUsage(codex)).log)

Abandon == codex' = GoneCodex(Log(codex, "dropped").log)
=============================================================================
