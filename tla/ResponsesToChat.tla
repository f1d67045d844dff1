-------------------------- MODULE ResponsesToChat --------------------------
(***************************************************************************)
(* The converter of a Responses stream into a Chat Completions stream      *)
(* (ResponsesToChatState).  Nothing is held back: what an event tells and  *)
(* the client has not had is a chunk at once.                              *)
(***************************************************************************)
EXTENDS StreamEvents

VARIABLE talk       \* the converter's state

\* A chunk: the role, n units of an item, or the finish reason.
ChunkOf(type, item, n) == [type |-> type, item |-> item, n |-> n, reason |-> "none"]
Mark(type) == ChunkOf(type, NoItem, 0)

NewTalk ==
    [out |-> <<>>,
     role |-> FALSE,            \* sent_role
     sentDone |-> FALSE,
     ended |-> FALSE,           \* upstream_ended
     gone |-> FALSE,            \* dropped with its stream
     log |-> "none",
     calls |-> <<>>,            \* tool_calls: begun, and were arguments sent?
     override |-> "none",       \* finish_reason_override
     texts |-> <<>>,            \* the recovery's parts: units delivered
     recovered |-> FALSE,       \* the recovery is finished
     thought |-> FALSE,         \* saw_reasoning_delta
     redacted |-> FALSE]        \* sent_redacted_thinking

GoneTalk(log) == [NewTalk EXCEPT !.ended = TRUE, !.gone = TRUE, !.log = log]

Log(s, entry) == [s EXCEPT !.log = IF @ = "none" THEN entry ELSE @]

\* The first chunk of an answer is its role.
Push(s, e) ==
    [s EXCEPT !.role = TRUE,
              !.out = @ \o IF s.role THEN <<e>> ELSE <<Mark("role"), e>>]

----------------------------------------------------------------------------
(* Text: deltas are forwarded, snapshots supply what is missing.           *)

IsMessage(i) == Kind(i) \in {"message", "commentary"}
Known(s, i) == IF i \in DOMAIN s.texts THEN s.texts[i] ELSE 0

EmitText(s, i, n) ==
    [Push(s, ChunkOf("content", i, n)) EXCEPT !.texts = With(@, i, Known(s, i) + n)]
Recover(s, i, n) ==
    IF s.recovered \/ n <= Known(s, i) THEN s ELSE EmitText(s, i, n - Known(s, i))
RecoverItem(s, o) == IF IsMessage(o.item) THEN Recover(s, o.item, o.n) ELSE s

MessageText(s, e) ==
    CASE e.type = "text" ->
            IF s.recovered \/ e.of.n = 0 THEN s ELSE EmitText(s, e.of.item, e.of.n)
      [] e.type = "textDone" -> Recover(s, e.of.item, e.of.n)
      [] e.type = "itemDone" -> RecoverItem(s, e.of)
      [] e.type \in {"completed", "incomplete"} ->
            [FoldOver(RecoverItem, s, e.output) EXCEPT !.recovered = TRUE]
      [] OTHER -> s

----------------------------------------------------------------------------
(* Reasoning, of which snapshots count only if there was no delta at all.  *)

Think(s, i, n) == [Push(s, ChunkOf("reasoning", i, n)) EXCEPT !.thought = TRUE]

Redact(s, o) ==
    IF o.sig = "none" \/ s.redacted THEN s
    ELSE [Push(s, ChunkOf("redacted", o.item, 0)) EXCEPT !.redacted = TRUE]
ReasoningSnapshot(s, o) ==
    Redact(IF s.thought \/ o.n = 0 THEN s ELSE Think(s, o.item, o.n), o)

----------------------------------------------------------------------------
(* Tool calls, of which snapshots count only if no arguments were sent.    *)

EnsureCall(s, i) ==
    IF i \in DOMAIN s.calls THEN s
    ELSE [s EXCEPT !.calls = With(@, i, [begun |-> FALSE, said |-> FALSE])]

PushCall(s, i, n) == Push(s, ChunkOf("tool", i, n))
BeginCall(s, i) ==
    IF s.calls[i].begun THEN s
    ELSE [PushCall(s, i, 0) EXCEPT !.calls[i].begun = TRUE]
CallAdded(s, i) == BeginCall(EnsureCall(s, i), i)

SayCall(s, i, n) ==
    [PushCall(s, i, n) EXCEPT !.calls[i] = [begun |-> TRUE, said |-> TRUE]]
CallDelta(s, i, n) == SayCall(EnsureCall(s, i), i, n)

SnapshotCall(s, i, n) ==
    IF n > 0 /\ ~s.calls[i].said THEN SayCall(s, i, n)
    ELSE [s EXCEPT !.calls[i].begun = TRUE]
CallSnapshot(s, i, n) == SnapshotCall(EnsureCall(s, i), i, n)

----------------------------------------------------------------------------
(* handle_event.                                                           *)

OutputItem(s, o) ==
    CASE Kind(o.item) = "reasoning" -> ReasoningSnapshot(s, o)
      [] Kind(o.item) = "function_call" -> CallSnapshot(s, o.item, o.n)
      [] OTHER -> s

FinishReason(reason, s) ==
    CASE reason \in {"max_output_tokens", "paused"} -> "length"
      [] reason = "content_filter" -> "content_filter"
      [] reason = "none" -> IF s.calls = <<>> THEN "stop" ELSE "tool_calls"
Override(s, reason) == [s EXCEPT !.override = FinishReason(reason, s)]

Dispatch(s, e) ==
    CASE e.type = "reasoning" -> Think(s, e.of.item, e.of.n)
      [] e.type = "args" -> CallDelta(s, e.of.item, e.of.n)
      [] e.type = "argsDone" -> CallSnapshot(s, e.of.item, e.of.n)
      [] e.type = "added" /\ Kind(e.of.item) = "function_call" -> CallAdded(s, e.of.item)
      [] e.type = "itemDone" /\ Kind(e.of.item) = "function_call" ->
            CallSnapshot(s, e.of.item, e.of.n)
      [] e.type \in {"completed", "incomplete"} ->
            Override(FoldOver(OutputItem, s, e.output), e.reason)
      [] OTHER -> s

Finish(s) ==
    [s EXCEPT !.sentDone = TRUE,
              !.out = @ \o <<[Mark("finish") EXCEPT
                                 !.reason = IF s.override # "none" THEN s.override
                                            ELSE FinishReason("none", s)],
                             Mark("[DONE]")>>]
PushDone(s) == IF s.sentDone THEN s ELSE Finish(s)

FailStream(s) ==
    Log([s EXCEPT !.sentDone = TRUE, !.out = Append(@, Mark("error"))], "error")

HandleEvent(s, e) ==
    CASE s.sentDone -> s
      [] ~s.sentDone /\ e.type = "[DONE]" -> PushDone(s)
      [] ~s.sentDone /\ e.type = "failed" -> FailStream(s)
      [] OTHER -> Dispatch(MessageText(s, e), e)

----------------------------------------------------------------------------
(* The stream's steps.  It reads on until upstream ends.                   *)

Init == talk = NewTalk

Reading == talk.out = <<>> /\ ~talk.ended

Receive(e) == Reading /\ talk' = HandleEvent(talk, e)

CloseIfEmpty(s) == IF s.out = <<>> THEN GoneTalk(s.log) ELSE s
EndOfUpstream ==
    /\ Reading
    /\ talk' = CloseIfEmpty(Log(PushDone([talk EXCEPT !.ended = TRUE]), "ok"))

ReadError == Reading /\ talk' = GoneTalk(Log(talk, "ok").log)

Emit(e) ==
    /\ talk.out # <<>>
    /\ e = Head(talk.out)
    /\ talk' = [talk EXCEPT !.out = Tail(@)]

Close ==
    /\ talk.out = <<>> /\ talk.ended
    /\ talk' = GoneTalk(Log(talk, "dropped").log)

Abandon == talk' = GoneTalk(Log(talk, "dropped").log)
=============================================================================
