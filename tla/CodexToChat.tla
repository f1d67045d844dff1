---------------------------- MODULE CodexToChat ----------------------------
(***************************************************************************)
(* The converter of a Codex stream into a Chat Completions stream          *)
(* (CodexToChatState).  Text is recovered as ResponsesToChat does; tool    *)
(* calls are read from output_item.done alone, reasoning from its deltas   *)
(* alone.  Every chunk names the role; the first one's is modelled.        *)
(***************************************************************************)
EXTENDS StreamEvents

VARIABLE talk       \* the converter's state, of which a Codex stream uses a part

T == INSTANCE ResponsesToChat

Reasoning(s, i, n) == T!Push(s, T!ChunkOf("reasoning", i, n))

\* function_call_index counts the calls sent.
ToolCallItem(s, o) ==
    IF Kind(o.item) # "function_call" THEN s
    ELSE [T!PushCall(s, o.item, o.n) EXCEPT
             !.calls = With(@, o.item, [begun |-> TRUE, said |-> TRUE])]

IncompleteReason(reason) ==
    IF reason = "content_filter" THEN "content_filter" ELSE "length"

\* What follows the error, the finish reason included, is sent all the same.
FailStream(s) == T!Log(T!PushDone([s EXCEPT !.out = Append(@, T!Mark("error"))]), "error")

Dispatch(s, e) ==
    CASE e.type = "reasoning" -> Reasoning(s, e.of.item, e.of.n)
      [] e.type = "itemDone" -> ToolCallItem(s, e.of)
      [] e.type = "completed" -> [s EXCEPT !.override = T!FinishReason("none", s)]
      [] e.type = "incomplete" -> [s EXCEPT !.override = IncompleteReason(e.reason)]
      [] e.type = "failed" -> FailStream(s)
      [] OTHER -> s

HandleEvent(s, e) ==
    CASE s.sentDone -> s
      [] ~s.sentDone /\ e.type = "[DONE]" -> T!PushDone(s)
      [] OTHER -> Dispatch(T!MessageText(s, e), e)

----------------------------------------------------------------------------
(* The stream's steps.  Those that deliver, close and drop are             *)
(* ResponsesToChat's.                                                      *)

Receive(e) == T!Reading /\ talk' = HandleEvent(talk, e)

\* The end is logged without an error, whatever the upstream has left unsaid;
\* so is a failed read.
EndOfUpstream ==
    /\ T!Reading
    /\ talk' = T!CloseIfEmpty(T!Log(T!PushDone([talk EXCEPT !.ended = TRUE]), "ok"))

ReadError == T!Reading /\ talk' = T!GoneTalk(T!Log(talk, "ok").log)
=============================================================================
