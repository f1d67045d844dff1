-------------------------- MODULE ChatToResponses --------------------------
(***************************************************************************)
(* The converter of a Chat Completions stream into a Responses stream      *)
(* (ChatToResponsesState): the chunks of one choice become output items    *)
(* that are added, written and finished, and one terminal event.           *)
(*                                                                         *)
(* A chunk carries one part; the code takes the parts of a chunk one after *)
(* another.  out is the queue the reader is served from before upstream is *)
(* read again.                                                             *)
(***************************************************************************)
EXTENDS StreamEvents

CONSTANTS
    Calls,          \* the tool call indexes a chunk may name: 0..k
    FinishReasons   \* the finish reasons the upstream may state

\* Names: "" is no name yet, "shell" the bridge of the client's shell tool.
Names == {"", "tool", "shell"}

VARIABLE chat       \* the converter's state

NoCall == [item |-> NoItem, name |-> "", hasId |-> FALSE, n |-> 0,
           added |-> FALSE]

NewChat ==
    [out |-> <<Created>>,
     nextIndex |-> 0,           \* next_output_index
     reasoning |-> NoSnapshot,  \* the open reasoning item
     completed |-> {},          \* completed_reasonings
     message |-> NoSnapshot,
     calls |-> [k \in Calls |-> NoCall],
     finish |-> "none",         \* the finish_reason stated so far
     sentDone |-> FALSE,
     ended |-> FALSE,           \* upstream_ended
     gone |-> FALSE,            \* dropped with its stream
     log |-> "none"]            \* the log entry: "none", "ok", "error", "dropped"

\* The state is dropped with the stream.
GoneChat(log) ==
    [NewChat EXCEPT !.out = <<>>, !.sentDone = TRUE, !.ended = TRUE,
                    !.gone = TRUE, !.log = log]

Push(c, e) == [c EXCEPT !.out = Append(@, e)]
Log(c, entry) == [c EXCEPT !.log = IF @ = "none" THEN entry ELSE @]

\* The item the next output_index would go to.
NextItem(c, kind, k) == Item(kind, c.nextIndex, k)
Allot(c) == [c EXCEPT !.nextIndex = @ + 1]

----------------------------------------------------------------------------
(* Reasoning.                                                              *)

OpenReasoning(c, i) ==
    [Push(Allot(c), Added(i)) EXCEPT !.reasoning = Snapshot(i, 0, "none")]
EnsureReasoning(c) ==
    IF c.reasoning # NoSnapshot THEN c
    ELSE OpenReasoning(c, NextItem(c, "reasoning", 0))

WriteReasoning(c, n) ==
    [Push(c, ReasoningDelta(c.reasoning.item, n)) EXCEPT !.reasoning.n = @ + n]
ReasoningPart(c, n) == WriteReasoning(EnsureReasoning(c), n)

\* A redacted_thinking block keeps its data for the item's end.
RedactedPart(c, sig) == [EnsureReasoning(c) EXCEPT !.reasoning.sig = sig]

CloseReasoning(c) ==
    IF c.reasoning = NoSnapshot THEN c
    ELSE [Push(c, ItemDone(c.reasoning)) EXCEPT
             !.completed = @ \cup {c.reasoning},
             !.reasoning = NoSnapshot]

----------------------------------------------------------------------------
(* Text and audio.                                                         *)

OpenMessage(c, i) ==
    [Push(Allot(c), Added(i)) EXCEPT !.message = Snapshot(i, 0, "none")]
EnsureMessage(c) ==
    IF c.message # NoSnapshot THEN c
    ELSE OpenMessage(c, NextItem(c, "message", 0))

\* Empty content opens the message and leaves the reasoning open.
WriteText(c, n) ==
    [Push(c, TextDelta(c.message.item, n)) EXCEPT !.message.n = @ + n]
TextPart(c, n) ==
    WriteText(EnsureMessage(IF n = 0 THEN c ELSE CloseReasoning(c)), n)

AudioPart(c) == EnsureMessage(CloseReasoning(c))

----------------------------------------------------------------------------
(* Tool calls.  The first chunk of a call allots its output_index; the     *)
(* item is added once the call has a name.                                 *)

EnsureCall(c, k, hasId, name) ==
    IF c.calls[k] = NoCall
    THEN [Allot(c) EXCEPT !.calls[k] =
             [NoCall EXCEPT !.item = NextItem(c, "function_call", k),
                            !.hasId = hasId, !.name = name]]
    ELSE [c EXCEPT !.calls[k].hasId = @ \/ hasId,
                   !.calls[k].name = IF @ = "" THEN name ELSE @]

\* A shell call is never shown in part: it waits for the end.  A call that
\* ends without a name gets one made up, if it has an id or arguments.
Publishable(call, terminal) ==
    /\ ~call.added
    /\ CASE call.name = "shell" -> terminal
         [] call.name = "" -> terminal /\ (call.hasId \/ call.n > 0)
         [] OTHER -> TRUE

AddArguments(c, call) ==
    IF call.name = "shell" \/ call.n = 0 THEN c
    ELSE Push(c, ArgsDelta(call.item, call.n))
AddCall(c, k) ==
    [Push(c, Added(c.calls[k].item)) EXCEPT
        !.calls[k].added = TRUE,
        !.calls[k].name = IF @ = "" THEN "tool" ELSE @]

EmitIfReady(c, k, terminal) ==
    IF Publishable(c.calls[k], terminal)
    THEN AddArguments(AddCall(c, k), c.calls[k])
    ELSE c

\* A chunk of call k with n units of arguments; the legacy function_call is
\* call 0 without an id.
WriteCall(c, k, n) ==
    IF c.calls[k].added /\ n > 0
    THEN [Push(c, ArgsDelta(c.calls[k].item, n)) EXCEPT !.calls[k].n = @ + n]
    ELSE EmitIfReady([c EXCEPT !.calls[k].n = @ + n], k, FALSE)
ToolPart(c, k, hasId, name, n) ==
    WriteCall(EnsureCall(CloseReasoning(c), k, hasId, name), k, n)

----------------------------------------------------------------------------
(* The end.                                                                *)

Meaningful(call) == call.hasId \/ call.name # "" \/ call.n > 0

\* Complete arguments; none at all count when the finish reason vouches.
ValidCall(c, call) ==
    \/ call.n = Full
    \/ call.n = 0 /\ c.finish \in {"stop", "tool_calls", "function_call"}

IncompleteReason(finish) ==
    CASE finish \in {"length", "max_tokens"} -> "max_output_tokens"
      [] finish = "content_filter" -> "content_filter"
      [] OTHER -> "none"

\* Mutant: a reasoning that was closed before is ended again.
DoneEventsAgain(c, s) == <<ItemDone(s)>>

\* The end of one item; a reasoning that was closed has had its own.
DoneEvents(c, s) ==
    CASE Kind(s.item) = "reasoning" ->
            IF s \in c.completed THEN <<>> ELSE <<ItemDone(s)>>
      [] Kind(s.item) = "message" ->
            IF s.n = 0 THEN <<ItemDone(s)>>
            ELSE <<TextDone(s.item, s.n), ItemDone(s)>>
      [] OTHER ->
            IF \E k \in Calls : c.calls[k].item = s.item /\ c.calls[k].name = "shell"
            THEN <<ItemDone(s)>>
            ELSE <<ArgsDone(s.item, s.n), ItemDone(s)>>

\* Mutant: a failed response shows the shell action it has.
PublishedAlways(c, failed) ==
    {k \in Calls : c.calls[k] # NoCall /\ Meaningful(c.calls[k])}

\* The calls the response will hold; a failed one shows no shell action.
Published(c, failed) ==
    {k \in Calls : /\ c.calls[k] # NoCall /\ Meaningful(c.calls[k])
                   /\ ~(failed /\ c.calls[k].name = "shell")}

\* A call without complete arguments makes the response an incomplete one.
TerminalReason(c, published) ==
    IF /\ c.finish \notin {"length", "content_filter"}
       /\ \E k \in published : ~ValidCall(c, c.calls[k])
    THEN "max_output_tokens" ELSE IncompleteReason(c.finish)

CallSnapshot(call, reason) ==
    Snapshot(call.item, IF call.n = 0 /\ reason = "none" THEN Full ELSE call.n, "none")

FinalOutput(c, published, reason) ==
    InOrder((c.completed \cup {c.reasoning, c.message}
                 \cup {CallSnapshot(c.calls[k], reason) : k \in published})
            \ {NoSnapshot})

FinishItem(c, s) == [c EXCEPT !.out = @ \o DoneEvents(c, s)]
PushLast(c, last) ==
    [c EXCEPT !.sentDone = TRUE, !.out = @ \o <<last, DoneMark>>]
Ending(c, output, last) ==
    PushLast(FoldOver(FinishItem, c, output), [last EXCEPT !.output = output])

Publish(c, k) == EmitIfReady(c, k, TRUE)
EmitAll(c, published) == FoldOver(Publish, c, ByRank(published, LAMBDA k : k))

CompleteWith(c, published, reason) ==
    Ending(EmitAll(c, published), FinalOutput(c, published, reason),
           Terminal(reason, <<>>))

\* finish_response, for a response that ends and for one that failed.
Complete(c) ==
    CompleteWith(c, Published(c, FALSE), TerminalReason(c, Published(c, FALSE)))
Fail(c) ==
    Ending(EmitAll(c, Published(c, TRUE)),
           FinalOutput(c, Published(c, TRUE), "none"), Failed)

\* An error is logged at once, whatever the reader does with what follows.
PushError(c) ==
    IF c.sentDone THEN c
    ELSE [Fail(Log(c, "error")) EXCEPT !.ended = TRUE]

ShellCallsValid(c) ==
    \A k \in Calls : c.calls[k].name = "shell" => c.calls[k].n = Full

PushDone(c) ==
    CASE c.sentDone -> c
      [] ~c.sentDone /\ (c.finish = "none" \/ ~ShellCallsValid(c)) -> PushError(c)
      [] OTHER -> Complete(c)

----------------------------------------------------------------------------
(* The stream's steps.  A part is a record, see StreamPipeline.          *)

Init == chat = NewChat

\* step(): upstream is read only when the reader has had everything.
Reading == chat.out = <<>> /\ ~chat.ended /\ ~chat.sentDone

ReceivePart(p) ==
    /\ Reading
    /\ chat' = CASE p.part = "reasoning" -> ReasoningPart(chat, p.n)
                 [] p.part = "redacted" -> RedactedPart(chat, p.sig)
                 [] p.part = "text" -> TextPart(chat, p.n)
                 [] p.part = "audio" -> AudioPart(chat)
                 [] p.part = "tool" -> ToolPart(chat, p.call, p.hasId, p.name, p.n)

ReceiveFinish(reason) ==
    /\ Reading
    /\ chat' = [chat EXCEPT !.finish = reason]

ReceiveDoneMark == Reading /\ chat' = PushDone(chat)

\* An error event, or reading upstream failed: cut off or idle too long.
ReceiveError == Reading /\ chat' = PushError(chat)

EndOfUpstream ==
    /\ Reading
    /\ chat' = Log(PushDone([chat EXCEPT !.ended = TRUE]), "ok")

\* The reader is given e.
Emit(e) ==
    /\ chat.out # <<>>
    /\ e = Head(chat.out)
    /\ chat' = [chat EXCEPT !.out = Tail(@)]

\* The reader is told that there is nothing more.
Close ==
    /\ chat.out = <<>> /\ (chat.ended \/ chat.sentDone)
    /\ chat' = GoneChat(Log(chat, IF chat.ended THEN "dropped" ELSE "ok").log)

\* The reader went away.
Abandon == chat' = GoneChat(Log(chat, "dropped").log)
=============================================================================
