------------------------ MODULE AnthropicToResponses ------------------------
(***************************************************************************)
(* The converter of an Anthropic message stream into a Responses stream    *)
(* (AnthropicToResponsesState): every block of the message becomes an      *)
(* output item, added when the block is first heard of and finished with   *)
(* the message, a reasoning with its block.                                *)
(*                                                                         *)
(* A block is known by its index, which names one block of one kind.  A    *)
(* relay may leave out the events that start and stop a block.             *)
(***************************************************************************)
EXTENDS StreamEvents

VARIABLE claude     \* the converter's state

NewClaude ==
    [out |-> <<Created>>,
     nextIndex |-> 0,           \* next_output_index
     items |-> <<>>,            \* by block, what was told of its item
     reason |-> "none",         \* response_status and incomplete_reason
     sentDone |-> FALSE,
     ended |-> FALSE,           \* upstream_ended
     gone |-> FALSE,            \* dropped with its stream
     log |-> "none"]

GoneClaude(log) ==
    [NewClaude EXCEPT !.out = <<>>, !.sentDone = TRUE, !.ended = TRUE,
                      !.gone = TRUE, !.log = log]

Push(c, e) == [c EXCEPT !.out = Append(@, e)]
Log(c, entry) == [c EXCEPT !.log = IF @ = "none" THEN entry ELSE @]

----------------------------------------------------------------------------
(* Blocks.  inline counts the arguments a tool call was started with, which *)
(* wait for deltas that may tell them again.                               *)

ItemOf(c, b, kind) == Item(kind, c.nextIndex, IF kind = "function_call" THEN b ELSE 0)

OpenItem(c, b, i) ==
    [Push(c, Added(i)) EXCEPT
        !.nextIndex = @ + 1,
        !.items = With(@, b, [item |-> i, n |-> 0, sig |-> "none",
                              closed |-> FALSE, inline |-> 0])]
Ensure(c, b, kind) ==
    IF b \in DOMAIN c.items THEN c ELSE OpenItem(c, b, ItemOf(c, b, kind))

Thinking(c, b, n) ==
    IF n = 0 \/ c.items[b].closed THEN c
    ELSE [Push(c, ReasoningDelta(c.items[b].item, n)) EXCEPT !.items[b].n = @ + n]

\* Of a redacted block the data is kept; a signature may come in pieces.
Sign(c, b, sig) ==
    IF sig = "none" \/ c.items[b].sig = "redacted" THEN c
    ELSE [c EXCEPT !.items[b].sig = sig]

Text(c, b, n) ==
    [Push(c, TextDelta(c.items[b].item, n)) EXCEPT !.items[b].n = @ + n]

\* Deltas replace the arguments the call was started with, unless empty.
Arguments(c, b, n) ==
    [Push(c, ArgsDelta(c.items[b].item, n)) EXCEPT
        !.items[b].n = @ + n,
        !.items[b].inline = IF n > 0 THEN 0 ELSE @]

StartBlock(c, b, kind, n, sig) ==
    CASE kind = "reasoning" -> Thinking(Sign(Ensure(c, b, kind), b, sig), b, n)
      [] kind = "function_call" -> [Ensure(c, b, kind) EXCEPT !.items[b].inline = n]
      [] OTHER -> Ensure(c, b, kind)

\* What a search is for is not told on: its deltas are kept for the end.
WriteBlock(c, b, type, n) ==
    CASE type = "thinking" -> Thinking(Ensure(c, b, "reasoning"), b, n)
      [] type = "signature" -> Sign(Ensure(c, b, "reasoning"), b, "signed")
      [] type = "text" -> Text(Ensure(c, b, "message"), b, n)
      [] type = "input_json" ->
            IF b \in DOMAIN c.items /\ Kind(c.items[b].item) = "web_search_call" THEN c
            ELSE Arguments(Ensure(c, b, "function_call"), b, n)

Told(c, b) == Snapshot(c.items[b].item, c.items[b].n, c.items[b].sig)

StopBlock(c, b) ==
    IF \/ b \notin DOMAIN c.items \/ c.items[b].closed
       \/ Kind(c.items[b].item) # "reasoning"
    THEN c
    ELSE [Push(c, ItemDone(Told(c, b))) EXCEPT !.items[b].closed = TRUE]

----------------------------------------------------------------------------
(* The end.                                                                *)

ByIndex(c) == ByRank(DOMAIN c.items, LAMBDA b : OutputIndex(c.items[b].item))

\* Arguments no delta has told again are told now.
RestoreInline(c, b) ==
    IF c.items[b].inline = 0 THEN c
    ELSE [Push(c, ArgsDelta(c.items[b].item, c.items[b].inline)) EXCEPT
             !.items[b].n = c.items[b].inline, !.items[b].inline = 0]
RestoreAll(c) == FoldOver(RestoreInline, c, ByIndex(c))

\* A call without arguments has the empty object.
FinalItem(c, b) ==
    IF Kind(c.items[b].item) = "function_call" /\ c.items[b].n = 0
    THEN [Told(c, b) EXCEPT !.n = Full] ELSE Told(c, b)

DoneEvents(c, b) ==
    LET s == FinalItem(c, b) IN
    CASE Kind(s.item) = "reasoning" -> IF c.items[b].closed THEN <<>> ELSE <<ItemDone(s)>>
      [] Kind(s.item) = "message" -> <<TextDone(s.item, s.n), ItemDone(s)>>
      [] Kind(s.item) = "function_call" -> <<ArgsDone(s.item, s.n), ItemDone(s)>>
      [] OTHER -> <<ItemDone(s)>>

FinishItem(c, b) == [c EXCEPT !.out = @ \o DoneEvents(c, b)]
PushLast(c, last) ==
    [c EXCEPT !.sentDone = TRUE, !.out = @ \o <<last, DoneMark>>]
Ending(c, blocks, last) ==
    PushLast(FoldOver(FinishItem, c, blocks),
             [last EXCEPT !.output = [j \in DOMAIN blocks |-> FinalItem(c, blocks[j])]])
FinishResponse(c, last) ==
    IF c.sentDone THEN c ELSE Ending(RestoreAll(c), ByIndex(c), last)

PushDone(c) == FinishResponse(c, Terminal(c.reason, <<>>))
PushError(c) ==
    IF c.sentDone THEN c
    ELSE [FinishResponse(Log(c, "error"), Failed) EXCEPT !.ended = TRUE]

\* responses_status_from_anthropic_stop_reason.  "paused" is an incomplete
\* response without a reason.
StatusOf(reason) ==
    CASE reason = "pause_turn" -> "paused"
      [] reason \in {"max_tokens", "model_context_window_exceeded"} -> "max_output_tokens"
      [] reason = "refusal" -> "content_filter"
      [] OTHER -> "none"

----------------------------------------------------------------------------
(* The stream's steps.                                                     *)

Init == claude = NewClaude

Reading == claude.out = <<>> /\ ~claude.ended /\ ~claude.sentDone

ReceiveStart(b, kind, n, sig) == Reading /\ claude' = StartBlock(claude, b, kind, n, sig)
ReceiveDelta(b, type, n) == Reading /\ claude' = WriteBlock(claude, b, type, n)
ReceiveStop(b) == Reading /\ claude' = StopBlock(claude, b)

\* Mutant: usage alone clears the reason.
ReceiveReasonAgain(reason) ==
    Reading /\ claude' = [claude EXCEPT !.reason = StatusOf(reason)]

\* message_delta; one that holds usage alone leaves the reason as it is.
ReceiveReason(reason) ==
    /\ Reading
    /\ claude' = IF reason = "none" THEN claude
                 ELSE [claude EXCEPT !.reason = StatusOf(reason)]

ReceiveMessageStop == Reading /\ claude' = PushDone(claude)

\* An error event, or reading upstream failed.
ReceiveError == Reading /\ claude' = PushError(claude)

\* The end of the connection is not the end of the message.
EndOfUpstream ==
    /\ Reading
    /\ claude' = Log(PushError([claude EXCEPT !.ended = TRUE]), "ok")

Emit(e) ==
    /\ claude.out # <<>>
    /\ e = Head(claude.out)
    /\ claude' = [claude EXCEPT !.out = Tail(@)]

Close ==
    /\ claude.out = <<>> /\ (claude.ended \/ claude.sentDone)
    /\ claude' = GoneClaude(Log(claude, IF claude.ended THEN "dropped" ELSE "ok").log)

Abandon == claude' = GoneClaude(Log(claude, "dropped").log)
=============================================================================
