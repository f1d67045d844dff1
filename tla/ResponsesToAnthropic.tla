------------------------ MODULE ResponsesToAnthropic ------------------------
(***************************************************************************)
(* The converter of a Responses stream into an Anthropic message stream    *)
(* (ResponsesToAnthropicState) with its two helpers: ToolEventOrder, which *)
(* holds back what would interrupt an open tool call, and                  *)
(* ResponsesTextRecovery, which delivers only the missing end of a text.   *)
(*                                                                         *)
(* Items carry their id and output_index throughout.                       *)
(***************************************************************************)
EXTENDS StreamEvents

CONSTANTS
    MaxPending,     \* MAX_PENDING_EVENTS, events held back for a tool call
    MaxArguments    \* MAX_TOOL_ARGUMENT_BYTES, in units

VARIABLE anth       \* the converter's state

\* One event of the Anthropic stream: what it does to which block, with the
\* units of item's content it carries; reason is the stop reason.
Block(type, index, kind, item, n) ==
    [type |-> type, index |-> index, kind |-> kind, item |-> item, n |-> n,
     reason |-> "none"]
Frame(type) == Block(type, 0, "none", NoItem, 0)

\* ActiveBlock.
NoBlock == [kind |-> "none", index |-> 0, item |-> NoItem]

NewAnth ==
    [out |-> <<>>,
     started |-> FALSE,         \* sent_message_start
     stopped |-> FALSE,         \* sent_message_stop
     failed |-> FALSE,          \* stream_failed
     ended |-> FALSE,           \* upstream_ended
     gone |-> FALSE,            \* dropped with its stream
     log |-> "none",
     active |-> NoBlock,
     nextIndex |-> 0,           \* next_block_index
     tools |-> <<>>, reasonings |-> <<>>, searches |-> <<>>,
     redacted |-> {},           \* redacted_reasoning_emitted
     sawTool |-> FALSE, invalid |-> FALSE,
     override |-> "none",       \* stop_reason_override
     texts |-> <<>>,            \* the recovery's parts: units delivered
     recovered |-> FALSE,       \* the recovery is finished
     orderActive |-> NoItem,    \* ToolEventOrder
     pending |-> <<>>]

GoneAnth(log) == [NewAnth EXCEPT !.ended = TRUE, !.gone = TRUE, !.log = log]

Push(s, e) == [s EXCEPT !.out = Append(@, e)]
Log(s, entry) == [s EXCEPT !.log = IF @ = "none" THEN entry ELSE @]

StartMessage(s) ==
    IF s.started THEN s
    ELSE [Push(s, Frame("message_start")) EXCEPT !.started = TRUE]

PushStop(s, index) == Push(s, Block("stop", index, "none", NoItem, 0))
PushDelta(s, index, kind, item, n) == Push(s, Block("delta", index, kind, item, n))

\* Mutant: a failed stream reads on.
FailStreamOpen(s) == Log([Push(s, Frame("error")) EXCEPT !.failed = TRUE], "error")

FailStream(s) ==
    Log([Push(s, Frame("error")) EXCEPT !.failed = TRUE, !.ended = TRUE], "error")

----------------------------------------------------------------------------
(* Closing blocks.                                                         *)

StopTool(s, i) ==
    IF i \notin DOMAIN s.tools \/ s.tools[i].stopped \/ ~s.tools[i].started
    THEN s
    ELSE [PushStop(s, s.tools[i].index) EXCEPT
             !.invalid = @ \/ ~(\/ s.tools[i].n = Full
                                \/ s.tools[i].n = 0 /\ s.tools[i].done),
             !.tools[i].n = 0,
             !.tools[i].stopped = TRUE,
             !.active = IF @.kind = "tool" /\ @.item = i THEN NoBlock ELSE @]

StopSearch(s, i) ==
    IF i \notin DOMAIN s.searches \/ s.searches[i].stopped THEN s
    ELSE [PushStop(s, s.searches[i].index) EXCEPT
             !.searches[i].stopped = TRUE,
             !.active = IF @.kind = "search" /\ @.item = i THEN NoBlock ELSE @]

CloseBlock(s, a) ==
    CASE a.kind = "none" -> s
      [] a.kind \in {"text", "thinking"} -> PushStop(s, a.index)
      [] a.kind = "commentary" ->
            PushStop(PushDelta(s, a.index, "signature", NoItem, 0), a.index)
      [] a.kind = "tool" -> StopTool(s, a.item)
      [] a.kind = "search" -> StopSearch(s, a.item)
StopActive(s) == CloseBlock([s EXCEPT !.active = NoBlock], s.active)

\* Mutant: the block that is open is left open.
OpenBlockOver(s, kind, item, index) ==
    [Push(s, Block("start", index, kind, item, 0)) EXCEPT
        !.active = [kind |-> kind, index |-> index, item |-> item]]

\* Starting a block closes the one that is open.
OpenBlock(s, kind, item, index) ==
    [Push(StopActive(s), Block("start", index, kind, item, 0)) EXCEPT
        !.active = [kind |-> kind, index |-> index, item |-> item]]

OpenNext(s, kind, item) ==
    OpenBlock([s EXCEPT !.nextIndex = @ + 1], kind, item, s.nextIndex)

----------------------------------------------------------------------------
(* Message text: deltas are forwarded, snapshots supply what is missing.   *)

IsMessage(i) == Kind(i) \in {"message", "commentary"}
TextKind(i) == IF Kind(i) = "commentary" THEN "commentary" ELSE "text"

Known(s, i) == IF i \in DOMAIN s.texts THEN s.texts[i] ELSE 0

EnsureText(s, kind) ==
    IF s.active.kind = kind THEN s ELSE OpenNext(s, kind, NoItem)
WriteText(s, i, n) ==
    [PushDelta(s, s.active.index, TextKind(i), i, n) EXCEPT
        !.texts = With(@, i, Known(s, i) + n)]
EmitText(s, i, n) == WriteText(EnsureText(StartMessage(s), TextKind(i)), i, n)

\* Mutant: a snapshot is shown in full.
RecoverWhole(s, i, n) ==
    IF s.recovered \/ n <= Known(s, i) THEN s ELSE EmitText(s, i, n)

Recover(s, i, n) ==
    IF s.recovered \/ n <= Known(s, i) THEN s ELSE EmitText(s, i, n - Known(s, i))

\* The end of a message closes whatever block is open.
MessageEnd(s, o) ==
    IF IsMessage(o.item) THEN StopActive(Recover(s, o.item, o.n)) ELSE s

MessageText(s, e) ==
    CASE e.type = "text" ->
            IF s.recovered \/ e.of.n = 0 THEN s ELSE EmitText(s, e.of.item, e.of.n)
      [] e.type = "textDone" -> Recover(s, e.of.item, e.of.n)
      [] e.type = "itemDone" -> MessageEnd(s, e.of)
      [] e.type \in {"completed", "incomplete"} ->
            [FoldOver(MessageEnd, s, e.output) EXCEPT !.recovered = TRUE]
      [] OTHER -> s

----------------------------------------------------------------------------
(* Reasoning.                                                              *)

EnsureReasoningState(s, i) ==
    IF i \in DOMAIN s.reasonings THEN s
    ELSE [s EXCEPT !.nextIndex = @ + 1,
                   !.reasonings = With(@, i, [index |-> s.nextIndex, started |-> FALSE,
                                              stopped |-> FALSE, delta |-> FALSE,
                                              signature |-> FALSE])]

\* A block that was started becomes the active one again, whoever closed it.
ActivateReasoning(s, i, index) ==
    IF ~s.reasonings[i].started
    THEN [OpenBlock(s, "thinking", i, index) EXCEPT !.reasonings[i].started = TRUE]
    ELSE IF s.active.kind = "thinking" /\ s.active.index = index THEN s
    ELSE [StopActive(s) EXCEPT
             !.active = [kind |-> "thinking", index |-> index, item |-> i]]
EnsureActive(s, i) == ActivateReasoning(s, i, s.reasonings[i].index)
EnsureReasoning(s, i) == EnsureActive(EnsureReasoningState(s, i), i)

WriteReasoning(s, i, n) ==
    [PushDelta(s, s.reasonings[i].index, "thinking", i, n) EXCEPT
        !.reasonings[i].delta = TRUE]
EmitReasoning(s, i, n) == WriteReasoning(EnsureReasoning(StartMessage(s), i), i, n)

WriteSignature(s, i) ==
    [PushDelta(s, s.reasonings[i].index, "signature", i, 0) EXCEPT
        !.reasonings[i].signature = TRUE]
EmitSignature(s, i) ==
    IF i \in DOMAIN s.reasonings /\ (s.reasonings[i].signature \/ s.reasonings[i].stopped)
    THEN s
    ELSE WriteSignature(EnsureReasoning(StartMessage(s), i), i)

StopReasoning(s, i) ==
    IF i \notin DOMAIN s.reasonings \/ s.reasonings[i].stopped \/ ~s.reasonings[i].started
    THEN s
    ELSE [PushStop(s, s.reasonings[i].index) EXCEPT
             !.reasonings[i].stopped = TRUE,
             !.active = IF @.kind = "thinking" /\ @.index = s.reasonings[i].index
                        THEN NoBlock ELSE @]

\* A block of its own, once per item.
WriteRedacted(s, i, index) ==
    [PushStop(Push(s, Block("start", index, "redacted", i, 0)), index) EXCEPT
        !.nextIndex = @ + 1, !.redacted = @ \cup {i}]
EmitRedacted(s, i) ==
    IF i \in s.redacted THEN s
    ELSE WriteRedacted(StopActive(StartMessage(s)), i, s.nextIndex)

----------------------------------------------------------------------------
(* Tool calls.                                                             *)

EnsureToolState(s, i) ==
    IF i \in DOMAIN s.tools THEN s
    ELSE [s EXCEPT !.nextIndex = @ + 1,
                   !.tools = With(@, i, [index |-> s.nextIndex, started |-> FALSE,
                                         stopped |-> FALSE, n |-> 0, done |-> FALSE])]

StartTool(s, i) ==
    IF s.tools[i].started THEN s
    ELSE [OpenBlock(s, "tool", i, s.tools[i].index) EXCEPT
             !.tools[i].started = TRUE, !.sawTool = TRUE]

ActivateTool(s, i) ==
    IF s.active.kind = "tool" /\ s.active.item = i THEN s
    ELSE [StopActive(s) EXCEPT
             !.active = [kind |-> "tool", index |-> s.tools[i].index, item |-> i]]

\* A delta that comes after its block was closed is dropped.
WriteTool(s, i, n) ==
    PushDelta([s EXCEPT !.tools[i].n = @ + n], s.tools[i].index, "tool", i, n)
AppendArguments(s, i, n) ==
    IF s.tools[i].stopped \/ n = 0 THEN s
    ELSE IF s.tools[i].n + n > MaxArguments THEN FailStream(s)
    ELSE WriteTool(ActivateTool(StartTool(s, i), i), i, n)
EmitToolDelta(s, i, n) == AppendArguments(EnsureToolState(StartMessage(s), i), i, n)

\* Arguments in full add what is missing, then close the block.
CompleteArguments(s, i, n) ==
    IF s.tools[i].stopped \/ n <= s.tools[i].n THEN s
    ELSE AppendArguments(s, i, n - s.tools[i].n)
MarkDone(s, i) == [EnsureToolState(s, i) EXCEPT !.tools[i].done = TRUE]
FinishTool(s, i, n) ==
    StopTool(CompleteArguments(StartTool(MarkDone(s, i), i), i, n), i)

----------------------------------------------------------------------------
(* Web searches: a block for the call and one for its result.              *)

EnsureSearchState(s, i) ==
    IF i \in DOMAIN s.searches THEN s
    ELSE [s EXCEPT !.nextIndex = @ + 2,
                   !.searches = With(@, i, [index |-> s.nextIndex, started |-> FALSE,
                                            stopped |-> FALSE, result |-> FALSE])]
StartSearch(s, i) ==
    IF s.searches[i].started THEN s
    ELSE [OpenBlock(s, "search", i, s.searches[i].index) EXCEPT
             !.searches[i].started = TRUE]
EnsureSearch(s, i) == StartSearch(EnsureSearchState(s, i), i)

WriteResult(s, i, index) ==
    PushStop(Push(StopSearch(StopActive(s), i), Block("start", index, "result", i, 0)),
             index)
EmitResult(s, i) ==
    IF s.searches[i].result THEN s
    ELSE WriteResult([s EXCEPT !.searches[i].result = TRUE], i, s.searches[i].index + 1)
FinishSearch(s, i) == EmitResult(EnsureSearch(StartMessage(s), i), i)

----------------------------------------------------------------------------
(* handle_response_event: one event that is due.                           *)

ItemAdded(s, i) ==
    CASE Kind(i) = "function_call" ->
            StartTool(EnsureToolState(StartMessage(s), i), i)
      [] Kind(i) = "reasoning" -> EnsureReasoning(StartMessage(s), i)
      [] Kind(i) = "web_search_call" -> EnsureSearch(StartMessage(s), i)
      [] OTHER -> s

ReasoningEnded(s, o) ==
    CASE o.sig = "redacted" -> EmitRedacted(StopReasoning(s, o.item), o.item)
      [] o.sig = "signed" -> StopReasoning(EmitSignature(s, o.item), o.item)
      [] OTHER -> StopReasoning(s, o.item)

ItemEnded(s, o) ==
    CASE Kind(o.item) = "function_call" -> FinishTool(StartMessage(s), o.item, o.n)
      [] Kind(o.item) = "reasoning" -> ReasoningEnded(StartMessage(s), o)
      [] Kind(o.item) = "web_search_call" -> FinishSearch(s, o.item)
      [] OTHER -> s

\* A reasoning in the terminal event's output: its text is shown if none of it
\* was, unless its signature is not to be trusted.
Silent(s, i) == i \notin DOMAIN s.reasonings \/ ~s.reasonings[i].delta
RecoverReasoning(s, o) ==
    IF Silent(s, o.item) /\ o.n > 0 THEN EmitReasoning(s, o.item, o.n) ELSE s
OutputReasoning(s, o) ==
    CASE o.sig = "redacted" -> EmitRedacted(s, o.item)
      [] o.sig = "untrusted" -> StopReasoning(s, o.item)
      [] OTHER -> ReasoningEnded(RecoverReasoning(s, o), o)

OutputItem(s, o) ==
    CASE Kind(o.item) = "function_call" -> FinishTool(s, o.item, o.n)
      [] Kind(o.item) = "reasoning" -> OutputReasoning(s, o)
      [] Kind(o.item) = "web_search_call" -> FinishSearch(s, o.item)
      [] OTHER -> s

StopReason(reason, sawTool) ==
    CASE reason = "max_output_tokens" -> "max_tokens"
      [] reason = "content_filter" -> "refusal"
      [] reason = "error" -> "end_turn"
      [] reason = "none" -> IF sawTool THEN "tool_use" ELSE "end_turn"

Override(s, reason) == [s EXCEPT !.override = StopReason(reason, s.sawTool)]

Dispatch(s, e) ==
    CASE e.type = "reasoning" -> EmitReasoning(s, e.of.item, e.of.n)
      [] e.type = "added" -> ItemAdded(s, e.of.item)
      [] e.type = "args" -> EmitToolDelta(s, e.of.item, e.of.n)
      [] e.type = "argsDone" -> FinishTool(StartMessage(s), e.of.item, e.of.n)
      [] e.type = "itemDone" -> ItemEnded(s, e.of)
      [] e.type \in {"completed", "incomplete"} ->
            Override(FoldOver(OutputItem, s, e.output), e.reason)
      [] OTHER -> s

HandleResponseEvent(s, e) == IF s.failed THEN s ELSE Dispatch(MessageText(s, e), e)

----------------------------------------------------------------------------
(* ToolEventOrder: while a tool call is open its own events pass and the   *)
(* others wait; [active, pending, ready, full].                            *)

ToolId(e) ==
    IF \/ e.type \in {"args", "argsDone"}
       \/ e.type \in {"added", "itemDone"} /\ Kind(e.of.item) = "function_call"
    THEN e.of.item ELSE NoItem

Release(o, e) ==
    [o EXCEPT !.ready = Append(@, e),
              !.active = CASE ToolId(e) = NoItem -> @
                           [] e.type \in {"argsDone", "itemDone"} -> NoItem
                           [] OTHER -> ToolId(e)]

\* One turn of drain's loop: release the first event that is due; with none,
\* a forced drain gives the open tool up.
Due(o) == {j \in DOMAIN o.pending :
              o.active = NoItem \/ ToolId(o.pending[j]) = o.active}
ReleaseAt(o, j) == [Release(o, o.pending[j]) EXCEPT !.pending = Without(@, j)]
DrainTurn(o, force) ==
    IF Due(o) # {} THEN ReleaseAt(o, CHOOSE j \in Due(o) : \A k \in Due(o) : j <= k)
    ELSE IF force THEN [o EXCEPT !.active = NoItem] ELSE o

\* Every turn but at most one per released event takes an event out.
Drain(o, force) ==
    FoldOver(DrainTurn, o, [j \in 1..(2 * Len(o.pending) + 1) |-> force])

\* Mutant: one event too many is held back.
PushOrderOneMore(o, e) ==
    IF o.pending = <<>> /\ (o.active = NoItem \/ ToolId(e) = o.active)
    THEN Release(o, e)
    ELSE IF Len(o.pending) > MaxPending THEN [o EXCEPT !.full = TRUE]
    ELSE Drain([o EXCEPT !.pending = Append(@, e)], FALSE)

PushOrder(o, e) ==
    IF o.pending = <<>> /\ (o.active = NoItem \/ ToolId(e) = o.active)
    THEN Release(o, e)
    ELSE IF Len(o.pending) >= MaxPending THEN [o EXCEPT !.full = TRUE]
    ELSE Drain([o EXCEPT !.pending = Append(@, e)], FALSE)

\* The terminal snapshot first completes the tool calls, then everything that
\* was held back is due, then the terminal event itself.
PushCall(o, s) ==
    IF Kind(s.item) = "function_call" THEN PushOrder(o, ItemDone(s)) ELSE o
PushTerminal(o, e) == Release(Drain(FoldOver(PushCall, o, e.output), TRUE), e)

Order(s) == [active |-> s.orderActive, pending |-> s.pending, ready |-> <<>>,
             full |-> FALSE]

HandleReady(s, o) ==
    FoldOver(HandleResponseEvent,
             [s EXCEPT !.orderActive = o.active, !.pending = o.pending], o.ready)

Flush(s) == HandleReady(s, Drain(Order(s), TRUE))

----------------------------------------------------------------------------
(* The message's end and the stream's steps.                               *)

StatedReason(s) ==
    IF s.override # "none" THEN s.override ELSE StopReason("none", s.sawTool)
MessageReason(s) ==
    IF s.invalid /\ StatedReason(s) \in {"tool_use", "end_turn"}
    THEN "max_tokens" ELSE StatedReason(s)
EndMessage(s) ==
    [s EXCEPT !.stopped = TRUE,
              !.out = @ \o <<[Frame("message_delta") EXCEPT !.reason = MessageReason(s)],
                             Frame("message_stop")>>]
FinishMessage(s) ==
    IF s.stopped \/ s.failed THEN s ELSE EndMessage(StopActive(StartMessage(s)))

Ordered(s, e) ==
    IF e.type \in {"completed", "incomplete"} THEN PushTerminal(Order(s), e)
    ELSE PushOrder(Order(s), e)
HandleOrdered(s, o) == IF o.full THEN FailStream(s) ELSE HandleReady(s, o)

HandleEvent(s, e) ==
    CASE s.stopped \/ s.failed -> s
      [] ~(s.stopped \/ s.failed) /\ e.type = "[DONE]" -> FinishMessage(Flush(s))
      [] ~(s.stopped \/ s.failed) /\ e.type = "failed" -> FailStream(s)
      [] OTHER -> HandleOrdered(s, Ordered(s, e))

Init == anth = NewAnth

Reading == anth.out = <<>> /\ ~anth.ended

Receive(e) == Reading /\ anth' = HandleEvent(anth, e)

CloseIfEmpty(s) == IF s.out = <<>> THEN GoneAnth(Log(s, "ok").log) ELSE s
EndOfUpstream ==
    /\ Reading
    /\ anth' = CloseIfEmpty(FinishMessage(Flush([anth EXCEPT !.ended = TRUE])))

\* Reading upstream failed: the client's body ends with an error.
ReadError == Reading /\ anth' = GoneAnth(Log(anth, "ok").log)

Emit(e) ==
    /\ anth.out # <<>>
    /\ e = Head(anth.out)
    /\ anth' = [anth EXCEPT !.out = Tail(@)]

Close ==
    /\ anth.out = <<>> /\ anth.ended
    /\ anth' = GoneAnth(Log(anth, "ok").log)

Abandon == anth' = GoneAnth(Log(anth, "dropped").log)
=============================================================================
