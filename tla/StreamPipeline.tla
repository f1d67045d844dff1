--------------------------- MODULE StreamPipeline ---------------------------
(***************************************************************************)
(* A streamed answer on its way to the client: stream_for_transform puts   *)
(* one converter or a chain of two between the upstream and the client.    *)
(*   "responses"   a Chat upstream, a Responses client (ChatToResponses)   *)
(*   "messages"    a Chat upstream, an Anthropic client (ChatToAnthropic)  *)
(*   "claude"      an Anthropic upstream, a Responses client               *)
(*   "claudeChat"  an Anthropic upstream, a Chat client (AnthropicToChat)  *)
(*   "native"      a Responses upstream, an Anthropic client               *)
(*   "nativeChat"  a Responses upstream, a Chat client                     *)
(*   "codex"       a Codex upstream, a Responses client (CodexToResponses) *)
(*   "codexMessages"  a Codex upstream, an Anthropic client                *)
(*   "codexChat"   a Codex upstream, a Chat client (CodexToChat)           *)
(* Everything is pulled: upstream is read when all that was converted has  *)
(* been delivered.  The client may leave at any moment.                    *)
(***************************************************************************)
EXTENDS StreamViews, FiniteSetsExt

ChatRoutes == {"responses", "messages"}
ClaudeRoutes == {"claude", "claudeChat"}
NativeRoutes == {"native", "nativeChat"}
CodexRoutes == {"codex", "codexMessages", "codexChat"}

ToResponses == {"responses", "claude", "codex"}
ToMessages == {"messages", "native", "codexMessages"}
ToChat == {"claudeChat", "nativeChat", "codexChat"}

\* Routes whose Responses stream is watched, and those through CodexToResponses.
Heard == ChatRoutes \cup ClaudeRoutes \cup {"codex"}
Relayed == {"codex", "codexMessages"}

CONSTANTS
    Routes,         \* the routes explored, of those above
    Parts,          \* the parts a Chat chunk may carry, by route
    Calls, FinishReasons, MaxPending, MaxArguments,
    NativeKinds,    \* the kinds of items a Responses upstream produces
    StopReasons,    \* the stop reasons an Anthropic upstream states
    MaxChunks,      \* bound: chunks a Chat upstream sends
    MaxEvents,      \* bound: events any other upstream sends, by route
    MaxItems,       \* bound: items or blocks it produces
    MaxBlocks,      \* bound: block and item numbers in use
    LateReasoning   \* may a reasoning item still be open when others came?

VARIABLES route,
    chat, claude, codex,    \* the converters into a Responses stream
    anth, talk,     \* the converters out of one
    up,             \* what the upstream has sent
    read,           \* what the reader of the Responses stream has seen
    view,           \* what the Anthropic client has seen
    answer          \* what the Chat client has seen

vars == <<route, chat, claude, codex, anth, talk, up, read, view, answer>>

C == INSTANCE ChatToResponses
L == INSTANCE AnthropicToResponses
D == INSTANCE CodexToResponses
R == INSTANCE ResponsesToAnthropic
T == INSTANCE ResponsesToChat
X == INSTANCE CodexToChat

ASSUME StreamAssumption ==
    /\ Routes \subseteq ChatRoutes \cup ClaudeRoutes \cup NativeRoutes \cup CodexRoutes
    /\ \A r \in Routes : \A p \in Parts[r] :
          /\ p.part \in {"reasoning", "redacted", "text", "audio", "tool"}
          /\ p.part \in {"reasoning", "text"} => p.n \in Nat
          /\ p.part = "tool" => p.call \in Calls /\ p.n \in Nat /\ p.name \in C!Names
    /\ IsFiniteSet(Calls) /\ Calls \subseteq Nat
    /\ NativeKinds \subseteq {"message", "commentary", "reasoning", "function_call",
                              "web_search_call"}
    /\ FinishReasons \subseteq {"stop", "tool_calls", "function_call",
                                "length", "max_tokens", "content_filter"}
    /\ StopReasons \subseteq {"none", "end_turn", "tool_use", "stop_sequence",
                              "max_tokens", "model_context_window_exceeded",
                              "pause_turn", "refusal"}
    /\ {MaxPending, MaxArguments, MaxChunks, MaxItems, MaxBlocks} \subseteq Nat
    /\ MaxChunks <= MaxBlocks /\ MaxItems <= MaxBlocks
    /\ MaxEvents \in [Routes -> Nat]

----------------------------------------------------------------------------
(* The client's side.                                                      *)

NothingSent ==
    [sent |-> 0,            \* chunks or events
     text |-> 0, commentary |-> 0, thinking |-> 0,  \* units of each
     tools |-> <<>>,        \* units of each call's arguments
     named |-> <<>>,        \* the first name each call was given
     finish |-> "none",     \* the finish reason stated last
     fault |-> FALSE,       \* it failed, or stopped without a finish reason
     items |-> <<>>,        \* a Responses upstream's items
     blocks |-> <<>>,       \* an Anthropic upstream's blocks
     over |-> FALSE,        \* its terminal event is out
     closed |-> FALSE]      \* there is nothing more to read, or it failed

Init ==
    /\ route \in Routes
    /\ IF route \in ChatRoutes THEN C!Init ELSE chat = C!GoneChat("none")
    /\ IF route \in ClaudeRoutes THEN L!Init ELSE claude = L!GoneClaude("none")
    /\ IF route \in Relayed THEN D!Init ELSE codex = D!GoneCodex("none")
    /\ IF route \in ToMessages THEN R!Init ELSE anth = R!GoneAnth("none")
    /\ IF route \in ToChat THEN T!Init ELSE talk = T!GoneTalk("none")
    /\ up = NothingSent
    /\ read = IF route = "codex" THEN Joined ELSE NothingRead
    /\ view = NothingSeen
    /\ answer = NothingHeard

\* The converter the client is served by, and whether its stream is over.
Log ==
    CASE route = "responses" -> chat.log
      [] route = "claude" -> claude.log
      [] route = "codex" -> codex.log
      [] route \in ToMessages -> anth.log
      [] route \in ToChat -> talk.log
Over ==
    CASE route = "responses" -> chat.gone
      [] route = "claude" -> claude.gone
      [] route = "codex" -> codex.gone
      [] route \in ToMessages -> anth.gone
      [] route \in ToChat -> talk.gone

\* The Anthropic client is given the next event, the Chat client the next chunk.
DeliverBlock ==
    /\ anth.out # <<>>
    /\ \E e \in {Head(anth.out)} : R!Emit(e) /\ view' = See(view, e)
    /\ UNCHANGED <<route, chat, claude, codex, talk, up, read, answer>>
DeliverChunk ==
    /\ talk.out # <<>>
    /\ \E e \in {Head(talk.out)} : T!Emit(e) /\ answer' = Take(answer, e)
    /\ UNCHANGED <<route, chat, claude, codex, anth, up, read, view>>
Deliver == DeliverBlock \/ DeliverChunk

\* e goes to the converter that reads the Responses stream, if there is one;
\* or that converter reads the end.
IntoSecond(e) ==
    CASE route \in ToMessages -> R!Receive(e) /\ UNCHANGED talk
      [] route \in ToChat -> T!Receive(e) /\ UNCHANGED anth
      [] route \in ToResponses -> UNCHANGED <<anth, talk>>
EndOfFirst ==
    CASE route \in ToMessages -> R!EndOfUpstream /\ UNCHANGED talk
      [] route \in ToChat -> T!EndOfUpstream /\ UNCHANGED anth
      [] route \in ToResponses -> UNCHANGED <<anth, talk>>

\* The next Responses event goes to the client, or into the second converter.
RelayChat ==
    /\ chat.out # <<>>
    /\ \E e \in {Head(chat.out)} : C!Emit(e) /\ read' = Hear(read, e) /\ IntoSecond(e)
    /\ UNCHANGED <<route, claude, codex, up, view, answer>>
RelayClaude ==
    /\ claude.out # <<>>
    /\ \E e \in {Head(claude.out)} : L!Emit(e) /\ read' = Hear(read, e) /\ IntoSecond(e)
    /\ UNCHANGED <<route, chat, codex, up, view, answer>>
RelayCodex ==
    /\ codex.out # <<>>
    /\ \E e \in {Head(codex.out)} :
          /\ D!Emit(e)
          /\ read' = IF route = "codex" THEN Hear(read, e) ELSE read
          /\ IntoSecond(e)
    /\ UNCHANGED <<route, chat, claude, up, view, answer>>
Relay == RelayChat \/ RelayClaude \/ RelayCodex

\* The first converter has nothing more: the second reads the end.
RelayEnd ==
    /\ \/ ~chat.gone /\ C!Close /\ UNCHANGED <<claude, codex>>
       \/ ~claude.gone /\ L!Close /\ UNCHANGED <<chat, codex>>
       \/ ~codex.gone /\ D!Close /\ UNCHANGED <<chat, claude>>
    /\ EndOfFirst
    /\ UNCHANGED <<route, up, read, view, answer>>

Finish ==
    /\ \/ ~anth.gone /\ R!Close /\ UNCHANGED talk
       \/ ~talk.gone /\ T!Close /\ UNCHANGED anth
    /\ UNCHANGED <<route, chat, claude, codex, up, read, view, answer>>

\* The client goes away: every converter is dropped where it stands.
Leave ==
    /\ ~Over
    /\ C!Abandon /\ L!Abandon /\ D!Abandon /\ R!Abandon /\ T!Abandon
    /\ read' = IF route \in Heard THEN Left(read) ELSE read
    /\ view' = IF route \in ToMessages THEN Left(view) ELSE view
    /\ answer' = IF route \in ToChat THEN Left(answer) ELSE answer
    /\ UNCHANGED <<route, up>>

----------------------------------------------------------------------------
(* A Chat upstream.                                                        *)

\* A chain reads when its second converter does.
ChatRead == route \in ChatRoutes /\ (route = "messages" => R!Reading)
ChatUnchanged == UNCHANGED <<route, claude, codex, anth, talk, read, view, answer>>

\* A reasoning that is still open behind earlier items: see LateReasoning.
Tidy == \/ LateReasoning \/ route = "responses"
        \/ chat.reasoning = NoSnapshot \/ OutputIndex(chat.reasoning.item) = 0

Recorded(p) ==
    CASE p.part = "reasoning" -> [up EXCEPT !.thinking = @ + p.n]
      [] p.part = "text" -> [up EXCEPT !.text = @ + p.n]
      [] p.part = "tool" ->
            [up EXCEPT !.tools = Plus(@, p.call, p.n),
                       !.named = IF p.name = "" \/ p.call \in DOMAIN @ THEN @
                                 ELSE With(@, p.call, p.name)]
      [] OTHER -> up

Chunk(p) ==
    /\ ChatRead /\ up.sent < MaxChunks
    /\ p.part = "tool" /\ p.call \in DOMAIN up.tools => up.tools[p.call] + p.n <= Full + 1
    /\ C!ReceivePart(p)
    /\ up' = [Recorded(p) EXCEPT !.sent = @ + 1]
    /\ ChatUnchanged

StateFinish(reason) ==
    /\ ChatRead /\ up.finish # reason
    /\ up.sent < MaxChunks \/ up.finish = "none"
    /\ C!ReceiveFinish(reason)
    /\ up' = [up EXCEPT !.finish = reason, !.sent = IF @ < MaxChunks THEN @ + 1 ELSE @]
    /\ ChatUnchanged

\* [DONE], or the upstream just ends: without a finish reason it is truncated.
ChatEnds ==
    /\ ChatRead /\ Tidy
    /\ \/ C!ReceiveDoneMark /\ up' = [up EXCEPT !.fault = up.finish = "none"]
       \/ /\ C!EndOfUpstream
          /\ up' = [up EXCEPT !.fault = up.finish = "none", !.closed = TRUE]
    /\ ChatUnchanged

ChatFails ==
    /\ ChatRead /\ Tidy
    /\ C!ReceiveError
    /\ up' = [up EXCEPT !.fault = TRUE, !.closed = TRUE]
    /\ ChatUnchanged

----------------------------------------------------------------------------
(* A Responses or Codex upstream.  Items other than tool calls come one at *)
(* a time, tool calls may interleave with everything.  Any event but the   *)
(* last may be missing: what a delta left out, a later snapshot carries.   *)
(* A Codex upstream finishes each item before it completes the response.   *)

NativeUnchanged == UNCHANGED <<route, chat, claude, read, view, answer>>

\* e, the end, or a failed read goes to the converter that reads the upstream.
IntoFirst(e) ==
    CASE route \in NativeRoutes -> IntoSecond(e) /\ UNCHANGED codex
      [] route = "codexChat" -> X!Receive(e) /\ UNCHANGED <<codex, anth>>
      [] route \in Relayed -> D!Receive(e) /\ UNCHANGED <<anth, talk>>
EndOfNative ==
    CASE route \in NativeRoutes -> EndOfFirst /\ UNCHANGED codex
      [] route = "codexChat" -> X!EndOfUpstream /\ UNCHANGED <<codex, anth>>
      [] route \in Relayed -> D!EndOfUpstream /\ UNCHANGED <<anth, talk>>
NativeReadFails ==
    CASE route = "native" -> R!ReadError /\ UNCHANGED <<codex, talk>>
      [] route = "nativeChat" -> T!ReadError /\ UNCHANGED <<codex, anth>>
      [] route = "codexChat" -> X!ReadError /\ UNCHANGED <<codex, anth>>
      [] route \in Relayed -> D!ReadError /\ UNCHANGED <<anth, talk>>

NativeRead ==
    /\ route \in NativeRoutes \cup CodexRoutes
    /\ route = "codexMessages" => R!Reading

Send(e) ==
    /\ NativeRead /\ up.sent < MaxEvents[route] /\ ~up.closed
    /\ IntoFirst(e)
    /\ NativeUnchanged

Unfinished(kinds) == {i \in DOMAIN up.items : ~up.items[i].done /\ Kind(i) \in kinds}
Produced == NativeKinds \ {"function_call"}

NewItem(kind) ==
    LET index == Cardinality(DOMAIN up.items) IN Item(kind, index, index)

\* The upstream's account u when it has told n units of i, and f holds of it.
Told(u, i, n, whole, done) ==
    LET more == n - (IF i \in DOMAIN u.items THEN u.items[i].n ELSE 0)
        noted == [u EXCEPT !.items =
                     With(@, i, [n |-> n, whole |-> whole, done |-> done])]
    IN  CASE Kind(i) = "message" -> [noted EXCEPT !.text = @ + more]
          [] Kind(i) = "commentary" -> [noted EXCEPT !.commentary = @ + more]
          [] Kind(i) = "reasoning" -> [noted EXCEPT !.thinking = @ + more]
          [] Kind(i) = "function_call" ->
                [noted EXCEPT !.tools = Plus(@, CallOf(i), more)]
          [] OTHER -> noted
Tick(u) == [u EXCEPT !.sent = @ + 1]

ItemOpens(kind) ==
    /\ ~up.over /\ Cardinality(DOMAIN up.items) < MaxItems
    /\ kind # "function_call" => Unfinished(Produced) = {}
    /\ LateReasoning \/ Unfinished({"reasoning"}) = {}
    /\ Send(Added(NewItem(kind)))
    /\ up' = Tick(Told(up, NewItem(kind), 0, FALSE, FALSE))

DeltaType(kind) ==
    CASE kind = "reasoning" -> "reasoning"
      [] kind = "function_call" -> "args"
      [] OTHER -> "text"

ItemWritten(i) ==
    /\ ~up.over /\ ~up.items[i].done /\ ~up.items[i].whole
    /\ up.items[i].n < Full
    /\ Kind(i) # "web_search_call"
    /\ Send(Delta(DeltaType(Kind(i)), i, 1))
    /\ up' = Tick(Told(up, i, up.items[i].n + 1, FALSE, FALSE))

\* All of i is told.  A Chat client gets no more of a call's arguments than the
\* deltas, once there was one.
Fixed(i) ==
    \/ up.items[i].whole
    \/ Kind(i) \in {"reasoning", "web_search_call"}
    \/ route = "nativeChat" /\ Kind(i) = "function_call" /\ up.items[i].n > 0

\* output_text.done or function_call_arguments.done, with n units in all.
ItemWhole(i, n) ==
    /\ ~up.over /\ ~up.items[i].done /\ ~up.items[i].whole
    /\ n >= up.items[i].n /\ (Fixed(i) => n = up.items[i].n)
    /\ Kind(i) \in {"message", "commentary", "function_call"}
    /\ Send(IF Kind(i) = "function_call" THEN ArgsDone(i, n) ELSE TextDone(i, n))
    /\ up' = Tick(Told(up, i, n, TRUE, FALSE))

ItemCloses(i, n, sig) ==
    /\ ~up.over /\ ~up.items[i].done
    /\ n >= up.items[i].n /\ (Fixed(i) => n = up.items[i].n)
    /\ sig # "none" => Kind(i) = "reasoning"
    /\ Send(ItemDone(Snapshot(i, n, sig)))
    /\ up' = Tick(Told(up, i, n, TRUE, TRUE))

\* The terminal event: its output is left out, or holds every item, those
\* that were not finished with more units, and those no event has told of.
Grown(i, more) ==
    IF Fixed(i) THEN up.items[i].n ELSE Min({Full, up.items[i].n + more})

Hidden(kind, sig) == Snapshot(NewItem(kind), IF kind = "web_search_call" THEN 0 ELSE Full, sig)

Output(more, hidden) ==
    InOrder({Snapshot(i, Grown(i, more), "none") : i \in DOMAIN up.items} \cup hidden)

\* Reasoning the converter does not trust is not shown to an Anthropic client,
\* nor a call that is in a Codex upstream's output alone to a Chat client.
ToldBy(u, s) ==
    IF \/ route \in ToMessages /\ s.sig \in {"untrusted", "redacted"}
       \/ route = "codexChat" /\ Kind(s.item) = "function_call"
    THEN u ELSE Told(u, s.item, s.n, TRUE, TRUE)

NativeTerminal(reason, output) ==
    /\ ~up.over
    /\ route \in CodexRoutes /\ reason = "none" => Unfinished(NativeKinds) = {}
    /\ Send(Terminal(reason, output))
    /\ up' = [Tick(FoldOver(ToldBy, up, output)) EXCEPT
                 !.over = TRUE, !.finish = IF reason = "none" THEN "stop" ELSE "length"]

NativeTidy ==
    \/ LateReasoning
    \/ \A i \in Unfinished({"reasoning"}) : DOMAIN up.items = {i}

ResponseEnds ==
    \E reason \in {"none", "max_output_tokens"} :
        \/ NativeTerminal(reason, <<>>)
        \/ \E more \in {0, 1} : NativeTidy /\ NativeTerminal(reason, Output(more, {}))
        \/ \E kind \in NativeKinds, sig \in {"none", "untrusted", "signed", "redacted"} :
              /\ sig # "none" => kind = "reasoning"
              /\ route \notin CodexRoutes
              /\ Cardinality(DOMAIN up.items) < MaxItems
              /\ Unfinished({"reasoning"}) = {} \/ LateReasoning
              /\ route = "nativeChat" /\ kind = "reasoning" => up.thinking = 0
              /\ NativeTerminal(reason, Output(0, {Hidden(kind, sig)}))

NativeFails ==
    /\ ~up.over
    /\ Send(Failed)
    /\ up' = [Tick(up) EXCEPT !.fault = TRUE, !.closed = TRUE]

\* A Codex upstream may be cut off by its [DONE].
NativeEnds ==
    \/ up.over /\ Send(DoneMark) /\ up' = Tick(up)
    \/ /\ route \in CodexRoutes /\ ~up.over
       /\ Send(DoneMark)
       /\ up' = [up EXCEPT !.closed = TRUE]
    \/ /\ NativeRead
       /\ EndOfNative
       /\ up' = [up EXCEPT !.closed = TRUE]
       /\ NativeUnchanged

NativeReadError ==
    /\ NativeRead
    /\ NativeReadFails
    /\ view' = IF route = "native" THEN Left(view) ELSE view
    /\ answer' = IF route \in {"nativeChat", "codexChat"} THEN Left(answer) ELSE answer
    /\ up' = [up EXCEPT !.fault = TRUE, !.closed = TRUE]
    /\ UNCHANGED <<route, chat, claude, read>>

\* Only a Responses client's stream has the timeout.
NativeHangs ==
    /\ route = "codex"
    /\ D!SemanticTimeout
    /\ up' = [up EXCEPT !.fault = TRUE, !.closed = TRUE]
    /\ UNCHANGED <<anth, talk>> /\ NativeUnchanged

----------------------------------------------------------------------------
(* An Anthropic upstream.  Its blocks come one after another.  A relay may *)
(* leave out the events that start and stop them, and may tell the         *)
(* arguments of a call at its start, in deltas, or both.                   *)

ClaudeRead == route \in ClaudeRoutes /\ (route = "claudeChat" => T!Reading)
ClaudeSends == ClaudeRead /\ up.sent < MaxEvents[route]
ClaudeUnchanged == UNCHANGED <<route, chat, codex, anth, talk, read, view, answer>>

NextBlock == Cardinality(DOMAIN up.blocks)

\* The upstream's account u of block b, after n more units of it.
Wrote(u, b, block, n) ==
    LET noted == [Tick(u) EXCEPT
                     !.blocks = With(@, b, [block EXCEPT !.n = @ + n])]
    IN  CASE block.kind = "message" -> [noted EXCEPT !.text = @ + n]
          [] block.kind = "reasoning" -> [noted EXCEPT !.thinking = @ + n]
          [] block.kind = "function_call" ->
                [noted EXCEPT !.tools =
                    With(@, b, IF block.n + n = 0 THEN block.inline ELSE block.n + n)]
          [] OTHER -> noted

BlockOfKind(kind, inline) ==
    [kind |-> kind, n |-> 0, inline |-> inline, stopped |-> FALSE]

\* content_block_start; n units of thinking or of arguments come with it.
BlockOpens(kind, n, sig) ==
    /\ ClaudeSends /\ NextBlock < MaxItems
    /\ n > 0 => \/ kind = "reasoning" /\ sig # "redacted"
                \/ kind = "function_call" /\ n = Full
    /\ sig # "none" => kind = "reasoning"
    /\ L!ReceiveStart(NextBlock, kind, n, sig)
    /\ up' = IF kind = "reasoning"
             THEN Wrote(up, NextBlock,
                        BlockOfKind(IF sig = "redacted" THEN sig ELSE kind, 0), n)
             ELSE Wrote(up, NextBlock, BlockOfKind(kind, n), 0)
    /\ ClaudeUnchanged

ClaudeDelta(kind) ==
    CASE kind = "reasoning" -> "thinking"
      [] kind = "message" -> "text"
      [] OTHER -> "input_json"

\* content_block_delta for the last block, or for one whose start is left out.
BlockWritten(b, kind) ==
    /\ ClaudeSends
    /\ \/ /\ b \in DOMAIN up.blocks /\ b + 1 = NextBlock
          /\ up.blocks[b].kind = kind /\ ~up.blocks[b].stopped /\ up.blocks[b].n < Full
       \/ b = NextBlock /\ b < MaxItems /\ kind # "web_search_call"
    /\ L!ReceiveDelta(b, ClaudeDelta(kind), 1)
    /\ up' = Wrote(up, b, IF b = NextBlock THEN BlockOfKind(kind, 0) ELSE up.blocks[b], 1)
    /\ ClaudeUnchanged

\* The signature comes last in a block.
BlockSigned(b) ==
    /\ ClaudeSends
    /\ b \in DOMAIN up.blocks /\ b + 1 = NextBlock
    /\ up.blocks[b].kind = "reasoning" /\ ~up.blocks[b].stopped
    /\ L!ReceiveDelta(b, "signature", 0)
    /\ up' = Tick(up)
    /\ ClaudeUnchanged

BlockStops(b) ==
    /\ ClaudeSends
    /\ b \in DOMAIN up.blocks /\ b + 1 = NextBlock /\ ~up.blocks[b].stopped
    /\ L!ReceiveStop(b)
    /\ up' = [Tick(up) EXCEPT !.blocks[b].stopped = TRUE]
    /\ ClaudeUnchanged

\* message_delta, which may come again with the usage alone ("none").
StateReason(reason) ==
    /\ ClaudeSends
    /\ reason = "none" => up.finish # "none"
    /\ L!ReceiveReason(reason)
    /\ up' = [Tick(up) EXCEPT !.finish = IF reason = "none" THEN @ ELSE reason]
    /\ ClaudeUnchanged

Truncated == up.finish \in {"length", "max_tokens", "model_context_window_exceeded",
                           "pause_turn", "refusal", "content_filter"}

\* message_stop.  A turn that was not cut short has whole arguments.
MessageStops ==
    /\ ClaudeRead
    /\ ~Truncated => \A b \in DOMAIN up.tools : up.tools[b] \in {0, Full}
    /\ L!ReceiveMessageStop
    /\ up' = [up EXCEPT !.over = TRUE, !.closed = TRUE]
    /\ ClaudeUnchanged

\* An error event or a failed read; or the connection ends before the message.
ClaudeFails ==
    /\ ClaudeRead
    /\ L!ReceiveError \/ L!EndOfUpstream
    /\ up' = [up EXCEPT !.fault = TRUE, !.closed = TRUE]
    /\ ClaudeUnchanged

----------------------------------------------------------------------------
Upstream ==
    \/ \E p \in Parts[route] : Chunk(p)
    \/ \E reason \in FinishReasons : StateFinish(reason)
    \/ ChatEnds \/ ChatFails
    \/ \E kind \in NativeKinds : ItemOpens(kind)
    \/ \E i \in DOMAIN up.items :
          \/ ItemWritten(i)
          \/ \E n \in 0..Full : ItemWhole(i, n)
          \/ \E n \in 0..Full, sig \in {"none", "untrusted", "signed", "redacted"} :
                ItemCloses(i, n, sig)
    \/ ResponseEnds \/ NativeFails \/ NativeEnds \/ NativeReadError \/ NativeHangs
    \/ \E kind \in NativeKinds \ {"commentary"} :
          \/ \E n \in 0..Full, sig \in {"none", "signed", "redacted"} :
                BlockOpens(kind, n, sig)
          \/ \E b \in 0..MaxItems : BlockWritten(b, kind)
    \/ \E b \in DOMAIN up.blocks : BlockSigned(b) \/ BlockStops(b)
    \/ \E reason \in StopReasons : StateReason(reason)
    \/ MessageStops \/ ClaudeFails

Next == Deliver \/ Relay \/ RelayEnd \/ Finish \/ Upstream \/ Leave

Spec == Init /\ [][Next]_vars

----------------------------------------------------------------------------
(* Properties.                                                             *)

ItemNumbers ==
    {Item(kind, j, 0) : kind \in {"message", "reasoning", "web_search_call"},
                        j \in 0..MaxBlocks}
        \cup {Item("function_call", j, k) : j \in 0..MaxBlocks,
                                            k \in Calls \cup 0..MaxItems}

TypeOK ==
    /\ route \in Routes
    /\ {chat.log, claude.log, codex.log, anth.log, talk.log} \subseteq {"none", "ok", "error", "dropped"}
    /\ Len(anth.pending) <= MaxPending
    /\ read.phase \in {"new", "open", "ended", "cut"}
    /\ {view.phase, answer.phase}
           \subseteq {"new", "open", "closing", "stopped", "error", "cut"}

\* What the Responses reader sees of a stream made for it implements
\* ResponsesStream: every item is added, written and finished once, and the
\* response ends with those items.
Made == IF route = "codex" THEN NothingRead ELSE read
ResponsesView == INSTANCE ResponsesStream WITH
    Items <- ItemNumbers, phase <- Made.phase, items <- Made.items,
    output <- {Made.final[j].item : j \in DOMAIN Made.final}

ImplementsResponsesStream == ResponsesView!Spec

\* What the Anthropic client sees implements AnthropicStream: one block at a
\* time, each started once, written only while open, stopped once.
AnthropicView == INSTANCE AnthropicStream WITH
    Indexes <- 0..MaxBlocks, phase <- view.phase,
    blocks <- [b \in DOMAIN view.blocks |->
                  [started |-> view.blocks[b].started,
                   written |-> view.blocks[b].written,
                   stopped |-> view.blocks[b].stopped]]

ImplementsAnthropicStream == AnthropicView!Spec

\* CONTEXT.md: every block is started and stopped once, and nothing is written
\* to a block that was stopped.
EachBlockStoppedOnce ==
    [][\A b \in DOMAIN view.blocks :
          view.blocks[b].stopped > 0 => view'.blocks[b] = view.blocks[b]]_view

\* Units of one kind in the blocks, and in the final output.
Shown(kind) ==
    MapThenSumSet(LAMBDA b : IF view.blocks[b].kind = kind THEN view.blocks[b].units ELSE 0,
                  DOMAIN view.blocks)
Final(kind) ==
    MapThenSumSet(LAMBDA j : IF Kind(read.final[j].item) = kind THEN read.final[j].n ELSE 0,
                  DOMAIN read.final)

ToolBlocks(call) ==
    {b \in DOMAIN view.blocks : view.blocks[b].kind = "tool" /\ view.blocks[b].call = call}

\* A message that reaches message_stop holds all the upstream has told: texts,
\* commentary, reasoning and the arguments of every call, each unit once.  A
\* call without arguments may get the empty object.
MessageComplete ==
    view.phase = "stopped" =>
        /\ Shown("text") = up.text
        /\ Shown("commentary") = up.commentary
        /\ Shown("thinking") = up.thinking
        /\ \A call \in DOMAIN up.tools : \A b \in ToolBlocks(call) :
              \/ view.blocks[b].units = up.tools[call]
              \/ up.tools[call] = 0 /\ view.blocks[b].units = Full
        /\ \A call \in DOMAIN up.tools :
              up.tools[call] > 0 => Cardinality(ToolBlocks(call)) = 1

\* The same for the output of a Responses response that did not fail.
OutputComplete ==
    Made.end \in {"completed", "incomplete"} =>
        /\ Final("message") = up.text
        /\ Final("reasoning") = up.thinking
        /\ \A j \in DOMAIN read.final :
              LET o == read.final[j] IN
              Kind(o.item) = "function_call" =>
                  \/ o.n = up.tools[CallOf(o.item)]
                  \/ o.n = Full /\ up.tools[CallOf(o.item)] = 0

\* Every event of a Codex upstream up to its last is passed on, once.
EventsPassedOn ==
    route = "codex" /\ read.end \in {"completed", "incomplete"} =>
        MapThenSumSet(LAMBDA i : read.items[i].added + read.items[i].said
                                     + read.items[i].finished,
                      DOMAIN read.items)
            = IF up.over THEN up.sent - 1 ELSE up.sent

\* A Codex upstream gives a Chat client a call when it is finished.
Given(call) ==
    route = "codexChat" =>
        \E i \in DOMAIN up.items :
            Kind(i) = "function_call" /\ CallOf(i) = call /\ up.items[i].done

\* The same for an answer a Chat client was given to its [DONE], which knows
\* commentary as text.
AnswerComplete ==
    answer.phase = "stopped" =>
        /\ answer.text = up.text + up.commentary
        /\ answer.thinking = up.thinking
        /\ \A call \in {c \in DOMAIN up.tools : Given(c)} :
              /\ call \in DOMAIN answer.tools
              /\ \/ answer.tools[call] = up.tools[call]
                 \/ up.tools[call] = 0 /\ answer.tools[call] = Full

\* Whatever deltas and snapshots an answer was told in, interleaved or held
\* back, a client that is given its end has been given all of it, once.
NothingLost == MessageComplete /\ OutputComplete /\ AnswerComplete /\ EventsPassedOn

\* The upstream has said that its answer is whole.
Stated == (up.finish # "none" \/ up.over) /\ ~up.fault

\* An Anthropic client is told of success only if the upstream's answer was not
\* cut short, and not with a tool call whose arguments are not complete.
NoFalseMessage ==
    view.reason \in {"end_turn", "tool_use"} =>
        /\ ~Truncated /\ (route \in {"native", "codexMessages"} \/ Stated)
        /\ \A call \in DOMAIN up.tools : ToolBlocks(call) # {}
              => up.tools[call] \in {0, Full}

\* The same for a Chat client.
NoFalseAnswer ==
    answer.finish \in {"stop", "tool_calls"} =>
        ~Truncated /\ (route \in {"nativeChat", "codexChat"} \/ Stated)

\* The same for the reader of a Responses stream.
NoFalseResponse ==
    read.end = "completed" =>
        /\ ~Truncated /\ Stated
        /\ \A j \in DOMAIN Made.final :
              Kind(read.final[j].item) = "function_call" => read.final[j].n = Full

\* The client is told of success only if the upstream said that it had come to
\* its end, never when it was cut short, and never with a tool call whose
\* arguments are not complete.  For an Anthropic or a Chat client, a Responses or
\* Codex upstream that just ends has come to its end.
NoFalseSuccess == NoFalseMessage /\ NoFalseAnswer /\ NoFalseResponse

\* A call of the client's shell tool.
IsAction(i) ==
    /\ Kind(i) = "function_call"
    /\ CallOf(i) \in DOMAIN up.named /\ up.named[CallOf(i)] = "shell"

\* A shell action reaches the client in one piece, with all its arguments, and
\* never from a response that failed.
OnlyWholeActions ==
    \A i \in DOMAIN read.items :
        IsAction(i) =>
            read.items[i].said = 0 /\ up.tools[CallOf(i)] = Full /\ ~up.fault

\* With a Chat or Anthropic upstream, and with a Codex upstream behind a
\* Responses client, the request's log entry says how the stream
\* ended: an error whenever the upstream failed or was cut off, success only
\* after its end was stated, "dropped" only if the client left.
OutcomeLogged ==
    route \in Heard =>
        /\ Log = "ok" => Stated
        /\ Log = "dropped" => "cut" \in {read.phase, view.phase, answer.phase}
        /\ Over /\ up.fault => Log \in {"error", "dropped"}

\* No converter reads on when what it reads has ended or failed, so a client
\* that keeps reading gets to the end of its stream.  The converter to Chat
\* reads a Responses upstream until that closes its connection.
NoReadPastEnd ==
    /\ up.closed => ~C!Reading /\ ~L!Reading /\ ~D!Reading
    /\ up.closed /\ route = "native" => ~R!Reading
    /\ route = "messages" /\ chat.gone => ~R!Reading
    /\ route = "codexMessages" /\ codex.gone => ~R!Reading
    /\ route = "claudeChat" /\ claude.gone => ~T!Reading
=============================================================================
