------------------------ MODULE StreamOutcomeProofs ------------------------
(***************************************************************************)
(* A request's log entry says how its stream ended, on the routes in Heard *)
(* (OutcomeLogged), and on every route no converter reads an upstream that *)
(* is over (NoReadPastEnd), for every value of the constants.  The proof   *)
(* has three layers:                                                       *)
(*  - what one call of a converter may do to its marks, its log entry and  *)
(*    its queue (Goes, ChatOn, ClaudeOn, Talks, UpOn: reflexive and        *)
(*    transitive, so that a handler is the composition of its calls, and a *)
(*    walk over a list is an instance of FoldReaches);                     *)
(*  - what each converter keeps by itself (AnthFine, ChatFine, ...);       *)
(*  - OutcomeInv: what it says of its upstream, two of them in a chain     *)
(*    being related through the queue between them.                        *)
(* Each action of StreamPipeline keeps OutcomeInv, one lemma per action.   *)
(***************************************************************************)
EXTENDS StreamPipeline, FiniteSetTheorems, WellFoundedInduction, TLAPS

\* Every nonempty set of natural numbers has a least element: what the instances of
\* FoldLemmas start from.
LEMMA Least == \A S \in SUBSET Nat : S # {} => \E i \in S : \A j \in S : i <= j
<1> SUFFICES ASSUME NEW S \in SUBSET Nat, S # {}
             PROVE  \E i \in S : \A j \in S : i <= j
  OBVIOUS
<1> DEFINE below == OpToRel(<, Nat)
<1>1. IsWellFoundedOn(below, Nat)
  BY NatLessThanWellFounded, Zenon
<1>2. below = {p \in Nat \X Nat : p[1] < p[2]}
  BY DEF below, OpToRel
<1> HIDE DEF below
<1>3. PICK i \in S : \A j \in S : ~(<<j, i>> \in below)
  BY <1>1, WFMin, Zenon
<1>4. \A k, m \in Nat : k < m => <<k, m>> \in below
  BY <1>2
<1>5. ASSUME NEW j \in S PROVE i <= j
  <2>1. <<j, i>> \notin below
    BY <1>3
  <2>2. ~(j < i)
    BY <1>4, <2>1
  <2> HIDE <1>1, <1>2, <1>3, <1>4
  <2> QED
    BY <2>2
<1> QED
  BY <1>5

\* The converter of a Responses stream into Anthropic's is a record of these fields.
AnthFields ==
    {"out", "started", "stopped", "failed", "ended", "gone", "log", "active",
     "nextIndex", "tools", "reasonings", "searches", "redacted", "sawTool",
     "invalid", "override", "texts", "recovered", "orderActive", "pending"}
BlockKinds == {"none", "text", "thinking", "commentary", "tool", "search"}
IsAnth(s) == DOMAIN s = AnthFields /\ s.active.kind \in BlockKinds

\* What the converter s has become in u while it worked: its marks are as they
\* were, or it has failed.
Goes(s, u) ==
    IsAnth(s) =>
        /\ IsAnth(u)
        /\ u.gone = s.gone /\ u.stopped = s.stopped /\ u.pending = s.pending
        /\ \/ u.ended = s.ended /\ u.failed = s.failed /\ u.log = s.log
           \/ u.ended = TRUE /\ u.failed = TRUE
                /\ u.log = IF s.log = "none" THEN "error" ELSE s.log

\* What the converter becomes in two calls.
LEMMA GoesOn ==
    ASSUME NEW s, NEW u, NEW w, Goes(s, u), Goes(u, w)
    PROVE  Goes(s, w)
BY DEF Goes

\* Sending an event, a delta or a stop, and failing the stream.
LEMMA GoesPush ==
    ASSUME NEW s
    PROVE  /\ Goes(s, s)
           /\ \A e : Goes(s, R!Push(s, e))
           /\ \A x : Goes(s, R!PushStop(s, x))
           /\ \A x, kind, i, n : Goes(s, R!PushDelta(s, x, kind, i, n))
           /\ Goes(s, R!StartMessage(s))
           /\ Goes(s, R!FailStream(s))
<1>1. \A e : Goes(s, R!Push(s, e))
  BY DEF Goes, IsAnth, R!Push
<1>2. \A x : Goes(s, R!PushStop(s, x))
  BY <1>1 DEF R!PushStop
<1>3. \A x, kind, i, n : Goes(s, R!PushDelta(s, x, kind, i, n))
  BY <1>1 DEF R!PushDelta
<1>4. Goes(s, R!StartMessage(s))
  BY DEF Goes, IsAnth, R!StartMessage, R!Push
<1>5. Goes(s, R!FailStream(s))
  BY DEF Goes, IsAnth, R!FailStream, R!Push, R!Log, AnthFields
<1>6. Goes(s, s)
  BY DEF Goes
<1> QED
  BY <1>1, <1>2, <1>3, <1>4, <1>5, <1>6

\* Closing the open block, a call's or a search's.
LEMMA GoesStop ==
    ASSUME NEW s
    PROVE  /\ \A i : Goes(s, R!StopTool(s, i)) /\ Goes(s, R!StopSearch(s, i))
           /\ Goes(s, R!StopActive(s))
<1>0. R!NoBlock.kind \in BlockKinds
  BY DEF R!NoBlock, BlockKinds
<1>1. ASSUME NEW u, NEW i PROVE Goes(u, R!StopTool(u, i))
  BY <1>0 DEF Goes, IsAnth, R!StopTool, R!PushStop, R!Push, AnthFields
<1>2. ASSUME NEW u, NEW i PROVE Goes(u, R!StopSearch(u, i))
  BY <1>0 DEF Goes, IsAnth, R!StopSearch, R!PushStop, R!Push, AnthFields
<1>3. ASSUME NEW u, NEW a, a.kind \in BlockKinds PROVE Goes(u, R!CloseBlock(u, a))
  <2>1. Goes(u, u)
    BY DEF Goes
  <2>2. Goes(u, R!PushStop(R!PushDelta(u, a.index, "signature", R!NoItem, 0), a.index))
    BY GoesPush, GoesOn, Zenon
  <2> QED
    BY <1>1, <1>2, <1>3, <2>1, <2>2, GoesPush DEF R!CloseBlock, BlockKinds
<1>4. Goes(s, R!StopActive(s))
  <2> DEFINE u == [s EXCEPT !.active = R!NoBlock]
  <2>1. IsAnth(s) => Goes(s, u)
    BY <1>0 DEF Goes, IsAnth, AnthFields
  <2>2. s.active.kind \in BlockKinds => Goes(u, R!CloseBlock(u, s.active))
    BY <1>3
  <2> QED
    BY <2>1, <2>2, GoesOn DEF R!StopActive, Goes, IsAnth
<1> QED
  BY <1>1, <1>2, <1>4

\* Opening a block.
LEMMA GoesOpen ==
    ASSUME NEW s, NEW kind \in BlockKinds, NEW i
    PROVE  /\ \A x : Goes(s, R!OpenBlock(s, kind, i, x))
           /\ Goes(s, R!OpenNext(s, kind, i))
<1>1. ASSUME NEW u, NEW x PROVE Goes(u, R!OpenBlock(u, kind, i, x))
  <2> DEFINE w == R!Push(R!StopActive(u), R!Block("start", x, kind, i, 0))
  <2>1. Goes(u, w)
    BY GoesStop, GoesPush, GoesOn, Zenon
  <2> HIDE DEF w
  <2> DEFINE a == [kind |-> kind, index |-> x, item |-> i]
             v == [w EXCEPT !.active = a]
  <2>2. Goes(w, v)
    <3>1. a.kind \in BlockKinds
      OBVIOUS
    <3> HIDE DEF a
    <3> QED
      BY <3>1 DEF Goes, IsAnth, AnthFields
  <2>3. Goes(u, v)
    BY <2>1, <2>2, GoesOn
  <2> QED
    BY <2>3 DEF R!OpenBlock, w
<1>2. Goes(s, [s EXCEPT !.nextIndex = @ + 1])
  BY DEF Goes, IsAnth
<1> QED
  BY <1>1, <1>2, GoesOn DEF R!OpenNext

\* Telling text, and what a snapshot has of it beyond the deltas.
LEMMA GoesText ==
    ASSUME NEW s
    PROVE  /\ \A i, n : Goes(s, R!EmitText(s, i, n)) /\ Goes(s, R!Recover(s, i, n))
           /\ \A o : Goes(s, R!MessageEnd(s, o))
<1>1. ASSUME NEW u, NEW kind \in BlockKinds PROVE Goes(u, R!EnsureText(u, kind))
  BY GoesOpen, GoesPush DEF R!EnsureText
<1>2. ASSUME NEW u, NEW i, NEW n PROVE Goes(u, R!WriteText(u, i, n))
  <2>1. \A w : Goes(w, [w EXCEPT !.texts = R!With(@, i, R!Known(u, i) + n)])
    BY DEF Goes, IsAnth
  <2> QED
    BY <2>1, GoesPush, GoesOn, Zenon DEF R!WriteText
<1>3. \A i : R!TextKind(i) \in BlockKinds
  BY DEF R!TextKind, BlockKinds
<1>4. ASSUME NEW i, NEW n PROVE Goes(s, R!EmitText(s, i, n))
  BY <1>1, <1>2, <1>3, GoesPush, GoesOn DEF R!EmitText
<1>5. ASSUME NEW i, NEW n PROVE Goes(s, R!Recover(s, i, n))
  BY <1>4, GoesPush DEF R!Recover
<1>6. ASSUME NEW o PROVE Goes(s, R!MessageEnd(s, o))
  BY <1>5, GoesPush, GoesStop, GoesOn DEF R!MessageEnd
<1> QED
  BY <1>4, <1>5, <1>6

\* Telling reasoning, signed or redacted.
LEMMA GoesReasoning ==
    ASSUME NEW s
    PROVE  /\ \A i : /\ Goes(s, R!EnsureReasoning(s, i)) /\ Goes(s, R!EmitSignature(s, i))
                     /\ Goes(s, R!StopReasoning(s, i)) /\ Goes(s, R!EmitRedacted(s, i))
           /\ \A i, n : Goes(s, R!EmitReasoning(s, i, n))
<1>0. R!NoBlock.kind \in BlockKinds /\ "thinking" \in BlockKinds
  BY DEF R!NoBlock, BlockKinds
<1>1. ASSUME NEW u, NEW i PROVE Goes(u, R!EnsureReasoningState(u, i))
  BY DEF Goes, IsAnth, R!EnsureReasoningState
<1>2. ASSUME NEW u, NEW i, NEW x PROVE Goes(u, R!ActivateReasoning(u, i, x))
  <2>1. \A w : Goes(w, [w EXCEPT !.reasonings[i].started = TRUE])
    BY DEF Goes, IsAnth
  <2>2. \A w : Goes(w, [w EXCEPT !.active = [kind |-> "thinking", index |-> x, item |-> i]])
    BY <1>0 DEF Goes, IsAnth, AnthFields
  <2>3. Goes(u, R!OpenBlock(u, "thinking", i, x)) /\ Goes(u, R!StopActive(u)) /\ Goes(u, u)
    BY <1>0, GoesOpen, GoesStop, GoesPush
  <2> QED
    BY <2>1, <2>2, <2>3, GoesOn DEF R!ActivateReasoning
<1>3. ASSUME NEW u, NEW i PROVE Goes(u, R!EnsureReasoning(u, i))
  BY <1>1, <1>2, GoesOn DEF R!EnsureReasoning, R!EnsureActive
<1>4. ASSUME NEW i, NEW n PROVE Goes(s, R!EmitReasoning(s, i, n))
  <2>1. \A w : Goes(w, R!WriteReasoning(w, i, n))
    <3>1. \A w : Goes(w, [w EXCEPT !.reasonings[i].delta = TRUE])
      BY DEF Goes, IsAnth
    <3> QED
      BY <3>1, GoesPush, GoesOn DEF R!WriteReasoning
  <2> QED
    BY <1>3, <2>1, GoesPush, GoesOn DEF R!EmitReasoning
<1>5. ASSUME NEW i PROVE Goes(s, R!EmitSignature(s, i))
  <2>1. \A w : Goes(w, R!WriteSignature(w, i))
    <3>1. \A w : Goes(w, [w EXCEPT !.reasonings[i].signature = TRUE])
      BY DEF Goes, IsAnth
    <3> QED
      BY <3>1, GoesPush, GoesOn, Zenon DEF R!WriteSignature
  <2> QED
    BY <1>3, <2>1, GoesPush, GoesOn DEF R!EmitSignature
<1>6. ASSUME NEW i PROVE Goes(s, R!StopReasoning(s, i))
  BY <1>0 DEF Goes, IsAnth, R!StopReasoning, R!PushStop, R!Push, AnthFields
<1>7. ASSUME NEW i PROVE Goes(s, R!EmitRedacted(s, i))
  <2>1. ASSUME NEW u, NEW x PROVE Goes(u, R!WriteRedacted(u, i, x))
    <3>1. \A w : Goes(w, [w EXCEPT !.nextIndex = @ + 1, !.redacted = @ \cup {i}])
      BY DEF Goes, IsAnth
    <3>2. Goes(u, R!PushStop(R!Push(u, R!Block("start", x, "redacted", i, 0)), x))
      BY GoesPush, GoesOn, Zenon
    <3> QED
      BY <3>1, <3>2, GoesOn, Zenon DEF R!WriteRedacted
  <2> QED
    BY <2>1, GoesPush, GoesStop, GoesOn DEF R!EmitRedacted
<1> QED
  BY <1>3, <1>4, <1>5, <1>6, <1>7

\* Telling a call and its arguments, which may fail the stream.
LEMMA GoesTool ==
    ASSUME NEW s
    PROVE  /\ \A i : Goes(s, R!EnsureToolState(s, i)) /\ Goes(s, R!StartTool(s, i))
           /\ \A i, n : Goes(s, R!EmitToolDelta(s, i, n)) /\ Goes(s, R!FinishTool(s, i, n))
<1>0. "tool" \in BlockKinds
  BY DEF BlockKinds
<1>1. ASSUME NEW u, NEW i PROVE Goes(u, R!EnsureToolState(u, i))
  BY DEF Goes, IsAnth, R!EnsureToolState
<1>2. ASSUME NEW u, NEW i PROVE Goes(u, R!StartTool(u, i))
  <2>1. \A w : Goes(w, [w EXCEPT !.tools[i].started = TRUE, !.sawTool = TRUE])
    BY DEF Goes, IsAnth
  <2> QED
    BY <1>0, <2>1, GoesPush, GoesOpen, GoesOn, Zenon DEF R!StartTool
<1>3. ASSUME NEW u, NEW i PROVE Goes(u, R!ActivateTool(u, i))
  <2>1. \A w, x : Goes(w, [w EXCEPT !.active = [kind |-> "tool", index |-> x, item |-> i]])
    BY <1>0 DEF Goes, IsAnth, AnthFields
  <2> QED
    BY <2>1, GoesPush, GoesStop, GoesOn DEF R!ActivateTool
<1>4. ASSUME NEW u, NEW i, NEW n PROVE Goes(u, R!AppendArguments(u, i, n))
  <2>1. ASSUME NEW w PROVE Goes(w, R!WriteTool(w, i, n))
    <3>1. Goes(w, [w EXCEPT !.tools[i].n = @ + n])
      BY DEF Goes, IsAnth
    <3> QED
      BY <3>1, GoesPush, GoesOn, Zenon DEF R!WriteTool
  <2>2. Goes(u, R!WriteTool(R!ActivateTool(R!StartTool(u, i), i), i, n))
    BY <1>2, <1>3, <2>1, GoesOn
  <2> QED
    BY <2>2, GoesPush DEF R!AppendArguments
<1>5. ASSUME NEW i, NEW n PROVE Goes(s, R!EmitToolDelta(s, i, n))
  BY <1>1, <1>4, GoesPush, GoesOn DEF R!EmitToolDelta
<1>6. ASSUME NEW i, NEW n PROVE Goes(s, R!FinishTool(s, i, n))
  <2>1. Goes(s, R!MarkDone(s, i))
    <3>1. \A w : Goes(w, [w EXCEPT !.tools[i].done = TRUE])
      BY DEF Goes, IsAnth
    <3> QED
      BY <1>1, <3>1, GoesOn DEF R!MarkDone
  <2>2. \A u : Goes(u, R!CompleteArguments(u, i, n))
    BY <1>4, GoesPush DEF R!CompleteArguments
  <2> QED
    BY <1>2, <2>1, <2>2, GoesStop, GoesOn, Zenon DEF R!FinishTool
<1> QED
  BY <1>1, <1>2, <1>5, <1>6

\* Telling a search and its result.
LEMMA GoesSearch ==
    ASSUME NEW s
    PROVE  \A i : Goes(s, R!EnsureSearch(s, i)) /\ Goes(s, R!FinishSearch(s, i))
<1>0. "search" \in BlockKinds
  BY DEF BlockKinds
<1>1. ASSUME NEW u, NEW i PROVE Goes(u, R!EnsureSearchState(u, i))
  BY DEF Goes, IsAnth, R!EnsureSearchState
<1>2. ASSUME NEW u, NEW i PROVE Goes(u, R!StartSearch(u, i))
  <2>1. \A w : Goes(w, [w EXCEPT !.searches[i].started = TRUE])
    BY DEF Goes, IsAnth
  <2> QED
    BY <1>0, <2>1, GoesPush, GoesOpen, GoesOn DEF R!StartSearch
<1>3. ASSUME NEW u, NEW i PROVE Goes(u, R!EnsureSearch(u, i))
  BY <1>1, <1>2, GoesOn DEF R!EnsureSearch
<1>4. ASSUME NEW u, NEW i PROVE Goes(u, R!EmitResult(u, i))
  <2>1. ASSUME NEW w, NEW x PROVE Goes(w, R!WriteResult(w, i, x))
    BY GoesPush, GoesStop, GoesOn, Zenon DEF R!WriteResult
  <2>2. Goes(u, [u EXCEPT !.searches[i].result = TRUE])
    BY DEF Goes, IsAnth
  <2> QED
    BY <2>1, <2>2, GoesPush, GoesOn DEF R!EmitResult
<1> QED
  BY <1>3, <1>4, GoesPush, GoesOn DEF R!FinishSearch

\* The folds of the converter's own operations, over the output of a response and over
\* the events that the tool order has released.
GoesAt(x, k, s) == Goes(x, s)
EndFold == INSTANCE FoldLemmas WITH Op <- R!MessageEnd, At <- GoesAt
ItemFold == INSTANCE FoldLemmas WITH Op <- R!OutputItem, At <- GoesAt
EventFold == INSTANCE FoldLemmas WITH Op <- R!HandleResponseEvent, At <- GoesAt

\* Handling an item that is added, ends, or stands in the final output.
LEMMA GoesItem ==
    ASSUME NEW s
    PROVE  /\ \A i : Goes(s, R!ItemAdded(s, i))
           /\ \A o : Goes(s, R!ItemEnded(s, o)) /\ Goes(s, R!OutputItem(s, o))
<1>1. ASSUME NEW i PROVE Goes(s, R!ItemAdded(s, i))
  BY GoesPush, GoesTool, GoesReasoning, GoesSearch, GoesOn, Zenon DEF R!ItemAdded
<1>2. ASSUME NEW u, NEW o PROVE Goes(u, R!ReasoningEnded(u, o))
  BY GoesReasoning, GoesOn, Zenon DEF R!ReasoningEnded
<1>3. ASSUME NEW o PROVE Goes(s, R!ItemEnded(s, o))
  BY <1>2, GoesPush, GoesTool, GoesSearch, GoesOn, Zenon DEF R!ItemEnded
<1>4. ASSUME NEW o PROVE Goes(s, R!OutputReasoning(s, o))
  <2>1. Goes(s, R!RecoverReasoning(s, o))
    BY GoesPush, GoesReasoning DEF R!RecoverReasoning
  <2> QED
    BY <1>2, <2>1, GoesReasoning, GoesOn DEF R!OutputReasoning
<1>5. ASSUME NEW o PROVE Goes(s, R!OutputItem(s, o))
  BY <1>4, GoesPush, GoesTool, GoesSearch DEF R!OutputItem
<1> QED
  BY <1>1, <1>3, <1>5

\* An event's output is a list.
IsEvent(e) == \E n \in Nat : DOMAIN e.output = 1..n

\* Every event that is handled leaves the marks or fails the stream.
LEMMA GoesHandled ==
    ASSUME NEW s, NEW e, IsEvent(e)
    PROVE  Goes(s, R!HandleResponseEvent(s, e))
<1>0. PICK n \in Nat : DOMAIN e.output = 1..n
  BY DEF IsEvent
<1>1. ASSUME NEW u PROVE Goes(u, R!MessageText(u, e))
  <2>1. Goes(u, R!FoldOver(R!MessageEnd, u, e.output))
    <3>1. GoesAt(u, 0, u)
      BY GoesPush DEF GoesAt
    <3>2. \A k \in 1..n : \A w : GoesAt(u, k - 1, w)
             => GoesAt(u, k, R!MessageEnd(w, e.output[k]))
      BY GoesText, GoesOn DEF GoesAt
    <3>3. GoesAt(u, n, EndFold!FoldOver(R!MessageEnd, u, e.output))
      BY <1>0, <3>1, <3>2, EndFold!FoldReaches, Least, Zenon DEF EndFold!Least
    <3>4. R!FoldOver(R!MessageEnd, u, e.output) = EndFold!FoldOver(R!MessageEnd, u, e.output)
      BY DEF R!FoldOver, R!MapThenFoldSet, EndFold!FoldOver, EndFold!MapThenFoldSet
    <3> QED
      BY <3>3, <3>4 DEF GoesAt
  <2>2. \A w : Goes(w, [w EXCEPT !.recovered = TRUE])
    BY DEF Goes, IsAnth
  <2> QED
    BY <2>1, <2>2, GoesText, GoesPush, GoesOn, Zenon DEF R!MessageText
<1>2. ASSUME NEW u PROVE Goes(u, R!Dispatch(u, e))
  <2>1. Goes(u, R!FoldOver(R!OutputItem, u, e.output))
    <3>1. GoesAt(u, 0, u)
      BY GoesPush DEF GoesAt
    <3>2. \A k \in 1..n : \A w : GoesAt(u, k - 1, w)
             => GoesAt(u, k, R!OutputItem(w, e.output[k]))
      BY GoesItem, GoesOn DEF GoesAt
    <3>3. GoesAt(u, n, ItemFold!FoldOver(R!OutputItem, u, e.output))
      BY <1>0, <3>1, <3>2, ItemFold!FoldReaches, Least, Zenon DEF ItemFold!Least
    <3>4. R!FoldOver(R!OutputItem, u, e.output) = ItemFold!FoldOver(R!OutputItem, u, e.output)
      BY DEF R!FoldOver, R!MapThenFoldSet, ItemFold!FoldOver, ItemFold!MapThenFoldSet
    <3> QED
      BY <3>3, <3>4 DEF GoesAt
  <2>2. \A w : Goes(w, R!Override(w, e.reason))
    BY DEF Goes, IsAnth, R!Override
  <2>3. Goes(u, R!FinishTool(R!StartMessage(u), e.of.item, e.of.n))
    BY GoesPush, GoesTool, GoesOn, Zenon
  <2> QED
    BY <2>1, <2>2, <2>3, GoesItem, GoesTool, GoesReasoning, GoesPush, GoesOn, Zenon DEF R!Dispatch
<1> QED
  BY <1>1, <1>2, GoesPush, GoesOn DEF R!HandleResponseEvent
----------------------------------------------------------------------------
(* ToolEventOrder.                                                         *)

\* A queue of events, and the tool order's record of two of them.
Events(q) == (\E S : q \in Seq(S)) /\ \A j \in 1..Len(q) : IsEvent(q[j])

OrderFields == {"active", "pending", "ready", "full"}
IsOrder(o) == DOMAIN o = OrderFields /\ Events(o.pending) /\ Events(o.ready)

\* The empty queue is a queue of events,
LEMMA EventsNone == Events(<<>>)
<1>1. <<>> \in Seq({}) /\ Len(<<>>) = 0
  OBVIOUS
<1> QED
  BY <1>1 DEF Events

\* ... a longer one,
LEMMA EventsMore ==
    ASSUME NEW q, NEW e, Events(q), IsEvent(e)
    PROVE  Events(Append(q, e))
<1>1. PICK S : q \in Seq(S)
  BY DEF Events
<1>2. Append(q, e) \in Seq(S \cup {e}) /\ Len(Append(q, e)) = Len(q) + 1
  BY <1>1
<1>3. \A j \in 1..Len(q) + 1 : Append(q, e)[j] = IF j = Len(q) + 1 THEN e ELSE q[j]
  BY <1>1
<1>4. ASSUME NEW j \in 1..Len(q) + 1 PROVE IsEvent(Append(q, e)[j])
  <2>1. j # Len(q) + 1 => j \in 1..Len(q)
    BY <1>1
  <2> QED
    BY <1>3, <2>1 DEF Events
<1> QED
  BY <1>2, <1>4 DEF Events

\* ... and one with an event taken out.
LEMMA EventsLess ==
    ASSUME NEW q, Events(q), NEW i \in 1..Len(q)
    PROVE  Events(R!Without(q, i))
<1>1. PICK S : q \in Seq(S)
  BY DEF Events
<1> DEFINE a == SubSeq(q, 1, i - 1)
           b == SubSeq(q, i + 1, Len(q))
<1>2. Len(q) \in Nat
  BY <1>1
<1>3. a \in Seq(S) /\ Len(a) = i - 1 /\ \A j \in 1..i - 1 : a[j] = q[j]
  BY <1>1, <1>2
<1>4. b \in Seq(S) /\ Len(b) = Len(q) - i /\ \A j \in 1..Len(q) - i : b[j] = q[j + i]
  BY <1>1, <1>2
<1> HIDE DEF a, b
<1>5. a \o b \in Seq(S) /\ Len(a \o b) = Len(q) - 1
  BY <1>2, <1>3, <1>4
<1>6. \A j \in 1..Len(q) - 1 : (a \o b)[j] = IF j <= i - 1 THEN a[j] ELSE b[j - (i - 1)]
  BY <1>2, <1>3, <1>4
<1>7. ASSUME NEW j \in 1..Len(q) - 1 PROVE IsEvent((a \o b)[j])
  <2>1. CASE j <= i - 1
    <3>1. (a \o b)[j] = q[j] /\ j \in 1..Len(q)
      BY <1>2, <1>3, <1>6, <2>1
    <3> QED
      BY <3>1 DEF Events
  <2>2. CASE ~(j <= i - 1)
    <3>1. j - (i - 1) \in 1..Len(q) - i /\ j - (i - 1) + i = j + 1 /\ j + 1 \in 1..Len(q)
      BY <1>2, <2>2
    <3>2. (a \o b)[j] = q[j + 1]
      BY <1>4, <1>6, <2>2, <3>1, Zenon
    <3> QED
      BY <3>1, <3>2 DEF Events
  <2> QED
    BY <2>1, <2>2, Zenon
<1>8. Events(a \o b)
  BY <1>5, <1>7 DEF Events
<1> QED
  BY <1>8 DEF R!Without, a, b

\* The folds of the tool order: its turns over the events held back, and the calls of a
\* terminal event.
OrderAt(x, k, o) == IsOrder(o)
TurnFold == INSTANCE FoldLemmas WITH Op <- R!DrainTurn, At <- OrderAt
CallFold == INSTANCE FoldLemmas WITH Op <- R!PushCall, At <- OrderAt

\* Releasing an event moves it into the ready queue.
LEMMA OrderReleases ==
    ASSUME NEW o, NEW e, IsOrder(o), IsEvent(e)
    PROVE  /\ IsOrder(R!Release(o, e))
           /\ R!Release(o, e).pending = o.pending
           /\ R!Release(o, e).full = o.full
<1>1. Events(Append(o.ready, e))
  BY EventsMore DEF IsOrder
<1> QED
  BY <1>1 DEF R!Release, IsOrder, OrderFields

\* Draining what is due, by turns or by force, keeps the queues.
LEMMA OrderDrains ==
    ASSUME NEW o, NEW force, IsOrder(o)
    PROVE  IsOrder(R!DrainTurn(o, force)) /\ IsOrder(R!Drain(o, force))
<1>1. ASSUME NEW u, IsOrder(u), NEW f PROVE IsOrder(R!DrainTurn(u, f))
  <2>1. CASE R!Due(u) # {}
    <3> DEFINE j == CHOOSE j \in R!Due(u) : \A k \in R!Due(u) : j <= k
    <3>1. R!Due(u) \subseteq 1..Len(u.pending) /\ Len(u.pending) \in Nat
      BY <1>1 DEF R!Due, IsOrder, Events
    <3>2. \E l \in R!Due(u) : \A k \in R!Due(u) : l <= k
      <4>1. R!Due(u) \subseteq Nat
        BY <3>1
      <4> QED
        BY <2>1, <4>1, Least
    <3>3. j \in 1..Len(u.pending)
      BY <3>1, <3>2
    <3> HIDE DEF j
    <3>4. IsEvent(u.pending[j]) /\ Events(R!Without(u.pending, j))
      BY <1>1, <3>3, EventsLess, Zenon DEF IsOrder, Events
    <3>5. IsOrder(R!Release(u, u.pending[j]))
            /\ R!Release(u, u.pending[j]).pending = u.pending
      BY <1>1, <3>4, OrderReleases
    <3>6. IsOrder(R!ReleaseAt(u, j))
      BY <3>4, <3>5 DEF R!ReleaseAt, IsOrder, OrderFields
    <3> QED
      BY <2>1, <3>6 DEF R!DrainTurn, j
  <2>2. CASE R!Due(u) = {}
    BY <1>1, <2>2 DEF R!DrainTurn, IsOrder, OrderFields
  <2> QED
    BY <2>1, <2>2
<1>2. IsOrder(R!Drain(o, force))
  <2> DEFINE n == 2 * Len(o.pending) + 1
             q == [j \in 1..n |-> force]
  <2>1. n \in Nat /\ DOMAIN q = 1..n
    BY DEF IsOrder, Events
  <2> HIDE DEF n, q
  <2>2. OrderAt(o, 0, o)
    BY DEF OrderAt
  <2>3. \A k \in 1..n : \A u : OrderAt(o, k - 1, u) => OrderAt(o, k, R!DrainTurn(u, q[k]))
    BY <1>1 DEF OrderAt
  <2>4. OrderAt(o, n, TurnFold!FoldOver(R!DrainTurn, o, q))
    BY <2>1, <2>2, <2>3, TurnFold!FoldReaches, Least, Zenon DEF TurnFold!Least
  <2>5. R!FoldOver(R!DrainTurn, o, q) = TurnFold!FoldOver(R!DrainTurn, o, q)
    BY DEF R!FoldOver, R!MapThenFoldSet, TurnFold!FoldOver, TurnFold!MapThenFoldSet
  <2> QED
    BY <2>4, <2>5 DEF OrderAt, R!Drain, n, q
<1> QED
  BY <1>1, <1>2

\* So does pushing an event, and the snapshots of a terminal one.
LEMMA OrderPushes ==
    ASSUME NEW o, NEW e, IsOrder(o), IsEvent(e)
    PROVE  IsOrder(R!PushOrder(o, e)) /\ IsOrder(R!PushTerminal(o, e))
<1>1. ASSUME NEW u, NEW f, IsOrder(u), IsEvent(f) PROVE IsOrder(R!PushOrder(u, f))
  <2>1. IsOrder([u EXCEPT !.full = TRUE])
    BY <1>1 DEF IsOrder, OrderFields
  <2>2. IsOrder([u EXCEPT !.pending = Append(@, f)])
    BY <1>1, EventsMore DEF IsOrder, OrderFields
  <2>3. IsOrder(R!Drain([u EXCEPT !.pending = Append(@, f)], FALSE))
    BY <2>2, OrderDrains, Zenon
  <2> QED
    BY <1>1, <2>1, <2>3, OrderReleases, Zenon DEF R!PushOrder
<1>2. ASSUME NEW u, NEW s, IsOrder(u) PROVE IsOrder(R!PushCall(u, s))
  <2>1. IsEvent(R!ItemDone(s))
    <3>1. DOMAIN R!ItemDone(s).output = 1..0
      BY DEF R!ItemDone, R!Event
    <3> QED
      BY <3>1 DEF IsEvent
  <2> QED
    BY <1>1, <1>2, <2>1 DEF R!PushCall
<1>3. IsOrder(R!FoldOver(R!PushCall, o, e.output))
  <2>1. PICK n \in Nat : DOMAIN e.output = 1..n
    BY DEF IsEvent
  <2>2. OrderAt(o, 0, o)
    BY DEF OrderAt
  <2>3. \A k \in 1..n : \A u : OrderAt(o, k - 1, u)
           => OrderAt(o, k, R!PushCall(u, e.output[k]))
    BY <1>2 DEF OrderAt
  <2>4. OrderAt(o, n, CallFold!FoldOver(R!PushCall, o, e.output))
    BY <2>1, <2>2, <2>3, CallFold!FoldReaches, Least, Zenon DEF CallFold!Least
  <2>5. R!FoldOver(R!PushCall, o, e.output) = CallFold!FoldOver(R!PushCall, o, e.output)
    BY DEF R!FoldOver, R!MapThenFoldSet, CallFold!FoldOver, CallFold!MapThenFoldSet
  <2> QED
    BY <2>4, <2>5 DEF OrderAt
<1>4. IsOrder(R!PushTerminal(o, e))
  BY <1>3, OrderDrains, OrderReleases, Zenon DEF R!PushTerminal
<1> QED
  BY <1>1, <1>4

----------------------------------------------------------------------------
(* The Anthropic converter's steps.                                        *)

\* The converter with what it holds back; a failed stream has ended.
AnthGood(s) == IsAnth(s) /\ Events(s.pending) /\ (s.failed => s.ended)

\* Handling what the tool order has released leaves the marks or fails the stream.
LEMMA AnthHandlesReady ==
    ASSUME NEW s, NEW o, AnthGood(s), IsOrder(o)
    PROVE  LET u == R!HandleReady(s, o) IN
           /\ AnthGood(u) /\ u.gone = s.gone /\ u.stopped = s.stopped
           /\ \/ u.ended = s.ended /\ u.failed = s.failed /\ u.log = s.log
              \/ u.ended = TRUE /\ u.failed = TRUE
                   /\ u.log = IF s.log = "none" THEN "error" ELSE s.log
<1> DEFINE w == [s EXCEPT !.orderActive = o.active, !.pending = o.pending]
<1>1. /\ AnthGood(w) /\ w.gone = s.gone /\ w.stopped = s.stopped
      /\ w.ended = s.ended /\ w.failed = s.failed /\ w.log = s.log
  BY DEF AnthGood, IsAnth, AnthFields, IsOrder
<1> HIDE DEF w
<1> DEFINE n == Len(o.ready)
<1>2. n \in Nat /\ DOMAIN o.ready = 1..n /\ \A k \in 1..n : IsEvent(o.ready[k])
  BY DEF IsOrder, Events
<1>3. GoesAt(w, 0, w)
  BY GoesPush DEF GoesAt
<1>4. \A k \in 1..n : \A u : GoesAt(w, k - 1, u)
         => GoesAt(w, k, R!HandleResponseEvent(u, o.ready[k]))
  BY <1>2, GoesHandled, GoesOn DEF GoesAt
<1> HIDE DEF n
<1>5. GoesAt(w, n, EventFold!FoldOver(R!HandleResponseEvent, w, o.ready))
  BY <1>2, <1>3, <1>4, EventFold!FoldReaches, Least, Zenon DEF EventFold!Least
<1>6. R!FoldOver(R!HandleResponseEvent, w, o.ready)
        = EventFold!FoldOver(R!HandleResponseEvent, w, o.ready)
  BY DEF R!FoldOver, R!MapThenFoldSet, EventFold!FoldOver, EventFold!MapThenFoldSet
<1>7. Goes(w, R!HandleReady(s, o))
  BY <1>5, <1>6 DEF GoesAt, R!HandleReady, w
<1> QED
  BY <1>1, <1>7 DEF Goes, AnthGood

\* So does handling all that is held back, at the end.
LEMMA AnthFlushes ==
    ASSUME NEW s, AnthGood(s)
    PROVE  LET u == R!Flush(s) IN
           /\ AnthGood(u) /\ u.gone = s.gone /\ u.stopped = s.stopped
           /\ \/ u.ended = s.ended /\ u.failed = s.failed /\ u.log = s.log
              \/ u.ended = TRUE /\ u.failed = TRUE
                   /\ u.log = IF s.log = "none" THEN "error" ELSE s.log
<1>1. IsOrder(R!Order(s))
  BY EventsNone DEF IsOrder, OrderFields, R!Order, AnthGood
<1>2. IsOrder(R!Drain(R!Order(s), TRUE))
  BY <1>1, OrderDrains, Zenon
<1> QED
  BY <1>2, AnthHandlesReady, Zenon DEF R!Flush

\* The end of the message marks it as stopped, or a cut argument fails it.
LEMMA AnthFinishes ==
    ASSUME NEW s, AnthGood(s)
    PROVE  LET u == R!FinishMessage(s) IN
           /\ AnthGood(u) /\ u.gone = s.gone
           /\ u.stopped = s.stopped \/ u.stopped = TRUE
           /\ \/ u.ended = s.ended /\ u.failed = s.failed /\ u.log = s.log
              \/ u.ended = TRUE /\ u.failed = TRUE
                   /\ u.log = IF s.log = "none" THEN "error" ELSE s.log
<1> DEFINE w == R!StopActive(R!StartMessage(s))
<1>1. Goes(s, w)
  BY GoesPush, GoesStop, GoesOn
<1> HIDE DEF w
<1>2. CASE s.stopped \/ s.failed
  BY <1>2 DEF R!FinishMessage
<1>3. CASE ~(s.stopped \/ s.failed)
  <2>1. R!FinishMessage(s) = R!EndMessage(w)
    BY <1>3 DEF R!FinishMessage, w
  <2>2. /\ AnthGood(w) /\ w.gone = s.gone
        /\ \/ w.ended = s.ended /\ w.failed = s.failed /\ w.log = s.log
           \/ w.ended = TRUE /\ w.failed = TRUE
                /\ w.log = IF s.log = "none" THEN "error" ELSE s.log
    BY <1>1 DEF Goes, AnthGood
  <2> QED
    BY <2>1, <2>2 DEF R!EndMessage, AnthGood, IsAnth, AnthFields
<1> QED
  BY <1>2, <1>3, Zenon

\* What becomes of the converter's marks when it is given an event.
LEMMA AnthReceives ==
    ASSUME NEW s, NEW e, AnthGood(s), IsEvent(e)
    PROVE  LET u == R!HandleEvent(s, e) IN
           /\ AnthGood(u) /\ u.gone = s.gone
           /\ u.stopped = s.stopped \/ e.type = "[DONE]"
           /\ \/ u.ended = s.ended /\ u.log = s.log
              \/ u.ended = TRUE /\ u.log = IF s.log = "none" THEN "error" ELSE s.log
           /\ e.type = "failed" /\ ~s.stopped /\ ~s.failed => u.ended /\ u.log # "none"
<1>1. CASE s.stopped \/ s.failed
  BY <1>1 DEF R!HandleEvent
<1>2. CASE ~(s.stopped \/ s.failed) /\ e.type = "[DONE]"
  <2>1. R!HandleEvent(s, e) = R!FinishMessage(R!Flush(s))
    BY <1>2 DEF R!HandleEvent
  <2> DEFINE f == R!Flush(s)
             u == R!FinishMessage(f)
  <2>2. /\ AnthGood(f) /\ f.gone = s.gone
        /\ \/ f.ended = s.ended /\ f.log = s.log
           \/ f.ended = TRUE /\ f.log = IF s.log = "none" THEN "error" ELSE s.log
    BY AnthFlushes, Zenon
  <2> HIDE DEF f
  <2>3. /\ AnthGood(u) /\ u.gone = f.gone
        /\ \/ u.ended = f.ended /\ u.log = f.log
           \/ u.ended = TRUE /\ u.log = IF f.log = "none" THEN "error" ELSE f.log
    BY <2>2, AnthFinishes, Zenon
  <2> HIDE DEF u
  <2>4. R!HandleEvent(s, e) = u
    BY <2>1 DEF f, u
  <2> QED
    BY <1>2, <2>2, <2>3, <2>4
<1>3. CASE ~(s.stopped \/ s.failed) /\ e.type = "failed"
  <2>1. R!HandleEvent(s, e) = R!FailStream(s)
    BY <1>3 DEF R!HandleEvent
  <2> QED
    BY <1>3, <2>1 DEF R!FailStream, R!Push, R!Log, AnthGood, IsAnth, AnthFields
<1>4. CASE ~(s.stopped \/ s.failed) /\ e.type # "[DONE]" /\ e.type # "failed"
  <2>1. R!HandleEvent(s, e) = R!HandleOrdered(s, R!Ordered(s, e))
    BY <1>4 DEF R!HandleEvent
  <2>2. IsOrder(R!Order(s))
    BY EventsNone DEF IsOrder, OrderFields, R!Order, AnthGood
  <2>3. IsOrder(R!Ordered(s, e))
    BY <2>2, OrderPushes DEF R!Ordered
  <2>4. CASE R!Ordered(s, e).full
    <3>1. R!HandleEvent(s, e) = R!FailStream(s)
      BY <2>1, <2>4 DEF R!HandleOrdered
    <3> DEFINE u == R!FailStream(s)
    <3>2. Goes(s, u)
      BY GoesPush
    <3> HIDE DEF u
    <3>3. /\ AnthGood(u) /\ u.gone = s.gone /\ u.stopped = s.stopped
          /\ \/ u.ended = s.ended /\ u.log = s.log
             \/ u.ended = TRUE /\ u.log = IF s.log = "none" THEN "error" ELSE s.log
      BY <3>2 DEF Goes, AnthGood
    <3>4. R!HandleEvent(s, e) = u
      BY <3>1 DEF u
    <3> QED
      BY <1>4, <3>3, <3>4
  <2>5. CASE ~R!Ordered(s, e).full
    <3>1. R!HandleEvent(s, e) = R!HandleReady(s, R!Ordered(s, e))
      BY <2>1, <2>5 DEF R!HandleOrdered
    <3> DEFINE u == R!HandleReady(s, R!Ordered(s, e))
    <3>2. /\ AnthGood(u) /\ u.gone = s.gone /\ u.stopped = s.stopped
          /\ \/ u.ended = s.ended /\ u.log = s.log
             \/ u.ended = TRUE /\ u.log = IF s.log = "none" THEN "error" ELSE s.log
      BY <2>3, AnthHandlesReady, Zenon
    <3> HIDE DEF u
    <3>3. R!HandleEvent(s, e) = u
      BY <3>1 DEF u
    <3> QED
      BY <1>4, <3>2, <3>3
  <2> QED
    BY <2>4, <2>5, Zenon
<1> QED
  BY <1>1, <1>2, <1>3, <1>4, Zenon

\* Or told that there is nothing more.
LEMMA AnthEnds ==
    ASSUME NEW s, AnthGood(s)
    PROVE  LET u == R!CloseIfEmpty(R!FinishMessage(R!Flush([s EXCEPT !.ended = TRUE]))) IN
           /\ AnthGood(u) /\ u.ended
           /\ u.gone = s.gone \/ (u.gone = TRUE /\ u.out = <<>> /\ u.log # "none")
           /\ u.log \in {s.log, "ok", "error"} /\ (s.log # "none" => u.log = s.log)
<1> DEFINE w == [s EXCEPT !.ended = TRUE]
           v == R!FinishMessage(R!Flush(w))
<1>1. AnthGood(w) /\ w.ended /\ w.gone = s.gone /\ w.log = s.log
  BY DEF AnthGood, IsAnth, AnthFields
<1> HIDE DEF w
<1>2. /\ AnthGood(v) /\ v.gone = s.gone /\ v.ended
      /\ v.log \in {s.log, "error"} /\ (s.log # "none" => v.log = s.log)
  BY <1>1, AnthFlushes, AnthFinishes, Zenon
<1> HIDE DEF v
<1>3. AnthGood(R!GoneAnth(R!Log(v, "ok").log))
  BY EventsNone DEF R!GoneAnth, R!NewAnth, R!NoBlock, AnthGood, IsAnth, AnthFields, BlockKinds
<1>4. LET u == R!CloseIfEmpty(v) IN
           /\ AnthGood(u) /\ u.ended
           /\ u.gone = s.gone \/ (u.gone = TRUE /\ u.out = <<>> /\ u.log # "none")
           /\ u.log \in {s.log, "ok", "error"} /\ (s.log # "none" => u.log = s.log)
  <2>1. CASE v.out = <<>>
    <3>1. R!CloseIfEmpty(v) = R!GoneAnth(R!Log(v, "ok").log)
      BY <2>1 DEF R!CloseIfEmpty
    <3>2. R!Log(v, "ok").log = IF v.log = "none" THEN "ok" ELSE v.log
      BY <1>2 DEF R!Log, AnthGood, IsAnth, AnthFields
    <3>3. \A x : /\ R!GoneAnth(x).log = x /\ R!GoneAnth(x).gone = TRUE
                 /\ R!GoneAnth(x).out = <<>>
                 /\ R!GoneAnth(x).ended = TRUE
      BY DEF R!GoneAnth, R!NewAnth
    <3> QED
      BY <1>2, <1>3, <3>1, <3>2, <3>3
  <2>2. CASE v.out # <<>>
    BY <1>2, <2>2 DEF R!CloseIfEmpty
  <2> QED
    BY <2>1, <2>2, Zenon
<1> QED
  BY <1>4 DEF v, w

----------------------------------------------------------------------------
(* The queues of a Responses stream.                                       *)

\* Nothing in q ends the stream or says that it failed.
Clean(q) == Events(q) /\ \A j \in 1..Len(q) : q[j].type \notin {"[DONE]", "failed"}

\* The reader of q will hear that it failed before it hears [DONE].
FailureAhead(q) ==
    \E j \in 1..Len(q) :
        q[j].type = "failed" /\ \A k \in 1..j - 1 : q[k].type # "[DONE]"

\* The empty queue is clean.
LEMMA CleanNone == Clean(<<>>)
<1>1. Len(<<>>) = 0 /\ 1..0 = {}
  OBVIOUS
<1> QED
  BY <1>1, EventsNone DEF Clean

\* A clean queue stays so with events that are neither [DONE] nor failures.
LEMMA CleanMore ==
    ASSUME NEW q, NEW e, Clean(q), IsEvent(e), e.type \notin {"[DONE]", "failed"}
    PROVE  Clean(Append(q, e))
<1>1. PICK S : q \in Seq(S)
  BY DEF Clean, Events
<1>2. Len(Append(q, e)) = Len(q) + 1 /\ Len(q) \in Nat
  BY <1>1
<1>3. \A j \in 1..Len(q) + 1 : Append(q, e)[j] = IF j = Len(q) + 1 THEN e ELSE q[j]
  BY <1>1
<1>4. ASSUME NEW j \in 1..Len(q) + 1 PROVE Append(q, e)[j].type \notin {"[DONE]", "failed"}
  <2>1. j # Len(q) + 1 => j \in 1..Len(q)
    BY <1>2
  <2> QED
    BY <1>3, <2>1 DEF Clean
<1> QED
  BY <1>2, <1>4, EventsMore DEF Clean

\* The last event and [DONE] behind a clean queue: a failure is heard before [DONE].
LEMMA CleanLast ==
    ASSUME NEW q, NEW e, Clean(q), IsEvent(e)
    PROVE  /\ Events(q \o <<e, DoneMark>>) /\ q \o <<e, DoneMark>> # <<>>
           /\ e.type = "failed" => FailureAhead(q \o <<e, DoneMark>>)
<1> DEFINE z == q \o <<e, DoneMark>>
           m == Len(q)
<1>1. PICK S : q \in Seq(S)
  BY DEF Clean, Events
<1>2. m \in Nat
  BY <1>1
<1>3. /\ z \in Seq(S \cup {e, DoneMark}) /\ Len(z) = m + 2
      /\ \A j \in 1..m : z[j] = q[j]
      /\ z[m + 1] = e /\ z[m + 2] = DoneMark
  BY <1>1, <1>2
<1>4. IsEvent(DoneMark)
  <2>1. DOMAIN DoneMark.output = 1..0
    BY DEF DoneMark, Event
  <2> QED
    BY <2>1 DEF IsEvent
<1> HIDE DEF z, m
<1>5. ASSUME NEW j \in 1..m + 2 PROVE IsEvent(z[j])
  <2>1. j \in 1..m \/ j = m + 1 \/ j = m + 2
    BY <1>2
  <2>2. j \in 1..m => IsEvent(q[j])
    BY DEF Clean, Events, m
  <2> QED
    BY <1>3, <1>4, <2>1, <2>2
<1>6. Events(z)
  BY <1>3, <1>5 DEF Events
<1>7. z # <<>>
  BY <1>2, <1>3
<1>8. e.type = "failed" => FailureAhead(z)
  <2>1. m + 1 \in 1..Len(z) /\ (m + 1) - 1 = m
    BY <1>2, <1>3
  <2>2. \A k \in 1..m : z[k].type # "[DONE]"
    BY <1>3 DEF Clean, m
  <2> QED
    BY <1>3, <2>1, <2>2 DEF FailureAhead
<1> QED
  BY <1>6, <1>7, <1>8 DEF z

\* Clean queues one after the other.
LEMMA CleanBoth ==
    ASSUME NEW p, NEW q, Clean(p), Clean(q)
    PROVE  Clean(p \o q)
<1>1. PICK S : p \in Seq(S)
  BY DEF Clean, Events
<1>2. PICK U : q \in Seq(U)
  BY DEF Clean, Events
<1> DEFINE z == p \o q
           m == Len(p)
           n == Len(q)
<1>3. m \in Nat /\ n \in Nat /\ p \in Seq(S \cup U) /\ q \in Seq(S \cup U)
  BY <1>1, <1>2
<1>4. z \in Seq(S \cup U) /\ Len(z) = m + n
  BY <1>3
<1>5. \A j \in 1..m + n : z[j] = IF j <= m THEN p[j] ELSE q[j - m]
  BY <1>3
<1> HIDE DEF z, m, n
<1>6. ASSUME NEW j \in 1..m + n
      PROVE  IsEvent(z[j]) /\ z[j].type \notin {"[DONE]", "failed"}
  <2>1. CASE j <= m
    <3>1. j \in 1..m /\ z[j] = p[j]
      BY <1>3, <1>5, <2>1
    <3> QED
      BY <3>1 DEF Clean, Events, m
  <2>2. CASE ~(j <= m)
    <3>1. j - m \in 1..n /\ z[j] = q[j - m]
      BY <1>3, <1>5, <2>2
    <3> QED
      BY <3>1 DEF Clean, Events, n
  <2> QED
    BY <2>1, <2>2
<1>7. Clean(z)
  BY <1>4, <1>6 DEF Clean, Events
<1> QED
  BY <1>7 DEF z

\* The queue after its first event was taken.
LEMMA EventsNext ==
    ASSUME NEW q, Events(q), q # <<>>
    PROVE  /\ IsEvent(Head(q)) /\ Events(Tail(q))
           /\ Clean(q) => Clean(Tail(q)) /\ Head(q).type \notin {"[DONE]", "failed"}
           /\ FailureAhead(q) => \/ Head(q).type = "failed"
                                 \/ Head(q).type # "[DONE]" /\ FailureAhead(Tail(q))
<1>1. PICK S : q \in Seq(S)
  BY DEF Events
<1> DEFINE z == Tail(q)
<1>2. Len(q) \in Nat \ {0} /\ Head(q) = q[1] /\ 1 \in 1..Len(q)
  BY <1>1
<1>3. z \in Seq(S) /\ Len(z) = Len(q) - 1 /\ \A j \in 1..Len(q) - 1 : z[j] = q[j + 1]
  BY <1>1, <1>2
<1> HIDE DEF z
<1>4. \A j \in 1..Len(q) - 1 : j + 1 \in 1..Len(q)
  BY <1>2
<1>5. IsEvent(Head(q)) /\ Events(z)
  BY <1>2, <1>3, <1>4, Zenon DEF Events
<1>6. Clean(q) => Clean(z) /\ Head(q).type \notin {"[DONE]", "failed"}
  BY <1>2, <1>3, <1>4, <1>5 DEF Clean
<1>7. ASSUME FailureAhead(q), Head(q).type # "failed"
      PROVE  Head(q).type # "[DONE]" /\ FailureAhead(z)
  <2>1. PICK j \in 1..Len(q) :
            q[j].type = "failed" /\ \A k \in 1..j - 1 : q[k].type # "[DONE]"
    BY <1>7 DEF FailureAhead
  <2>2. j # 1
    BY <1>2, <1>7, <2>1
  <2>3. j - 1 \in 1..Len(q) - 1 /\ 1 \in 1..j - 1 /\ (j - 1) + 1 = j
    BY <1>2, <2>2
  <2>4. z[j - 1].type = "failed"
    BY <1>3, <2>1, <2>3
  <2>5. ASSUME NEW k \in 1..(j - 1) - 1 PROVE z[k].type # "[DONE]"
    <3>1. k \in 1..Len(q) - 1 /\ k + 1 \in 1..j - 1
      BY <1>2, <2>2
    <3> QED
      BY <1>3, <2>1, <3>1
  <2>6. FailureAhead(z)
    BY <1>3, <2>3, <2>4, <2>5 DEF FailureAhead
  <2> QED
    BY <1>2, <2>1, <2>3, <2>6
<1> QED
  BY <1>5, <1>6, <1>7 DEF z

\* Nobody is told by an empty queue.
LEMMA FailureAhead0 == ~FailureAhead(<<>>)
<1>1. Len(<<>>) = 0 /\ 1..0 = {}
  OBVIOUS
<1> QED
  BY <1>1 DEF FailureAhead

\* The values of a function with finitely many arguments are finitely many.
LEMMA FiniteImage ==
    ASSUME NEW f, IsFiniteSet(DOMAIN f)
    PROVE  IsFiniteSet({f[x] : x \in DOMAIN f})
<1> DEFINE image == {f[x] : x \in DOMAIN f}
           g == [x \in DOMAIN f |-> f[x]]
<1>1. g \in Surjection(DOMAIN f, image)
  BY DEF Surjection
<1> QED
  BY <1>1, FS_Surjection

----------------------------------------------------------------------------
(* The converter of a Chat upstream.                                       *)

\* An event of an answer under way, as the converters make them.
CleanEvent(e) == IsEvent(e) /\ e.type \notin {"[DONE]", "failed"}

\* An event without snapshots has a list of them.
LEMMA PlainEvent ==
    ASSUME NEW type, NEW s
    PROVE  IsEvent(Event(type, s)) /\ Event(type, s).type = type
<1>1. DOMAIN Event(type, s).output = 1..0
  BY DEF Event
<1>2. IsEvent(Event(type, s))
  BY <1>1 DEF IsEvent
<1> QED
  BY <1>2 DEF Event

\* Queues of one and of two such events.
LEMMA CleanShort ==
    /\ \A e : CleanEvent(e) => Clean(<<e>>)
    /\ \A e, f : CleanEvent(e) /\ CleanEvent(f) => Clean(<<e, f>>)
<1>1. ASSUME NEW e, CleanEvent(e) PROVE Clean(<<e>>)
  <2>1. Clean(Append(<<>>, e))
    BY <1>1, CleanNone, CleanMore, Zenon DEF CleanEvent
  <2>2. Append(<<>>, e) = <<e>>
    OBVIOUS
  <2> QED
    BY <2>1, <2>2
<1>2. ASSUME NEW e, NEW f, CleanEvent(e), CleanEvent(f) PROVE Clean(<<e, f>>)
  <2> DEFINE q == <<e, f>>
  <2>1. q \in Seq({e, f}) /\ Len(q) = 2 /\ q[1] = e /\ q[2] = f
    OBVIOUS
  <2> HIDE DEF q
  <2>2. ASSUME NEW j \in 1..2 PROVE CleanEvent(q[j])
    <3>1. j = 1 \/ j = 2
      OBVIOUS
    <3> QED
      BY <1>2, <2>1, <3>1
  <2>3. Clean(q)
    BY <2>1, <2>2 DEF Clean, Events, CleanEvent
  <2> QED
    BY <2>3 DEF q
<1> QED
  BY <1>1, <1>2

\* The converter of a Chat upstream is a record of these fields; until it ends, its queue
\* is clean.
ChatFields == {"out", "nextIndex", "reasoning", "completed", "message", "calls",
               "finish", "sentDone", "ended", "gone", "log"}
ChatWorking(c) == DOMAIN c = ChatFields /\ Clean(c.out) /\ IsFiniteSet(c.completed)

\* c has worked on a part of the upstream's answer and is now d.
ChatOn(c, d) ==
    ChatWorking(c) =>
        /\ ChatWorking(d)
        /\ d.finish = c.finish /\ d.sentDone = c.sentDone /\ d.ended = c.ended
        /\ d.gone = c.gone /\ d.log = c.log

\* What it becomes in two calls.
LEMMA ChatOnOn ==
    ASSUME NEW b, NEW c, NEW d, ChatOn(b, c), ChatOn(c, d)
    PROVE  ChatOn(b, d)
BY DEF ChatOn

\* Telling an event of the answer.
LEMMA ChatPushes ==
    ASSUME NEW c
    PROVE  /\ ChatOn(c, c)
           /\ \A e : CleanEvent(e) => ChatOn(c, C!Push(c, e))
           /\ \A i : ChatOn(c, C!Push(c, C!Added(i)))
           /\ \A i, n : /\ ChatOn(c, C!Push(c, C!ReasoningDelta(i, n)))
                        /\ ChatOn(c, C!Push(c, C!TextDelta(i, n)))
                        /\ ChatOn(c, C!Push(c, C!ArgsDelta(i, n)))
           /\ \A s : ChatOn(c, C!Push(c, C!ItemDone(s)))
<1>1. ASSUME NEW e, CleanEvent(e) PROVE ChatOn(c, C!Push(c, e))
  <2>1. Clean(c.out) => Clean(Append(c.out, e))
    BY <1>1, CleanMore DEF CleanEvent
  <2> QED
    BY <2>1 DEF ChatOn, ChatWorking, ChatFields, C!Push
<1>2. /\ \A i : CleanEvent(C!Added(i))
      /\ \A i, n : /\ CleanEvent(C!ReasoningDelta(i, n)) /\ CleanEvent(C!TextDelta(i, n))
                   /\ CleanEvent(C!ArgsDelta(i, n))
      /\ \A s : CleanEvent(C!ItemDone(s))
  BY PlainEvent DEF CleanEvent, Event, C!Event, C!Added, C!ReasoningDelta, C!TextDelta,
                    C!ArgsDelta, C!ItemDone, C!Delta
<1> QED
  BY <1>1, <1>2 DEF ChatOn

\* Taking a part of a chunk: reasoning, text, redacted reasoning or audio.
LEMMA ChatWrites ==
    ASSUME NEW c
    PROVE  /\ \A n : ChatOn(c, C!ReasoningPart(c, n)) /\ ChatOn(c, C!TextPart(c, n))
           /\ \A sig : ChatOn(c, C!RedactedPart(c, sig))
           /\ ChatOn(c, C!AudioPart(c))
           /\ ChatOn(c, C!CloseReasoning(c))
<1>1. ASSUME NEW u PROVE ChatOn(u, C!Allot(u))
  BY DEF ChatOn, ChatWorking, C!Allot
<1>2. ASSUME NEW u PROVE ChatOn(u, C!EnsureReasoning(u))
  <2>1. ASSUME NEW i PROVE ChatOn(u, C!OpenReasoning(u, i))
    <3>1. \A w, s : ChatOn(w, [w EXCEPT !.reasoning = s])
      BY DEF ChatOn, ChatWorking
    <3> QED
      BY <1>1, <3>1, ChatPushes, ChatOnOn, Zenon DEF C!OpenReasoning
  <2> QED
    BY <2>1, ChatPushes DEF C!EnsureReasoning
<1>3. ASSUME NEW u PROVE ChatOn(u, C!EnsureMessage(u))
  <2>1. ASSUME NEW i PROVE ChatOn(u, C!OpenMessage(u, i))
    <3>1. \A w, s : ChatOn(w, [w EXCEPT !.message = s])
      BY DEF ChatOn, ChatWorking
    <3> QED
      BY <1>1, <3>1, ChatPushes, ChatOnOn, Zenon DEF C!OpenMessage
  <2> QED
    BY <2>1, ChatPushes DEF C!EnsureMessage
<1>4. ASSUME NEW u PROVE ChatOn(u, C!CloseReasoning(u))
  <2> DEFINE w == C!Push(u, C!ItemDone(u.reasoning))
             v == [w EXCEPT !.completed = @ \cup {u.reasoning}, !.reasoning = C!NoSnapshot]
  <2>1. ChatOn(u, w)
    BY ChatPushes
  <2> HIDE DEF w
  <2>2. ChatWorking(w) => IsFiniteSet(w.completed \cup {u.reasoning})
    BY FS_AddElement DEF ChatWorking
  <2>3. ChatOn(w, v)
    BY <2>2 DEF ChatOn, ChatWorking, ChatFields
  <2>4. ChatOn(u, v)
    BY <2>1, <2>3, ChatOnOn
  <2> QED
    BY <2>4, ChatPushes DEF C!CloseReasoning, w
<1>5. ASSUME NEW n PROVE ChatOn(c, C!ReasoningPart(c, n))
  <2>1. ASSUME NEW u PROVE ChatOn(u, C!WriteReasoning(u, n))
    <3>1. \A w : ChatOn(w, [w EXCEPT !.reasoning.n = @ + n])
      BY DEF ChatOn, ChatWorking
    <3> QED
      BY <3>1, ChatPushes, ChatOnOn, Zenon DEF C!WriteReasoning
  <2> QED
    BY <1>2, <2>1, ChatOnOn DEF C!ReasoningPart
<1>6. ASSUME NEW n PROVE ChatOn(c, C!TextPart(c, n))
  <2>1. ASSUME NEW u PROVE ChatOn(u, C!WriteText(u, n))
    <3>1. \A w : ChatOn(w, [w EXCEPT !.message.n = @ + n])
      BY DEF ChatOn, ChatWorking
    <3> QED
      BY <3>1, ChatPushes, ChatOnOn, Zenon DEF C!WriteText
  <2>2. ChatOn(c, IF n = 0 THEN c ELSE C!CloseReasoning(c))
    BY <1>4, ChatPushes
  <2> QED
    BY <1>3, <2>1, <2>2, ChatOnOn DEF C!TextPart
<1>7. ASSUME NEW sig PROVE ChatOn(c, C!RedactedPart(c, sig))
  <2>1. \A w : ChatOn(w, [w EXCEPT !.reasoning.sig = sig])
    BY DEF ChatOn, ChatWorking
  <2> QED
    BY <1>2, <2>1, ChatOnOn DEF C!RedactedPart
<1>8. ChatOn(c, C!AudioPart(c))
  BY <1>3, <1>4, ChatOnOn DEF C!AudioPart
<1> QED
  BY <1>4, <1>5, <1>6, <1>7, <1>8

\* Taking a part of a tool call, and telling the call once it can be.
LEMMA ChatCalls ==
    ASSUME NEW c
    PROVE  /\ \A k, hasId, name, n : ChatOn(c, C!ToolPart(c, k, hasId, name, n))
           /\ \A k, terminal : ChatOn(c, C!EmitIfReady(c, k, terminal))
<1>1. ASSUME NEW u, NEW k, NEW hasId, NEW name PROVE ChatOn(u, C!EnsureCall(u, k, hasId, name))
  <2>1. ChatOn(u, C!Allot(u))
    BY DEF ChatOn, ChatWorking, C!Allot
  <2>2. \A w, x : ChatOn(w, [w EXCEPT !.calls[k] = x])
    BY DEF ChatOn, ChatWorking
  <2>3. \A w, x, y : ChatOn(w, [w EXCEPT !.calls[k].hasId = x, !.calls[k].name = y])
    BY DEF ChatOn, ChatWorking
  <2> QED
    BY <2>1, <2>2, <2>3, ChatOnOn, Zenon DEF C!EnsureCall
<1>2. ASSUME NEW u, NEW k, NEW terminal PROVE ChatOn(u, C!EmitIfReady(u, k, terminal))
  <2>1. ASSUME NEW w, NEW call PROVE ChatOn(w, C!AddArguments(w, call))
    BY ChatPushes DEF C!AddArguments
  <2>2. ChatOn(u, C!AddCall(u, k))
    <3>1. \A w, x : ChatOn(w, [w EXCEPT !.calls[k].added = TRUE, !.calls[k].name = x])
      BY DEF ChatOn, ChatWorking
    <3> DEFINE w == C!Push(u, C!Added(u.calls[k].item))
               v == [w EXCEPT !.calls[k].added = TRUE,
                              !.calls[k].name = IF @ = "" THEN "tool" ELSE @]
    <3>2. ChatOn(u, w)
      BY ChatPushes
    <3> HIDE DEF w
    <3>3. ChatOn(w, v)
      BY DEF ChatOn, ChatWorking
    <3>4. ChatOn(u, v)
      BY <3>2, <3>3, ChatOnOn
    <3> QED
      BY <3>4 DEF C!AddCall, w
  <2> QED
    BY <2>1, <2>2, ChatPushes, ChatOnOn DEF C!EmitIfReady
<1>3. ASSUME NEW u, NEW k, NEW n PROVE ChatOn(u, C!WriteCall(u, k, n))
  <2>1. \A w : ChatOn(w, [w EXCEPT !.calls[k].n = @ + n])
    BY DEF ChatOn, ChatWorking
  <2> QED
    BY <1>2, <2>1, ChatPushes, ChatOnOn, Zenon DEF C!WriteCall
<1>4. ASSUME NEW k, NEW hasId, NEW name, NEW n
      PROVE  ChatOn(c, C!ToolPart(c, k, hasId, name, n))
  BY <1>1, <1>3, ChatWrites, ChatOnOn DEF C!ToolPart
<1> QED
  BY <1>2, <1>4

\* The folds over the calls to publish and over the items left to finish.
ChatAt(x, k, c) == ChatOn(x, c)
PublishFold == INSTANCE FoldLemmas WITH Op <- C!Publish, At <- ChatAt
ChatFinishFold == INSTANCE FoldLemmas WITH Op <- C!FinishItem, At <- ChatAt

\* A list, whatever its elements.
IsList(q) == \E n \in Nat : DOMAIN q = 1..n

\* c has ended its stream with the event last and is now d.
ChatEnded(c, last, d) ==
    /\ DOMAIN d = ChatFields /\ IsFiniteSet(d.completed)
    /\ Events(d.out) /\ d.out # <<>> /\ d.sentDone = TRUE
    /\ (last.type = "failed" => FailureAhead(d.out))
    /\ d.finish = c.finish /\ d.ended = c.ended /\ d.gone = c.gone /\ d.log = c.log

\* The last events of a response.
LEMMA ChatEnding ==
    ASSUME NEW c, NEW calls, NEW output, NEW last, IsFiniteSet(calls), IsList(output),
           DOMAIN last = {"type", "of", "output", "reason"},
           ChatWorking(c)
    PROVE  ChatEnded(c, last, C!Ending(C!EmitAll(c, calls), output, last))
<1>0. PICK n \in Nat : DOMAIN output = 1..n
  BY DEF IsList
<1> DEFINE f == C!EmitAll(c, calls)
           g == C!FoldOver(C!FinishItem, f, output)
           e == [last EXCEPT !.output = output]
<1>1. ChatOn(c, f)
  <2>0. PICK m \in Nat : DOMAIN C!ByRank(calls, LAMBDA k : k) = 1..m
    BY FS_CardinalityType, Zenon DEF C!ByRank, C!Cardinality, Cardinality
  <2> DEFINE q == C!ByRank(calls, LAMBDA k : k)
  <2>1. DOMAIN q = 1..m
    BY <2>0
  <2> HIDE DEF q
  <2>2. ChatAt(c, 0, c)
    BY ChatPushes DEF ChatAt
  <2>3. \A k \in 1..m : \A d : ChatAt(c, k - 1, d) => ChatAt(c, k, C!Publish(d, q[k]))
    BY ChatCalls, ChatOnOn, Zenon DEF ChatAt, C!Publish
  <2>4. ChatAt(c, m, PublishFold!FoldOver(C!Publish, c, q))
    BY <2>1, <2>2, <2>3, PublishFold!FoldReaches, Least, Zenon DEF PublishFold!Least
  <2>5. C!FoldOver(C!Publish, c, q) = PublishFold!FoldOver(C!Publish, c, q)
    BY DEF C!FoldOver, C!MapThenFoldSet, PublishFold!FoldOver, PublishFold!MapThenFoldSet
  <2>6. ChatOn(c, C!FoldOver(C!Publish, c, q))
    BY <2>4, <2>5 DEF ChatAt
  <2> QED
    BY <2>6 DEF C!EmitAll, q
<1> HIDE DEF f
<1>2. ASSUME NEW u, NEW s PROVE ChatOn(u, C!FinishItem(u, s))
  <2>1. /\ \A x : CleanEvent(C!ItemDone(x))
        /\ \A i, m : CleanEvent(C!TextDone(i, m)) /\ CleanEvent(C!ArgsDone(i, m))
    BY PlainEvent DEF CleanEvent, C!ItemDone, C!TextDone, C!ArgsDone, C!Delta, C!Event, Event
  <2>2. \A e1, e2 : CleanEvent(e1) /\ CleanEvent(e2) => Clean(<<e1>>) /\ Clean(<<e1, e2>>)
    BY CleanShort
  <2>3. Clean(C!DoneEvents(u, s))
    <3> QED
      BY <2>1, <2>2, CleanNone, Zenon DEF C!DoneEvents
  <2>4. Clean(u.out) => Clean(u.out \o C!DoneEvents(u, s))
    BY <2>3, CleanBoth
  <2> QED
    BY <2>4 DEF ChatOn, ChatWorking, ChatFields, C!FinishItem
<1>3. ChatOn(f, g)
  <2>1. ChatAt(f, 0, f)
    BY ChatPushes DEF ChatAt
  <2>2. \A k \in 1..n : \A d : ChatAt(f, k - 1, d) => ChatAt(f, k, C!FinishItem(d, output[k]))
    BY <1>2, ChatOnOn DEF ChatAt
  <2>3. ChatAt(f, n, ChatFinishFold!FoldOver(C!FinishItem, f, output))
    BY <1>0, <2>1, <2>2, ChatFinishFold!FoldReaches, Least, Zenon DEF ChatFinishFold!Least
  <2>4. C!FoldOver(C!FinishItem, f, output) = ChatFinishFold!FoldOver(C!FinishItem, f, output)
    BY DEF C!FoldOver, C!MapThenFoldSet, ChatFinishFold!FoldOver, ChatFinishFold!MapThenFoldSet
  <2> QED
    BY <2>3, <2>4 DEF ChatAt
<1>4. /\ ChatWorking(g) /\ g.finish = c.finish /\ g.ended = c.ended
      /\ g.gone = c.gone /\ g.log = c.log
  BY <1>1, <1>3 DEF ChatOn
<1> HIDE DEF g
<1>5. IsEvent(e) /\ e.type = last.type
  BY <1>0 DEF IsEvent
<1> HIDE DEF e
<1>6. C!DoneMark = DoneMark
  BY DEF C!DoneMark, DoneMark, C!Event, Event, C!NoSnapshot, NoSnapshot, C!Snapshot,
         Snapshot, C!NoItem, NoItem, C!Item, Item
<1> DEFINE d == C!PushLast(g, e)
<1>7. /\ DOMAIN d = ChatFields /\ d.completed = g.completed /\ d.sentDone = TRUE
      /\ d.out = g.out \o <<e, DoneMark>>
      /\ d.finish = g.finish /\ d.ended = g.ended /\ d.gone = g.gone /\ d.log = g.log
  BY <1>4, <1>6 DEF C!PushLast, ChatWorking, ChatFields
<1>8. C!Ending(C!EmitAll(c, calls), output, last) = d
  BY DEF C!Ending, d, e, g, f
<1> HIDE DEF d
<1>9. /\ Events(d.out) /\ d.out # <<>>
      /\ (last.type = "failed" => FailureAhead(d.out))
  BY <1>4, <1>5, <1>7, CleanLast DEF ChatWorking
<1> QED
  BY <1>4, <1>7, <1>8, <1>9, Zenon DEF ChatWorking, ChatEnded

\* What is left of a Chat converter when the upstream failed.
ChatFailed(c, d) ==
    /\ DOMAIN d = ChatFields /\ IsFiniteSet(d.completed)
    /\ Events(d.out) /\ FailureAhead(d.out) /\ d.out # <<>>
    /\ d.sentDone = TRUE /\ d.ended = TRUE /\ d.log = "error"
    /\ d.finish = c.finish /\ d.gone = c.gone

\* The final output is a list: the completed items and the calls, each finitely many.
LEMMA OutputFinite ==
    ASSUME NEW c, IsFiniteSet(c.completed), NEW calls, IsFiniteSet(calls), NEW reason
    PROVE  IsList(C!FinalOutput(c, calls, reason))
<1> DEFINE f == [k \in calls |-> C!CallSnapshot(c.calls[k], reason)]
           S == {C!CallSnapshot(c.calls[k], reason) : k \in calls}
           W == (c.completed \cup {c.reasoning, c.message} \cup S) \ {C!NoSnapshot}
<1>1. IsFiniteSet(S)
  <2>1. IsFiniteSet({f[x] : x \in DOMAIN f})
    BY FiniteImage, Zenon
  <2>2. S = {f[x] : x \in DOMAIN f}
    OBVIOUS
  <2> QED
    BY <2>1, <2>2
<1> HIDE DEF S
<1>2. IsFiniteSet((c.completed \cup {c.reasoning}) \cup {c.message})
  BY FS_AddElement, Zenon
<1>3. IsFiniteSet(((c.completed \cup {c.reasoning}) \cup {c.message}) \cup S)
  BY <1>1, <1>2, FS_Union, Zenon
<1>4. W \subseteq ((c.completed \cup {c.reasoning}) \cup {c.message}) \cup S
  OBVIOUS
<1>5. IsFiniteSet(W)
  BY <1>3, <1>4, FS_Subset
<1>6. C!FinalOutput(c, calls, reason) = C!InOrder(W)
  BY DEF C!FinalOutput, W, S
<1> HIDE DEF W
<1>7. \E n \in Nat : DOMAIN C!InOrder(W) = 1..n
  BY <1>5, FS_CardinalityType, Zenon DEF C!InOrder, C!ByRank, C!Cardinality, Cardinality
<1> QED
  BY <1>6, <1>7 DEF IsList

\* A failure of the upstream fails the converter.
LEMMA ChatErrs ==
    ASSUME NEW c, ChatWorking(c), ~c.sentDone, c.log = "none"
    PROVE  ChatFailed(c, C!PushError(c))
<1> DEFINE b == C!Log(c, "error")
           calls == C!Published(b, TRUE)
           output == C!FinalOutput(b, calls, "none")
           last == C!Failed
           f == C!Ending(C!EmitAll(b, calls), output, last)
           d == [f EXCEPT !.ended = TRUE]
<1>1. ChatWorking(b) /\ b.log = "error" /\ b.finish = c.finish /\ b.gone = c.gone
  BY DEF C!Log, ChatWorking, ChatFields
<1> HIDE DEF b
<1>2. IsFiniteSet(calls)
  BY StreamAssumption, FS_Subset DEF C!Published
<1> HIDE DEF calls
<1>3. IsList(output)
  BY <1>1, <1>2, OutputFinite DEF ChatWorking
<1>4. DOMAIN last = {"type", "of", "output", "reason"} /\ last.type = "failed"
  BY DEF C!Failed, C!Event
<1> HIDE DEF output, last
<1>5. /\ DOMAIN f = ChatFields /\ IsFiniteSet(f.completed)
      /\ Events(f.out) /\ f.out # <<>> /\ f.sentDone = TRUE /\ FailureAhead(f.out)
      /\ f.finish = b.finish /\ f.gone = b.gone /\ f.log = b.log
  <2>1. ChatEnded(b, last, f)
    BY <1>1, <1>2, <1>3, <1>4, ChatEnding
  <2> HIDE DEF f
  <2> QED
    BY <1>4, <2>1 DEF ChatEnded
<1>6. C!PushError(c) = d
  BY DEF C!PushError, C!Fail, d, f, output, calls, b, last
<1> HIDE DEF f
<1>7. ChatFailed(c, d)
  BY <1>1, <1>5 DEF ChatFailed, ChatFields
<1> QED
  BY <1>6, <1>7

\* [DONE] or the upstream's end: the stream fails, or a finish reason was stated and it
\* sends the end of the answer.
LEMMA ChatDone ==
    ASSUME NEW c, ChatWorking(c), ~c.sentDone, c.log = "none"
    PROVE  LET d == C!PushDone(c) IN
           \/ ChatFailed(c, d)
           \/ /\ c.finish # "none"
              /\ DOMAIN d = ChatFields /\ IsFiniteSet(d.completed)
              /\ Events(d.out) /\ d.out # <<>> /\ d.sentDone = TRUE
              /\ d.finish = c.finish /\ d.ended = c.ended /\ d.gone = c.gone
              /\ d.log = c.log
<1>1. CASE c.finish = "none" \/ ~C!ShellCallsValid(c)
  <2>1. C!PushDone(c) = C!PushError(c)
    BY <1>1 DEF C!PushDone
  <2> QED
    BY <2>1, ChatErrs
<1>2. CASE ~(c.finish = "none" \/ ~C!ShellCallsValid(c))
  <2> DEFINE calls == C!Published(c, FALSE)
             reason == C!TerminalReason(c, calls)
             output == C!FinalOutput(c, calls, reason)
             last == C!Terminal(reason, <<>>)
             d == C!Ending(C!EmitAll(c, calls), output, last)
  <2>1. C!PushDone(c) = d
    BY <1>2 DEF C!PushDone, C!Complete, C!CompleteWith, d, calls, reason, output, last
  <2>2. IsFiniteSet(calls)
    BY StreamAssumption, FS_Subset DEF C!Published
  <2> HIDE DEF calls, reason
  <2>3. IsList(output)
    BY <2>2, OutputFinite DEF ChatWorking
  <2>4. DOMAIN last = {"type", "of", "output", "reason"}
    BY DEF C!Terminal
  <2> HIDE DEF output, last
  <2>5. /\ DOMAIN d = ChatFields /\ IsFiniteSet(d.completed)
        /\ Events(d.out) /\ d.out # <<>> /\ d.sentDone = TRUE
        /\ d.finish = c.finish /\ d.ended = c.ended /\ d.gone = c.gone /\ d.log = c.log
    <3>1. ChatEnded(c, last, d)
      BY <2>2, <2>3, <2>4, ChatEnding
    <3> HIDE DEF d
    <3> QED
      BY <3>1 DEF ChatEnded
  <2> HIDE DEF d
  <2> QED
    BY <1>2, <2>1, <2>5
<1> QED
  BY <1>1, <1>2, Zenon

----------------------------------------------------------------------------
(* The converter of an Anthropic upstream.                                 *)

\* The converter of an Anthropic upstream, as above.
ClaudeFields == {"out", "nextIndex", "items", "reason", "sentDone", "ended", "gone", "log"}
ClaudeWorking(c) ==
    DOMAIN c = ClaudeFields /\ Clean(c.out) /\ IsFiniteSet(DOMAIN c.items)
ClaudeOn(c, d) ==
    ClaudeWorking(c) =>
        /\ ClaudeWorking(d)
        /\ d.sentDone = c.sentDone /\ d.ended = c.ended
        /\ d.gone = c.gone /\ d.log = c.log

\* What it becomes in two calls.
LEMMA ClaudeOnOn ==
    ASSUME NEW b, NEW c, NEW d, ClaudeOn(b, c), ClaudeOn(c, d)
    PROVE  ClaudeOn(b, d)
BY DEF ClaudeOn

\* Telling an event of the answer.
LEMMA ClaudePushes ==
    ASSUME NEW c
    PROVE  /\ ClaudeOn(c, c)
           /\ \A i : ClaudeOn(c, L!Push(c, L!Added(i)))
           /\ \A i, n : /\ ClaudeOn(c, L!Push(c, L!ReasoningDelta(i, n)))
                        /\ ClaudeOn(c, L!Push(c, L!TextDelta(i, n)))
                        /\ ClaudeOn(c, L!Push(c, L!ArgsDelta(i, n)))
           /\ \A s : ClaudeOn(c, L!Push(c, L!ItemDone(s)))
<1>1. ASSUME NEW e, CleanEvent(e) PROVE ClaudeOn(c, L!Push(c, e))
  <2>1. Clean(c.out) => Clean(Append(c.out, e))
    BY <1>1, CleanMore DEF CleanEvent
  <2> QED
    BY <2>1 DEF ClaudeOn, ClaudeWorking, ClaudeFields, L!Push
<1>2. /\ \A i : CleanEvent(L!Added(i))
      /\ \A i, n : /\ CleanEvent(L!ReasoningDelta(i, n)) /\ CleanEvent(L!TextDelta(i, n))
                   /\ CleanEvent(L!ArgsDelta(i, n))
      /\ \A s : CleanEvent(L!ItemDone(s))
  BY PlainEvent DEF CleanEvent, Event, L!Event, L!Added, L!ReasoningDelta, L!TextDelta,
                    L!ArgsDelta, L!ItemDone, L!Delta
<1> QED
  BY <1>1, <1>2 DEF ClaudeOn

\* The upstream opens a block, writes it, stops it, or has restored what it held
\* inline.
LEMMA ClaudeWrites ==
    ASSUME NEW c, NEW b
    PROVE  /\ \A kind, n, sig : ClaudeOn(c, L!StartBlock(c, b, kind, n, sig))
           /\ \A type \in {"thinking", "signature", "text", "input_json"} : \A n :
                 ClaudeOn(c, L!WriteBlock(c, b, type, n))
           /\ ClaudeOn(c, L!StopBlock(c, b))
           /\ ClaudeOn(c, L!RestoreInline(c, b))
<1>1. ASSUME NEW u, NEW kind PROVE ClaudeOn(u, L!Ensure(u, b, kind))
  <2>1. ASSUME NEW i PROVE ClaudeOn(u, L!OpenItem(u, b, i))
    <3> DEFINE w == L!Push(u, L!Added(i))
               new == [item |-> i, n |-> 0, sig |-> "none", closed |-> FALSE, inline |-> 0]
               v == [w EXCEPT !.nextIndex = @ + 1, !.items = L!With(@, b, new)]
    <3>1. ClaudeOn(u, w)
      BY ClaudePushes
    <3> HIDE DEF w, new
    <3>2. DOMAIN L!With(w.items, b, new) = DOMAIN w.items \cup {b}
      BY DEF L!With
    <3>3. ClaudeWorking(w) => IsFiniteSet(DOMAIN w.items \cup {b})
      BY FS_AddElement DEF ClaudeWorking
    <3>4. ClaudeOn(w, v)
      BY <3>2, <3>3 DEF ClaudeOn, ClaudeWorking, ClaudeFields
    <3>5. ClaudeOn(u, v)
      BY <3>1, <3>4, ClaudeOnOn
    <3> QED
      BY <3>5 DEF L!OpenItem, w, new
  <2> QED
    BY <2>1, ClaudePushes DEF L!Ensure
<1>2. ASSUME NEW u, NEW n PROVE ClaudeOn(u, L!Thinking(u, b, n))
  <2>1. \A w : ClaudeOn(w, [w EXCEPT !.items[b].n = @ + n])
    BY DEF ClaudeOn, ClaudeWorking, ClaudeFields
  <2> QED
    BY <2>1, ClaudePushes, ClaudeOnOn, Zenon DEF L!Thinking
<1>3. ASSUME NEW u, NEW sig PROVE ClaudeOn(u, L!Sign(u, b, sig))
  <2>1. ClaudeOn(u, [u EXCEPT !.items[b].sig = sig])
    BY DEF ClaudeOn, ClaudeWorking, ClaudeFields
  <2> QED
    BY <2>1, ClaudePushes DEF L!Sign
<1>4. ASSUME NEW kind, NEW n, NEW sig PROVE ClaudeOn(c, L!StartBlock(c, b, kind, n, sig))
  <2>1. \A w : ClaudeOn(w, [w EXCEPT !.items[b].inline = n])
    BY DEF ClaudeOn, ClaudeWorking, ClaudeFields
  <2> QED
    BY <1>1, <1>2, <1>3, <2>1, ClaudeOnOn DEF L!StartBlock
<1>5. ASSUME NEW u, NEW n PROVE ClaudeOn(u, L!Text(u, b, n))
  <2>1. \A w : ClaudeOn(w, [w EXCEPT !.items[b].n = @ + n])
    BY DEF ClaudeOn, ClaudeWorking, ClaudeFields
  <2> QED
    BY <2>1, ClaudePushes, ClaudeOnOn DEF L!Text
<1>6. ASSUME NEW u, NEW n PROVE ClaudeOn(u, L!Arguments(u, b, n))
  <2> DEFINE w == L!Push(u, L!ArgsDelta(u.items[b].item, n))
             v == [w EXCEPT !.items[b].n = @ + n,
                            !.items[b].inline = IF n > 0 THEN 0 ELSE @]
  <2>1. ClaudeOn(u, w)
    BY ClaudePushes, Zenon
  <2> HIDE DEF w
  <2>2. ClaudeOn(w, v)
    BY DEF ClaudeOn, ClaudeWorking, ClaudeFields
  <2>3. ClaudeOn(u, v)
    BY <2>1, <2>2, ClaudeOnOn
  <2> QED
    BY <2>3, Zenon DEF L!Arguments, w
<1>7. ASSUME NEW type \in {"thinking", "signature", "text", "input_json"}, NEW n
      PROVE  ClaudeOn(c, L!WriteBlock(c, b, type, n))
  BY <1>1, <1>2, <1>3, <1>5, <1>6, ClaudePushes, ClaudeOnOn DEF L!WriteBlock
<1>8. ClaudeOn(c, L!StopBlock(c, b))
  <2>1. \A w : ClaudeOn(w, [w EXCEPT !.items[b].closed = TRUE])
    BY DEF ClaudeOn, ClaudeWorking, ClaudeFields
  <2> QED
    BY <2>1, ClaudePushes, ClaudeOnOn, Zenon DEF L!StopBlock
<1>9. ClaudeOn(c, L!RestoreInline(c, b))
  <2> DEFINE w == L!Push(c, L!ArgsDelta(c.items[b].item, c.items[b].inline))
             v == [w EXCEPT !.items[b].n = c.items[b].inline, !.items[b].inline = 0]
  <2>1. ClaudeOn(c, w)
    BY ClaudePushes
  <2> HIDE DEF w
  <2>2. ClaudeOn(w, v)
    BY DEF ClaudeOn, ClaudeWorking, ClaudeFields
  <2>3. ClaudeOn(c, v)
    BY <2>1, <2>2, ClaudeOnOn
  <2> QED
    BY <2>3, ClaudePushes DEF L!RestoreInline, w
<1> QED
  BY <1>4, <1>7, <1>8, <1>9

\* The folds over the blocks left open and over the items to finish.
ClaudeAt(x, k, c) == ClaudeOn(x, c)
RestoreFold == INSTANCE FoldLemmas WITH Op <- L!RestoreInline, At <- ClaudeAt
ClaudeFinishFold == INSTANCE FoldLemmas WITH Op <- L!FinishItem, At <- ClaudeAt

\* The last events of a response.
LEMMA ClaudeFinishes ==
    ASSUME NEW c, NEW last, DOMAIN last = {"type", "of", "output", "reason"},
           ClaudeWorking(c), ~c.sentDone
    PROVE  LET d == L!FinishResponse(c, last) IN
           /\ DOMAIN d = ClaudeFields /\ IsFiniteSet(DOMAIN d.items)
           /\ Events(d.out) /\ d.out # <<>> /\ d.sentDone = TRUE
           /\ (last.type = "failed" => FailureAhead(d.out))
           /\ d.ended = c.ended /\ d.gone = c.gone /\ d.log = c.log
<1> DEFINE q == L!ByIndex(c)
           f == L!RestoreAll(c)
           g == L!FoldOver(L!FinishItem, f, q)
           output == [j \in DOMAIN q |-> L!FinalItem(f, q[j])]
           e == [last EXCEPT !.output = output]
           d == L!PushLast(g, e)
<1>1. PICK n \in Nat : DOMAIN q = 1..n
  BY FS_CardinalityType, Zenon
     DEF L!ByIndex, L!ByRank, L!Cardinality, Cardinality, ClaudeWorking
<1>2. L!FinishResponse(c, last) = d
  BY DEF L!FinishResponse, L!Ending, d, e, output, g, f, q
<1> HIDE DEF q
<1>3. ClaudeOn(c, f)
  <2>1. ClaudeAt(c, 0, c)
    BY ClaudePushes DEF ClaudeAt
  <2>2. \A k \in 1..n : \A u : ClaudeAt(c, k - 1, u) => ClaudeAt(c, k, L!RestoreInline(u, q[k]))
    BY ClaudeWrites, ClaudeOnOn DEF ClaudeAt
  <2>3. ClaudeAt(c, n, RestoreFold!FoldOver(L!RestoreInline, c, q))
    BY <1>1, <2>1, <2>2, RestoreFold!FoldReaches, Least, Zenon DEF RestoreFold!Least
  <2>4. L!FoldOver(L!RestoreInline, c, q) = RestoreFold!FoldOver(L!RestoreInline, c, q)
    BY DEF L!FoldOver, L!MapThenFoldSet, RestoreFold!FoldOver, RestoreFold!MapThenFoldSet
  <2>5. f = L!FoldOver(L!RestoreInline, c, q)
    BY DEF L!RestoreAll, q
  <2> QED
    BY <2>3, <2>4, <2>5 DEF ClaudeAt
<1> HIDE DEF f
<1>4. ASSUME NEW u, NEW b PROVE ClaudeOn(u, L!FinishItem(u, b))
  <2>1. /\ \A x : CleanEvent(L!ItemDone(x))
        /\ \A i, m : CleanEvent(L!TextDone(i, m)) /\ CleanEvent(L!ArgsDone(i, m))
    BY PlainEvent DEF CleanEvent, L!ItemDone, L!TextDone, L!ArgsDone, L!Delta, L!Event, Event
  <2>2. \A e1, e2 : CleanEvent(e1) /\ CleanEvent(e2) => Clean(<<e1>>) /\ Clean(<<e1, e2>>)
    BY CleanShort
  <2>3. Clean(L!DoneEvents(u, b))
    BY <2>1, <2>2, CleanNone, Zenon DEF L!DoneEvents
  <2>4. Clean(u.out) => Clean(u.out \o L!DoneEvents(u, b))
    BY <2>3, CleanBoth
  <2> QED
    BY <2>4 DEF ClaudeOn, ClaudeWorking, ClaudeFields, L!FinishItem
<1>5. ClaudeOn(f, g)
  <2>1. ClaudeAt(f, 0, f)
    BY ClaudePushes DEF ClaudeAt
  <2>2. \A k \in 1..n : \A u : ClaudeAt(f, k - 1, u) => ClaudeAt(f, k, L!FinishItem(u, q[k]))
    BY <1>4, ClaudeOnOn DEF ClaudeAt
  <2>3. ClaudeAt(f, n, ClaudeFinishFold!FoldOver(L!FinishItem, f, q))
    BY <1>1, <2>1, <2>2, ClaudeFinishFold!FoldReaches, Least, Zenon DEF ClaudeFinishFold!Least
  <2>4. L!FoldOver(L!FinishItem, f, q) = ClaudeFinishFold!FoldOver(L!FinishItem, f, q)
    BY DEF L!FoldOver, L!MapThenFoldSet, ClaudeFinishFold!FoldOver, ClaudeFinishFold!MapThenFoldSet
  <2> QED
    BY <2>3, <2>4 DEF ClaudeAt
<1>6. ClaudeWorking(g) /\ g.ended = c.ended /\ g.gone = c.gone /\ g.log = c.log
  BY <1>3, <1>5 DEF ClaudeOn
<1> HIDE DEF g
<1>7. IsEvent(e) /\ e.type = last.type
  BY <1>1 DEF IsEvent
<1> HIDE DEF e
<1>8. L!DoneMark = DoneMark
  BY DEF L!DoneMark, DoneMark, L!Event, Event, L!NoSnapshot, NoSnapshot, L!Snapshot,
         Snapshot, L!NoItem, NoItem, L!Item, Item
<1>9. /\ DOMAIN d = ClaudeFields /\ d.items = g.items /\ d.sentDone = TRUE
      /\ d.out = g.out \o <<e, DoneMark>>
      /\ d.ended = g.ended /\ d.gone = g.gone /\ d.log = g.log
  BY <1>6, <1>8 DEF L!PushLast, ClaudeWorking, ClaudeFields
<1> HIDE DEF d
<1>10. /\ Events(d.out) /\ d.out # <<>>
       /\ (last.type = "failed" => FailureAhead(d.out))
  BY <1>6, <1>7, <1>9, CleanLast DEF ClaudeWorking
<1> QED
  BY <1>2, <1>6, <1>9, <1>10 DEF ClaudeWorking

\* A failure of the upstream ends the stream with a failure.
LEMMA ClaudeErrs ==
    ASSUME NEW c, ClaudeWorking(c), ~c.sentDone, c.log = "none"
    PROVE  LET d == L!PushError(c) IN
           /\ DOMAIN d = ClaudeFields /\ IsFiniteSet(DOMAIN d.items)
           /\ Events(d.out) /\ FailureAhead(d.out) /\ d.out # <<>>
           /\ d.sentDone = TRUE /\ d.ended = TRUE /\ d.log = "error" /\ d.gone = c.gone
<1> DEFINE b == L!Log(c, "error")
           f == L!FinishResponse(b, L!Failed)
           d == [f EXCEPT !.ended = TRUE]
<1>1. ClaudeWorking(b) /\ b.log = "error" /\ ~b.sentDone /\ b.gone = c.gone
  BY DEF L!Log, ClaudeWorking, ClaudeFields
<1> HIDE DEF b
<1>2. DOMAIN L!Failed = {"type", "of", "output", "reason"} /\ L!Failed.type = "failed"
  BY DEF L!Failed, L!Event
<1>3. /\ DOMAIN f = ClaudeFields /\ IsFiniteSet(DOMAIN f.items)
      /\ Events(f.out) /\ f.out # <<>> /\ f.sentDone = TRUE /\ FailureAhead(f.out)
      /\ f.gone = b.gone /\ f.log = b.log
  BY <1>1, <1>2, ClaudeFinishes, Zenon
<1>4. L!PushError(c) = d
  BY DEF L!PushError, d, f, b
<1> HIDE DEF f
<1>5. /\ DOMAIN d = ClaudeFields /\ d.items = f.items /\ d.out = f.out /\ d.sentDone = TRUE
      /\ d.ended = TRUE /\ d.log = f.log /\ d.gone = f.gone
  BY <1>3 DEF ClaudeFields
<1> HIDE DEF d
<1> QED
  BY <1>1, <1>3, <1>4, <1>5

----------------------------------------------------------------------------
(* The converter of a Responses stream into a Chat stream.                 *)

\* The converter of a Responses stream into Chat chunks, and what it becomes while it
\* works.
TalkFields == {"out", "role", "sentDone", "ended", "gone", "log", "calls", "override",
               "texts", "recovered", "thought", "redacted"}
IsTalk(s) == DOMAIN s = TalkFields
Talks(s, u) ==
    IsTalk(s) => /\ IsTalk(u) /\ u.sentDone = s.sentDone /\ u.ended = s.ended
                 /\ u.gone = s.gone /\ u.log = s.log

\* What it becomes in two calls.
LEMMA TalksOn ==
    ASSUME NEW s, NEW u, NEW v, Talks(s, u), Talks(u, v)
    PROVE  Talks(s, v)
BY DEF Talks

\* No call leaves the converter as it was.
LEMMA TalksSame == \A s : Talks(s, s)
BY DEF Talks

\* Sending a chunk.
LEMMA TalksPush ==
    ASSUME NEW s, NEW e
    PROVE  Talks(s, T!Push(s, e))
BY DEF Talks, IsTalk, TalkFields, T!Push

\* Telling text, from deltas and from snapshots.
LEMMA TalksText ==
    ASSUME NEW s
    PROVE  /\ \A i, n : Talks(s, T!EmitText(s, i, n)) /\ Talks(s, T!Recover(s, i, n))
           /\ \A o : Talks(s, T!RecoverItem(s, o))
<1>1. ASSUME NEW u, NEW i, NEW n PROVE Talks(u, T!EmitText(u, i, n))
  <2>1. \A w, x : Talks(w, [w EXCEPT !.texts = x])
    BY DEF Talks, IsTalk
  <2> QED
    BY <2>1, TalksPush, TalksOn, Zenon DEF T!EmitText
<1>2. ASSUME NEW u, NEW i, NEW n PROVE Talks(u, T!Recover(u, i, n))
  BY <1>1, TalksSame DEF T!Recover
<1>3. ASSUME NEW o PROVE Talks(s, T!RecoverItem(s, o))
  BY <1>2, TalksSame DEF T!RecoverItem
<1> QED
  BY <1>1, <1>2, <1>3

\* Telling reasoning, from deltas and from snapshots.
LEMMA TalksReasoning ==
    ASSUME NEW s
    PROVE  /\ \A i, n : Talks(s, T!Think(s, i, n))
           /\ \A o : Talks(s, T!ReasoningSnapshot(s, o))
<1>1. ASSUME NEW u, NEW i, NEW n PROVE Talks(u, T!Think(u, i, n))
  <2>1. \A w : Talks(w, [w EXCEPT !.thought = TRUE])
    BY DEF Talks, IsTalk
  <2> QED
    BY <2>1, TalksPush, TalksOn DEF T!Think
<1>2. ASSUME NEW u, NEW o PROVE Talks(u, T!Redact(u, o))
  <2>1. \A w : Talks(w, [w EXCEPT !.redacted = TRUE])
    BY DEF Talks, IsTalk
  <2> QED
    BY <2>1, TalksPush, TalksSame, TalksOn DEF T!Redact
<1>3. ASSUME NEW o PROVE Talks(s, T!ReasoningSnapshot(s, o))
  <2> DEFINE w == IF s.thought \/ o.n = 0 THEN s ELSE T!Think(s, o.item, o.n)
  <2>1. Talks(s, w)
    BY <1>1, TalksSame
  <2> HIDE DEF w
  <2>2. Talks(s, T!Redact(w, o))
    BY <1>2, <2>1, TalksOn
  <2> QED
    BY <2>2 DEF T!ReasoningSnapshot, w
<1> QED
  BY <1>1, <1>3

\* Telling a call, from deltas and from snapshots.
LEMMA TalksCalls ==
    ASSUME NEW s, NEW i
    PROVE  /\ Talks(s, T!CallAdded(s, i))
           /\ \A n : Talks(s, T!CallDelta(s, i, n)) /\ Talks(s, T!CallSnapshot(s, i, n))
<1>1. ASSUME NEW u PROVE Talks(u, T!EnsureCall(u, i))
  <2>1. \A w, x : Talks(w, [w EXCEPT !.calls = x])
    BY DEF Talks, IsTalk
  <2> QED
    BY <2>1, TalksSame DEF T!EnsureCall
<1>2. \A w, x : Talks(w, [w EXCEPT !.calls[i] = x])
  BY DEF Talks, IsTalk
<1>3. \A w, x : Talks(w, [w EXCEPT !.calls[i].begun = x])
  BY DEF Talks, IsTalk
<1>4. ASSUME NEW u PROVE Talks(u, T!BeginCall(u, i))
  BY <1>3, TalksPush, TalksSame, TalksOn, Zenon DEF T!BeginCall, T!PushCall
<1>5. ASSUME NEW u, NEW n PROVE Talks(u, T!SayCall(u, i, n))
  BY <1>2, TalksPush, TalksOn DEF T!SayCall, T!PushCall
<1>6. ASSUME NEW u, NEW n PROVE Talks(u, T!SnapshotCall(u, i, n))
  BY <1>3, <1>5, Zenon DEF T!SnapshotCall
<1>7. Talks(s, T!CallAdded(s, i))
  BY <1>1, <1>4, TalksOn DEF T!CallAdded
<1>8. ASSUME NEW n PROVE Talks(s, T!CallDelta(s, i, n)) /\ Talks(s, T!CallSnapshot(s, i, n))
  BY <1>1, <1>5, <1>6, TalksOn DEF T!CallDelta, T!CallSnapshot
<1> QED
  BY <1>7, <1>8

\* Telling an item of the final output.
LEMMA TalksOutput ==
    ASSUME NEW s, NEW o
    PROVE  Talks(s, T!OutputItem(s, o))
BY TalksReasoning, TalksCalls, TalksSame, Zenon DEF T!OutputItem

\* The folds over the final output.
TalkAt(x, k, s) == Talks(x, s)
RecoverFold == INSTANCE FoldLemmas WITH Op <- T!RecoverItem, At <- TalkAt
TalkFold == INSTANCE FoldLemmas WITH Op <- T!OutputItem, At <- TalkAt

\* Telling all of the final output.
LEMMA TalksFold ==
    ASSUME NEW s, NEW e, IsEvent(e)
    PROVE  /\ Talks(s, T!FoldOver(T!RecoverItem, s, e.output))
           /\ Talks(s, T!FoldOver(T!OutputItem, s, e.output))
<1>1. PICK n \in Nat : DOMAIN e.output = 1..n
  BY DEF IsEvent
<1>2. TalkAt(s, 0, s)
  BY TalksSame DEF TalkAt
<1>3. Talks(s, T!FoldOver(T!RecoverItem, s, e.output))
  <2>1. \A k \in 1..n : \A u : TalkAt(s, k - 1, u) => TalkAt(s, k, T!RecoverItem(u, e.output[k]))
    BY TalksText, TalksOn DEF TalkAt
  <2>2. TalkAt(s, n, RecoverFold!FoldOver(T!RecoverItem, s, e.output))
    BY <1>1, <1>2, <2>1, RecoverFold!FoldReaches, Least, Zenon DEF RecoverFold!Least
  <2>3. T!FoldOver(T!RecoverItem, s, e.output) = RecoverFold!FoldOver(T!RecoverItem, s, e.output)
    BY DEF T!FoldOver, T!MapThenFoldSet, RecoverFold!FoldOver, RecoverFold!MapThenFoldSet
  <2> QED
    BY <2>2, <2>3 DEF TalkAt
<1>4. Talks(s, T!FoldOver(T!OutputItem, s, e.output))
  <2>1. \A k \in 1..n : \A u : TalkAt(s, k - 1, u) => TalkAt(s, k, T!OutputItem(u, e.output[k]))
    BY TalksOutput, TalksOn DEF TalkAt
  <2>2. TalkAt(s, n, TalkFold!FoldOver(T!OutputItem, s, e.output))
    BY <1>1, <1>2, <2>1, TalkFold!FoldReaches, Least, Zenon DEF TalkFold!Least
  <2>3. T!FoldOver(T!OutputItem, s, e.output) = TalkFold!FoldOver(T!OutputItem, s, e.output)
    BY DEF T!FoldOver, T!MapThenFoldSet, TalkFold!FoldOver, TalkFold!MapThenFoldSet
  <2> QED
    BY <2>2, <2>3 DEF TalkAt
<1> QED
  BY <1>3, <1>4

\* Nothing but its end and a failure changes what the converter says of itself.
LEMMA TalksEvent ==
    ASSUME NEW s, NEW e, IsEvent(e)
    PROVE  Talks(s, T!Dispatch(T!MessageText(s, e), e))
<1> DEFINE w == T!MessageText(s, e)
<1>1. Talks(s, w)
  <2>1. \A x : Talks(x, [x EXCEPT !.recovered = TRUE])
    BY DEF Talks, IsTalk
  <2>2. Talks(s, [T!FoldOver(T!RecoverItem, s, e.output) EXCEPT !.recovered = TRUE])
    BY <2>1, TalksFold, TalksOn, Zenon
  <2> QED
    BY <2>2, TalksText, TalksSame DEF T!MessageText
<1> HIDE DEF w
<1>2. Talks(w, T!Dispatch(w, e))
  <2>1. \A x, y : Talks(x, T!Override(x, y))
    BY DEF Talks, IsTalk, T!Override
  <2>2. Talks(w, T!Override(T!FoldOver(T!OutputItem, w, e.output), e.reason))
    BY <2>1, TalksFold, TalksOn
  <2> QED
    BY <2>2, TalksReasoning, TalksCalls, TalksSame, Zenon DEF T!Dispatch
<1>3. Talks(s, T!Dispatch(w, e))
  BY <1>1, <1>2, TalksOn
<1> QED
  BY <1>3 DEF w

\* The log's entry is written once.
Entry(log, entry) == IF log = "none" THEN entry ELSE log

\* s was given the event e and is now u: a failure is logged as an error.
TalkReceived(s, e, u) ==
    /\ IsTalk(u) /\ u.gone = s.gone /\ u.ended = s.ended
    /\ (u.sentDone = s.sentDone \/ e.type \in {"[DONE]", "failed"})
    /\ (u.log = s.log \/ u.log = Entry(s.log, "error"))
    /\ (e.type = "failed" /\ ~s.sentDone => u.log = Entry(s.log, "error"))

\* Every event does that.
LEMMA TalkReceives ==
    ASSUME NEW s, NEW e, IsTalk(s), IsEvent(e)
    PROVE  TalkReceived(s, e, T!HandleEvent(s, e))
<1>1. CASE s.sentDone
  BY <1>1, Zenon DEF T!HandleEvent, TalkReceived
<1>2. CASE ~s.sentDone /\ e.type = "[DONE]"
  BY <1>2, Zenon DEF T!HandleEvent, T!PushDone, T!Finish, TalkReceived, IsTalk, TalkFields
<1>3. CASE ~s.sentDone /\ e.type = "failed"
  BY <1>3, Zenon DEF T!HandleEvent, T!FailStream, T!Log, TalkReceived, IsTalk, TalkFields, Entry
<1>4. CASE ~s.sentDone /\ e.type # "[DONE]" /\ e.type # "failed"
  <2> DEFINE u == T!Dispatch(T!MessageText(s, e), e)
  <2>1. T!HandleEvent(s, e) = u
    BY <1>4 DEF T!HandleEvent
  <2>2. Talks(s, u)
    BY TalksEvent
  <2> HIDE DEF u
  <2>3. TalkReceived(s, e, u)
    BY <1>4, <2>2 DEF Talks, TalkReceived
  <2> QED
    BY <2>1, <2>3
<1> QED
  BY <1>1, <1>2, <1>3, <1>4

\* A converter that is gone keeps its log entry only.
LEMMA TalkGone ==
    ASSUME NEW x
    PROVE  LET u == T!GoneTalk(x) IN
           IsTalk(u) /\ u.out = <<>> /\ u.ended = TRUE /\ u.gone = TRUE /\ u.log = x
                     /\ u.sentDone = FALSE
BY DEF T!GoneTalk, T!NewTalk, IsTalk, TalkFields

\* s was told that there is nothing more and is now u: a success, if nothing else is
\* logged.
TalkEnded(s, u) ==
    /\ IsTalk(u) /\ u.ended = TRUE /\ u.log = Entry(s.log, "ok")
    /\ (u.gone = s.gone \/ (u.gone = TRUE /\ u.out = <<>>))

\* The end of its stream does that.
LEMMA TalkEnds ==
    ASSUME NEW s, IsTalk(s)
    PROVE  TalkEnded(s, T!CloseIfEmpty(T!Log(T!PushDone([s EXCEPT !.ended = TRUE]), "ok")))
<1> DEFINE w == [s EXCEPT !.ended = TRUE]
           v == T!PushDone(w)
           u == T!Log(v, "ok")
<1>1. IsTalk(w) /\ w.ended = TRUE /\ w.gone = s.gone /\ w.log = s.log
  BY DEF IsTalk, TalkFields
<1> HIDE DEF w
<1>2. IsTalk(v) /\ v.ended = TRUE /\ v.gone = s.gone /\ v.log = s.log
  BY <1>1 DEF IsTalk, TalkFields, T!PushDone, T!Finish
<1> HIDE DEF v
<1>3. IsTalk(u) /\ u.ended = TRUE /\ u.gone = s.gone /\ u.log = Entry(s.log, "ok")
  BY <1>2 DEF IsTalk, TalkFields, T!Log, Entry
<1> HIDE DEF u
<1>4. TalkEnded(s, T!CloseIfEmpty(u))
  <2>1. CASE u.out = <<>>
    BY <1>3, <2>1, TalkGone, Zenon DEF T!CloseIfEmpty, TalkEnded
  <2>2. CASE u.out # <<>>
    BY <1>3, <2>2 DEF T!CloseIfEmpty, TalkEnded
  <2> QED
    BY <2>1, <2>2
<1> QED
  BY <1>4 DEF u, v, w

----------------------------------------------------------------------------
(* The converter of a Codex upstream.                                      *)

\* The converter of a Codex stream for a Responses client is a record of these fields.
CodexFields == {"out", "sentDone", "ended", "override", "gone", "log"}

\* It was waiting for its upstream and has sent the last event.
CodexLast(s, u) ==
    /\ DOMAIN u = CodexFields /\ Events(u.out) /\ u.out # <<>> /\ u.sentDone = TRUE
    /\ u.ended = s.ended /\ u.gone = s.gone

\* It sends its last event.
LEMMA CodexPushesLast ==
    ASSUME NEW s, NEW e, DOMAIN s = CodexFields, s.out = <<>>, IsEvent(e)
    PROVE  /\ CodexLast(s, D!PushLast(s, e))
           /\ D!PushLast(s, e).override = s.override /\ D!PushLast(s, e).log = s.log
<1> DEFINE u == D!PushLast(s, e)
<1>1. D!DoneMark = DoneMark
  BY DEF D!DoneMark, DoneMark, D!Event, Event, D!NoSnapshot, NoSnapshot, D!Snapshot,
         Snapshot, D!NoItem, NoItem, D!Item, Item
<1>2. /\ DOMAIN u = CodexFields /\ u.out = <<>> \o <<e, DoneMark>> /\ u.sentDone = TRUE
      /\ u.ended = s.ended /\ u.gone = s.gone /\ u.override = s.override /\ u.log = s.log
  BY <1>1 DEF D!PushLast, CodexFields
<1> HIDE DEF u
<1>3. Events(u.out) /\ u.out # <<>>
  BY <1>2, CleanNone, CleanLast, Zenon
<1>4. CodexLast(s, u)
  BY <1>2, <1>3 DEF CodexLast
<1> QED
  BY <1>2, <1>4 DEF u

\* A failed response, a failed stream and a lost connection are such ends.
LEMMA CodexFails ==
    ASSUME NEW s, DOMAIN s = CodexFields, s.out = <<>>
    PROVE  /\ CodexLast(s, D!FailResponse(s)) /\ D!FailResponse(s).override = TRUE
           /\ D!FailResponse(s).log = s.log
           /\ CodexLast(s, D!FailStream(s)) /\ D!FailStream(s).log = Entry(s.log, "error")
           /\ CodexLast(s, D!PushDisconnected(s)) /\ D!PushDisconnected(s).override = TRUE
           /\ D!PushDisconnected(s).log = s.log
<1> DEFINE u == D!PushLast(s, D!Failed)
           v == D!PushLast(s, D!Disconnected)
<1>1. IsEvent(D!Failed) /\ IsEvent(D!Disconnected)
  <2>1. DOMAIN D!Failed.output = 1..0 /\ DOMAIN D!Disconnected.output = 1..0
    BY DEF D!Failed, D!Event, D!Disconnected, D!Terminal
  <2> QED
    BY <2>1 DEF IsEvent
<1>2. CodexLast(s, u) /\ u.log = s.log /\ CodexLast(s, v) /\ v.log = s.log
  BY <1>1, CodexPushesLast
<1> HIDE DEF u, v
<1>3. ASSUME NEW w, CodexLast(s, w), w.log = s.log
      PROVE  /\ CodexLast(s, [w EXCEPT !.override = TRUE])
             /\ [w EXCEPT !.override = TRUE].override = TRUE
             /\ [w EXCEPT !.override = TRUE].log = s.log
             /\ CodexLast(s, D!Log(w, "error")) /\ D!Log(w, "error").log = Entry(s.log, "error")
  BY <1>3 DEF CodexLast, CodexFields, D!Log, Entry
<1> QED
  BY <1>2, <1>3 DEF D!FailResponse, D!FailStream, D!PushDisconnected, u, v

\* s was given the event e and is now u: it goes on, or it has sent the last event and
\* either owes the log its status, or has logged an error, or passed on the upstream's end.
CodexReceived(s, e, u) ==
    /\ DOMAIN u = CodexFields /\ Events(u.out) /\ u.ended = s.ended /\ u.gone = s.gone
    /\ \/ u.sentDone = s.sentDone /\ u.log = s.log
          /\ e.type \notin {"completed", "incomplete", "failed", "[DONE]"}
       \/ /\ u.sentDone = TRUE
          /\ \/ u.override = TRUE /\ u.log = s.log
             \/ u.log = Entry(s.log, "error")
             \/ e.type \in {"completed", "incomplete"} /\ u.log = s.log

\* Every event does one of these, whichever choice the code has.
LEMMA CodexReceives ==
    ASSUME NEW s, NEW e, NEW u \in D!HandleEvent(s, e),
           DOMAIN s = CodexFields, s.out = <<>>, IsEvent(e)
    PROVE  CodexReceived(s, e, u)
<1>1. CASE u = D!PushDisconnected(s) \/ u = D!FailStream(s)
  <2>1. e.type \in {"[DONE]", "failed"} \/ TRUE
    OBVIOUS
  <2> QED
    BY <1>1, CodexFails, ZenonT(30) DEF CodexReceived, CodexLast
<1>2. CASE u = D!PassOn(s, e) /\ e.type \in D!Terminals
  <2> DEFINE w == D!PushLast(s, e)
  <2>1. CodexLast(s, w) /\ w.log = s.log
    BY CodexPushesLast
  <2>2. u = [w EXCEPT !.override = (e.type = "failed")]
    BY <1>2 DEF D!PassOn
  <2> HIDE DEF w
  <2>3. CodexLast(s, u) /\ u.log = s.log /\ u.override = (e.type = "failed")
    BY <2>1, <2>2 DEF CodexLast, CodexFields
  <2>4. e.type \in {"completed", "incomplete", "failed"}
    BY <1>2 DEF D!Terminals
  <2> QED
    BY <2>3, <2>4, Zenon DEF CodexReceived, CodexLast
<1>3. CASE u = D!PassOn(s, e) /\ e.type \notin D!Terminals /\ e.type # "[DONE]"
  <2>1. u = [s EXCEPT !.out = Append(@, e)]
    BY <1>3 DEF D!PassOn
  <2>2. Events(Append(s.out, e))
    BY EventsMore, EventsNone, Zenon
  <2> QED
    BY <1>3, <2>1, <2>2 DEF CodexReceived, CodexFields, D!Terminals
<1> QED
  BY <1>1, <1>2, <1>3 DEF D!HandleEvent

----------------------------------------------------------------------------
(* The upstream's account.                                                 *)

\* The account of what the upstream has sent.
UpFields == {"sent", "text", "commentary", "thinking", "tools", "named", "finish",
             "fault", "items", "blocks", "over", "closed"}
UpFine(u) == DOMAIN u = UpFields /\ IsFiniteSet(DOMAIN u.items)
UpOn(u, v) ==
    UpFine(u) => /\ UpFine(v) /\ v.fault = u.fault /\ v.closed = u.closed
                 /\ v.over = u.over /\ v.finish = u.finish /\ v.named = u.named

\* What it becomes in two steps.
LEMMA UpOnOn ==
    ASSUME NEW u, NEW v, NEW w, UpOn(u, v), UpOn(v, w)
    PROVE  UpOn(u, w)
BY DEF UpOn

\* Units told, items added to and blocks written leave the names and how the upstream ends alone.
LEMMA UpTold ==
    ASSUME NEW u
    PROVE  /\ UpOn(u, u) /\ UpOn(u, Tick(u))
           /\ \A i, n, whole, done : UpOn(u, Told(u, i, n, whole, done))
           /\ \A s : UpOn(u, ToldBy(u, s))
           /\ \A b, block, n : UpOn(u, Wrote(u, b, block, n))
<1>1. \A v : UpOn(v, v) /\ UpOn(v, Tick(v))
  BY DEF UpOn, UpFine, UpFields, Tick
<1>2. ASSUME NEW i, NEW n, NEW whole, NEW done PROVE UpOn(u, Told(u, i, n, whole, done))
  <2> DEFINE more == n - (IF i \in DOMAIN u.items THEN u.items[i].n ELSE 0)
             x == With(u.items, i, [n |-> n, whole |-> whole, done |-> done])
             v == [u EXCEPT !.items = x]
  <2>1. DOMAIN x = DOMAIN u.items \cup {i}
    BY DEF With
  <2> HIDE DEF x
  <2>2. UpOn(u, v)
    <3>1. UpFine(u) => IsFiniteSet(DOMAIN x)
      BY <2>1, FS_AddElement DEF UpFine
    <3> QED
      BY <3>1 DEF UpOn, UpFine, UpFields
  <2> HIDE DEF v, more
  <2>3. /\ UpOn(v, [v EXCEPT !.text = @ + more]) /\ UpOn(v, [v EXCEPT !.commentary = @ + more])
        /\ UpOn(v, [v EXCEPT !.thinking = @ + more])
        /\ UpOn(v, [v EXCEPT !.tools = Plus(@, CallOf(i), more)])
    BY DEF UpOn, UpFine, UpFields
  <2>4. Told(u, i, n, whole, done) \in
          {v, [v EXCEPT !.text = @ + more], [v EXCEPT !.commentary = @ + more],
           [v EXCEPT !.thinking = @ + more], [v EXCEPT !.tools = Plus(@, CallOf(i), more)]}
    BY DEF Told, v, x, more
  <2> DEFINE t == Told(u, i, n, whole, done)
  <2> HIDE DEF t
  <2>5. UpOn(v, t)
    BY <1>1, <2>3, <2>4 DEF t
  <2>6. UpOn(u, t)
    BY <2>2, <2>5, UpOnOn
  <2> QED
    BY <2>6 DEF t
<1>3. ASSUME NEW s PROVE UpOn(u, ToldBy(u, s))
  BY <1>1, <1>2, Zenon DEF ToldBy
<1>4. ASSUME NEW b, NEW block, NEW n PROVE UpOn(u, Wrote(u, b, block, n))
  <2> DEFINE w == Tick(u)
             v == [w EXCEPT !.blocks = With(@, b, [block EXCEPT !.n = @ + n])]
             x == IF block.n + n = 0 THEN block.inline ELSE block.n + n
  <2>1. UpOn(u, w)
    BY <1>1
  <2> HIDE DEF w
  <2>2. UpOn(w, v)
    BY DEF UpOn, UpFine, UpFields
  <2> HIDE DEF v, x
  <2>3. /\ UpOn(v, [v EXCEPT !.text = @ + n]) /\ UpOn(v, [v EXCEPT !.thinking = @ + n])
        /\ UpOn(v, [v EXCEPT !.tools = With(@, b, x)])
    BY DEF UpOn, UpFine, UpFields
  <2>4. Wrote(u, b, block, n) \in
          {v, [v EXCEPT !.text = @ + n], [v EXCEPT !.thinking = @ + n],
           [v EXCEPT !.tools = With(@, b, x)]}
    BY DEF Wrote, v, w, x
  <2> DEFINE t == Wrote(u, b, block, n)
  <2> HIDE DEF t
  <2>5. UpOn(v, t)
    BY <1>1, <2>3, <2>4 DEF t
  <2>6. UpOn(u, t)
    BY <2>1, <2>2, <2>5, UpOnOn
  <2> QED
    BY <2>6 DEF t
<1> QED
  BY <1>1, <1>2, <1>3, <1>4

\* The fold over the snapshots of an output.
UpAt(x, k, u) == UpOn(x, u)
ToldFold == INSTANCE FoldLemmas WITH Op <- ToldBy, At <- UpAt

\* So does a whole output told at once.
LEMMA UpToldAll ==
    ASSUME NEW u, NEW output, IsList(output)
    PROVE  UpOn(u, FoldOver(ToldBy, u, output))
<1>1. PICK n \in Nat : DOMAIN output = 1..n
  BY DEF IsList
<1>2. UpAt(u, 0, u)
  BY UpTold DEF UpAt
<1>3. \A k \in 1..n : \A v : UpAt(u, k - 1, v) => UpAt(u, k, ToldBy(v, output[k]))
  BY UpTold, UpOnOn DEF UpAt
<1>4. UpAt(u, n, ToldFold!FoldOver(ToldBy, u, output))
  BY <1>1, <1>2, <1>3, ToldFold!FoldReaches, Least, Zenon DEF ToldFold!Least
<1>5. FoldOver(ToldBy, u, output) = ToldFold!FoldOver(ToldBy, u, output)
  BY DEF FoldOver, MapThenFoldSet, ToldFold!FoldOver, ToldFold!MapThenFoldSet
<1> QED
  BY <1>4, <1>5 DEF UpAt

\* What a Responses upstream sends are events.
LEMMA NativeEvents ==
    /\ \A i : IsEvent(Added(i))
    /\ \A type, i, n : IsEvent(Delta(type, i, n))
    /\ \A i, n : IsEvent(ArgsDone(i, n)) /\ IsEvent(TextDone(i, n))
    /\ \A s : IsEvent(ItemDone(s))
    /\ IsEvent(Failed) /\ IsEvent(DoneMark)
    /\ \A reason, output : IsList(output) => IsEvent(Terminal(reason, output))
<1>1. ASSUME NEW reason, NEW output, IsList(output) PROVE IsEvent(Terminal(reason, output))
  <2>1. Terminal(reason, output).output = output
    BY DEF Terminal
  <2> QED
    BY <1>1, <2>1 DEF IsEvent, IsList
<1> QED
  BY <1>1, PlainEvent DEF Added, Delta, ArgsDone, TextDone, ItemDone, Failed, DoneMark

\* The output that its terminal event carries is a list.
LEMMA OutputIsList ==
    ASSUME UpFine(up), NEW more, NEW hidden, IsFiniteSet(hidden)
    PROVE  IsList(Output(more, hidden))
<1> DEFINE f == [i \in DOMAIN up.items |-> Snapshot(i, Grown(i, more), "none")]
           S == {Snapshot(i, Grown(i, more), "none") : i \in DOMAIN up.items}
<1>1. IsFiniteSet(S)
  <2>1. DOMAIN f = DOMAIN up.items /\ S = {f[x] : x \in DOMAIN f}
    BY Zenon
  <2> HIDE DEF f, S
  <2>2. IsFiniteSet({f[x] : x \in DOMAIN f})
    BY <2>1, FiniteImage DEF UpFine
  <2> QED
    BY <2>1, <2>2
<1> HIDE DEF S
<1>2. IsFiniteSet(S \cup hidden)
  BY <1>1, FS_Union, Zenon
<1> DEFINE W == S \cup hidden
<1>3. Output(more, hidden) = InOrder(W)
  BY DEF Output, S, W
<1>4. IsFiniteSet(W)
  BY <1>2
<1> HIDE DEF W
<1>5. \E n \in Nat : DOMAIN InOrder(W) = 1..n
  BY <1>4, FS_CardinalityType DEF InOrder, ByRank
<1> QED
  BY <1>3, <1>5 DEF IsList

\* The entries of the request's log.
Logs == {"none", "ok", "error", "dropped"}

\* A Chat upstream's converter: it is gone only when all was delivered, and its queue ends
\* with its last event only.
ChatFine(c) ==
    /\ DOMAIN c = ChatFields /\ Events(c.out) /\ IsFiniteSet(c.completed)
    /\ (c.gone => c.out = <<>> /\ c.ended /\ c.sentDone)
    /\ (c.sentDone \/ Clean(c.out))
    /\ c.log \in Logs
\* What it says of its upstream u: it logs once it ends, a success only after a finish
\* reason and no fault; when it ends by itself the upstream was cut, has finished or failed.
ChatTells(c, u, cut) ==
    /\ (u.closed => c.ended)
    /\ (~c.ended => c.log = "none")
    /\ (c.ended => c.log # "none")
    /\ (~c.sentDone /\ ~c.ended => c.finish = u.finish /\ ~u.fault)
    /\ (c.sentDone \/ c.ended => cut \/ u.finish # "none" \/ u.fault)
    /\ (c.sentDone /\ ~c.ended => u.finish # "none" /\ ~u.fault)
    /\ (c.log = "ok" => u.finish # "none" /\ ~u.fault)
    /\ (c.log = "dropped" => cut)
    /\ (u.fault => c.log \in {"error", "dropped"})
ChatPart(r, c, u, cut) ==
    /\ ChatFine(c)
    /\ (r \notin ChatRoutes => c.gone)
    /\ (r \in ChatRoutes => ChatTells(c, u, cut))

\* The same for the converter of an Anthropic upstream, whose end is stated by
\* message_stop.
ClaudeFine(c) ==
    /\ DOMAIN c = ClaudeFields /\ Events(c.out) /\ IsFiniteSet(DOMAIN c.items)
    /\ (c.gone => c.out = <<>> /\ c.ended /\ c.sentDone)
    /\ (c.sentDone \/ Clean(c.out))
    /\ c.log \in Logs
ClaudeTells(c, u, cut) ==
    /\ (u.closed => c.ended \/ c.sentDone)
    /\ (~c.ended => c.log = "none")
    /\ (c.ended => c.log # "none")
    /\ (~c.sentDone /\ ~c.ended => ~u.fault)
    /\ (c.sentDone \/ c.ended => cut \/ u.over \/ u.fault)
    /\ (c.sentDone /\ ~c.ended => u.over /\ ~u.fault)
    /\ (c.log = "ok" => u.over /\ ~u.fault)
    /\ (c.log = "dropped" => cut)
    /\ (u.fault => c.log \in {"error", "dropped"})
ClaudePart(r, c, u, cut) ==
    /\ ClaudeFine(c)
    /\ (r \notin ClaudeRoutes => c.gone)
    /\ (r \in ClaudeRoutes => ClaudeTells(c, u, cut))

\* The converter of a Codex stream, and what it says on the route to a Responses client:
\* until its entry is written, a fault is kept as the status that overrides it.
CodexFine(c) ==
    /\ DOMAIN c = CodexFields /\ Events(c.out)
    /\ (c.gone => c.out = <<>> /\ c.ended)
CodexTells(c, u, cut) ==
    /\ c.log \in Logs
    /\ (~c.ended /\ ~c.sentDone => c.log = "none" /\ ~u.fault)
    /\ (c.sentDone => c.gone \/ c.override \/ c.log = "error" \/ (u.over /\ ~u.fault))
    /\ (c.ended => c.log # "none")
    /\ (c.log = "ok" => u.over /\ ~u.fault)
    /\ (c.log = "dropped" => cut)
    /\ (u.fault => c.log \in {"error", "dropped"} \/ (~c.gone /\ c.override /\ c.log = "none"))
CodexPart(r, c, u, cut) ==
    /\ CodexFine(c)
    /\ (r \notin Relayed => c.gone)
    /\ (r \in Relayed /\ u.closed => c.ended \/ c.sentDone)
    /\ (r = "codex" => CodexTells(c, u, cut))

\* The upstream has said that its answer is whole.
HasStated(u) == (u.finish # "none" \/ u.over) /\ ~u.fault

\* The converter to Anthropic, and what it says behind a Chat upstream's converter c: it
\* has not heard more than c has sent, and a fault is logged, or a failure still lies
\* ahead of it in the queue between the two.
AnthFine(a) == AnthGood(a) /\ (a.gone => a.out = <<>> /\ a.ended)
MessageTells(a, c, u, cut) ==
    /\ a.log \in Logs
    /\ (c.gone => a.ended)
    /\ (~a.ended => a.log = "none")
    /\ (a.stopped => c.sentDone)
    /\ (a.ended /\ a.log \in {"none", "ok"} => HasStated(u))
    /\ (a.log = "dropped" => cut)
    /\ (a.gone => a.log # "none")
    /\ (u.fault /\ ~cut =>
           a.log = "error" \/ (FailureAhead(c.out) /\ ~a.stopped /\ ~a.ended))
\* Behind the others it only ends when its stream does.
AnthPart(r, a, c, x, u, cut) ==
    /\ AnthFine(a)
    /\ (r = "messages" => MessageTells(a, c, u, cut))
    /\ (r = "native" => (u.closed => a.ended) /\ (a.stopped => u.over \/ u.closed))
    /\ (r = "codexMessages" => (x.gone => a.ended))

\* The same for the converter to Chat behind an Anthropic upstream's.
TalkFine(t) == IsTalk(t) /\ (t.gone => t.out = <<>> /\ t.ended)
TalkTells(t, c, u, cut) ==
    /\ t.log \in Logs
    /\ (c.gone => t.ended)
    /\ (~t.ended => t.log \in {"none", "error"})
    /\ (t.ended => t.log # "none")
    /\ (t.sentDone => c.sentDone)
    /\ (t.log = "ok" => HasStated(u))
    /\ (t.log = "dropped" => cut)
    /\ (u.fault /\ ~cut =>
           t.log = "error" \/ (FailureAhead(c.out) /\ ~t.sentDone /\ ~t.ended))
TalkPart(r, t, c, u, cut) ==
    r = "claudeChat" => TalkFine(t) /\ TalkTells(t, c, u, cut)

\* The client has left.
Cut == read.phase = "cut"

\* The inductive invariant: what every converter says of the upstream, on every route.
OutcomeInv ==
    /\ route \in Routes
    /\ UpFine(up)
    /\ "phase" \in DOMAIN read
    /\ ChatPart(route, chat, up, Cut)
    /\ ClaudePart(route, claude, up, Cut)
    /\ CodexPart(route, codex, up, Cut)
    /\ AnthPart(route, anth, chat, codex, up, Cut)
    /\ TalkPart(route, talk, claude, up, Cut)
    /\ (Cut => chat.gone /\ claude.gone /\ codex.gone)

\* No event makes a reader leave.
LEMMA HearPhase ==
    ASSUME NEW r, NEW e, "phase" \in DOMAIN r
    PROVE  "phase" \in DOMAIN Hear(r, e) /\ (r.phase # "cut" => Hear(r, e).phase # "cut")
<1>1. \A i, field : /\ "phase" \in DOMAIN Count(r, i, field)
                    /\ Count(r, i, field).phase = r.phase
  BY DEF Count
<1> QED
  BY <1>1 DEF Hear

\* A converter that is gone is fine, with whatever entry it leaves.
LEMMA GoneFine ==
    ASSUME NEW log
    PROVE  /\ LET c == C!GoneChat(log) IN
              (log \in Logs => ChatFine(c)) /\ c.gone = TRUE /\ c.ended = TRUE /\ c.log = log
                  /\ c.sentDone = TRUE
           /\ LET c == L!GoneClaude(log) IN
              (log \in Logs => ClaudeFine(c)) /\ c.gone = TRUE /\ c.ended = TRUE
                  /\ c.log = log /\ c.sentDone = TRUE
           /\ LET c == D!GoneCodex(log) IN
              CodexFine(c) /\ c.gone = TRUE /\ c.ended = TRUE /\ c.log = log
                  /\ c.sentDone = FALSE
           /\ LET c == R!GoneAnth(log) IN
              AnthFine(c) /\ c.gone = TRUE /\ c.ended = TRUE /\ c.log = log
                  /\ c.stopped = FALSE
           /\ LET c == T!GoneTalk(log) IN
              TalkFine(c) /\ c.gone = TRUE /\ c.ended = TRUE /\ c.log = log
                  /\ c.sentDone = FALSE
<1>1. LET c == C!GoneChat(log) IN
          (log \in Logs => ChatFine(c)) /\ c.gone = TRUE /\ c.ended = TRUE /\ c.log = log
                  /\ c.sentDone = TRUE
  BY EventsNone, FS_EmptySet DEF C!GoneChat, C!NewChat, ChatFine, ChatFields
<1>2. LET c == L!GoneClaude(log) IN
          (log \in Logs => ClaudeFine(c)) /\ c.gone = TRUE /\ c.ended = TRUE
                  /\ c.log = log /\ c.sentDone = TRUE
  <2>1. DOMAIN <<>> = {}
    OBVIOUS
  <2> QED
    BY <2>1, EventsNone, FS_EmptySet DEF L!GoneClaude, L!NewClaude, ClaudeFine, ClaudeFields
<1>3. LET c == D!GoneCodex(log) IN
          CodexFine(c) /\ c.gone = TRUE /\ c.ended = TRUE /\ c.log = log
                  /\ c.sentDone = FALSE
  BY EventsNone DEF D!GoneCodex, D!NewCodex, CodexFine, CodexFields
<1>4. LET c == R!GoneAnth(log) IN
          AnthFine(c) /\ c.gone = TRUE /\ c.ended = TRUE /\ c.log = log /\ c.stopped = FALSE
  BY EventsNone DEF R!GoneAnth, R!NewAnth, R!NoBlock, AnthFine, AnthGood, IsAnth, AnthFields,
                    BlockKinds
<1>5. LET c == T!GoneTalk(log) IN
          TalkFine(c) /\ c.gone = TRUE /\ c.ended = TRUE /\ c.log = log
                  /\ c.sentDone = FALSE
  BY TalkGone, Zenon DEF TalkFine
<1> QED
  BY <1>1, <1>2, <1>3, <1>4, <1>5

\* The upstream's account at the start.
LEMMA NothingUp ==
    /\ UpFine(NothingSent) /\ ~NothingSent.fault /\ ~NothingSent.closed
    /\ NothingSent.finish = "none"
<1>1. DOMAIN <<>> = {}
  OBVIOUS
<1> QED
  BY <1>1, FS_EmptySet DEF NothingSent, UpFine, UpFields

\* The invariant holds at the start.
LEMMA OutcomeInit == Init => OutcomeInv
<1> SUFFICES ASSUME Init PROVE OutcomeInv
  OBVIOUS
<1>1. UpFine(up) /\ ~up.fault /\ ~up.closed /\ up.finish = "none"
  BY NothingUp DEF Init
<1>2. "phase" \in DOMAIN read /\ ~Cut
  BY DEF Init, Joined, NothingRead, Cut
<1>3. ChatPart(route, chat, up, Cut)
  <2>1. Clean(<<C!Created>>)
    BY CleanShort, PlainEvent DEF CleanEvent, C!Created, C!Event, Event
  <2>2. CASE route \in ChatRoutes
    <3>1. chat = C!NewChat
      BY <2>2 DEF Init, C!Init
    <3>2. /\ DOMAIN chat = ChatFields /\ chat.out = <<C!Created>> /\ chat.completed = {}
          /\ ~chat.gone /\ ~chat.sentDone /\ ~chat.ended /\ chat.log = "none"
          /\ chat.finish = "none"
      BY <3>1 DEF C!NewChat, ChatFields
    <3>3. ChatFine(chat)
      BY <2>1, <3>2, FS_EmptySet DEF ChatFine, Clean, Logs
    <3> QED
      BY <1>1, <2>2, <3>2, <3>3 DEF ChatPart, ChatTells
  <2>3. CASE route \notin ChatRoutes
    <3>1. chat = C!GoneChat("none") /\ "none" \in Logs
      BY <2>3 DEF Init, Logs
    <3> QED
      BY <2>3, <3>1, GoneFine, Zenon DEF ChatPart
  <2> QED
    BY <2>2, <2>3
<1>4. ClaudePart(route, claude, up, Cut)
  <2>1. Clean(<<L!Created>>) /\ Clean(<<>>)
    BY CleanShort, CleanNone, PlainEvent DEF CleanEvent, L!Created, L!Event, Event
  <2>2. CASE route \in ClaudeRoutes
    <3>1. claude = L!NewClaude
      BY <2>2 DEF Init, L!Init
    <3>2. /\ DOMAIN claude = ClaudeFields /\ Clean(claude.out) /\ IsFiniteSet(DOMAIN claude.items)
          /\ ~claude.gone /\ ~claude.sentDone /\ ~claude.ended /\ claude.log = "none"
      <4>1. DOMAIN <<>> = {}
        OBVIOUS
      <4> QED
        BY <2>1, <3>1, <4>1, FS_EmptySet DEF L!NewClaude, ClaudeFields
    <3>3. ClaudeFine(claude)
      BY <3>2 DEF ClaudeFine, Clean, Logs
    <3> QED
      BY <1>1, <2>2, <3>2, <3>3 DEF ClaudePart, ClaudeTells
  <2>3. CASE route \notin ClaudeRoutes
    <3>1. claude = L!GoneClaude("none") /\ "none" \in Logs
      BY <2>3 DEF Init, Logs
    <3> QED
      BY <2>3, <3>1, GoneFine, Zenon DEF ClaudePart
  <2> QED
    BY <2>2, <2>3
<1>5. CodexPart(route, codex, up, Cut)
  <2>1. CASE route \in Relayed
    <3>1. codex = D!NewCodex
      BY <2>1 DEF Init, D!Init
    <3>2. /\ DOMAIN codex = CodexFields /\ codex.out = <<>>
          /\ ~codex.gone /\ ~codex.sentDone /\ ~codex.ended /\ codex.log = "none"
      BY <3>1 DEF D!NewCodex, CodexFields
    <3> QED
      BY <1>1, <2>1, <3>2, EventsNone DEF CodexPart, CodexFine, CodexTells, Logs
  <2>2. CASE route \notin Relayed
    <3>1. codex = D!GoneCodex("none") /\ route # "codex"
      BY <2>2 DEF Init, Relayed
    <3>2. CodexFine(codex) /\ codex.gone
      BY <3>1, GoneFine, Zenon
    <3> QED
      BY <2>2, <3>1, <3>2 DEF CodexPart
  <2> QED
    BY <2>1, <2>2
<1>6. AnthPart(route, anth, chat, codex, up, Cut)
  <2>1. CASE route \in ToMessages
    <3>1. anth = R!NewAnth
      BY <2>1 DEF Init, R!Init
    <3>2. /\ AnthGood(anth) /\ ~anth.gone /\ ~anth.stopped /\ ~anth.ended /\ anth.log = "none"
      BY <3>1, EventsNone DEF R!NewAnth, R!NoBlock, AnthGood, IsAnth, AnthFields, BlockKinds
    <3>3. (route = "messages" => ~chat.gone) /\ (route = "codexMessages" => ~codex.gone)
      BY DEF Init, C!Init, C!NewChat, D!Init, D!NewCodex, ChatRoutes, Relayed
    <3> QED
      BY <1>1, <3>2, <3>3 DEF AnthPart, AnthFine, MessageTells, Logs
  <2>2. CASE route \notin ToMessages
    <3>1. AnthFine(anth)
      <4>1. anth = R!GoneAnth("none") /\ "none" \in Logs
        BY <2>2 DEF Init, Logs
      <4> QED
        BY <4>1, GoneFine, Zenon
    <3> QED
      BY <2>2, <3>1 DEF AnthPart, ToMessages
  <2> QED
    BY <2>1, <2>2
<1>7. TalkPart(route, talk, claude, up, Cut)
  <2>1. CASE route = "claudeChat"
    <3>1. talk = T!NewTalk
      BY <2>1 DEF Init, T!Init, ToChat
    <3>2. /\ IsTalk(talk) /\ ~talk.gone /\ ~talk.sentDone /\ ~talk.ended /\ talk.log = "none"
      BY <3>1 DEF T!NewTalk, IsTalk, TalkFields
    <3>3. ~claude.gone
      BY <2>1 DEF Init, L!Init, L!NewClaude, ClaudeRoutes
    <3> QED
      BY <1>1, <3>2, <3>3 DEF TalkPart, TalkFine, TalkTells, Logs
  <2> QED
    BY <2>1 DEF TalkPart
<1> QED
  BY <1>1, <1>2, <1>3, <1>4, <1>5, <1>6, <1>7 DEF OutcomeInv, Init

\* The Anthropic client is sent an event.
LEMMA DeliverBlockSafe == OutcomeInv /\ DeliverBlock => OutcomeInv'
<1> SUFFICES ASSUME OutcomeInv, DeliverBlock PROVE OutcomeInv'
  OBVIOUS
<1>1. /\ anth.out # <<>> /\ anth' = [anth EXCEPT !.out = Tail(@)]
      /\ UNCHANGED <<route, chat, claude, codex, talk, up, read>>
  BY DEF DeliverBlock, R!Emit
<1>2. AnthFine(anth) /\ ~anth.gone
  BY <1>1 DEF OutcomeInv, AnthPart, AnthFine
<1>3. /\ AnthFine(anth') /\ anth'.gone = anth.gone /\ anth'.ended = anth.ended
      /\ anth'.stopped = anth.stopped /\ anth'.log = anth.log
  BY <1>1, <1>2 DEF AnthFine, AnthGood, IsAnth, AnthFields
<1>4. AnthPart(route, anth', chat, codex, up, Cut)
  BY <1>3 DEF OutcomeInv, AnthPart, MessageTells
<1> QED
  BY <1>1, <1>4 DEF OutcomeInv, Cut

\* The Chat client is sent a chunk.
LEMMA DeliverChunkSafe == OutcomeInv /\ DeliverChunk => OutcomeInv'
<1> SUFFICES ASSUME OutcomeInv, DeliverChunk PROVE OutcomeInv'
  OBVIOUS
<1>1. /\ talk.out # <<>> /\ talk' = [talk EXCEPT !.out = Tail(@)]
      /\ UNCHANGED <<route, chat, claude, codex, anth, up, read>>
  BY DEF DeliverChunk, T!Emit
<1>2. TalkPart(route, talk', claude, up, Cut)
  <2>1. CASE route = "claudeChat"
    <3>1. TalkFine(talk) /\ ~talk.gone
      BY <1>1, <2>1 DEF OutcomeInv, TalkPart, TalkFine
    <3>2. /\ TalkFine(talk') /\ talk'.gone = talk.gone /\ talk'.ended = talk.ended
          /\ talk'.sentDone = talk.sentDone /\ talk'.log = talk.log
      BY <1>1, <3>1 DEF TalkFine, IsTalk, TalkFields
    <3> QED
      BY <2>1, <3>2 DEF OutcomeInv, TalkPart, TalkTells
  <2> QED
    BY <2>1 DEF TalkPart
<1> QED
  BY <1>1, <1>2 DEF OutcomeInv, Cut

\* The converter to Anthropic has read the event e of a Chat upstream's stream.
LEMMA MessageReceives ==
    ASSUME NEW a, NEW c, NEW u,
           AnthFine(a), ~a.ended, MessageTells(a, c, u, FALSE), ChatFine(c), c.out # <<>>
    PROVE  LET b == R!HandleEvent(a, Head(c.out)) IN
           AnthFine(b) /\ MessageTells(b, [c EXCEPT !.out = Tail(@)], u, FALSE)
<1> DEFINE e == Head(c.out)
           d == [c EXCEPT !.out = Tail(@)]
           b == R!HandleEvent(a, e)
<1>1. DOMAIN c = ChatFields /\ Events(c.out) /\ ~c.gone
  BY DEF ChatFine
<1>2. d.out = Tail(c.out) /\ d.gone = c.gone /\ d.sentDone = c.sentDone
  BY <1>1 DEF ChatFields
<1> HIDE DEF d
<1>3. /\ IsEvent(e)
      /\ (e.type = "[DONE]" => c.sentDone)
      /\ (FailureAhead(c.out) => \/ e.type = "failed"
                                 \/ (e.type # "[DONE]" /\ FailureAhead(d.out)))
  BY <1>1, <1>2, EventsNext DEF ChatFine
<1> HIDE DEF e
<1>4. /\ AnthGood(b) /\ b.gone = a.gone
      /\ (b.stopped = a.stopped \/ e.type = "[DONE]")
      /\ \/ (b.ended = a.ended /\ b.log = a.log)
         \/ (b.ended = TRUE /\ b.log = IF a.log = "none" THEN "error" ELSE a.log)
      /\ (e.type = "failed" /\ ~a.stopped /\ ~a.failed => b.ended /\ b.log # "none")
  BY <1>3, AnthReceives, Zenon DEF AnthFine
<1> HIDE DEF b
<1>5. ~a.gone /\ ~a.failed /\ a.log = "none"
  BY DEF AnthFine, AnthGood, MessageTells
<1>6. AnthFine(b)
  BY <1>4, <1>5 DEF AnthFine
<1>7. u.fault => b.log = "error" \/ (FailureAhead(d.out) /\ ~b.stopped /\ ~b.ended)
  BY <1>3, <1>4, <1>5 DEF MessageTells
<1>8. MessageTells(b, d, u, FALSE)
  BY <1>1, <1>2, <1>3, <1>4, <1>5, <1>7 DEF MessageTells, Logs
<1> QED
  BY <1>6, <1>8, Zenon DEF b, d, e

\* The second converter, or the client, takes an event of a Chat upstream's converter.
LEMMA RelayChatSafe == OutcomeInv /\ RelayChat => OutcomeInv'
<1> SUFFICES ASSUME OutcomeInv, RelayChat PROVE OutcomeInv'
  OBVIOUS
<1> DEFINE e == Head(chat.out)
<1>1. /\ chat.out # <<>> /\ chat' = [chat EXCEPT !.out = Tail(@)]
      /\ read' = Hear(read, e) /\ IntoSecond(e)
      /\ UNCHANGED <<route, claude, codex, up>>
  BY DEF RelayChat, C!Emit
<1> HIDE DEF e
<1>2. ChatFine(chat) /\ ~chat.gone /\ route \in ChatRoutes /\ ~Cut
  BY <1>1 DEF OutcomeInv, ChatPart, ChatFine
<1>3. "phase" \in DOMAIN read' /\ ~(Cut')
  BY <1>1, <1>2, HearPhase DEF OutcomeInv, Cut
<1>4. ChatPart(route, chat', up, Cut')
  <2>1. DOMAIN chat = ChatFields /\ Events(chat.out)
    BY <1>2 DEF ChatFine
  <2>2. /\ chat'.out = Tail(chat.out) /\ chat'.gone = chat.gone /\ DOMAIN chat' = ChatFields
        /\ chat'.sentDone = chat.sentDone /\ chat'.ended = chat.ended
        /\ chat'.log = chat.log /\ chat'.finish = chat.finish
        /\ chat'.completed = chat.completed
    BY <1>1, <2>1 DEF ChatFields
  <2>3. Events(chat'.out) /\ (Clean(chat.out) => Clean(chat'.out))
    BY <1>1, <2>1, <2>2, EventsNext
  <2>4. ChatFine(chat')
    BY <1>2, <2>2, <2>3 DEF ChatFine
  <2>5. ChatTells(chat', up, Cut')
    BY <1>2, <1>3, <2>2 DEF OutcomeInv, ChatPart, ChatTells
  <2> QED
    BY <1>2, <2>4, <2>5 DEF ChatPart
<1>5. ClaudePart(route, claude, up, Cut') /\ CodexPart(route, codex, up, Cut')
  BY <1>2 DEF OutcomeInv, ClaudePart, CodexPart, ChatRoutes, ClaudeRoutes, Relayed
<1>6. AnthPart(route, anth', chat', codex, up, Cut')
  <2>1. CASE route = "responses"
    <3>1. anth' = anth
      BY <1>1, <2>1 DEF IntoSecond, ToMessages, ToChat, ToResponses
    <3> QED
      BY <2>1, <3>1 DEF OutcomeInv, AnthPart
  <2>2. CASE route = "messages"
    <3>1. R!Receive(e)
      BY <1>1, <2>2 DEF IntoSecond, ToMessages, ToChat, ToResponses
    <3>2. ~anth.ended /\ anth' = R!HandleEvent(anth, e)
      BY <3>1 DEF R!Receive, R!Reading
    <3>3. AnthFine(anth) /\ MessageTells(anth, chat, up, Cut)
      BY <2>2 DEF OutcomeInv, AnthPart
    <3>4. Cut = FALSE /\ (Cut') = FALSE
      BY <1>2, <1>3 DEF Cut
    <3>5. MessageTells(anth, chat, up, FALSE)
      BY <3>3, <3>4, Zenon
    <3>6. AnthFine(anth') /\ MessageTells(anth', chat', up, FALSE)
      BY <1>1, <1>2, <3>2, <3>3, <3>5, MessageReceives, Zenon DEF e
    <3>7. MessageTells(anth', chat', up, Cut')
      BY <3>4, <3>6, Zenon
    <3> QED
      BY <2>2, <3>6, <3>7 DEF AnthPart
  <2> QED
    BY <1>2, <2>1, <2>2 DEF ChatRoutes
<1>7. TalkPart(route, talk', claude, up, Cut')
  <2>1. route # "claudeChat"
    BY <1>2 DEF ChatRoutes
  <2> QED
    BY <2>1 DEF TalkPart
<1> QED
  BY <1>1, <1>2, <1>3, <1>4, <1>5, <1>6, <1>7 DEF OutcomeInv

\* The converter to Chat has read the event e of an Anthropic upstream's stream.
LEMMA TalkGiven ==
    ASSUME NEW a, NEW c, NEW u,
           TalkFine(a), ~a.ended, TalkTells(a, c, u, FALSE), ClaudeFine(c), c.out # <<>>
    PROVE  LET b == T!HandleEvent(a, Head(c.out)) IN
           TalkFine(b) /\ TalkTells(b, [c EXCEPT !.out = Tail(@)], u, FALSE)
<1> DEFINE e == Head(c.out)
           d == [c EXCEPT !.out = Tail(@)]
           b == T!HandleEvent(a, e)
<1>1. DOMAIN c = ClaudeFields /\ Events(c.out) /\ ~c.gone
  BY DEF ClaudeFine
<1>2. d.out = Tail(c.out) /\ d.gone = c.gone /\ d.sentDone = c.sentDone
  BY <1>1 DEF ClaudeFields
<1> HIDE DEF d
<1>3. /\ IsEvent(e)
      /\ (e.type \in {"[DONE]", "failed"} => c.sentDone)
      /\ (FailureAhead(c.out) => \/ e.type = "failed"
                                 \/ (e.type # "[DONE]" /\ FailureAhead(d.out)))
  BY <1>1, <1>2, EventsNext DEF ClaudeFine
<1> HIDE DEF e
<1>4. TalkReceived(a, e, b)
  BY <1>3, TalkReceives DEF TalkFine
<1> HIDE DEF b
<1>5. ~a.gone /\ a.log \in {"none", "error"}
  BY DEF TalkFine, TalkTells
<1>6. TalkFine(b)
  BY <1>4, <1>5 DEF TalkFine, TalkReceived
<1>7. u.fault => b.log = "error" \/ (FailureAhead(d.out) /\ ~b.sentDone /\ ~b.ended)
  BY <1>3, <1>4, <1>5 DEF TalkTells, TalkReceived, Entry
<1>8. TalkTells(b, d, u, FALSE)
  BY <1>1, <1>2, <1>3, <1>4, <1>5, <1>7 DEF TalkTells, TalkReceived, Entry, Logs
<1> QED
  BY <1>6, <1>8, Zenon DEF b, d, e

\* The same from an Anthropic upstream's.
LEMMA RelayClaudeSafe == OutcomeInv /\ RelayClaude => OutcomeInv'
<1> SUFFICES ASSUME OutcomeInv, RelayClaude PROVE OutcomeInv'
  OBVIOUS
<1> DEFINE e == Head(claude.out)
<1>1. /\ claude.out # <<>> /\ claude' = [claude EXCEPT !.out = Tail(@)]
      /\ read' = Hear(read, e) /\ IntoSecond(e)
      /\ UNCHANGED <<route, chat, codex, up>>
  BY DEF RelayClaude, L!Emit
<1> HIDE DEF e
<1>2. ClaudeFine(claude) /\ ~claude.gone /\ route \in ClaudeRoutes /\ ~Cut
  BY <1>1 DEF OutcomeInv, ClaudePart, ClaudeFine
<1>3. "phase" \in DOMAIN read' /\ ~(Cut')
  BY <1>1, <1>2, HearPhase DEF OutcomeInv, Cut
<1>4. ClaudePart(route, claude', up, Cut')
  <2>1. DOMAIN claude = ClaudeFields /\ Events(claude.out)
    BY <1>2 DEF ClaudeFine
  <2>2. /\ claude'.out = Tail(claude.out) /\ claude'.gone = claude.gone
        /\ DOMAIN claude' = ClaudeFields
        /\ claude'.sentDone = claude.sentDone /\ claude'.ended = claude.ended
        /\ claude'.log = claude.log /\ claude'.items = claude.items
    BY <1>1, <2>1 DEF ClaudeFields
  <2>3. Events(claude'.out) /\ (Clean(claude.out) => Clean(claude'.out))
    BY <1>1, <2>1, <2>2, EventsNext
  <2>4. ClaudeFine(claude')
    BY <1>2, <2>2, <2>3 DEF ClaudeFine
  <2>5. ClaudeTells(claude', up, Cut')
    BY <1>2, <1>3, <2>2 DEF OutcomeInv, ClaudePart, ClaudeTells
  <2> QED
    BY <1>2, <2>4, <2>5 DEF ClaudePart
<1>5. ChatPart(route, chat, up, Cut') /\ CodexPart(route, codex, up, Cut')
  BY <1>2 DEF OutcomeInv, ChatPart, CodexPart, ChatRoutes, ClaudeRoutes, Relayed
<1>6. AnthPart(route, anth', chat, codex, up, Cut')
  <2>1. anth' = anth
    BY <1>1, <1>2, ZenonT(30) DEF IntoSecond, ToMessages, ToChat, ToResponses, ClaudeRoutes
  <2> QED
    BY <1>2, <2>1 DEF OutcomeInv, AnthPart, ClaudeRoutes
<1>7. TalkPart(route, talk', claude', up, Cut')
  <2>1. CASE route = "claudeChat"
    <3>1. T!Receive(e)
      BY <1>1, <2>1 DEF IntoSecond, ToMessages, ToChat, ToResponses
    <3>2. ~talk.ended /\ talk' = T!HandleEvent(talk, e)
      BY <3>1 DEF T!Receive, T!Reading
    <3>3. TalkFine(talk) /\ TalkTells(talk, claude, up, Cut)
      BY <2>1 DEF OutcomeInv, TalkPart
    <3>4. Cut = FALSE /\ (Cut') = FALSE
      BY <1>2, <1>3 DEF Cut
    <3>5. TalkTells(talk, claude, up, FALSE)
      BY <3>3, <3>4, Zenon
    <3>6. TalkFine(talk') /\ TalkTells(talk', claude', up, FALSE)
      BY <1>1, <1>2, <3>2, <3>3, <3>5, TalkGiven, Zenon DEF e
    <3>7. TalkTells(talk', claude', up, Cut')
      BY <3>4, <3>6, Zenon
    <3> QED
      BY <2>1, <3>6, <3>7 DEF TalkPart
  <2> QED
    BY <2>1 DEF TalkPart
<1> QED
  BY <1>1, <1>2, <1>3, <1>4, <1>5, <1>6, <1>7 DEF OutcomeInv

\* And from a Codex upstream's.
LEMMA RelayCodexSafe == OutcomeInv /\ RelayCodex => OutcomeInv'
<1> SUFFICES ASSUME OutcomeInv, RelayCodex PROVE OutcomeInv'
  OBVIOUS
<1> DEFINE e == Head(codex.out)
<1>1. /\ codex.out # <<>> /\ codex' = [codex EXCEPT !.out = Tail(@)]
      /\ read' = (IF route = "codex" THEN Hear(read, e) ELSE read) /\ IntoSecond(e)
      /\ UNCHANGED <<route, chat, claude, up>>
  BY DEF RelayCodex, D!Emit
<1> HIDE DEF e
<1>2. CodexFine(codex) /\ ~codex.gone /\ route \in Relayed /\ ~Cut
  BY <1>1 DEF OutcomeInv, CodexPart, CodexFine
<1>3. "phase" \in DOMAIN read' /\ ~(Cut')
  BY <1>1, <1>2, HearPhase DEF OutcomeInv, Cut
<1>4. CodexPart(route, codex', up, Cut') /\ ~codex'.gone
  <2>1. DOMAIN codex = CodexFields /\ Events(codex.out)
    BY <1>2 DEF CodexFine
  <2>2. /\ codex'.out = Tail(codex.out) /\ codex'.gone = codex.gone
        /\ DOMAIN codex' = CodexFields
        /\ codex'.sentDone = codex.sentDone /\ codex'.ended = codex.ended
        /\ codex'.log = codex.log /\ codex'.override = codex.override
    BY <1>1, <2>1 DEF CodexFields
  <2>3. Events(codex'.out)
    BY <1>1, <2>1, <2>2, EventsNext
  <2>4. CodexFine(codex')
    BY <1>2, <2>2, <2>3 DEF CodexFine
  <2> QED
    BY <1>2, <1>3, <2>2, <2>4 DEF OutcomeInv, CodexPart, CodexTells
<1>5. ChatPart(route, chat, up, Cut') /\ ClaudePart(route, claude, up, Cut')
  BY <1>2 DEF OutcomeInv, ChatPart, ClaudePart, ChatRoutes, ClaudeRoutes, Relayed
<1>6. AnthPart(route, anth', chat, codex', up, Cut')
  <2>1. CASE route = "codex"
    <3>1. anth' = anth
      BY <1>1, <2>1 DEF IntoSecond, ToMessages, ToChat, ToResponses
    <3> QED
      BY <2>1, <3>1 DEF OutcomeInv, AnthPart
  <2>2. CASE route = "codexMessages"
    <3>1. R!Receive(e)
      BY <1>1, <2>2 DEF IntoSecond, ToMessages, ToChat, ToResponses
    <3>2. ~anth.ended /\ anth' = R!HandleEvent(anth, e)
      BY <3>1 DEF R!Receive, R!Reading
    <3>3. IsEvent(e)
      BY <1>1, <1>2, EventsNext DEF CodexFine, e
    <3>4. AnthFine(anth')
      BY <3>2, <3>3, AnthReceives, Zenon DEF AnthFine, OutcomeInv, AnthPart
    <3> QED
      BY <1>4, <2>2, <3>4 DEF AnthPart
  <2> QED
    BY <1>2, <2>1, <2>2 DEF Relayed
<1>7. TalkPart(route, talk', claude, up, Cut')
  BY <1>2 DEF TalkPart, Relayed
<1> QED
  BY <1>1, <1>2, <1>3, <1>4, <1>5, <1>6, <1>7 DEF OutcomeInv

\* Logging writes the entry if there is none: the converter of a Chat upstream's.
LEMMA LoggedChat ==
    ASSUME NEW c, NEW entry, DOMAIN c = ChatFields
    PROVE  C!Log(c, entry).log = Entry(c.log, entry)
BY DEF C!Log, Entry, ChatFields

\* The same for the converter of an Anthropic upstream.
LEMMA LoggedClaude ==
    ASSUME NEW c, NEW entry, DOMAIN c = ClaudeFields
    PROVE  L!Log(c, entry).log = Entry(c.log, entry)
BY DEF L!Log, Entry, ClaudeFields

\* The same for the converter of a Codex upstream.
LEMMA LoggedCodex ==
    ASSUME NEW c, NEW entry, DOMAIN c = CodexFields
    PROVE  D!Log(c, entry).log = Entry(c.log, entry)
BY DEF D!Log, Entry, CodexFields

\* The same for the converter to an Anthropic client.
LEMMA LoggedAnth ==
    ASSUME NEW c, NEW entry, IsAnth(c)
    PROVE  R!Log(c, entry).log = Entry(c.log, entry)
BY DEF R!Log, Entry, IsAnth, AnthFields

\* The same for the converter to a Chat client.
LEMMA LoggedTalk ==
    ASSUME NEW c, NEW entry, IsTalk(c)
    PROVE  T!Log(c, entry).log = Entry(c.log, entry)
BY DEF T!Log, Entry, IsTalk, TalkFields

\* The converter to Anthropic or to Chat has read the end.
LEMMA AnthEndsFine ==
    ASSUME NEW s, AnthFine(s), ~s.ended
    PROVE  LET u == R!CloseIfEmpty(R!FinishMessage(R!Flush([s EXCEPT !.ended = TRUE]))) IN
           /\ AnthFine(u) /\ u.ended
           /\ (u.gone => u.log # "none")
           /\ u.log \in {s.log, "ok", "error"} /\ (s.log # "none" => u.log = s.log)
<1> DEFINE w == R!FinishMessage(R!Flush([s EXCEPT !.ended = TRUE]))
           u == R!CloseIfEmpty(w)
<1>1. /\ AnthGood(u) /\ u.ended
      /\ (u.gone = s.gone \/ (u.gone = TRUE /\ u.out = <<>> /\ u.log # "none"))
      /\ u.log \in {s.log, "ok", "error"} /\ (s.log # "none" => u.log = s.log)
  BY AnthEnds, Zenon DEF AnthFine
<1>2. ~s.gone
  BY DEF AnthFine
<1> HIDE DEF u
<1>3. AnthFine(u) /\ (u.gone => u.log # "none")
  BY <1>1, <1>2 DEF AnthFine
<1> QED
  BY <1>1, <1>3 DEF u, w

\* The first converter has delivered all and ends; the second is told so.
LEMMA RelayEndSafe == OutcomeInv /\ RelayEnd => OutcomeInv'
<1> SUFFICES ASSUME OutcomeInv, RelayEnd PROVE OutcomeInv'
  OBVIOUS
<1>1. EndOfFirst /\ UNCHANGED <<route, up, read>> /\ (Cut') = Cut
  BY DEF RelayEnd, Cut
<1>2. CASE ~chat.gone /\ C!Close /\ UNCHANGED <<claude, codex>>
  <2>1. route \in ChatRoutes /\ ~Cut /\ ChatTells(chat, up, Cut) /\ ChatFine(chat)
    BY <1>2 DEF OutcomeInv, ChatPart
  <2>2. /\ chat.out = <<>> /\ (chat.ended \/ chat.sentDone)
        /\ chat' = C!GoneChat(C!Log(chat, IF chat.ended THEN "dropped" ELSE "ok").log)
    BY <1>2 DEF C!Close
  <2> DEFINE x == C!Log(chat, IF chat.ended THEN "dropped" ELSE "ok").log
  <2>3. x = Entry(chat.log, IF chat.ended THEN "dropped" ELSE "ok")
    BY <2>1, LoggedChat DEF ChatFine
  <2>4. x = IF chat.ended THEN chat.log ELSE "ok"
    BY <2>1, <2>3 DEF ChatTells, Entry
  <2> HIDE DEF x
  <2>5. /\ x \in Logs /\ x # "none" /\ (x = "ok" => up.finish # "none" /\ ~up.fault)
        /\ x # "dropped" /\ (up.fault => x = "error")
    BY <2>1, <2>2, <2>4 DEF ChatTells, ChatFine, Logs
  <2>6. ChatFine(chat') /\ chat'.gone /\ chat'.ended /\ chat'.sentDone /\ chat'.log = x
    BY <2>2, <2>5, GoneFine, Zenon DEF x
  <2>7. ChatPart(route, chat', up, Cut)
    BY <2>1, <2>2, <2>5, <2>6 DEF ChatPart, ChatTells
  <2>8. AnthPart(route, anth', chat', codex, up, Cut)
    <3>1. CASE route = "responses"
      <4>1. anth' = anth
        BY <1>1, <3>1 DEF EndOfFirst, ToMessages, ToChat, ToResponses
      <4> QED
        BY <3>1, <4>1 DEF OutcomeInv, AnthPart
    <3>2. CASE route = "messages"
      <4>1. /\ ~anth.ended
            /\ anth' = R!CloseIfEmpty(R!FinishMessage(R!Flush([anth EXCEPT !.ended = TRUE])))
        BY <1>1, <3>2 DEF EndOfFirst, ToMessages, ToChat, ToResponses, R!EndOfUpstream, R!Reading
      <4>2. AnthFine(anth) /\ MessageTells(anth, chat, up, Cut)
        BY <3>2 DEF OutcomeInv, AnthPart
      <4>3. /\ AnthFine(anth') /\ anth'.ended
            /\ (anth'.gone => anth'.log # "none")
            /\ anth'.log \in {anth.log, "ok", "error"}
            /\ (anth.log # "none" => anth'.log = anth.log)
        BY <4>1, <4>2, AnthEndsFine
      <4>4. up.fault => anth.log = "error"
        BY <2>1, <2>2, <4>2, FailureAhead0 DEF MessageTells
      <4>5. ~up.fault => up.finish # "none"
        BY <2>1, <2>2 DEF ChatTells
      <4>6. MessageTells(anth', chat', up, Cut)
        BY <2>1, <2>6, <4>2, <4>3, <4>4, <4>5 DEF MessageTells, HasStated, Logs
      <4> QED
        BY <3>2, <4>3, <4>6 DEF AnthPart
    <3> QED
      BY <2>1, <3>1, <3>2 DEF ChatRoutes
  <2>9. TalkPart(route, talk', claude, up, Cut)
    BY <2>1 DEF TalkPart, ChatRoutes
  <2> QED
    BY <1>1, <1>2, <2>1, <2>6, <2>7, <2>8, <2>9 DEF OutcomeInv
<1>3. CASE ~claude.gone /\ L!Close /\ UNCHANGED <<chat, codex>>
  <2>1. route \in ClaudeRoutes /\ ~Cut /\ ClaudeTells(claude, up, Cut) /\ ClaudeFine(claude)
    BY <1>3 DEF OutcomeInv, ClaudePart
  <2>2. /\ claude.out = <<>> /\ (claude.ended \/ claude.sentDone)
        /\ claude' = L!GoneClaude(L!Log(claude, IF claude.ended THEN "dropped" ELSE "ok").log)
    BY <1>3 DEF L!Close
  <2> DEFINE x == L!Log(claude, IF claude.ended THEN "dropped" ELSE "ok").log
  <2>3. x = Entry(claude.log, IF claude.ended THEN "dropped" ELSE "ok")
    BY <2>1, LoggedClaude DEF ClaudeFine
  <2>4. x = IF claude.ended THEN claude.log ELSE "ok"
    BY <2>1, <2>3 DEF ClaudeTells, Entry
  <2> HIDE DEF x
  <2>5. /\ x \in Logs /\ x # "none" /\ (x = "ok" => up.over /\ ~up.fault)
        /\ x # "dropped" /\ (up.fault => x = "error")
    BY <2>1, <2>2, <2>4 DEF ClaudeTells, ClaudeFine, Logs
  <2>6. ClaudeFine(claude') /\ claude'.gone /\ claude'.ended /\ claude'.sentDone /\ claude'.log = x
    BY <2>2, <2>5, GoneFine, Zenon DEF x
  <2>7. ClaudePart(route, claude', up, Cut)
    BY <2>1, <2>2, <2>5, <2>6 DEF ClaudePart, ClaudeTells
  <2>8. AnthPart(route, anth', chat, codex, up, Cut)
    <3>1. anth' = anth
      BY <1>1, <2>1, Zenon DEF EndOfFirst, ToMessages, ToChat, ToResponses, ClaudeRoutes
    <3> QED
      BY <2>1, <3>1 DEF OutcomeInv, AnthPart, ClaudeRoutes
  <2>9. TalkPart(route, talk', claude', up, Cut)
    <3>1. CASE route = "claudeChat"
      <4>1. /\ ~talk.ended
            /\ talk' = T!CloseIfEmpty(T!Log(T!PushDone([talk EXCEPT !.ended = TRUE]), "ok"))
        BY <1>1, <3>1 DEF EndOfFirst, ToMessages, ToChat, ToResponses, T!EndOfUpstream, T!Reading
      <4>2. TalkFine(talk) /\ TalkTells(talk, claude, up, Cut)
        BY <3>1 DEF OutcomeInv, TalkPart
      <4>3. TalkEnded(talk, talk')
        BY <4>1, <4>2, TalkEnds DEF TalkFine
      <4>4. TalkFine(talk') /\ talk'.ended /\ talk'.log = Entry(talk.log, "ok")
        BY <4>1, <4>2, <4>3 DEF TalkEnded, TalkFine
      <4>5. up.fault => talk.log = "error"
        BY <2>1, <2>2, <4>2, FailureAhead0 DEF TalkTells
      <4>6. ~up.fault => up.over
        BY <2>1, <2>2 DEF ClaudeTells
      <4>7. TalkTells(talk', claude', up, Cut)
        BY <2>1, <2>6, <4>1, <4>2, <4>4, <4>5, <4>6 DEF TalkTells, HasStated, Logs, Entry
      <4> QED
        BY <3>1, <4>4, <4>7 DEF TalkPart
    <3> QED
      BY <3>1 DEF TalkPart
  <2> QED
    BY <1>1, <1>3, <2>1, <2>6, <2>7, <2>8, <2>9 DEF OutcomeInv
<1>4. CASE ~codex.gone /\ D!Close /\ UNCHANGED <<chat, claude>>
  <2>1. route \in Relayed /\ ~Cut /\ CodexFine(codex)
    BY <1>4 DEF OutcomeInv, CodexPart
  <2>2. /\ codex.out = <<>> /\ (codex.ended \/ codex.sentDone)
        /\ codex' = D!GoneCodex((IF codex.ended THEN D!Log(codex, "dropped")
                                 ELSE D!LogUsage(codex)).log)
    BY <1>4 DEF D!Close
  <2> DEFINE x == (IF codex.ended THEN D!Log(codex, "dropped") ELSE D!LogUsage(codex)).log
  <2>3. x = Entry(codex.log, IF codex.ended THEN "dropped"
                             ELSE IF codex.override THEN "error" ELSE "ok")
    BY <2>1, LoggedCodex DEF CodexFine, D!LogUsage
  <2>4. CodexFine(codex') /\ codex'.gone /\ codex'.ended /\ codex'.log = x /\ ~codex'.sentDone
    BY <2>2, GoneFine, Zenon DEF x
  <2> HIDE DEF x
  <2>5. CodexPart(route, codex', up, Cut)
    <3>1. CASE route = "codex"
      <4>1. CodexTells(codex, up, Cut)
        BY <3>1 DEF OutcomeInv, CodexPart
      <4>2. x \in Logs /\ x # "none" /\ x # "dropped"
        BY <2>1, <2>3, <4>1 DEF CodexTells, Logs, Entry
      <4>3. x = "ok" => up.over /\ ~up.fault
        BY <1>4, <2>2, <2>3, <4>1 DEF CodexTells, Logs, Entry
      <4>4. up.fault => x = "error"
        BY <1>4, <2>1, <2>2, <2>3, <4>1, <4>2 DEF CodexTells, Logs, Entry
      <4> QED
        BY <2>1, <2>4, <3>1, <4>2, <4>3, <4>4 DEF CodexPart, CodexTells
    <3> QED
      BY <2>1, <2>4, <3>1 DEF CodexPart
  <2>6. AnthPart(route, anth', chat, codex', up, Cut)
    <3>1. CASE route = "codex"
      <4>1. anth' = anth
        BY <1>1, <3>1 DEF EndOfFirst, ToMessages, ToChat, ToResponses
      <4> QED
        BY <3>1, <4>1 DEF OutcomeInv, AnthPart
    <3>2. CASE route = "codexMessages"
      <4>1. /\ ~anth.ended
            /\ anth' = R!CloseIfEmpty(R!FinishMessage(R!Flush([anth EXCEPT !.ended = TRUE])))
        BY <1>1, <3>2 DEF EndOfFirst, ToMessages, ToChat, ToResponses, R!EndOfUpstream, R!Reading
      <4>2. AnthFine(anth') /\ anth'.ended
        BY <4>1, AnthEndsFine DEF OutcomeInv, AnthPart
      <4> QED
        BY <3>2, <4>2 DEF AnthPart
    <3> QED
      BY <2>1, <3>1, <3>2 DEF Relayed
  <2>7. TalkPart(route, talk', claude, up, Cut)
    BY <2>1 DEF TalkPart, Relayed
  <2> QED
    BY <1>1, <1>4, <2>1, <2>4, <2>5, <2>6, <2>7 DEF OutcomeInv
<1> QED
  BY <1>2, <1>3, <1>4 DEF RelayEnd

\* The last converter has delivered all and ends.
LEMMA FinishSafe == OutcomeInv /\ Finish => OutcomeInv'
<1> SUFFICES ASSUME OutcomeInv, Finish PROVE OutcomeInv'
  OBVIOUS
<1>1. UNCHANGED <<route, chat, claude, codex, up, read>> /\ (Cut') = Cut
  BY DEF Finish, Cut
<1>2. CASE ~anth.gone /\ R!Close /\ UNCHANGED talk
  <2>1. anth.ended /\ anth' = R!GoneAnth(R!Log(anth, "ok").log) /\ AnthFine(anth)
    BY <1>2 DEF R!Close, OutcomeInv, AnthPart
  <2>2. /\ AnthFine(anth') /\ anth'.gone /\ anth'.ended /\ ~anth'.stopped
        /\ anth'.log = Entry(anth.log, "ok")
    <3>1. R!Log(anth, "ok").log = Entry(anth.log, "ok")
      BY <2>1, LoggedAnth DEF AnthFine, AnthGood
    <3> QED
      BY <2>1, <3>1, GoneFine, Zenon
  <2>3. AnthPart(route, anth', chat, codex, up, Cut)
    BY <2>1, <2>2 DEF OutcomeInv, AnthPart, MessageTells, Entry, Logs
  <2> QED
    BY <1>1, <1>2, <2>3 DEF OutcomeInv
<1>3. CASE ~talk.gone /\ T!Close /\ UNCHANGED anth
  <2>1. TalkPart(route, talk', claude, up, Cut)
    <3>1. CASE route = "claudeChat"
      <4>1. /\ talk.ended /\ talk' = T!GoneTalk(T!Log(talk, "dropped").log) /\ TalkFine(talk)
            /\ TalkTells(talk, claude, up, Cut)
        BY <1>3, <3>1 DEF T!Close, OutcomeInv, TalkPart
      <4>2. /\ TalkFine(talk') /\ talk'.gone /\ talk'.ended /\ ~talk'.sentDone
            /\ talk'.log = talk.log
        <5>1. T!Log(talk, "dropped").log = Entry(talk.log, "dropped")
          BY <4>1, LoggedTalk DEF TalkFine
        <5>2. Entry(talk.log, "dropped") = talk.log
          BY <4>1 DEF TalkTells, Entry
        <5> QED
          BY <4>1, <5>1, <5>2, GoneFine, ZenonT(30)
      <4> QED
        BY <3>1, <4>1, <4>2 DEF TalkPart, TalkTells
    <3> QED
      BY <3>1 DEF TalkPart
  <2> QED
    BY <1>1, <1>3, <2>1 DEF OutcomeInv
<1> QED
  BY <1>2, <1>3 DEF Finish

\* The client leaves: every converter is dropped and logs that, if it has logged
\* nothing.
LEMMA LeaveSafe == OutcomeInv /\ Leave => OutcomeInv'
<1> SUFFICES ASSUME OutcomeInv, Leave PROVE OutcomeInv'
  OBVIOUS
<1>1. /\ chat' = C!GoneChat(C!Log(chat, "dropped").log)
      /\ claude' = L!GoneClaude(L!Log(claude, "dropped").log)
      /\ codex' = D!GoneCodex(D!Log(codex, "dropped").log)
      /\ anth' = R!GoneAnth(R!Log(anth, "dropped").log)
      /\ talk' = T!GoneTalk(T!Log(talk, "dropped").log)
      /\ read' = (IF route \in Heard THEN Left(read) ELSE read)
      /\ UNCHANGED <<route, up>>
  BY DEF Leave, C!Abandon, L!Abandon, D!Abandon, R!Abandon, T!Abandon
<1>2. "phase" \in DOMAIN read' /\ (route \in Heard => Cut')
  BY <1>1 DEF OutcomeInv, Left, Cut
<1>3. chat'.gone /\ claude'.gone /\ codex'.gone
  BY <1>1, GoneFine, Zenon
<1>4. ChatPart(route, chat', up, Cut')
  <2>1. ChatFine(chat)
    BY DEF OutcomeInv, ChatPart
  <2>2. C!Log(chat, "dropped").log = Entry(chat.log, "dropped")
    BY <2>1, LoggedChat DEF ChatFine
  <2>3. Entry(chat.log, "dropped") \in Logs
    BY <2>1 DEF ChatFine, Entry, Logs
  <2>4. /\ ChatFine(chat') /\ chat'.gone /\ chat'.ended /\ chat'.sentDone
        /\ chat'.log = Entry(chat.log, "dropped")
    BY <1>1, <2>2, <2>3, GoneFine, Zenon
  <2>5. ASSUME route \in ChatRoutes PROVE ChatTells(chat', up, Cut')
    <3>1. Cut' /\ ChatTells(chat, up, Cut)
      BY <1>2, <2>5 DEF Heard, OutcomeInv, ChatPart
    <3> QED
      BY <2>4, <3>1 DEF ChatTells, Entry
  <2> QED
    BY <2>4, <2>5 DEF ChatPart
<1>5. ClaudePart(route, claude', up, Cut')
  <2>1. ClaudeFine(claude)
    BY DEF OutcomeInv, ClaudePart
  <2>2. L!Log(claude, "dropped").log = Entry(claude.log, "dropped")
    BY <2>1, LoggedClaude DEF ClaudeFine
  <2>3. Entry(claude.log, "dropped") \in Logs
    BY <2>1 DEF ClaudeFine, Entry, Logs
  <2>4. /\ ClaudeFine(claude') /\ claude'.gone /\ claude'.ended /\ claude'.sentDone
        /\ claude'.log = Entry(claude.log, "dropped")
    BY <1>1, <2>2, <2>3, GoneFine, Zenon
  <2>5. ASSUME route \in ClaudeRoutes PROVE ClaudeTells(claude', up, Cut')
    <3>1. Cut' /\ ClaudeTells(claude, up, Cut)
      BY <1>2, <2>5 DEF Heard, OutcomeInv, ClaudePart
    <3> QED
      BY <2>4, <3>1 DEF ClaudeTells, Entry
  <2> QED
    BY <2>4, <2>5 DEF ClaudePart
<1>6. CodexPart(route, codex', up, Cut')
  <2>1. CodexFine(codex)
    BY DEF OutcomeInv, CodexPart
  <2>2. D!Log(codex, "dropped").log = Entry(codex.log, "dropped")
    BY <2>1, LoggedCodex DEF CodexFine
  <2>3. /\ CodexFine(codex') /\ codex'.gone /\ codex'.ended /\ ~codex'.sentDone
        /\ codex'.log = Entry(codex.log, "dropped")
    BY <1>1, <2>2, GoneFine, Zenon
  <2>4. ASSUME route = "codex" PROVE CodexTells(codex', up, Cut')
    <3>1. Cut' /\ CodexTells(codex, up, Cut)
      BY <1>2, <2>4 DEF Heard, OutcomeInv, CodexPart
    <3> QED
      BY <2>3, <3>1 DEF CodexTells, Entry, Logs
  <2> QED
    BY <2>3, <2>4 DEF CodexPart
<1>7. AnthPart(route, anth', chat', codex', up, Cut')
  <2>1. AnthFine(anth)
    BY DEF OutcomeInv, AnthPart
  <2>2. R!Log(anth, "dropped").log = Entry(anth.log, "dropped")
    BY <2>1, LoggedAnth DEF AnthFine, AnthGood
  <2>3. /\ AnthFine(anth') /\ anth'.gone /\ anth'.ended /\ ~anth'.stopped
        /\ anth'.log = Entry(anth.log, "dropped")
    BY <1>1, <2>2, GoneFine, Zenon
  <2>4. ASSUME route = "messages" PROVE MessageTells(anth', chat', up, Cut')
    <3>1. Cut' /\ MessageTells(anth, chat, up, Cut)
      BY <1>2, <2>4 DEF Heard, ChatRoutes, OutcomeInv, AnthPart
    <3> QED
      BY <1>3, <2>3, <3>1 DEF MessageTells, Entry, Logs
  <2> QED
    BY <2>3, <2>4 DEF AnthPart
<1>8. TalkPart(route, talk', claude', up, Cut')
  <2>1. CASE route = "claudeChat"
    <3>1. Cut' /\ TalkFine(talk) /\ TalkTells(talk, claude, up, Cut)
      BY <1>2, <2>1 DEF Heard, ClaudeRoutes, OutcomeInv, TalkPart
    <3>2. T!Log(talk, "dropped").log = Entry(talk.log, "dropped")
      BY <3>1, LoggedTalk DEF TalkFine
    <3>3. /\ TalkFine(talk') /\ talk'.gone /\ talk'.ended /\ ~talk'.sentDone
          /\ talk'.log = Entry(talk.log, "dropped")
      BY <1>1, <3>2, GoneFine, Zenon
    <3> QED
      BY <2>1, <3>1, <3>3 DEF TalkPart, TalkTells, Entry, Logs
  <2> QED
    BY <2>1 DEF TalkPart
<1> QED
  BY <1>1, <1>2, <1>3, <1>4, <1>5, <1>6, <1>7, <1>8 DEF OutcomeInv

----------------------------------------------------------------------------
(* A Chat upstream.                                                        *)

\* The other converters while a Chat upstream is read.
LEMMA WhileChat ==
    ASSUME OutcomeInv, route \in ChatRoutes, C!Reading, route = "messages" => R!Reading,
           ChatUnchanged, UpFine(up'),
           ChatFine(chat'), ~chat'.gone, ChatTells(chat', up', FALSE),
           route = "messages" /\ up'.fault => FailureAhead(chat'.out),
           chat.sentDone => chat'.sentDone
    PROVE  OutcomeInv'
<1>1. /\ UNCHANGED <<route, claude, codex, anth, talk, read>> /\ (Cut') = Cut
  BY DEF ChatUnchanged, Cut
<1>2. ~chat.gone /\ ~Cut
  BY DEF C!Reading, OutcomeInv, ChatPart, ChatFine
<1>3. Cut = FALSE
  BY <1>2 DEF Cut
<1>4. ChatPart(route, chat', up', Cut)
  BY <1>3, Zenon DEF ChatPart
<1>5. ClaudePart(route, claude, up', Cut) /\ CodexPart(route, codex, up', Cut)
  BY DEF OutcomeInv, ClaudePart, CodexPart, ChatRoutes, ClaudeRoutes, Relayed
<1>6. AnthPart(route, anth, chat', codex, up', Cut)
  <2>1. AnthFine(anth)
    BY DEF OutcomeInv, AnthPart
  <2>2. ASSUME route = "messages" PROVE MessageTells(anth, chat', up', Cut)
    <3>1. MessageTells(anth, chat, up, Cut) /\ ~anth.ended
      BY <2>2 DEF OutcomeInv, AnthPart, R!Reading
    <3>2. ~anth.stopped /\ ~anth.gone
      BY <2>1, <3>1 DEF MessageTells, C!Reading, AnthFine
    <3> QED
      BY <2>2, <3>1, <3>2 DEF MessageTells
  <2> QED
    BY <2>1, <2>2 DEF AnthPart, ChatRoutes
<1>7. TalkPart(route, talk, claude, up', Cut)
  BY DEF TalkPart, ChatRoutes
<1> QED
  BY <1>1, <1>2, <1>4, <1>5, <1>6, <1>7 DEF OutcomeInv

\* A Chat upstream's converter that reads has neither ended nor logged.
LEMMA ChatReads ==
    ASSUME OutcomeInv, route \in ChatRoutes, C!Reading
    PROVE  /\ ChatWorking(chat) /\ ChatFine(chat) /\ ChatTells(chat, up, FALSE)
           /\ ~chat.sentDone /\ ~chat.ended /\ ~chat.gone /\ chat.log = "none"
           /\ UpFine(up) /\ ~up.fault /\ ~up.closed
<1>1. ChatFine(chat) /\ ~chat.sentDone /\ ~chat.ended /\ ~chat.gone
  BY DEF C!Reading, OutcomeInv, ChatPart, ChatFine
<1>2. Cut = FALSE
  BY <1>1 DEF OutcomeInv, Cut
<1>3. ChatTells(chat, up, FALSE)
  BY <1>2, Zenon DEF OutcomeInv, ChatPart
<1> QED
  BY <1>1, <1>3 DEF OutcomeInv, ChatTells, ChatFine, ChatWorking

\* The upstream sends a chunk.
LEMMA ChunkSafe == OutcomeInv /\ (\E p \in Parts[route] : Chunk(p)) => OutcomeInv'
<1> SUFFICES ASSUME OutcomeInv, NEW p \in Parts[route], Chunk(p) PROVE OutcomeInv'
  OBVIOUS
<1>1. /\ route \in ChatRoutes /\ (route = "messages" => R!Reading) /\ C!Reading
      /\ C!ReceivePart(p) /\ ChatUnchanged
  BY DEF Chunk, ChatRead, C!ReceivePart
<1>2. /\ ChatWorking(chat) /\ ChatFine(chat) /\ ChatTells(chat, up, FALSE)
      /\ ~chat.sentDone /\ ~chat.ended /\ ~chat.gone /\ UpFine(up)
  BY <1>1, ChatReads, Zenon
<1>3. p.part \in {"reasoning", "redacted", "text", "audio", "tool"}
  BY StreamAssumption DEF OutcomeInv
<1>4. ChatOn(chat, chat')
  BY <1>1, <1>3, ChatWrites, ChatCalls DEF C!ReceivePart
<1>5. /\ ChatWorking(chat') /\ chat'.finish = chat.finish /\ chat'.sentDone = chat.sentDone
      /\ chat'.ended = chat.ended /\ chat'.gone = chat.gone /\ chat'.log = chat.log
  BY <1>2, <1>4 DEF ChatOn
<1>6. ChatFine(chat') /\ ~chat'.gone
  BY <1>2, <1>5 DEF ChatFine, ChatWorking, Clean
<1>7. /\ UpFine(up') /\ up'.fault = up.fault /\ up'.closed = up.closed
      /\ up'.finish = up.finish
  <2>1. UpFine(Recorded(p)) /\ Recorded(p).fault = up.fault /\ Recorded(p).closed = up.closed
            /\ Recorded(p).finish = up.finish
    BY <1>2 DEF Recorded, UpFine, UpFields
  <2>2. up' = [Recorded(p) EXCEPT !.sent = @ + 1]
    BY DEF Chunk
  <2> QED
    BY <2>1, <2>2 DEF UpFine, UpFields
<1>8. ChatTells(chat', up', FALSE) /\ ~up'.fault
  BY <1>2, <1>5, <1>7 DEF ChatTells
<1> QED
  BY <1>1, <1>2, <1>6, <1>7, <1>8, WhileChat

\* It states its finish reason.
LEMMA StateFinishSafe ==
    OutcomeInv /\ (\E reason \in FinishReasons : StateFinish(reason)) => OutcomeInv'
<1> SUFFICES ASSUME OutcomeInv, NEW reason \in FinishReasons, StateFinish(reason)
             PROVE  OutcomeInv'
  OBVIOUS
<1>1. /\ route \in ChatRoutes /\ (route = "messages" => R!Reading) /\ C!Reading
      /\ chat' = [chat EXCEPT !.finish = reason] /\ ChatUnchanged
      /\ up' = [up EXCEPT !.finish = reason, !.sent = IF @ < MaxChunks THEN @ + 1 ELSE @]
  BY DEF StateFinish, ChatRead, C!ReceiveFinish
<1>2. /\ ChatFine(chat) /\ ChatTells(chat, up, FALSE) /\ chat.log = "none"
      /\ ~chat.sentDone /\ ~chat.ended /\ ~chat.gone /\ UpFine(up) /\ ~up.fault /\ ~up.closed
  BY <1>1, ChatReads, Zenon
<1>3. /\ ChatFine(chat') /\ chat'.finish = reason /\ ~chat'.sentDone
      /\ ~chat'.ended /\ ~chat'.gone /\ chat'.log = "none"
  BY <1>1, <1>2 DEF ChatFine, ChatFields
<1>4. UpFine(up') /\ ~up'.fault /\ ~up'.closed /\ up'.finish = reason
  BY <1>1, <1>2 DEF UpFine, UpFields
<1>5. ChatTells(chat', up', FALSE)
  BY <1>3, <1>4 DEF ChatTells
<1> QED
  BY <1>1, <1>2, <1>3, <1>4, <1>5, WhileChat

\* A failed converter says so, and its reader has the failure ahead.
LEMMA ChatFailedFine ==
    ASSUME NEW c, NEW d, NEW u, ChatFailed(c, d), ~c.gone, u.finish # "none" \/ u.fault
    PROVE  /\ ChatFine(d) /\ ~d.gone /\ ChatTells(d, u, FALSE) /\ FailureAhead(d.out)
           /\ d.sentDone
BY DEF ChatFailed, ChatFine, ChatTells, Logs

\* It sends [DONE] or just ends.
LEMMA ChatEndsSafe == OutcomeInv /\ ChatEnds => OutcomeInv'
<1> SUFFICES ASSUME OutcomeInv, ChatEnds PROVE OutcomeInv'
  OBVIOUS
<1>1. /\ route \in ChatRoutes /\ (route = "messages" => R!Reading) /\ C!Reading /\ ChatUnchanged
  BY DEF ChatEnds, ChatRead, C!ReceiveDoneMark, C!EndOfUpstream
<1>2. /\ ChatWorking(chat) /\ ChatTells(chat, up, FALSE) /\ chat.log = "none"
      /\ ~chat.sentDone /\ ~chat.ended /\ ~chat.gone /\ UpFine(up) /\ ~up.fault /\ ~up.closed
      /\ chat.finish = up.finish
  BY <1>1, ChatReads DEF ChatTells
<1>3. CASE C!ReceiveDoneMark /\ up' = [up EXCEPT !.fault = (up.finish = "none")]
  <2>1. chat' = C!PushDone(chat)
    BY <1>3 DEF C!ReceiveDoneMark
  <2>2. /\ UpFine(up') /\ up'.fault = (up.finish = "none") /\ ~up'.closed
        /\ up'.finish = up.finish
    BY <1>2, <1>3 DEF UpFine, UpFields
  <2>3. \/ ChatFailed(chat, chat')
        \/ /\ chat.finish # "none"
           /\ DOMAIN chat' = ChatFields /\ IsFiniteSet(chat'.completed)
           /\ Events(chat'.out) /\ chat'.out # <<>> /\ chat'.sentDone = TRUE
           /\ chat'.finish = chat.finish /\ chat'.ended = chat.ended
           /\ chat'.gone = chat.gone /\ chat'.log = chat.log
    BY <1>2, <2>1, ChatDone, Zenon
  <2>4. CASE ChatFailed(chat, chat')
    <3>1. /\ ChatFine(chat') /\ ~chat'.gone /\ ChatTells(chat', up', FALSE)
          /\ FailureAhead(chat'.out) /\ chat'.sentDone
      BY <1>2, <2>2, <2>4, ChatFailedFine, Zenon
    <3> QED
      BY <1>1, <2>2, <3>1, WhileChat
  <2>5. CASE ~ChatFailed(chat, chat')
    <3>1. ChatFine(chat') /\ ~chat'.gone /\ ~up'.fault /\ ChatTells(chat', up', FALSE)
      BY <1>2, <2>2, <2>3, <2>5, Zenon DEF ChatFine, ChatTells, Logs
    <3> QED
      BY <1>1, <1>2, <2>2, <3>1, WhileChat
  <2> QED
    BY <2>4, <2>5
<1>4. CASE /\ C!EndOfUpstream
           /\ up' = [up EXCEPT !.fault = (up.finish = "none"), !.closed = TRUE]
  <2> DEFINE b == [chat EXCEPT !.ended = TRUE]
             c == C!PushDone(b)
             d == C!Log(c, "ok")
  <2>1. chat' = d
    BY <1>4 DEF C!EndOfUpstream
  <2>2. /\ UpFine(up') /\ up'.fault = (up.finish = "none") /\ up'.closed
        /\ up'.finish = up.finish
    BY <1>2, <1>4 DEF UpFine, UpFields
  <2>3. /\ ChatWorking(b) /\ b.finish = chat.finish /\ ~b.sentDone /\ b.ended = TRUE /\ ~b.gone
        /\ b.log = "none"
    BY <1>2 DEF ChatWorking, ChatFields
  <2> HIDE DEF b
  <2>4. \/ ChatFailed(b, c)
        \/ /\ b.finish # "none"
           /\ DOMAIN c = ChatFields /\ IsFiniteSet(c.completed)
           /\ Events(c.out) /\ c.out # <<>> /\ c.sentDone = TRUE
           /\ c.finish = b.finish /\ c.ended = b.ended
           /\ c.gone = b.gone /\ c.log = b.log
    BY <2>3, ChatDone, Zenon
  <2> HIDE DEF c
  <2>5. CASE ChatFailed(b, c)
    <3>1. ChatFailed(b, d)
      BY <2>5 DEF ChatFailed, ChatFields, C!Log
    <3> HIDE DEF d
    <3>2. ChatFailed(b, chat')
      BY <2>1, <3>1
    <3>3. /\ ChatFine(chat') /\ ~chat'.gone /\ ChatTells(chat', up', FALSE)
          /\ FailureAhead(chat'.out) /\ chat'.sentDone
      BY <2>2, <2>3, <3>2, ChatFailedFine, ZenonT(30)
    <3> QED
      BY <1>1, <2>2, <3>3, WhileChat
  <2>6. CASE ~ChatFailed(b, c)
    <3>1. /\ DOMAIN d = ChatFields /\ d.out = c.out /\ d.completed = c.completed
          /\ d.sentDone = TRUE /\ d.ended = TRUE /\ ~d.gone /\ d.log = "ok"
      BY <2>3, <2>4, <2>6 DEF C!Log, ChatFields
    <3> HIDE DEF d
    <3>2. ChatFine(chat') /\ ~chat'.gone /\ ~up'.fault /\ ChatTells(chat', up', FALSE)
      BY <1>2, <2>1, <2>2, <2>3, <2>4, <2>6, <3>1, Zenon DEF ChatFine, ChatTells, Logs
    <3> QED
      BY <1>1, <1>2, <2>2, <3>2, WhileChat
  <2> QED
    BY <2>5, <2>6
<1> QED
  BY <1>3, <1>4 DEF ChatEnds

\* Its read fails.
LEMMA ChatFailsSafe == OutcomeInv /\ ChatFails => OutcomeInv'
<1> SUFFICES ASSUME OutcomeInv, ChatFails PROVE OutcomeInv'
  OBVIOUS
<1>1. /\ route \in ChatRoutes /\ (route = "messages" => R!Reading) /\ C!Reading /\ ChatUnchanged
      /\ chat' = C!PushError(chat) /\ up' = [up EXCEPT !.fault = TRUE, !.closed = TRUE]
  BY DEF ChatFails, ChatRead, C!ReceiveError
<1>2. /\ ChatWorking(chat) /\ chat.log = "none" /\ ~chat.sentDone /\ ~chat.gone /\ UpFine(up)
  BY <1>1, ChatReads
<1>3. UpFine(up') /\ up'.fault
  BY <1>1, <1>2 DEF UpFine, UpFields
<1>4. ChatFailed(chat, chat')
  BY <1>1, <1>2, ChatErrs
<1>5. /\ ChatFine(chat') /\ ~chat'.gone /\ ChatTells(chat', up', FALSE)
      /\ FailureAhead(chat'.out) /\ chat'.sentDone
  BY <1>2, <1>3, <1>4, ChatFailedFine, Zenon
<1> QED
  BY <1>1, <1>3, <1>5, WhileChat

----------------------------------------------------------------------------
(* An Anthropic upstream.                                                  *)

\* The other converters while an Anthropic upstream is read.
LEMMA WhileClaude ==
    ASSUME OutcomeInv, ClaudeRead, L!Reading, ClaudeUnchanged, UpFine(up'),
           ClaudeFine(claude'), ~claude'.gone, ClaudeTells(claude', up', FALSE),
           route = "claudeChat" /\ up'.fault => FailureAhead(claude'.out),
           claude.sentDone => claude'.sentDone
    PROVE  OutcomeInv'
<1>1. /\ UNCHANGED <<route, chat, codex, anth, talk, read>> /\ (Cut') = Cut
  BY DEF ClaudeUnchanged, Cut
<1>2. ~claude.gone /\ ~Cut /\ route \in ClaudeRoutes
  BY DEF L!Reading, OutcomeInv, ClaudePart, ClaudeFine, ClaudeRead
<1>3. Cut = FALSE
  BY <1>2 DEF Cut
<1>4. ClaudePart(route, claude', up', Cut)
  BY <1>2, <1>3, Zenon DEF ClaudePart
<1>5. ChatPart(route, chat, up', Cut) /\ CodexPart(route, codex, up', Cut)
  BY <1>2 DEF OutcomeInv, ChatPart, CodexPart, ChatRoutes, ClaudeRoutes, Relayed
<1>6. AnthPart(route, anth, chat, codex, up', Cut)
  BY <1>2 DEF OutcomeInv, AnthPart, ClaudeRoutes
<1>7. TalkPart(route, talk, claude', up', Cut)
  <2>1. ASSUME route = "claudeChat" PROVE TalkFine(talk) /\ TalkTells(talk, claude', up', Cut)
    <3>1. TalkFine(talk) /\ TalkTells(talk, claude, up, Cut) /\ ~talk.ended
      BY <2>1 DEF OutcomeInv, TalkPart, T!Reading, ClaudeRead
    <3>2. ~talk.sentDone /\ talk.log \in {"none", "error"}
      BY <3>1 DEF TalkTells, L!Reading
    <3> QED
      BY <2>1, <3>1, <3>2 DEF TalkTells
  <2> QED
    BY <2>1 DEF TalkPart
<1> QED
  BY <1>1, <1>2, <1>4, <1>5, <1>6, <1>7 DEF OutcomeInv

\* An Anthropic upstream's converter that reads has neither ended nor logged.
LEMMA ClaudeReads ==
    ASSUME OutcomeInv, route \in ClaudeRoutes, L!Reading
    PROVE  /\ ClaudeWorking(claude) /\ ClaudeFine(claude) /\ ClaudeTells(claude, up, FALSE)
           /\ ~claude.sentDone /\ ~claude.ended /\ ~claude.gone /\ claude.log = "none"
           /\ UpFine(up) /\ ~up.fault /\ ~up.closed
<1>1. ClaudeFine(claude) /\ ~claude.sentDone /\ ~claude.ended /\ ~claude.gone
  BY DEF L!Reading, OutcomeInv, ClaudePart, ClaudeFine
<1>2. Cut = FALSE
  BY <1>1 DEF OutcomeInv, Cut
<1>3. ClaudeTells(claude, up, FALSE)
  BY <1>2, Zenon DEF OutcomeInv, ClaudePart
<1> QED
  BY <1>1, <1>3 DEF OutcomeInv, ClaudeTells, ClaudeFine, ClaudeWorking

\* The converter worked on an event and the upstream's account went on.
LEMMA ClaudeGoesOn ==
    ASSUME OutcomeInv, ClaudeRead, L!Reading, ClaudeUnchanged,
           ClaudeOn(claude, claude'), UpFine(up'), up'.fault = up.fault, up'.over = up.over,
           up'.closed = up.closed
    PROVE  OutcomeInv'
<1>1. route \in ClaudeRoutes
  BY DEF ClaudeRead
<1>2. /\ ClaudeWorking(claude) /\ ClaudeFine(claude) /\ ClaudeTells(claude, up, FALSE)
      /\ ~claude.sentDone /\ ~claude.ended /\ ~claude.gone /\ ~up.fault
  BY <1>1, ClaudeReads, Zenon
<1>3. /\ ClaudeWorking(claude') /\ claude'.sentDone = claude.sentDone
      /\ claude'.ended = claude.ended /\ claude'.gone = claude.gone /\ claude'.log = claude.log
  BY <1>2 DEF ClaudeOn
<1>4. ClaudeFine(claude') /\ ~claude'.gone
  BY <1>2, <1>3 DEF ClaudeFine, ClaudeWorking, Clean
<1>5. ClaudeTells(claude', up', FALSE)
  BY <1>2, <1>3 DEF ClaudeTells
<1> QED
  BY <1>2, <1>4, <1>5, WhileClaude

\* What its events change in the upstream's account.
LEMMA UpBlocks ==
    ASSUME NEW u, UpFine(u)
    PROVE  /\ \A x : LET v == [Tick(u) EXCEPT !.finish = x] IN
                     UpFine(v) /\ v.fault = u.fault /\ v.over = u.over /\ v.closed = u.closed
           /\ \A b : LET v == [Tick(u) EXCEPT !.blocks[b].stopped = TRUE] IN
                     UpFine(v) /\ v.fault = u.fault /\ v.over = u.over /\ v.closed = u.closed
           /\ LET v == [u EXCEPT !.over = TRUE, !.closed = TRUE] IN
              UpFine(v) /\ v.fault = u.fault /\ v.over /\ v.finish = u.finish
           /\ LET v == [u EXCEPT !.fault = TRUE, !.closed = TRUE] IN
              UpFine(v) /\ v.fault /\ v.closed /\ v.over = u.over
BY DEF Tick, UpFine, UpFields

\* It opens, writes, signs or stops a block, or states its reason.
LEMMA BlockSafe ==
    OutcomeInv /\ (\/ \E kind, n, sig : BlockOpens(kind, n, sig)
                   \/ \E b, kind : BlockWritten(b, kind)
                   \/ \E b : BlockSigned(b) \/ BlockStops(b)
                   \/ \E reason : StateReason(reason)) => OutcomeInv'
<1> SUFFICES ASSUME OutcomeInv,
                    \/ \E kind, n, sig : BlockOpens(kind, n, sig)
                    \/ \E b, kind : BlockWritten(b, kind)
                    \/ \E b : BlockSigned(b) \/ BlockStops(b)
                    \/ \E reason : StateReason(reason)
             PROVE  OutcomeInv'
  OBVIOUS
<1>1. UpFine(up)
  BY DEF OutcomeInv
<1>2. ASSUME NEW kind, NEW n, NEW sig, BlockOpens(kind, n, sig) PROVE OutcomeInv'
  <2>1. /\ ClaudeRead /\ L!Reading /\ ClaudeUnchanged
        /\ claude' = L!StartBlock(claude, NextBlock, kind, n, sig)
        /\ \E block, m : up' = Wrote(up, NextBlock, block, m)
    BY <1>2 DEF BlockOpens, ClaudeSends, L!ReceiveStart
  <2>2. ClaudeOn(claude, claude')
    BY <2>1, ClaudeWrites, Zenon
  <2>3. UpOn(up, up')
    BY <2>1, UpTold, ZenonT(30)
  <2> QED
    BY <1>1, <2>1, <2>2, <2>3, ClaudeGoesOn DEF UpOn
<1>3. ASSUME NEW b, NEW kind, BlockWritten(b, kind) PROVE OutcomeInv'
  <2>1. /\ ClaudeRead /\ L!Reading /\ ClaudeUnchanged
        /\ claude' = L!WriteBlock(claude, b, ClaudeDelta(kind), 1)
        /\ \E block, m : up' = Wrote(up, b, block, m)
    BY <1>3 DEF BlockWritten, ClaudeSends, L!ReceiveDelta
  <2>2. ClaudeDelta(kind) \in {"thinking", "signature", "text", "input_json"}
    BY DEF ClaudeDelta
  <2>3. ClaudeOn(claude, claude')
    BY <2>1, <2>2, ClaudeWrites, Zenon
  <2>4. UpOn(up, up')
    BY <2>1, UpTold, ZenonT(30)
  <2> QED
    BY <1>1, <2>1, <2>3, <2>4, ClaudeGoesOn DEF UpOn
<1>4. ASSUME NEW b, BlockSigned(b) PROVE OutcomeInv'
  <2>1. /\ ClaudeRead /\ L!Reading /\ ClaudeUnchanged
        /\ claude' = L!WriteBlock(claude, b, "signature", 0) /\ up' = Tick(up)
    BY <1>4 DEF BlockSigned, ClaudeSends, L!ReceiveDelta
  <2>2. ClaudeOn(claude, claude')
    BY <2>1, ClaudeWrites, Zenon
  <2>3. UpOn(up, up')
    BY <2>1, UpTold
  <2> QED
    BY <1>1, <2>1, <2>2, <2>3, ClaudeGoesOn DEF UpOn
<1>5. ASSUME NEW b, BlockStops(b) PROVE OutcomeInv'
  <2>1. /\ ClaudeRead /\ L!Reading /\ ClaudeUnchanged
        /\ claude' = L!StopBlock(claude, b)
        /\ up' = [Tick(up) EXCEPT !.blocks[b].stopped = TRUE]
    BY <1>5 DEF BlockStops, ClaudeSends, L!ReceiveStop
  <2>2. ClaudeOn(claude, claude')
    BY <2>1, ClaudeWrites
  <2>3. UpFine(up') /\ up'.fault = up.fault /\ up'.over = up.over /\ up'.closed = up.closed
    BY <1>1, <2>1, UpBlocks, ZenonT(30)
  <2> QED
    BY <2>1, <2>2, <2>3, ClaudeGoesOn
<1>6. ASSUME NEW reason, StateReason(reason) PROVE OutcomeInv'
  <2>1. /\ ClaudeRead /\ L!Reading /\ ClaudeUnchanged
        /\ claude' = (IF reason = "none" THEN claude
                      ELSE [claude EXCEPT !.reason = L!StatusOf(reason)])
        /\ \E x : up' = [Tick(up) EXCEPT !.finish = x]
    <3>1. Tick(up).finish = up.finish
      BY <1>1 DEF Tick, UpFine, UpFields
    <3>2. up' = [Tick(up) EXCEPT !.finish = IF reason = "none" THEN up.finish ELSE reason]
      BY <1>6, <3>1 DEF StateReason
    <3> QED
      BY <1>6, <3>2, ZenonT(30) DEF StateReason, ClaudeSends, L!ReceiveReason
  <2>2. ClaudeOn(claude, claude')
    <3>1. \A x : ClaudeOn(claude, [claude EXCEPT !.reason = x])
      BY DEF ClaudeOn, ClaudeWorking, ClaudeFields
    <3> QED
      BY <2>1, <3>1, ClaudePushes
  <2>3. UpFine(up') /\ up'.fault = up.fault /\ up'.over = up.over /\ up'.closed = up.closed
    BY <1>1, <2>1 DEF Tick, UpFine, UpFields
  <2> QED
    BY <2>1, <2>2, <2>3, ClaudeGoesOn
<1> QED
  BY <1>2, <1>3, <1>4, <1>5, <1>6

\* It stops the message.
LEMMA MessageStopsSafe == OutcomeInv /\ MessageStops => OutcomeInv'
<1> SUFFICES ASSUME OutcomeInv, MessageStops PROVE OutcomeInv'
  OBVIOUS
<1>1. /\ ClaudeRead /\ route \in ClaudeRoutes /\ L!Reading /\ ClaudeUnchanged
      /\ claude' = L!PushDone(claude)
      /\ up' = [up EXCEPT !.over = TRUE, !.closed = TRUE]
  BY DEF MessageStops, ClaudeRead, L!ReceiveMessageStop
<1>2. /\ ClaudeWorking(claude) /\ claude.log = "none"
      /\ ~claude.sentDone /\ ~claude.ended /\ ~claude.gone /\ UpFine(up) /\ ~up.fault
  BY <1>1, ClaudeReads
<1> DEFINE last == L!Terminal(claude.reason, <<>>)
<1>3. DOMAIN last = {"type", "of", "output", "reason"} /\ last.type # "failed"
  BY DEF L!Terminal
<1>4. claude' = L!FinishResponse(claude, last)
  BY <1>1 DEF L!PushDone
<1> HIDE DEF last
<1>5. /\ DOMAIN claude' = ClaudeFields /\ IsFiniteSet(DOMAIN claude'.items)
      /\ Events(claude'.out) /\ claude'.out # <<>> /\ claude'.sentDone = TRUE
      /\ claude'.ended = claude.ended /\ claude'.gone = claude.gone /\ claude'.log = claude.log
  BY <1>2, <1>3, <1>4, ClaudeFinishes, Zenon
<1>6. UpFine(up') /\ ~up'.fault /\ up'.over
  BY <1>1, <1>2, UpBlocks, Zenon
<1>7. ClaudeFine(claude') /\ ~claude'.gone
  BY <1>2, <1>5 DEF ClaudeFine, Logs
<1>8. ClaudeTells(claude', up', FALSE)
  BY <1>2, <1>5, <1>6 DEF ClaudeTells
<1> QED
  BY <1>1, <1>5, <1>6, <1>7, <1>8, WhileClaude

\* It sends an error, its read fails, or it ends before its time.
LEMMA ClaudeFailsSafe == OutcomeInv /\ ClaudeFails => OutcomeInv'
<1> SUFFICES ASSUME OutcomeInv, ClaudeFails PROVE OutcomeInv'
  OBVIOUS
<1>1. /\ ClaudeRead /\ route \in ClaudeRoutes /\ L!Reading /\ ClaudeUnchanged
      /\ up' = [up EXCEPT !.fault = TRUE, !.closed = TRUE]
  BY DEF ClaudeFails, ClaudeRead, L!ReceiveError, L!EndOfUpstream
<1>2. /\ ClaudeWorking(claude) /\ claude.log = "none"
      /\ ~claude.sentDone /\ ~claude.ended /\ ~claude.gone /\ UpFine(up)
  BY <1>1, ClaudeReads
<1>3. UpFine(up') /\ up'.fault
  BY <1>1, <1>2, UpBlocks, Zenon
<1>4. /\ DOMAIN claude' = ClaudeFields /\ IsFiniteSet(DOMAIN claude'.items)
      /\ Events(claude'.out) /\ FailureAhead(claude'.out)
      /\ claude'.sentDone = TRUE /\ claude'.ended = TRUE /\ claude'.log = "error"
      /\ ~claude'.gone
  <2>1. CASE L!ReceiveError
    <3>1. claude' = L!PushError(claude)
      BY <2>1 DEF L!ReceiveError
    <3> QED
      BY <1>2, <3>1, ClaudeErrs, Zenon
  <2>2. CASE L!EndOfUpstream
    <3> DEFINE b == [claude EXCEPT !.ended = TRUE]
               d == L!PushError(b)
    <3>1. claude' = L!Log(d, "ok")
      BY <2>2 DEF L!EndOfUpstream
    <3>2. ClaudeWorking(b) /\ ~b.sentDone /\ b.log = "none" /\ ~b.gone
      BY <1>2 DEF ClaudeWorking, ClaudeFields
    <3> HIDE DEF b
    <3>3. /\ DOMAIN d = ClaudeFields /\ IsFiniteSet(DOMAIN d.items)
          /\ Events(d.out) /\ FailureAhead(d.out) /\ d.out # <<>>
          /\ d.sentDone = TRUE /\ d.ended = TRUE /\ d.log = "error" /\ d.gone = b.gone
      BY <3>2, ClaudeErrs, Zenon
    <3> HIDE DEF d
    <3> QED
      BY <3>1, <3>2, <3>3 DEF L!Log, ClaudeFields
  <2> QED
    BY <2>1, <2>2, Zenon DEF ClaudeFails
<1>5. ClaudeFine(claude') /\ ClaudeTells(claude', up', FALSE)
  BY <1>3, <1>4 DEF ClaudeFine, ClaudeTells, Logs
<1> QED
  BY <1>1, <1>3, <1>4, <1>5, WhileClaude

----------------------------------------------------------------------------
(* A Responses or Codex upstream.                                          *)

\* The routes on which the upstream speaks Responses.
Native == NativeRoutes \cup CodexRoutes

\* Everything else while such an upstream is read.
LEMMA WhileNative ==
    ASSUME OutcomeInv, route \in Native, NativeUnchanged \/ UNCHANGED <<route, chat, claude, read>>,
           UpFine(up'), CodexPart(route, codex', up', Cut), AnthFine(anth'),
           route = "native" => /\ (up'.closed => anth'.ended)
                               /\ (anth'.stopped => up'.over \/ up'.closed),
           route = "codexMessages" => anth' = anth /\ codex'.gone = codex.gone,
           Cut => codex'.gone
    PROVE  OutcomeInv'
<1>1. UNCHANGED <<route, chat, claude, read>> /\ (Cut') = Cut
  BY DEF NativeUnchanged, Cut
<1>2. ChatPart(route, chat, up', Cut) /\ ClaudePart(route, claude, up', Cut)
  BY DEF OutcomeInv, ChatPart, ClaudePart, ChatRoutes, ClaudeRoutes, Native, NativeRoutes,
         CodexRoutes
<1>3. AnthPart(route, anth', chat, codex', up', Cut)
  BY DEF OutcomeInv, AnthPart, Native, NativeRoutes, CodexRoutes
<1>4. TalkPart(route, talk', claude, up', Cut)
  BY DEF TalkPart, Native, NativeRoutes, CodexRoutes
<1> QED
  BY <1>1, <1>2, <1>3, <1>4 DEF OutcomeInv

\* A Codex upstream's converter that waits for an event.
LEMMA CodexWaits ==
    ASSUME OutcomeInv, route \in Relayed, D!Reading
    PROVE  /\ CodexFine(codex) /\ DOMAIN codex = CodexFields /\ codex.out = <<>>
           /\ ~codex.gone /\ ~codex.sentDone /\ ~codex.ended /\ ~Cut /\ ~up.closed
           /\ (route = "codex" => codex.log = "none" /\ ~up.fault)
<1>1. /\ CodexFine(codex) /\ codex.out = <<>> /\ ~codex.sentDone /\ ~codex.ended
      /\ ~codex.gone
  BY DEF D!Reading, OutcomeInv, CodexPart, CodexFine
<1>2. ~Cut /\ ~up.closed
  BY <1>1 DEF OutcomeInv, CodexPart
<1> QED
  BY <1>1, <1>2 DEF OutcomeInv, CodexPart, CodexTells, CodexFine

\* What becomes of the converters when the upstream sends e.
Sent(e) ==
    /\ NativeUnchanged /\ route \in Native /\ ~up.closed
    /\ AnthFine(anth')
    /\ (route # "native" => anth' = anth)
    /\ (route = "native" =>
           /\ ~anth.ended
           /\ (anth'.stopped = anth.stopped \/ e.type = "[DONE]")
           /\ (e.type = "failed" /\ ~anth.stopped => anth'.ended))
    /\ (route \notin Relayed => codex' = codex)
    /\ (route \in Relayed => D!Reading /\ CodexReceived(codex, e, codex'))

\* An event goes through the converter of a Codex upstream or straight to the last
\* one.
LEMMA SendSends ==
    ASSUME OutcomeInv, NEW e, IsEvent(e), Send(e)
    PROVE  Sent(e)
<1>1. /\ route \in Native /\ ~up.closed /\ NativeUnchanged /\ IntoFirst(e)
  BY DEF Send, NativeRead, Native
<1>2. AnthFine(anth)
  BY DEF OutcomeInv, AnthPart
<1>3. CASE route = "native"
  <2>0. codex' = codex /\ IntoSecond(e)
    BY <1>1, <1>3 DEF IntoFirst, NativeRoutes, Relayed
  <2>1. codex' = codex /\ R!Receive(e)
    BY <1>3, <2>0 DEF IntoSecond, ToMessages, ToChat, ToResponses
  <2>2. ~anth.ended /\ anth' = R!HandleEvent(anth, e)
    BY <2>1 DEF R!Receive, R!Reading
  <2>3. /\ AnthGood(anth') /\ anth'.gone = anth.gone
        /\ (anth'.stopped = anth.stopped \/ e.type = "[DONE]")
        /\ (e.type = "failed" /\ ~anth.stopped /\ ~anth.failed => anth'.ended)
    BY <1>2, <2>2, AnthReceives, Zenon DEF AnthFine
  <2>4. ~anth.failed /\ ~anth.gone
    BY <1>2, <2>2 DEF AnthFine, AnthGood
  <2>5. AnthFine(anth')
    BY <2>3, <2>4 DEF AnthFine
  <2> QED
    BY <1>1, <1>3, <2>1, <2>2, <2>3, <2>4, <2>5 DEF Sent, Relayed
<1>4. CASE route = "nativeChat"
  <2>0. codex' = codex /\ IntoSecond(e)
    BY <1>1, <1>4 DEF IntoFirst, NativeRoutes, Relayed
  <2>1. codex' = codex /\ anth' = anth
    BY <1>4, <2>0 DEF IntoSecond, ToMessages, ToChat, ToResponses
  <2> QED
    BY <1>1, <1>2, <1>4, <2>1 DEF Sent, Relayed
<1>5. CASE route = "codexChat"
  <2>1. codex' = codex /\ anth' = anth
    BY <1>1, <1>5 DEF IntoFirst, NativeRoutes, Relayed
  <2> QED
    BY <1>1, <1>2, <1>5, <2>1 DEF Sent, Relayed
<1>6. CASE route \in Relayed
  <2>1. D!Receive(e) /\ anth' = anth
    BY <1>1, <1>6, Zenon DEF IntoFirst, NativeRoutes, Relayed
  <2>2. D!Reading /\ codex' \in D!HandleEvent(codex, e)
    BY <2>1 DEF D!Receive
  <2>3. DOMAIN codex = CodexFields /\ codex.out = <<>>
    BY <1>6, <2>2, CodexWaits
  <2>4. CodexReceived(codex, e, codex')
    BY <2>2, <2>3, CodexReceives
  <2> QED
    BY <1>1, <1>2, <1>6, <2>1, <2>2, <2>4 DEF Sent, Relayed
<1> QED
  BY <1>1, <1>3, <1>4, <1>5, <1>6 DEF Native, NativeRoutes, CodexRoutes, Relayed

\* e tells of the answer: the upstream's account goes on.
LEMMA SentOn ==
    ASSUME OutcomeInv, NEW e, Sent(e), UpFine(up'), up'.fault = up.fault,
           up'.closed = up.closed, up'.over = up.over \/ up'.over,
           e.type \notin {"[DONE]", "failed"},
           e.type \in {"completed", "incomplete"} => up'.over
    PROVE  OutcomeInv'
<1>1. CodexPart(route, codex', up', Cut) /\ codex'.gone = codex.gone
  <2>1. CASE route \in Relayed
    <3>1. D!Reading /\ CodexReceived(codex, e, codex')
      BY <2>1 DEF Sent
    <3>2. /\ CodexFine(codex) /\ ~codex.gone /\ ~codex.sentDone /\ ~codex.ended /\ ~Cut
          /\ ~up.closed /\ (route = "codex" => codex.log = "none" /\ ~up.fault)
      BY <2>1, <3>1, CodexWaits
    <3>3. CodexFine(codex') /\ codex'.gone = codex.gone
      BY <3>1, <3>2 DEF CodexFine, CodexReceived
    <3>4. route = "codex" => CodexTells(codex', up', Cut)
      BY <3>1, <3>2 DEF CodexTells, CodexReceived, Logs, Entry
    <3> QED
      BY <2>1, <3>2, <3>3, <3>4 DEF CodexPart
  <2>2. CASE route \notin Relayed
    BY <2>2 DEF Sent, OutcomeInv, CodexPart, Relayed
  <2> QED
    BY <2>1, <2>2
<1>2. /\ AnthFine(anth') /\ route \in Native /\ NativeUnchanged
      /\ (route = "native" =>
             (up'.closed => anth'.ended) /\ (anth'.stopped => up'.over \/ up'.closed))
      /\ (route # "native" => anth' = anth)
  BY DEF Sent, OutcomeInv, AnthPart
<1>3. Cut => codex'.gone
  BY <1>1 DEF OutcomeInv
<1> QED
  BY <1>1, <1>2, <1>3, WhileNative

\* The upstream's account goes on by one event.
LEMMA UpTicks ==
    ASSUME NEW u, NEW v, UpFine(u), UpOn(u, v)
    PROVE  /\ UpFine(Tick(v)) /\ Tick(v).fault = u.fault /\ Tick(v).closed = u.closed
           /\ Tick(v).over = u.over /\ Tick(v).finish = u.finish /\ Tick(v).named = u.named
BY DEF UpOn, UpFine, UpFields, Tick

\* The upstream tells n units of the item i by e, which is not its last event.
LEMMA ToldSafe ==
    ASSUME OutcomeInv, NEW e, NEW i, NEW n, NEW whole, NEW done, Send(e), IsEvent(e),
           e.type \notin {"[DONE]", "failed", "completed", "incomplete"},
           up' = Tick(Told(up, i, n, whole, done))
    PROVE  OutcomeInv'
<1>1. /\ UpFine(up') /\ up'.fault = up.fault /\ up'.closed = up.closed /\ up'.over = up.over
  BY UpTold, UpTicks DEF OutcomeInv
<1>2. Sent(e)
  BY SendSends
<1> QED
  BY <1>1, <1>2, SentOn

\* The upstream opens an item, writes it, tells the whole of it, or closes it.
LEMMA ItemSafe ==
    OutcomeInv /\ (\/ \E kind : ItemOpens(kind)
                   \/ \E i : ItemWritten(i)
                   \/ \E i, n : ItemWhole(i, n)
                   \/ \E i, n, sig : ItemCloses(i, n, sig)) => OutcomeInv'
<1>1. ASSUME OutcomeInv, NEW kind, ItemOpens(kind) PROVE OutcomeInv'
  <2> DEFINE e == Added(NewItem(kind))
  <2>1. Send(e) /\ up' = Tick(Told(up, NewItem(kind), 0, FALSE, FALSE))
    BY <1>1 DEF ItemOpens
  <2>2. IsEvent(e) /\ e.type = "added"
    BY NativeEvents DEF Added, Event
  <2> HIDE DEF e
  <2> QED
    BY <1>1, <2>1, <2>2, ToldSafe, Zenon
<1>2. ASSUME OutcomeInv, NEW i, ItemWritten(i) PROVE OutcomeInv'
  <2> DEFINE e == Delta(DeltaType(Kind(i)), i, 1)
  <2>1. Send(e) /\ up' = Tick(Told(up, i, up.items[i].n + 1, FALSE, FALSE))
    BY <1>2 DEF ItemWritten
  <2>2. IsEvent(e) /\ e.type \in {"reasoning", "args", "text"}
    BY NativeEvents DEF Delta, Event, DeltaType
  <2> HIDE DEF e
  <2> QED
    BY <1>2, <2>1, <2>2, ToldSafe, Zenon
<1>3. ASSUME OutcomeInv, NEW i, NEW n, ItemWhole(i, n) PROVE OutcomeInv'
  <2> DEFINE e == IF Kind(i) = "function_call" THEN ArgsDone(i, n) ELSE TextDone(i, n)
  <2>1. Send(e) /\ up' = Tick(Told(up, i, n, TRUE, FALSE))
    BY <1>3 DEF ItemWhole
  <2>2. IsEvent(e) /\ e.type \in {"argsDone", "textDone"}
    BY NativeEvents DEF ArgsDone, TextDone, Delta, Event
  <2> HIDE DEF e
  <2> QED
    BY <1>3, <2>1, <2>2, ToldSafe, Zenon
<1>4. ASSUME OutcomeInv, NEW i, NEW n, NEW sig, ItemCloses(i, n, sig) PROVE OutcomeInv'
  <2> DEFINE e == ItemDone(Snapshot(i, n, sig))
  <2>1. Send(e) /\ up' = Tick(Told(up, i, n, TRUE, TRUE))
    BY <1>4 DEF ItemCloses
  <2>2. IsEvent(e) /\ e.type = "itemDone"
    BY NativeEvents DEF ItemDone, Event
  <2> HIDE DEF e
  <2> QED
    BY <1>4, <2>1, <2>2, ToldSafe, ZenonT(30)
<1> QED
  BY <1>1, <1>2, <1>3, <1>4

\* It ends its response with a terminal event,
LEMMA TerminalSafe ==
    ASSUME OutcomeInv, NEW reason, NEW output, IsList(output), NativeTerminal(reason, output)
    PROVE  OutcomeInv'
<1> DEFINE e == Terminal(reason, output)
           v == Tick(FoldOver(ToldBy, up, output))
<1>1. Send(e) /\ \E x : up' = [v EXCEPT !.over = TRUE, !.finish = x]
  BY Zenon DEF NativeTerminal
<1>2. e.type \in {"completed", "incomplete"}
  BY DEF Terminal
<1>3. Sent(e)
  BY <1>1, NativeEvents, SendSends
<1>4. UpFine(v) /\ v.fault = up.fault /\ v.closed = up.closed
  BY UpToldAll, UpTicks DEF OutcomeInv
<1> HIDE DEF e, v
<1>5. UpFine(up') /\ up'.fault = up.fault /\ up'.closed = up.closed /\ up'.over
  BY <1>1, <1>4 DEF UpFine, UpFields
<1> QED
  BY <1>2, <1>3, <1>5, SentOn

\* completed or incomplete,
LEMMA ResponseEndsSafe == OutcomeInv /\ ResponseEnds => OutcomeInv'
<1> SUFFICES ASSUME OutcomeInv, ResponseEnds PROVE OutcomeInv'
  OBVIOUS
<1>1. UpFine(up)
  BY DEF OutcomeInv
<1>2. IsList(<<>>)
  <2>1. DOMAIN <<>> = 1..0
    OBVIOUS
  <2> QED
    BY <2>1 DEF IsList
<1>3. \A more : IsList(Output(more, {}))
  BY <1>1, OutputIsList, FS_EmptySet
<1>4. \A x : IsList(Output(0, {x}))
  <2>1. \A x : IsFiniteSet({x})
    BY FS_Singleton
  <2> QED
    BY <1>1, <2>1, OutputIsList
<1>5. \E reason, output : IsList(output) /\ NativeTerminal(reason, output)
  BY <1>2, <1>3, <1>4, Zenon DEF ResponseEnds
<1> QED
  BY <1>5, TerminalSafe

\* or failed.
LEMMA NativeFailsSafe == OutcomeInv /\ NativeFails => OutcomeInv'
<1> SUFFICES ASSUME OutcomeInv, NativeFails PROVE OutcomeInv'
  OBVIOUS
<1>1. Send(Failed) /\ ~up.over /\ up' = [Tick(up) EXCEPT !.fault = TRUE, !.closed = TRUE]
  BY DEF NativeFails
<1>2. Failed.type = "failed"
  BY DEF Failed, Event
<1>3. Sent(Failed)
  BY <1>1, NativeEvents, SendSends
<1>4. UpFine(up') /\ up'.fault = TRUE /\ up'.closed = TRUE
  BY <1>1 DEF OutcomeInv, Tick, UpFine, UpFields
<1>5. CodexPart(route, codex', up', Cut) /\ codex'.gone = codex.gone
  <2>1. CASE route \in Relayed
    <3>1. D!Reading /\ CodexReceived(codex, Failed, codex')
      BY <1>3, <2>1 DEF Sent
    <3>2. /\ CodexFine(codex) /\ ~codex.gone /\ ~codex.sentDone /\ ~codex.ended /\ ~Cut
          /\ (route = "codex" => codex.log = "none" /\ ~up.fault)
      BY <2>1, <3>1, CodexWaits
    <3>3. CodexFine(codex') /\ codex'.gone = codex.gone /\ codex'.sentDone
      BY <1>2, <3>1, <3>2 DEF CodexFine, CodexReceived
    <3>4. route = "codex" => CodexTells(codex', up', Cut)
      BY <1>2, <1>4, <3>1, <3>2 DEF CodexTells, CodexReceived, Logs, Entry
    <3> QED
      BY <2>1, <3>2, <3>3, <3>4 DEF CodexPart
  <2>2. CASE route \notin Relayed
    BY <1>3, <2>2 DEF Sent, OutcomeInv, CodexPart, Relayed
  <2> QED
    BY <2>1, <2>2
<1>6. /\ AnthFine(anth') /\ route \in Native /\ NativeUnchanged
      /\ (route # "native" => anth' = anth)
      /\ (route = "native" => anth'.ended)
  BY <1>1, <1>2, <1>3 DEF Sent, OutcomeInv, AnthPart
<1>7. Cut => codex'.gone
  BY <1>5 DEF OutcomeInv
<1> QED
  BY <1>4, <1>5, <1>6, <1>7, WhileNative

\* The converter to Anthropic reads the upstream's end itself.
LEMMA EndOfMessages ==
    ASSUME route = "native", EndOfNative
    PROVE  /\ ~anth.ended /\ codex' = codex
           /\ anth' = R!CloseIfEmpty(R!FinishMessage(R!Flush([anth EXCEPT !.ended = TRUE])))
<1>1. EndOfFirst /\ codex' = codex
  BY DEF EndOfNative, NativeRoutes, Relayed
<1>2. R!EndOfUpstream
  BY <1>1 DEF EndOfFirst, ToMessages, ToChat, ToResponses
<1> QED
  BY <1>1, <1>2 DEF R!EndOfUpstream, R!Reading

\* It ends, with [DONE] or without.
LEMMA NativeEndsSafe == OutcomeInv /\ NativeEnds => OutcomeInv'
<1> SUFFICES ASSUME OutcomeInv, NativeEnds PROVE OutcomeInv'
  OBVIOUS
<1>1. DoneMark.type = "[DONE]"
  BY DEF DoneMark, Event
<1>2. CASE Send(DoneMark)
  <2>1. Sent(DoneMark)
    BY <1>2, NativeEvents, SendSends
  <2>2. /\ UpFine(up') /\ up'.fault = up.fault /\ up'.over = up.over
        /\ (up'.closed = up.closed /\ up.over) \/ (up'.closed = TRUE /\ route \in CodexRoutes)
           \/ (route # "native" /\ FALSE) \/ (NativeRead /\ EndOfNative)
    BY DEF NativeEnds, OutcomeInv, Tick, UpFine, UpFields
  <2>3. CodexPart(route, codex', up', Cut) /\ codex'.gone = codex.gone
    <3>1. CASE route \in Relayed
      <4>1. D!Reading /\ CodexReceived(codex, DoneMark, codex')
        BY <2>1, <3>1 DEF Sent
      <4>2. /\ CodexFine(codex) /\ ~codex.gone /\ ~codex.sentDone /\ ~codex.ended /\ ~Cut
            /\ (route = "codex" => codex.log = "none" /\ ~up.fault)
        BY <3>1, <4>1, CodexWaits
      <4>3. CodexFine(codex') /\ codex'.gone = codex.gone /\ codex'.sentDone
        BY <1>1, <4>1, <4>2 DEF CodexFine, CodexReceived
      <4>4. route = "codex" => CodexTells(codex', up', Cut)
        BY <1>1, <2>2, <4>1, <4>2 DEF CodexTells, CodexReceived, Logs, Entry
      <4> QED
        BY <3>1, <4>2, <4>3, <4>4 DEF CodexPart
    <3>2. CASE route \notin Relayed
      BY <2>1, <3>2 DEF Sent, OutcomeInv, CodexPart, Relayed
    <3> QED
      BY <3>1, <3>2
  <2>4. /\ AnthFine(anth') /\ route \in Native /\ NativeUnchanged
        /\ (route # "native" => anth' = anth)
    BY <2>1 DEF Sent
  <2>5. Cut => codex'.gone
    BY <2>3 DEF OutcomeInv
  <2>6. CASE up.over /\ up' = Tick(up)
    <3>1. up'.over /\ up'.closed = up.closed
      BY <2>6 DEF OutcomeInv, Tick, UpFine, UpFields
    <3>2. ~up.closed
      BY <2>1 DEF Sent
    <3> QED
      BY <2>2, <2>3, <2>4, <2>5, <3>1, <3>2, WhileNative
  <2>7. CASE route \in CodexRoutes
    <3>1. route # "native"
      BY <2>7 DEF CodexRoutes
    <3> QED
      BY <2>2, <2>3, <2>4, <2>5, <3>1, WhileNative
  <2>8. CASE /\ NativeRead /\ EndOfNative /\ up' = [up EXCEPT !.closed = TRUE]
             /\ route \notin CodexRoutes
    <3>1. route = "native" => anth'.ended
      <4>1. SUFFICES ASSUME route = "native" PROVE anth'.ended
        OBVIOUS
      <4>2. /\ ~anth.ended
            /\ anth' = R!CloseIfEmpty(R!FinishMessage(R!Flush([anth EXCEPT !.ended = TRUE])))
        BY <2>8, <4>1, EndOfMessages
      <4> QED
        BY <4>2, AnthEndsFine DEF OutcomeInv, AnthPart
    <3>2. up'.closed = TRUE
      BY <2>8 DEF OutcomeInv, UpFine, UpFields
    <3> QED
      BY <2>2, <2>3, <2>4, <2>5, <3>1, <3>2, WhileNative
  <2> QED
    BY <2>6, <2>7, <2>8 DEF NativeEnds
<1>3. CASE NativeRead /\ EndOfNative /\ up' = [up EXCEPT !.closed = TRUE] /\ NativeUnchanged
  <2>1. route \in Native
    BY <1>3 DEF NativeRead, Native
  <2>2. UpFine(up') /\ up'.fault = up.fault /\ up'.over = up.over /\ up'.closed = TRUE
    BY <1>3 DEF OutcomeInv, UpFine, UpFields
  <2>3. CASE route \in Relayed
    <3> DEFINE b == [codex EXCEPT !.ended = TRUE]
               d == D!PushDisconnected(b)
    <3>1. D!Reading /\ codex' = D!LogUsage(d) /\ anth' = anth
      BY <1>3, <2>3, Zenon DEF EndOfNative, NativeRoutes, Relayed, D!EndOfUpstream
    <3>2. /\ CodexFine(codex) /\ DOMAIN codex = CodexFields /\ codex.out = <<>>
          /\ ~codex.gone /\ ~codex.sentDone /\ ~codex.ended /\ ~Cut
          /\ (route = "codex" => codex.log = "none" /\ ~up.fault)
      BY <2>3, <3>1, CodexWaits
    <3>3. /\ DOMAIN b = CodexFields /\ b.out = <<>> /\ b.ended = TRUE
          /\ b.gone = codex.gone /\ b.log = codex.log
      BY <3>2 DEF CodexFields
    <3> HIDE DEF b
    <3>4. CodexLast(b, d) /\ d.override = TRUE /\ d.log = codex.log
      BY <3>3, CodexFails, Zenon
    <3> HIDE DEF d
    <3>5. /\ DOMAIN codex' = CodexFields /\ Events(codex'.out) /\ codex'.gone = codex.gone
          /\ codex'.sentDone = TRUE /\ codex'.ended = TRUE /\ codex'.override = TRUE
          /\ codex'.log = Entry(codex.log, "error")
      BY <3>1, <3>3, <3>4 DEF CodexLast, CodexFields, D!LogUsage, D!Log, Entry
    <3>6. CodexPart(route, codex', up', Cut)
      BY <2>2, <2>3, <3>2, <3>5 DEF CodexPart, CodexFine, CodexTells, Logs, Entry
    <3>7. AnthFine(anth')
      BY <3>1 DEF OutcomeInv, AnthPart
    <3>8. route # "native"
      BY <2>3 DEF Relayed
    <3> QED
      BY <1>3, <2>1, <2>2, <3>1, <3>2, <3>5, <3>6, <3>7, <3>8, WhileNative DEF NativeUnchanged
  <2>4. CASE route \notin Relayed
    <3>1. codex' = codex
      BY <1>3, <2>1, <2>4, Zenon DEF EndOfNative, Native, NativeRoutes, CodexRoutes, Relayed
    <3>2. CodexPart(route, codex', up', Cut)
      BY <2>4, <3>1 DEF OutcomeInv, CodexPart, Relayed
    <3>3. AnthFine(anth') /\ (route = "native" => anth'.ended)
      <4>1. CASE route = "native"
        <5>1. /\ ~anth.ended
              /\ anth' = R!CloseIfEmpty(R!FinishMessage(R!Flush([anth EXCEPT !.ended = TRUE])))
          BY <1>3, <4>1, EndOfMessages
        <5> QED
          BY <5>1, AnthEndsFine DEF OutcomeInv, AnthPart
      <4>2. CASE route # "native"
        <5>1. anth' = anth
          BY <1>3, <2>1, <2>4, <4>2, ZenonT(30)
             DEF EndOfNative, Native, NativeRoutes, CodexRoutes, Relayed,
                                        EndOfFirst, ToMessages, ToChat, ToResponses
        <5> QED
          BY <4>2, <5>1 DEF OutcomeInv, AnthPart
      <4> QED
        BY <4>1, <4>2
    <3>4. route # "codexMessages" /\ (Cut => codex'.gone)
      BY <2>4, <3>1 DEF Relayed, OutcomeInv
    <3> QED
      BY <1>3, <2>1, <2>2, <3>1, <3>2, <3>3, <3>4, WhileNative
  <2> QED
    BY <2>3, <2>4
<1> QED
  BY <1>2, <1>3 DEF NativeEnds

\* A Codex upstream's converter is given the failure of a read or a timeout.
LEMMA CodexCutOff ==
    ASSUME OutcomeInv, route \in Relayed, D!Reading,
           codex' \in {D!FailResponse(codex), D!FailStream(codex)},
           UNCHANGED <<route, chat, claude, anth, read>>,
           up' = [up EXCEPT !.fault = TRUE, !.closed = TRUE]
    PROVE  OutcomeInv'
<1>1. /\ CodexFine(codex) /\ DOMAIN codex = CodexFields /\ codex.out = <<>>
      /\ ~codex.gone /\ ~codex.sentDone /\ ~codex.ended /\ ~Cut
      /\ (route = "codex" => codex.log = "none")
  BY CodexWaits
<1>2. /\ CodexLast(codex, codex')
      /\ \/ codex'.override = TRUE /\ codex'.log = codex.log
         \/ codex'.log = Entry(codex.log, "error")
  BY <1>1, CodexFails, Zenon
<1>3. UpFine(up') /\ up'.fault = TRUE /\ up'.closed = TRUE
  BY DEF OutcomeInv, UpFine, UpFields
<1>4. CodexFine(codex') /\ codex'.gone = codex.gone /\ codex'.sentDone
  BY <1>1, <1>2 DEF CodexLast, CodexFine
<1>5. route = "codex" => CodexTells(codex', up', Cut)
  BY <1>1, <1>2, <1>3, <1>4 DEF CodexLast, CodexTells, Logs, Entry
<1>6. CodexPart(route, codex', up', Cut)
  BY <1>4, <1>5 DEF CodexPart
<1>7. /\ route \in Native /\ route # "native" /\ AnthFine(anth') /\ anth' = anth
      /\ (Cut => codex'.gone)
  BY <1>1 DEF Native, Relayed, CodexRoutes, OutcomeInv, AnthPart
<1> QED
  BY <1>3, <1>4, <1>6, <1>7, WhileNative

\* Its read fails.
LEMMA NativeReadErrorSafe == OutcomeInv /\ NativeReadError => OutcomeInv'
<1> SUFFICES ASSUME OutcomeInv, NativeReadError PROVE OutcomeInv'
  OBVIOUS
<1>1. /\ route \in Native /\ NativeReadFails /\ UNCHANGED <<route, chat, claude, read>>
      /\ up' = [up EXCEPT !.fault = TRUE, !.closed = TRUE]
  BY DEF NativeReadError, NativeRead, Native
<1>2. UpFine(up') /\ up'.fault = TRUE /\ up'.closed = TRUE
  BY <1>1 DEF OutcomeInv, UpFine, UpFields
<1>3. CASE route \in Relayed
  <2>1. D!ReadError /\ anth' = anth
    BY <1>1, <1>3, ZenonT(30) DEF NativeReadFails, Relayed
  <2>2. D!Reading /\ codex' \in {D!FailResponse(codex), D!FailStream(codex)}
    BY <2>1 DEF D!ReadError
  <2> QED
    BY <1>1, <1>3, <2>1, <2>2, CodexCutOff
<1>4. CASE route \notin Relayed
  <2>1. codex' = codex
    BY <1>1, <1>4, Zenon DEF NativeReadFails, Native, NativeRoutes, CodexRoutes, Relayed
  <2>2. CodexPart(route, codex', up', Cut)
    BY <1>4, <2>1 DEF OutcomeInv, CodexPart, Relayed
  <2>3. AnthFine(anth') /\ (route = "native" => anth'.ended /\ ~anth'.stopped)
    <3>1. CASE route = "native"
      <4>1. R!ReadError
        BY <1>1, <3>1 DEF NativeReadFails, Relayed
      <4>2. anth' = R!GoneAnth(R!Log(anth, "ok").log)
        BY <4>1 DEF R!ReadError
      <4> QED
        BY <4>2, GoneFine, Zenon
    <3>2. CASE route # "native"
      <4>1. anth' = anth
        BY <1>1, <1>4, <3>2, ZenonT(30)
           DEF NativeReadFails, Native, NativeRoutes, CodexRoutes, Relayed
      <4> QED
        BY <3>2, <4>1 DEF OutcomeInv, AnthPart
    <3> QED
      BY <3>1, <3>2
  <2>4. route # "codexMessages" /\ (Cut => codex'.gone)
    BY <1>4, <2>1 DEF Relayed, OutcomeInv
  <2> QED
    BY <1>1, <1>2, <2>2, <2>3, <2>4, WhileNative
<1> QED
  BY <1>3, <1>4

\* It hangs until the timeout.
LEMMA NativeHangsSafe == OutcomeInv /\ NativeHangs => OutcomeInv'
<1> SUFFICES ASSUME OutcomeInv, NativeHangs PROVE OutcomeInv'
  OBVIOUS
<1>1. /\ route \in Relayed /\ UNCHANGED <<route, chat, claude, anth, read>>
      /\ up' = [up EXCEPT !.fault = TRUE, !.closed = TRUE]
      /\ D!Reading /\ codex' \in {D!FailResponse(codex), D!FailStream(codex)}
  BY DEF NativeHangs, NativeUnchanged, D!SemanticTimeout, Relayed
<1> QED
  BY <1>1, CodexCutOff

\* Whatever the upstream does.
LEMMA UpstreamSafe == OutcomeInv /\ Upstream => OutcomeInv'
BY ChunkSafe, StateFinishSafe, ChatEndsSafe, ChatFailsSafe, ItemSafe, ResponseEndsSafe,
   NativeFailsSafe, NativeEndsSafe, NativeReadErrorSafe, NativeHangsSafe, BlockSafe,
   MessageStopsSafe, ClaudeFailsSafe DEF Upstream

\* Every step keeps the invariant.
LEMMA OutcomeNext == OutcomeInv /\ [Next]_vars => OutcomeInv'
<1> SUFFICES ASSUME OutcomeInv, [Next]_vars PROVE OutcomeInv'
  OBVIOUS
<1>1. CASE UNCHANGED vars
  BY <1>1 DEF vars, OutcomeInv, Cut
<1>2. CASE Next
  BY <1>2, DeliverBlockSafe, DeliverChunkSafe, RelayChatSafe, RelayClaudeSafe, RelayCodexSafe,
     RelayEndSafe, FinishSafe, UpstreamSafe, LeaveSafe
     DEF Next, Deliver, Relay
<1> QED
  BY <1>1, <1>2

\* What the converters say of the upstream is what the log is to say.
LEMMA OutcomeIsLogged == OutcomeInv => OutcomeLogged
<1> SUFFICES ASSUME OutcomeInv, route \in Heard
             PROVE  /\ Log = "ok" => Stated
                    /\ Log = "dropped" => "cut" \in {read.phase, view.phase, answer.phase}
                    /\ Over /\ up.fault => Log \in {"error", "dropped"}
  BY DEF OutcomeLogged
<1>1. CASE route = "responses"
  <2>1. Log = chat.log /\ ChatTells(chat, up, Cut)
    BY <1>1 DEF Log, ToMessages, ToChat, OutcomeInv, ChatPart, ChatRoutes
  <2> QED
    BY <2>1 DEF ChatTells, Stated, Cut
<1>2. CASE route = "messages"
  <2>1. Log = anth.log /\ Over = anth.gone /\ MessageTells(anth, chat, up, Cut) /\ AnthFine(anth)
    BY <1>2 DEF Log, Over, ToMessages, ToChat, OutcomeInv, AnthPart
  <2> QED
    BY <2>1 DEF MessageTells, AnthFine, HasStated, Stated, Cut, Logs
<1>3. CASE route = "claude"
  <2>1. Log = claude.log /\ ClaudeTells(claude, up, Cut)
    BY <1>3 DEF Log, ToMessages, ToChat, OutcomeInv, ClaudePart, ClaudeRoutes
  <2> QED
    BY <2>1 DEF ClaudeTells, Stated, Cut
<1>4. CASE route = "claudeChat"
  <2>1. Log = talk.log /\ Over = talk.gone /\ TalkTells(talk, claude, up, Cut) /\ TalkFine(talk)
    BY <1>4 DEF Log, Over, ToMessages, ToChat, OutcomeInv, TalkPart
  <2> QED
    BY <2>1 DEF TalkTells, TalkFine, HasStated, Stated, Cut, Logs
<1>5. CASE route = "codex"
  <2>1. Log = codex.log /\ Over = codex.gone /\ CodexTells(codex, up, Cut)
    BY <1>5 DEF Log, Over, ToMessages, ToChat, OutcomeInv, CodexPart, Relayed
  <2> QED
    BY <2>1 DEF CodexTells, Stated, Cut
<1> QED
  BY <1>1, <1>2, <1>3, <1>4, <1>5 DEF Heard, ChatRoutes, ClaudeRoutes

\* A converter that reads has an upstream that is still open.
LEMMA NobodyReadsOn == OutcomeInv => NoReadPastEnd
<1> SUFFICES ASSUME OutcomeInv PROVE NoReadPastEnd
  OBVIOUS
<1>1. up.closed => ~C!Reading
  BY DEF OutcomeInv, ChatPart, ChatTells, ChatFine, C!Reading
<1>2. up.closed => ~L!Reading
  BY DEF OutcomeInv, ClaudePart, ClaudeTells, ClaudeFine, L!Reading
<1>3. up.closed => ~D!Reading
  BY DEF OutcomeInv, CodexPart, CodexFine, D!Reading
<1>4. /\ up.closed /\ route = "native" => ~R!Reading
      /\ route = "messages" /\ chat.gone => ~R!Reading
      /\ route = "codexMessages" /\ codex.gone => ~R!Reading
  BY DEF OutcomeInv, AnthPart, MessageTells, R!Reading
<1>5. route = "claudeChat" /\ claude.gone => ~T!Reading
  BY DEF OutcomeInv, TalkPart, TalkTells, T!Reading
<1> QED
  BY <1>1, <1>2, <1>3, <1>4, <1>5 DEF NoReadPastEnd

\* On the routes in Heard (a Chat or an Anthropic upstream, and a Codex upstream behind a
\* Responses client), however the upstream and the client behave, a request's log entry
\* says how its stream ended: success only after the upstream has stated its end without
\* a fault, "dropped" only when the client left, and after a fault an error or "dropped".
\* On the others (native, nativeChat, codexChat, codexMessages) a read error is logged
\* as success, so nothing is claimed of them.
THEOREM OutcomeLoggedAlways == Spec => []OutcomeLogged
BY OutcomeInit, OutcomeNext, OutcomeIsLogged, PTL DEF Spec

\* No converter waits for an upstream that has nothing more to say.
THEOREM NoReadPastEndAlways == Spec => []NoReadPastEnd
BY OutcomeInit, OutcomeNext, NobodyReadsOn, PTL DEF Spec
=============================================================================
