---------------------------- MODULE StreamEvents ----------------------------
(***************************************************************************)
(* The vocabulary of a Responses stream, as the converters read and write  *)
(* it.  An output item is its kind, its output_index and, for a tool call, *)
(* the call's number.  Text, reasoning and arguments are counted in units: *)
(* a delta appends some, a snapshot carries them all.  Arguments are a     *)
(* complete JSON object exactly when they are Full units; none at all are  *)
(* the empty string.                                                       *)
(***************************************************************************)
EXTENDS ListFolds, Naturals, Sequences, FiniteSets

Full == 2

\* f with v at k.
With(f, k, v) == [x \in DOMAIN f \cup {k} |-> IF x = k THEN v ELSE f[x]]

\* The elements of S by their rank, which no two of them share.
ByRank(S, rank(_)) ==
    [j \in 1..Cardinality(S) |->
        CHOOSE x \in S : Cardinality({y \in S : rank(y) < rank(x)}) = j - 1]

Item(kind, index, call) == <<kind, index, call>>
NoItem == Item("none", 0, 0)
Kind(i) == i[1]
OutputIndex(i) == i[2]
CallOf(i) == i[3]

\* An item with its content so far.  sig is what its encrypted_content is: one
\* of "none", "untrusted", "signed" and "redacted".
Snapshot(i, n, sig) == [item |-> i, n |-> n, sig |-> sig]
NoSnapshot == Snapshot(NoItem, 0, "none")

\* The snapshots as an output lists them.
InOrder(snapshots) == ByRank(snapshots, LAMBDA s : OutputIndex(s.item))

Event(type, snapshot) ==
    [type |-> type, of |-> snapshot, output |-> <<>>, reason |-> "none"]

Created == Event("created", NoSnapshot)
Added(i) == Event("added", Snapshot(i, 0, "none"))
Delta(type, i, n) == Event(type, Snapshot(i, n, "none"))
TextDelta(i, n) == Delta("text", i, n)
ReasoningDelta(i, n) == Delta("reasoning", i, n)
ArgsDelta(i, n) == Delta("args", i, n)
TextDone(i, n) == Delta("textDone", i, n)
ArgsDone(i, n) == Delta("argsDone", i, n)
ItemDone(s) == Event("itemDone", s)
Failed == Event("failed", NoSnapshot)
DoneMark == Event("[DONE]", NoSnapshot)

\* response.completed and response.incomplete, with the output they carry.
Terminal(reason, output) ==
    [type |-> IF reason = "none" THEN "completed" ELSE "incomplete",
     of |-> NoSnapshot, output |-> output, reason |-> reason]

=============================================================================
