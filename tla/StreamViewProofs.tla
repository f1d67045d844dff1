-------------------------- MODULE StreamViewProofs --------------------------
(***************************************************************************)
(* What the two converters into a Responses stream give its reader is one: *)
(* StreamPipeline implements ResponsesStream, for any parts a Chat         *)
(* upstream sends, any blocks of an Anthropic upstream, and any bounds.    *)
(*                                                                         *)
(*   Fits, Reads    an event, or all that is queued, has its place in the  *)
(*                  stream of which the reader has read so much            *)
(*   ChatGood,      what a converter knows of its open items agrees with   *)
(*   ClaudeGood     what the reader will have heard once all is delivered  *)
(*   Closing,       the end of a response: its items are ended one by one, *)
(*   Concluded      and what is queued ends in a last event and [DONE]     *)
(*   StreamInv      one of these holds on every route, whatever is queued  *)
(*                                                                         *)
(* With it: no success it reads is false (NoFalseResponse), and every      *)
(* shell action it reads is whole (OnlyWholeActions).                      *)
(*                                                                         *)
(*   TrueEvent,     an event, all that is queued, or what was read agrees  *)
(*   TrueReading    with what the upstream has told so far                 *)
(*   ChatWhole,     so does everything on the route of such an upstream,   *)
(*   ClaudeWhole,   and its converter knows of every call as much as the   *)
(*   OtherWhole     upstream told, while the response is under way         *)
(*   WholeInv       StreamInv with these                                   *)
(*                                                                         *)
(* Each helper of a converter has a lemma that says what it keeps of them, *)
(* and each action follows from those of the helpers it calls.             *)
(***************************************************************************)
EXTENDS StreamOutcomeProofs

\* Deltas and snapshots, which say something of an open item; and the last events.
Says == {"text", "reasoning", "args", "textDone", "argsDone"}
Ends == {"completed", "incomplete", "failed"}

\* e has its place in a Responses stream of which r is what was read so far.
Fits(r, e) ==
    \/ e.type = "created" /\ r.phase = "new"
    \/ /\ e.type = "added" /\ r.phase = "open"
       /\ e.of.item \in ItemNumbers \ DOMAIN r.items
    \/ /\ e.type \in Says \cup {"itemDone"} /\ r.phase = "open"
       /\ e.of.item \in DOMAIN r.items /\ r.items[e.of.item].finished = 0
    \/ /\ e.type \in Ends /\ r.phase = "open"
       /\ \A i \in DOMAIN r.items : r.items[i].finished = 1
       /\ DOMAIN r.items = {e.output[j].item : j \in DOMAIN e.output}
    \/ e.type = "[DONE]" /\ r.phase = "ended"

\* Read from s, all of q has its place, one after the other, and leads to t.
Reads(s, q, t) ==
    /\ \E E : q \in Seq(E)
    /\ \E r : /\ r[0] = s /\ r[Len(q)] = t
              /\ \A j \in 1..Len(q) :
                    Fits(r[j - 1], q[j]) /\ r[j] = Hear(r[j - 1], q[j])

\* Nothing queued leaves a reader where it is.
LEMMA ReadsNothing ==
    ASSUME NEW s PROVE Reads(s, <<>>, s)
<1>1. <<>> \in Seq({}) /\ Len(<<>>) = 0
  OBVIOUS
<1> DEFINE r == [j \in {0} |-> s]
<1>2. r[0] = s /\ 1..0 = {}
  OBVIOUS
<1> HIDE DEF r
<1> QED
  BY <1>1, <1>2 DEF Reads

\* One more event that has its place in the stream can be queued.
LEMMA ReadsMore ==
    ASSUME NEW s, NEW q, NEW t, Reads(s, q, t), NEW e, Fits(t, e)
    PROVE  Reads(s, Append(q, e), Hear(t, e))
<1>1. PICK E : q \in Seq(E)
  BY DEF Reads
<1>2. PICK r : /\ r[0] = s /\ r[Len(q)] = t
               /\ \A j \in 1..Len(q) :
                     Fits(r[j - 1], q[j]) /\ r[j] = Hear(r[j - 1], q[j])
  BY DEF Reads
<1> DEFINE p == Append(q, e)
           z == [j \in 0..Len(q) + 1 |-> IF j <= Len(q) THEN r[j] ELSE Hear(t, e)]
<1>3. p \in Seq(E \cup {e}) /\ Len(p) = Len(q) + 1 /\ Len(q) \in Nat
  BY <1>1
<1>4. \A j \in 1..Len(q) : p[j] = q[j]
  BY <1>1
<1>5. p[Len(q) + 1] = e
  BY <1>1
<1> HIDE DEF p
<1>6. z[0] = s /\ z[Len(p)] = Hear(t, e)
  BY <1>2, <1>3
<1>7. ASSUME NEW j \in 1..Len(p)
      PROVE  Fits(z[j - 1], p[j]) /\ z[j] = Hear(z[j - 1], p[j])
  <2>1. CASE j \in 1..Len(q)
    <3>1. z[j - 1] = r[j - 1] /\ z[j] = r[j] /\ p[j] = q[j]
      BY <1>3, <1>4, <2>1
    <3> QED
      BY <1>2, <2>1, <3>1
  <2>2. CASE j = Len(q) + 1
    <3>1. z[j - 1] = t /\ z[j] = Hear(t, e) /\ p[j] = e
      BY <1>2, <1>3, <1>5, <2>2
    <3> QED
      BY <3>1
  <2> QED
    BY <1>3, <2>1, <2>2
<1> HIDE DEF z
<1>8. Reads(s, p, Hear(t, e))
  BY <1>3, <1>6, <1>7 DEF Reads
<1> QED
  BY <1>8 DEF p

\* The first of the queued events has its place, and so have the rest after it.
LEMMA ReadsNext ==
    ASSUME NEW s, NEW q, NEW t, Reads(s, q, t), q # <<>>
    PROVE  Fits(s, Head(q)) /\ Reads(Hear(s, Head(q)), Tail(q), t)
<1>1. PICK E : q \in Seq(E)
  BY DEF Reads
<1>2. PICK r : /\ r[0] = s /\ r[Len(q)] = t
               /\ \A j \in 1..Len(q) :
                     Fits(r[j - 1], q[j]) /\ r[j] = Hear(r[j - 1], q[j])
  BY DEF Reads
<1> DEFINE p == Tail(q)
           z == [j \in 0..Len(q) - 1 |-> r[j + 1]]
<1>3. Len(q) \in Nat \ {0} /\ Head(q) = q[1]
  BY <1>1
<1>4. p \in Seq(E) /\ Len(p) = Len(q) - 1 /\ \A j \in 1..Len(p) : p[j] = q[j + 1]
  BY <1>1
<1> HIDE DEF p
<1>5. Fits(s, Head(q)) /\ r[1] = Hear(s, Head(q))
  <2>1. 1 \in 1..Len(q) /\ 1 - 1 = 0
    BY <1>3
  <2> QED
    BY <1>2, <1>3, <2>1
<1>6. z[0] = Hear(s, Head(q)) /\ z[Len(p)] = t
  BY <1>2, <1>3, <1>4, <1>5
<1>7. ASSUME NEW j \in 1..Len(p)
      PROVE  Fits(z[j - 1], p[j]) /\ z[j] = Hear(z[j - 1], p[j])
  <2>1. j + 1 \in 1..Len(q) /\ (j + 1) - 1 = j
    BY <1>3, <1>4
  <2>2. z[j - 1] = r[j] /\ z[j] = r[j + 1] /\ p[j] = q[j + 1]
    BY <1>3, <1>4
  <2> QED
    BY <1>2, <2>1, <2>2
<1> HIDE DEF z
<1>8. Reads(Hear(s, Head(q)), p, t)
  BY <1>4, <1>6, <1>7, Zenon DEF Reads
<1> QED
  BY <1>5, <1>8 DEF p

\* How many elements of S have a lower rank than x.
Below(S, r, x) == Cardinality({y \in S : r[y] < r[x]})

\* Ranks no two share number the elements of S.
LEMMA Ranked ==
    ASSUME NEW S, IsFiniteSet(S), NEW r \in [S -> Nat],
           \A x, y \in S : r[x] = r[y] => x = y
    PROVE  /\ Cardinality(S) \in Nat
           /\ \A x \in S : Below(S, r, x) \in Nat /\ Below(S, r, x) + 1 \in 1..Cardinality(S)
           /\ \A x, z \in S : Below(S, r, x) = Below(S, r, z) => x = z
           /\ \A j \in 1..Cardinality(S) : \E x \in S : Below(S, r, x) = j - 1
<1> DEFINE n == Cardinality(S)
           B(x) == {y \in S : r[y] < r[x]}
           f == [x \in S |-> Cardinality(B(x)) + 1]
<1>1. n \in Nat
  BY FS_CardinalityType
<1>2. ASSUME NEW x \in S
      PROVE  IsFiniteSet(B(x)) /\ Cardinality(B(x)) \in Nat /\ Cardinality(B(x)) < n
  <2>1. B(x) \in SUBSET S /\ x \notin B(x)
    OBVIOUS
  <2>2. IsFiniteSet(B(x)) /\ Cardinality(B(x)) <= n /\ (n = Cardinality(B(x)) => S = B(x))
    BY <2>1, FS_Subset
  <2>3. Cardinality(B(x)) \in Nat
    BY <2>2, FS_CardinalityType
  <2> QED
    BY <1>1, <2>1, <2>2, <2>3
<1>3. ASSUME NEW x \in S, NEW z \in S, r[x] < r[z]
      PROVE  Cardinality(B(x)) < Cardinality(B(z))
  <2>1. B(x) \in SUBSET B(z) /\ x \in B(z) /\ x \notin B(x)
    BY <1>3
  <2>2. Cardinality(B(x)) <= Cardinality(B(z))
          /\ (Cardinality(B(z)) = Cardinality(B(x)) => B(z) = B(x))
    BY <1>2, <2>1, FS_Subset, Zenon
  <2>3. Cardinality(B(x)) \in Nat /\ Cardinality(B(z)) \in Nat
    BY <1>2, Zenon
  <2>4. B(x) # B(z)
    BY <2>1
  <2> HIDE DEF B
  <2> QED
    BY <2>2, <2>3, <2>4
<1> HIDE DEF B
<1>4. ASSUME NEW x \in S, NEW z \in S, Cardinality(B(x)) = Cardinality(B(z))
      PROVE  x = z
  <2>0. Cardinality(B(x)) \in Nat
    BY <1>2
  <2>1. ~(r[x] < r[z]) /\ ~(r[z] < r[x])
    BY <1>3, <1>4, <2>0
  <2>2. r[x] = r[z]
    BY <2>1
  <2> QED
    BY <2>2
<1>5. \A x \in S : f[x] \in 1..n
  BY <1>1, <1>2
<1>6. f \in Injection(S, 1..n)
  BY <1>2, <1>4, <1>5 DEF Injection, IsInjective
<1>7. IsFiniteSet(1..n) /\ Cardinality(1..n) = n
  BY <1>1, FS_Interval
<1>8. f \in Surjection(S, 1..n)
  BY <1>6, <1>7, FS_Injection
<1>9. ASSUME NEW j \in 1..n PROVE \E x \in S : Cardinality(B(x)) = j - 1
  <2>1. PICK x \in S : f[x] = j
    BY <1>8, Zenon DEF Surjection
  <2> QED
    BY <1>2, <2>1
<1>10. \A x : Below(S, r, x) = Cardinality(B(x))
  BY DEF Below, B
<1> QED
  BY <1>1, <1>2, <1>4, <1>5, <1>9, <1>10

\* A reader, and what an event does to it that has its place.
ReadFields == {"phase", "items", "final", "end"}
ItemFields == {"added", "said", "finished"}
IsReader(r) ==
    /\ DOMAIN r = ReadFields
    /\ \A i \in DOMAIN r.items :
          /\ i \in ItemNumbers
          /\ DOMAIN r.items[i] = ItemFields /\ r.items[i].finished \in Nat

Adds(r, t, i) ==
    /\ IsReader(t) /\ t.phase = "open"
    /\ DOMAIN t.items = DOMAIN r.items \cup {i}
    /\ \A j \in DOMAIN r.items : t.items[j] = r.items[j]
    /\ t.items[i].finished = 0
Speaks(r, t) ==
    /\ IsReader(t) /\ t.phase = "open"
    /\ DOMAIN t.items = DOMAIN r.items
    /\ \A j \in DOMAIN r.items : t.items[j].finished = r.items[j].finished
Finishes(r, t, i) ==
    /\ IsReader(t) /\ t.phase = "open"
    /\ DOMAIN t.items = DOMAIN r.items
    /\ \A j \in DOMAIN r.items \ {i} : t.items[j] = r.items[j]
    /\ t.items[i].finished = 1

\* r was told of i and not that it is finished.
IsOpen(r, i) == i \in DOMAIN r.items /\ r.items[i].finished = 0

USE DEF Event, Snapshot, Item, Kind, OutputIndex, CallOf, NoItem, NoSnapshot,
        C!Event, C!Snapshot, C!Item, C!Kind, C!OutputIndex, C!CallOf, C!NoItem, C!NoSnapshot

\* An item is added.
LEMMA HearAdded ==
    ASSUME NEW r, NEW e, IsReader(r), r.phase = "open", e.type = "added",
           e.of.item \in ItemNumbers \ DOMAIN r.items
    PROVE  Fits(r, e) /\ Adds(r, Hear(r, e), e.of.item)
<1> DEFINE i == e.of.item
           t == Hear(r, e)
<1>1. Fits(r, e) /\ i \in ItemNumbers
  BY DEF Fits
<1>2. t = Count(r, i, "added")
  BY DEF Hear
<1>3. t.items = With(r.items, i, [[added |-> 0, said |-> 0, finished |-> 0] EXCEPT !.added = 1])
  BY <1>2 DEF Count, Seen, IsReader, ReadFields
<1>4. DOMAIN t = DOMAIN r /\ t.phase = r.phase
  BY <1>2 DEF Count, IsReader, ReadFields
<1>5. DOMAIN t.items = DOMAIN r.items \cup {i}
  BY <1>3 DEF With
<1>6. \A j \in DOMAIN r.items : t.items[j] = r.items[j]
  BY <1>3 DEF With
<1>7. t.items[i] = [added |-> 1, said |-> 0, finished |-> 0]
  BY <1>3 DEF With
<1> HIDE DEF t, i
<1>8. IsReader(t)
  BY <1>1, <1>4, <1>5, <1>6, <1>7 DEF IsReader, ItemFields
<1>9. Adds(r, t, i)
  BY <1>4, <1>5, <1>6, <1>7, <1>8 DEF Adds
<1> QED
  BY <1>1, <1>9 DEF t, i

\* Something is said of an open item.
LEMMA HearSaid ==
    ASSUME NEW r, NEW e, IsReader(r), r.phase = "open", e.type \in Says,
           IsOpen(r, e.of.item)
    PROVE  Fits(r, e) /\ Speaks(r, Hear(r, e))
<1> DEFINE i == e.of.item
           t == Hear(r, e)
<1>1. Fits(r, e)
  BY DEF Fits, IsOpen
<1>2. t = Count(r, i, "said")
  BY DEF Hear, Says
<1>3. t.items = With(r.items, i, [r.items[i] EXCEPT !.said = @ + 1])
  BY <1>2 DEF Count, Seen, IsReader, ReadFields, IsOpen
<1>4. DOMAIN t = DOMAIN r /\ t.phase = r.phase
  BY <1>2 DEF Count, IsReader, ReadFields
<1>5. DOMAIN t.items = DOMAIN r.items
  BY <1>3 DEF With, IsOpen
<1>6. \A j \in DOMAIN r.items \ {i} : t.items[j] = r.items[j]
  BY <1>3 DEF With
<1>7. t.items[i] = [r.items[i] EXCEPT !.said = @ + 1]
  BY <1>3 DEF With, IsOpen
<1>8. DOMAIN t.items[i] = ItemFields /\ t.items[i].finished = r.items[i].finished
  BY <1>7 DEF IsReader, IsOpen, ItemFields
<1> HIDE DEF t, i
<1>9. IsReader(t)
  BY <1>4, <1>5, <1>6, <1>8 DEF IsReader
<1>10. Speaks(r, t)
  BY <1>4, <1>5, <1>6, <1>8, <1>9 DEF Speaks
<1> QED
  BY <1>1, <1>10 DEF t

\* An open item is finished.
LEMMA HearItemDone ==
    ASSUME NEW r, NEW e, IsReader(r), r.phase = "open", e.type = "itemDone",
           IsOpen(r, e.of.item)
    PROVE  Fits(r, e) /\ Finishes(r, Hear(r, e), e.of.item)
<1> DEFINE i == e.of.item
           t == Hear(r, e)
<1>1. Fits(r, e)
  BY DEF Fits, IsOpen
<1>2. t = Count(r, i, "finished")
  BY DEF Hear
<1>3. t.items = With(r.items, i, [r.items[i] EXCEPT !.finished = @ + 1])
  BY <1>2 DEF Count, Seen, IsReader, ReadFields, IsOpen
<1>4. DOMAIN t = DOMAIN r /\ t.phase = r.phase
  BY <1>2 DEF Count, IsReader, ReadFields
<1>5. DOMAIN t.items = DOMAIN r.items
  BY <1>3 DEF With, IsOpen
<1>6. \A j \in DOMAIN r.items \ {i} : t.items[j] = r.items[j]
  BY <1>3 DEF With
<1>7. t.items[i] = [r.items[i] EXCEPT !.finished = @ + 1]
  BY <1>3 DEF With, IsOpen
<1>8. DOMAIN t.items[i] = ItemFields /\ t.items[i].finished = 1
  BY <1>7 DEF IsReader, IsOpen, ItemFields
<1> HIDE DEF t, i
<1>9. IsReader(t)
  BY <1>4, <1>5, <1>6, <1>8 DEF IsReader
<1>10. Finishes(r, t, i)
  BY <1>4, <1>5, <1>6, <1>8, <1>9 DEF Finishes
<1> QED
  BY <1>1, <1>10 DEF t, i

----------------------------------------------------------------------------
(* The converter of a Chat upstream: a response under way.                 *)

SnapshotFields == {"item", "n", "sig"}
CallFields == {"item", "name", "hasId", "n", "added"}

\* The calls that have got their output_index, and all the items that have.
Begun(c) == {k \in Calls : c.calls[k] # C!NoCall}
Allotted(t, c) == DOMAIN t.items \cup {c.calls[k].item : k \in Begun(c)}

\* The parts of what holds of a converter whose reader will have heard t when
\* it has had all that is queued.
ChatBasic(t, c, n) ==
    /\ IsReader(t) /\ t.phase = "open"
    /\ DOMAIN c = ChatFields /\ DOMAIN c.calls = Calls
    /\ ~c.sentDone
    /\ n \in Nat /\ c.nextIndex \in 0..n
    /\ IsFiniteSet(c.completed)

\* No two items share an output_index.
ChatApart(t, c) ==
    /\ \A i \in Allotted(t, c) : i \in ItemNumbers /\ OutputIndex(i) < c.nextIndex
    /\ \A i, j \in Allotted(t, c) : OutputIndex(i) = OutputIndex(j) => i = j

\* The reasoning or the message in hand is open for the reader.
OpenHeard(t, s, kind) ==
    s # NoSnapshot =>
        DOMAIN s = SnapshotFields /\ Kind(s.item) = kind /\ IsOpen(t, s.item)

\* A call is open for the reader exactly when it was added.
CallsHeard(t, c) ==
    \A k \in Begun(c) :
        /\ DOMAIN c.calls[k] = CallFields
        /\ Kind(c.calls[k].item) = "function_call" /\ CallOf(c.calls[k].item) = k
        /\ c.calls[k].added => IsOpen(t, c.calls[k].item)
        /\ c.calls[k].item \in DOMAIN t.items => c.calls[k].added

\* Reasoning that was completed is finished for the reader.
CompletedHeard(t, c) ==
    /\ \A s \in c.completed :
          /\ Kind(s.item) = "reasoning"
          /\ s.item \in DOMAIN t.items /\ t.items[s.item].finished = 1
    /\ \A s, u \in c.completed : s.item = u.item => s = u

\* The reader knows of nothing the converter has forgotten.
AllHeard(t, c) ==
    \A i \in DOMAIN t.items :
        \/ c.reasoning # NoSnapshot /\ i = c.reasoning.item
        \/ c.message # NoSnapshot /\ i = c.message.item
        \/ \E k \in Begun(c) : c.calls[k].added /\ i = c.calls[k].item
        \/ \E s \in c.completed : i = s.item

\* A response under way that has used no more than n indices.
ChatHeard(t, c, n) ==
    /\ ChatBasic(t, c, n) /\ ChatApart(t, c)
    /\ OpenHeard(t, c.reasoning, "reasoning") /\ OpenHeard(t, c.message, "message")
    /\ CallsHeard(t, c) /\ CompletedHeard(t, c) /\ AllHeard(t, c)

\* The same of what the reader will have heard when it has had all that is queued.
ChatGood(r, c, n) == \E t : Reads(r, c.out, t) /\ ChatHeard(t, c, n)

\* d knows the same items as c.
SameSnapshot(s, u) ==
    /\ (s = NoSnapshot) = (u = NoSnapshot) /\ s.item = u.item /\ DOMAIN s = DOMAIN u
SameCall(a, b) ==
    /\ (a = C!NoCall) = (b = C!NoCall) /\ a.item = b.item /\ DOMAIN a = DOMAIN b
    /\ a.added = b.added
Alike(c, d) ==
    /\ DOMAIN d = DOMAIN c /\ DOMAIN d.calls = DOMAIN c.calls
    /\ d.nextIndex = c.nextIndex /\ d.completed = c.completed
    /\ d.sentDone = c.sentDone
    /\ SameSnapshot(c.reasoning, d.reasoning) /\ SameSnapshot(c.message, d.message)
    /\ \A k \in Calls : SameCall(c.calls[k], d.calls[k])

\* Something said of an open item, while the converter keeps its items, leaves
\* all it relies on.
LEMMA AlikeHeard ==
    ASSUME NEW t, NEW u, NEW c, NEW d, NEW n,
           ChatHeard(t, c, n), Alike(c, d), Speaks(t, u)
    PROVE  ChatHeard(u, d, n)
<1>1. ChatBasic(u, d, n)
  BY DEF ChatHeard, ChatBasic, Alike, Speaks
<1>2. Begun(d) = Begun(c)
  BY DEF Begun, Alike, SameCall
<1>3. Allotted(u, d) = Allotted(t, c)
  BY <1>2 DEF Allotted, Begun, Alike, SameCall, Speaks
<1>4. ChatApart(u, d)
  BY <1>3 DEF ChatHeard, ChatApart, Alike
<1>5. OpenHeard(u, d.reasoning, "reasoning") /\ OpenHeard(u, d.message, "message")
  BY DEF ChatHeard, OpenHeard, IsOpen, Alike, SameSnapshot, Speaks
<1>6. CallsHeard(u, d)
  BY <1>2 DEF ChatHeard, CallsHeard, Begun, IsOpen, Alike, SameCall, Speaks
<1>7. CompletedHeard(u, d)
  BY DEF ChatHeard, CompletedHeard, Alike, Speaks
<1>8. AllHeard(u, d)
  BY <1>2 DEF ChatHeard, AllHeard, Begun, Alike, SameSnapshot, SameCall, Speaks
<1> QED
  BY <1>1, <1>4, <1>5, <1>6, <1>7, <1>8 DEF ChatHeard

\* A step that queues nothing and keeps the items.
LEMMA ChatQuiet ==
    ASSUME NEW r, NEW c, NEW d, NEW n, ChatGood(r, c, n), Alike(c, d), d.out = c.out
    PROVE  ChatGood(r, d, n)
<1>1. PICK t : Reads(r, c.out, t) /\ ChatHeard(t, c, n)
  BY DEF ChatGood
<1>2. Speaks(t, t)
  BY <1>1 DEF Speaks, ChatHeard, ChatBasic
<1> QED
  BY <1>1, <1>2, AlikeHeard DEF ChatGood

\* A step that queues something said of an item it has open.
LEMMA ChatSays ==
    ASSUME NEW r, NEW c, NEW d, NEW n, NEW e, ChatGood(r, c, n), Alike(c, d),
           d.out = Append(c.out, e), e.type \in Says,
           \/ c.reasoning # NoSnapshot /\ e.of.item = c.reasoning.item
           \/ c.message # NoSnapshot /\ e.of.item = c.message.item
           \/ \E k \in Begun(c) : c.calls[k].added /\ e.of.item = c.calls[k].item
    PROVE  ChatGood(r, d, n)
<1>1. PICK t : Reads(r, c.out, t) /\ ChatHeard(t, c, n)
  BY DEF ChatGood
<1>2. IsOpen(t, e.of.item) /\ IsReader(t) /\ t.phase = "open"
  BY <1>1 DEF ChatHeard, ChatBasic, OpenHeard, CallsHeard
<1> DEFINE u == Hear(t, e)
<1> HIDE DEF u
<1>3. Fits(t, e) /\ Speaks(t, u)
  BY <1>2, HearSaid DEF u, IsOpen, Speaks
<1>4. Reads(r, d.out, u)
  BY <1>1, <1>3, ReadsMore DEF u
<1>5. ChatHeard(u, d, n)
  BY <1>1, <1>3, AlikeHeard
<1> QED
  BY <1>4, <1>5 DEF ChatGood

\* d is c after the next output_index was given to i.
Opens(c, d, i, kind) ==
    /\ DOMAIN d = ChatFields /\ d.nextIndex = c.nextIndex + 1
    /\ d.completed = c.completed /\ d.calls = c.calls /\ d.sentDone = c.sentDone
    /\ CASE kind = "reasoning" ->
              c.reasoning = NoSnapshot /\ d.message = c.message
                  /\ d.reasoning = Snapshot(i, 0, "none")
         [] kind = "message" ->
              c.message = NoSnapshot /\ d.reasoning = c.reasoning
                  /\ d.message = Snapshot(i, 0, "none")

\* A reasoning or a message begun under the next output_index is one the reader
\* does not have yet.
LEMMA OpensHeard ==
    ASSUME NEW t, NEW u, NEW c, NEW d, NEW n, NEW kind \in {"reasoning", "message"}, NEW i,
           ChatHeard(t, c, n), i = Item(kind, c.nextIndex, 0), i \in ItemNumbers,
           Opens(c, d, i, kind), Adds(t, u, i)
    PROVE  ChatHeard(u, d, n + 1)
<1>1. c.nextIndex \in Nat /\ i # NoItem /\ i \notin Allotted(t, c) /\ Begun(d) = Begun(c)
  BY DEF ChatHeard, ChatBasic, ChatApart, Opens, Begun
<1>2. ChatBasic(u, d, n + 1)
  BY DEF ChatHeard, ChatBasic, Opens, Adds
<1>3. Allotted(u, d) = Allotted(t, c) \cup {i}
  BY <1>1 DEF Allotted, Opens, Adds
<1>4. \A j \in Allotted(t, c) : OutputIndex(j) \in Nat /\ OutputIndex(j) < c.nextIndex
  BY DEF ChatHeard, ChatApart, ItemNumbers
<1>5. ChatApart(u, d)
  BY <1>1, <1>3, <1>4 DEF ChatHeard, ChatApart, Opens
<1>6. i \notin DOMAIN t.items
  BY <1>1 DEF Allotted
<1>7. \A s, k : OpenHeard(t, s, k) => OpenHeard(u, s, k)
  BY <1>6 DEF OpenHeard, IsOpen, Adds
<1>8. OpenHeard(u, Snapshot(i, 0, "none"), kind)
  BY DEF OpenHeard, IsOpen, Adds, SnapshotFields
<1>9. OpenHeard(u, d.reasoning, "reasoning") /\ OpenHeard(u, d.message, "message")
  BY <1>7, <1>8, Zenon DEF ChatHeard, Opens
<1>10. CallsHeard(u, d)
  <2>1. \A k \in Begun(c) : c.calls[k].item \in Allotted(t, c)
    BY DEF Allotted
  <2> QED
    BY <1>1, <1>6, <2>1 DEF ChatHeard, CallsHeard, Opens, IsOpen, Adds
<1>11. CompletedHeard(u, d)
  BY <1>6 DEF ChatHeard, CompletedHeard, Opens, Adds
<1>12. AllHeard(u, d)
  <2>1. Snapshot(i, 0, "none") # NoSnapshot /\ Snapshot(i, 0, "none").item = i
    BY <1>1
  <2>2. CASE kind = "reasoning"
    <3>1. /\ c.reasoning = NoSnapshot /\ d.message = c.message
          /\ d.reasoning = Snapshot(i, 0, "none")
      BY <2>2 DEF Opens
    <3> QED
      BY <1>1, <2>1, <3>1 DEF ChatHeard, AllHeard, Opens, Adds
  <2>3. CASE kind = "message"
    <3>1. /\ c.message = NoSnapshot /\ d.reasoning = c.reasoning
          /\ d.message = Snapshot(i, 0, "none")
      BY <2>3 DEF Opens
    <3> QED
      BY <1>1, <2>1, <3>1 DEF ChatHeard, AllHeard, Opens, Adds
  <2> QED
    BY <2>2, <2>3
<1> QED
  BY <1>2, <1>5, <1>9, <1>10, <1>11, <1>12 DEF ChatHeard

\* ensure_reasoning_added and ensure_message_added: the item is queued before
\* anything is said of it.
LEMMA ChatOpens ==
    ASSUME NEW r, NEW c, NEW d, NEW n, NEW kind \in {"reasoning", "message"}, NEW i, NEW e,
           ChatGood(r, c, n), n <= MaxBlocks, i = Item(kind, c.nextIndex, 0),
           e.type = "added", e.of.item = i, d.out = Append(c.out, e), Opens(c, d, i, kind)
    PROVE  ChatGood(r, d, n + 1)
<1>1. PICK t : Reads(r, c.out, t) /\ ChatHeard(t, c, n)
  BY DEF ChatGood
<1>2. IsReader(t) /\ t.phase = "open" /\ n \in Nat /\ c.nextIndex \in 0..n
  BY <1>1 DEF ChatHeard, ChatBasic
<1>3. i \in ItemNumbers
  <2>1. c.nextIndex \in 0..MaxBlocks
    BY <1>2, StreamAssumption
  <2> QED
    BY <2>1 DEF ItemNumbers
<1>4. i \notin DOMAIN t.items
  BY <1>1, <1>2 DEF ChatHeard, ChatApart, Allotted
<1> DEFINE u == Hear(t, e)
<1> HIDE DEF u
<1>5. Fits(t, e) /\ Adds(t, u, i)
  <2>1. e.of.item \in ItemNumbers \ DOMAIN t.items
    BY <1>3, <1>4
  <2>2. IsReader(t) /\ t.phase = "open"
    BY <1>2
  <2>3. Fits(t, e) /\ Adds(t, u, e.of.item)
    BY <2>1, <2>2, HearAdded DEF u, Adds
  <2> QED
    BY <2>3
<1>6. Reads(r, d.out, u)
  BY <1>1, <1>5, ReadsMore DEF u
<1>7. ChatHeard(u, d, n + 1)
  BY <1>1, <1>3, <1>5, OpensHeard
<1> QED
  BY <1>6, <1>7 DEF ChatGood

\* d is c after call k got the next output_index.
Begins(c, d, k) ==
    /\ DOMAIN d = ChatFields /\ d.nextIndex = c.nextIndex + 1
    /\ d.completed = c.completed /\ d.sentDone = c.sentDone
    /\ d.reasoning = c.reasoning /\ d.message = c.message
    /\ DOMAIN d.calls = DOMAIN c.calls
    /\ c.calls[k] = C!NoCall
    /\ DOMAIN d.calls[k] = CallFields /\ ~d.calls[k].added
    /\ d.calls[k].item = Item("function_call", c.nextIndex, k)
    /\ \A l \in Calls \ {k} : d.calls[l] = c.calls[l]

\* A call that is heard of for the first time takes an output_index and shows
\* nothing.
LEMMA ChatBegins ==
    ASSUME NEW r, NEW c, NEW d, NEW n, NEW k \in Calls,
           ChatGood(r, c, n), n <= MaxBlocks, Begins(c, d, k), d.out = c.out
    PROVE  ChatGood(r, d, n + 1)
<1> DEFINE i == Item("function_call", c.nextIndex, k)
<1>1. PICK t : Reads(r, c.out, t) /\ ChatHeard(t, c, n)
  BY DEF ChatGood
<1>2. IsReader(t) /\ n \in Nat /\ c.nextIndex \in 0..n
  BY <1>1 DEF ChatHeard, ChatBasic
<1>3. i \in ItemNumbers
  <2>1. c.nextIndex \in 0..MaxBlocks
    BY <1>2, StreamAssumption
  <2> QED
    BY <2>1 DEF ItemNumbers
<1>4. i \notin Allotted(t, c)
  BY <1>1, <1>2 DEF ChatHeard, ChatApart
<1>5. d.calls[k].item = i /\ d.calls[k] # C!NoCall
  <2>1. d.calls[k].item = i /\ i[1] = "function_call"
    BY DEF Begins
  <2>2. C!NoCall.item[1] = "none"
    BY DEF C!NoCall
  <2> QED
    BY <2>1, <2>2
<1>6. Begun(d) = Begun(c) \cup {k} /\ k \notin Begun(c)
  BY <1>5 DEF Begun, Begins
<1>7. Allotted(t, d) = Allotted(t, c) \cup {i}
  <2>1. \A l \in Begun(c) : d.calls[l].item = c.calls[l].item
    BY <1>6 DEF Begins, Begun
  <2>2. {d.calls[l].item : l \in Begun(d)} = {c.calls[l].item : l \in Begun(c)} \cup {i}
    BY <1>5, <1>6, <2>1, Zenon
  <2> QED
    BY <2>2, Zenon DEF Allotted
<1>8. ChatBasic(t, d, n + 1)
  BY <1>1 DEF ChatHeard, ChatBasic, Begins
<1>9. \A j \in Allotted(t, c) : OutputIndex(j) \in Nat /\ OutputIndex(j) < c.nextIndex
  BY <1>1 DEF ChatHeard, ChatApart, ItemNumbers
<1>10. ChatApart(t, d)
  BY <1>1, <1>2, <1>3, <1>7, <1>9 DEF ChatHeard, ChatApart, Begins
<1>11. OpenHeard(t, d.reasoning, "reasoning") /\ OpenHeard(t, d.message, "message")
  BY <1>1 DEF ChatHeard, Begins
<1>12. i \notin DOMAIN t.items
  BY <1>4 DEF Allotted
<1>13. CallsHeard(t, d)
  BY <1>1, <1>5, <1>6, <1>12 DEF ChatHeard, CallsHeard, Begins, Begun
<1>14. CompletedHeard(t, d)
  BY <1>1 DEF ChatHeard, CompletedHeard, Begins
<1>15. AllHeard(t, d)
  BY <1>1, <1>6 DEF ChatHeard, AllHeard, Begins, Begun
<1>16. ChatHeard(t, d, n + 1)
  BY <1>8, <1>10, <1>11, <1>13, <1>14, <1>15 DEF ChatHeard
<1> QED
  BY <1>1, <1>16 DEF ChatGood

\* d is c after call k was added to the stream.
Shows(c, d, k) ==
    /\ DOMAIN d = ChatFields /\ d.nextIndex = c.nextIndex
    /\ d.completed = c.completed /\ d.sentDone = c.sentDone
    /\ d.reasoning = c.reasoning /\ d.message = c.message
    /\ DOMAIN d.calls = DOMAIN c.calls
    /\ k \in Begun(c) /\ ~c.calls[k].added
    /\ DOMAIN d.calls[k] = DOMAIN c.calls[k] /\ d.calls[k].added
    /\ d.calls[k].item = c.calls[k].item
    /\ \A l \in Calls \ {k} : d.calls[l] = c.calls[l]

\* emit_tool_call_added: a call is added under the output_index it has kept.
LEMMA ChatShows ==
    ASSUME NEW r, NEW c, NEW d, NEW n, NEW k \in Calls, NEW e,
           ChatGood(r, c, n), Shows(c, d, k), e.type = "added",
           e.of.item = c.calls[k].item, d.out = Append(c.out, e)
    PROVE  ChatGood(r, d, n)
<1> DEFINE i == c.calls[k].item
<1>1. PICK t : Reads(r, c.out, t) /\ ChatHeard(t, c, n)
  BY DEF ChatGood
<1>2. IsReader(t) /\ t.phase = "open"
  BY <1>1 DEF ChatHeard, ChatBasic
<1>3. i \in ItemNumbers \ DOMAIN t.items
  BY <1>1 DEF ChatHeard, ChatApart, CallsHeard, Allotted, Shows
<1> DEFINE u == Hear(t, e)
<1> HIDE DEF u
<1>4. Fits(t, e) /\ Adds(t, u, i)
  BY <1>2, <1>3, HearAdded DEF u, Adds
<1>5. Reads(r, d.out, u)
  BY <1>1, <1>4, ReadsMore DEF u
<1>6. d.calls[k] # C!NoCall
  <2>1. d.calls[k].item[1] = "function_call"
    BY <1>1 DEF ChatHeard, CallsHeard, Shows
  <2>2. C!NoCall.item[1] = "none"
    BY DEF C!NoCall
  <2> QED
    BY <2>1, <2>2
<1>7. Begun(d) = Begun(c)
  BY <1>6 DEF Begun, Shows
<1>8. Allotted(u, d) = Allotted(t, c)
  BY <1>4, <1>7 DEF Allotted, Shows, Adds, Begun
<1>9. ChatBasic(u, d, n)
  BY <1>1, <1>4 DEF ChatHeard, ChatBasic, Shows, Adds
<1>10. ChatApart(u, d)
  BY <1>1, <1>8 DEF ChatHeard, ChatApart, Shows
<1>11. OpenHeard(u, d.reasoning, "reasoning") /\ OpenHeard(u, d.message, "message")
  BY <1>1, <1>3, <1>4 DEF ChatHeard, OpenHeard, IsOpen, Shows, Adds
<1>12. CallsHeard(u, d)
  <2>1. SUFFICES ASSUME NEW l \in Begun(c)
                 PROVE  /\ DOMAIN d.calls[l] = CallFields
                        /\ Kind(d.calls[l].item) = "function_call"
                        /\ CallOf(d.calls[l].item) = l
                        /\ d.calls[l].added => IsOpen(u, d.calls[l].item)
                        /\ d.calls[l].item \in DOMAIN u.items => d.calls[l].added
    BY <1>7 DEF CallsHeard
  <2>2. CASE l = k
    BY <1>1, <1>4, <2>2 DEF ChatHeard, CallsHeard, Shows, Adds, IsOpen
  <2>3. CASE l # k
    <3>1. d.calls[l] = c.calls[l] /\ CallOf(c.calls[l].item) = l /\ CallOf(i) = k
      BY <1>1, <2>3 DEF ChatHeard, CallsHeard, Shows, Begun
    <3>2. c.calls[l].item # i
      BY <2>3, <3>1
    <3> QED
      BY <1>1, <1>3, <1>4, <3>1, <3>2 DEF ChatHeard, CallsHeard, Adds, IsOpen
  <2> QED
    BY <2>2, <2>3
<1>13. CompletedHeard(u, d)
  BY <1>1, <1>3, <1>4 DEF ChatHeard, CompletedHeard, Shows, Adds
<1>14. AllHeard(u, d)
  BY <1>1, <1>4, <1>7 DEF ChatHeard, AllHeard, Shows, Adds, Begun
<1>15. ChatHeard(u, d, n)
  BY <1>9, <1>10, <1>11, <1>12, <1>13, <1>14 DEF ChatHeard
<1> QED
  BY <1>5, <1>15 DEF ChatGood

\* close_reasoning_item ends the reasoning once, and only that.
LEMMA CloseReasoningGood ==
    ASSUME NEW r, NEW c, NEW n, ChatGood(r, c, n)
    PROVE  LET d == C!CloseReasoning(c) IN
           /\ ChatGood(r, d, n) /\ d.reasoning = NoSnapshot
           /\ d.message = c.message /\ d.calls = c.calls /\ d.finish = c.finish
           /\ d.ended = c.ended /\ d.gone = c.gone /\ d.log = c.log
<1> DEFINE d == C!CloseReasoning(c)
<1>1. PICK t : Reads(r, c.out, t) /\ ChatHeard(t, c, n)
  BY DEF ChatGood
<1>2. CASE c.reasoning = NoSnapshot
  BY <1>2 DEF C!CloseReasoning
<1>3. CASE c.reasoning # NoSnapshot
  <2> DEFINE e == C!ItemDone(c.reasoning)
             i == c.reasoning.item
             u == Hear(t, e)
  <2>1. /\ DOMAIN d = ChatFields /\ d.out = Append(c.out, e)
        /\ d.nextIndex = c.nextIndex /\ d.sentDone = c.sentDone
        /\ d.completed = c.completed \cup {c.reasoning} /\ d.reasoning = NoSnapshot
        /\ d.message = c.message /\ d.calls = c.calls /\ d.finish = c.finish
        /\ d.ended = c.ended /\ d.gone = c.gone /\ d.log = c.log
    BY <1>1, <1>3 DEF C!CloseReasoning, C!Push, ChatHeard, ChatBasic, ChatFields
  <2>2. e.type = "itemDone" /\ e.of.item = i
    BY DEF C!ItemDone
  <2>3. IsReader(t) /\ t.phase = "open" /\ IsOpen(t, i) /\ Kind(i) = "reasoning"
    BY <1>1, <1>3 DEF ChatHeard, ChatBasic, OpenHeard
  <2> HIDE DEF d, e, u
  <2>0. Fits(t, e) /\ Finishes(t, u, e.of.item)
    BY <2>2, <2>3, HearItemDone DEF u, IsOpen
  <2>4. /\ Fits(t, e) /\ IsReader(u) /\ u.phase = "open"
        /\ DOMAIN u.items = DOMAIN t.items
        /\ \A j \in DOMAIN t.items \ {i} : u.items[j] = t.items[j]
        /\ u.items[i].finished = 1
    BY <2>0, <2>2 DEF Finishes
  <2>5. Reads(r, d.out, u)
    BY <1>1, <2>1, <2>4, ReadsMore DEF u
  <2>6. Begun(d) = Begun(c) /\ Allotted(u, d) = Allotted(t, c)
    BY <2>1, <2>4 DEF Begun, Allotted
  <2>7. ChatBasic(u, d, n)
    <3>1. IsFiniteSet(d.completed)
      BY <1>1, <2>1, FS_AddElement, Zenon DEF ChatHeard, ChatBasic
    <3> QED
      BY <1>1, <2>1, <2>4, <3>1 DEF ChatHeard, ChatBasic
  <2>8. ChatApart(u, d)
    BY <1>1, <2>1, <2>6 DEF ChatHeard, ChatApart
  <2>9. OpenHeard(u, d.reasoning, "reasoning") /\ OpenHeard(u, d.message, "message")
    BY <1>1, <2>1, <2>3, <2>4 DEF ChatHeard, OpenHeard, IsOpen
  <2>10. CallsHeard(u, d)
    BY <1>1, <2>1, <2>3, <2>4, <2>6 DEF ChatHeard, CallsHeard, IsOpen
  <2>11. CompletedHeard(u, d)
    <3>1. \A s \in c.completed : s.item # i
      BY <1>1, <2>3 DEF ChatHeard, CompletedHeard, IsOpen
    <3> QED
      BY <1>1, <2>1, <2>3, <2>4, <3>1 DEF ChatHeard, CompletedHeard, IsOpen
  <2>12. AllHeard(u, d)
    BY <1>1, <2>1, <2>4, <2>6 DEF ChatHeard, AllHeard
  <2>13. ChatHeard(u, d, n)
    BY <2>7, <2>8, <2>9, <2>10, <2>11, <2>12 DEF ChatHeard
  <2> QED
    BY <2>1, <2>5, <2>13 DEF ChatGood, d
<1> QED
  BY <1>2, <1>3

\* The shape of a converter whose response is under way.
ChatShaped(c, n) ==
    /\ DOMAIN c = ChatFields /\ DOMAIN c.calls = Calls
    /\ ~c.sentDone /\ n \in Nat /\ c.nextIndex \in Nat
    /\ (c.reasoning # NoSnapshot =>
           DOMAIN c.reasoning = SnapshotFields /\ c.reasoning.item # NoItem)
    /\ (c.message # NoSnapshot =>
           DOMAIN c.message = SnapshotFields /\ c.message.item # NoItem)
    /\ \A k \in Begun(c) : DOMAIN c.calls[k] = CallFields /\ c.calls[k].item # NoItem

\* What the proofs about a converter's fields need of a response under way.
LEMMA ChatShape ==
    ASSUME NEW r, NEW c, NEW n, ChatGood(r, c, n)
    PROVE  ChatShaped(c, n)
<1>1. PICK t : Reads(r, c.out, t) /\ ChatHeard(t, c, n)
  BY DEF ChatGood
<1>2. ASSUME NEW i, Kind(i) \in {"reasoning", "message", "function_call"} PROVE i # NoItem
  BY <1>2
<1>3. /\ (c.reasoning # NoSnapshot =>
             DOMAIN c.reasoning = SnapshotFields /\ Kind(c.reasoning.item) = "reasoning")
      /\ (c.message # NoSnapshot =>
             DOMAIN c.message = SnapshotFields /\ Kind(c.message.item) = "message")
  BY <1>1 DEF ChatHeard, OpenHeard
<1>4. \A k \in Begun(c) : DOMAIN c.calls[k] = CallFields
                              /\ Kind(c.calls[k].item) = "function_call"
  BY <1>1 DEF ChatHeard, CallsHeard
<1>5. /\ DOMAIN c = ChatFields /\ DOMAIN c.calls = Calls
      /\ ~c.sentDone /\ n \in Nat /\ c.nextIndex \in Nat
  BY <1>1 DEF ChatHeard, ChatBasic
<1> QED
  BY <1>2, <1>3, <1>4, <1>5 DEF ChatShaped

\* A higher bound on the indices allotted is a bound.
LEMMA ChatLater ==
    ASSUME NEW r, NEW c, NEW n, ChatGood(r, c, n)
    PROVE  ChatGood(r, c, n + 1)
<1>1. PICK t : Reads(r, c.out, t) /\ ChatHeard(t, c, n)
  BY DEF ChatGood
<1>2. ChatBasic(t, c, n + 1)
  BY <1>1 DEF ChatHeard, ChatBasic
<1> QED
  BY <1>1, <1>2 DEF ChatGood, ChatHeard

\* A reasoning is open.
LEMMA EnsureReasoningGood ==
    ASSUME NEW r, NEW c, NEW n, ChatGood(r, c, n), n <= MaxBlocks
    PROVE  LET d == C!EnsureReasoning(c) IN
           ChatGood(r, d, n + 1) /\ d.reasoning # NoSnapshot /\ d.calls = c.calls
<1>0. ChatShaped(c, n)
  BY ChatShape
<1>1. CASE c.reasoning # NoSnapshot
  BY <1>1, ChatLater DEF C!EnsureReasoning
<1>2. CASE c.reasoning = NoSnapshot
  <2> DEFINE i == C!NextItem(c, "reasoning", 0)
             d == C!OpenReasoning(c, i)
             e == C!Added(i)
  <2>1. i = Item("reasoning", c.nextIndex, 0)
    BY DEF C!NextItem
  <2>2. e.type = "added" /\ e.of.item = i
    BY DEF C!Added
  <2>3. C!EnsureReasoning(c) = d
    BY <1>2 DEF C!EnsureReasoning
  <2> HIDE DEF i, e
  <2>4. /\ DOMAIN d = ChatFields /\ d.out = Append(c.out, e)
        /\ d.nextIndex = c.nextIndex + 1 /\ d.completed = c.completed
        /\ d.calls = c.calls /\ d.sentDone = c.sentDone /\ d.message = c.message
        /\ d.reasoning = Snapshot(i, 0, "none")
    BY <1>0 DEF C!OpenReasoning, C!Push, C!Allot, ChatShaped, ChatFields, e
  <2> HIDE DEF d
  <2>5. Opens(c, d, i, "reasoning")
    BY <1>2, <2>4 DEF Opens
  <2>6. ChatGood(r, d, n + 1)
    BY <2>1, <2>2, <2>4, <2>5, ChatOpens
  <2>7. d.reasoning # NoSnapshot
    <3>1. i[1] = "reasoning" /\ NoItem[1] = "none"
      BY <2>1
    <3>2. i # NoItem
      BY <3>1
    <3>3. d.reasoning.item = i /\ NoSnapshot.item = NoItem
      BY <2>4
    <3> QED
      BY <3>2, <3>3
  <2> QED
    BY <2>3, <2>4, <2>6, <2>7
<1> QED
  BY <1>1, <1>2

\* A message is open.
LEMMA EnsureMessageGood ==
    ASSUME NEW r, NEW c, NEW n, ChatGood(r, c, n), n <= MaxBlocks
    PROVE  LET d == C!EnsureMessage(c) IN
           ChatGood(r, d, n + 1) /\ d.message # NoSnapshot /\ d.calls = c.calls
<1>0. ChatShaped(c, n)
  BY ChatShape
<1>1. CASE c.message # NoSnapshot
  BY <1>1, ChatLater DEF C!EnsureMessage
<1>2. CASE c.message = NoSnapshot
  <2> DEFINE i == C!NextItem(c, "message", 0)
             d == C!OpenMessage(c, i)
             e == C!Added(i)
  <2>1. i = Item("message", c.nextIndex, 0)
    BY DEF C!NextItem
  <2>2. e.type = "added" /\ e.of.item = i
    BY DEF C!Added
  <2>3. C!EnsureMessage(c) = d
    BY <1>2 DEF C!EnsureMessage
  <2> HIDE DEF i, e
  <2>4. /\ DOMAIN d = ChatFields /\ d.out = Append(c.out, e)
        /\ d.nextIndex = c.nextIndex + 1 /\ d.completed = c.completed
        /\ d.calls = c.calls /\ d.sentDone = c.sentDone /\ d.reasoning = c.reasoning
        /\ d.message = Snapshot(i, 0, "none")
    BY <1>0 DEF C!OpenMessage, C!Push, C!Allot, ChatShaped, ChatFields, e
  <2> HIDE DEF d
  <2>5. Opens(c, d, i, "message")
    BY <1>2, <2>4 DEF Opens
  <2>6. ChatGood(r, d, n + 1)
    BY <2>1, <2>2, <2>4, <2>5, ChatOpens, Zenon
  <2>7. d.message # NoSnapshot
    <3>1. i[1] = "message" /\ NoItem[1] = "none"
      BY <2>1
    <3>2. i # NoItem
      BY <3>1
    <3>3. d.message.item = i /\ NoSnapshot.item = NoItem
      BY <2>4
    <3> QED
      BY <3>2, <3>3
  <2> QED
    BY <2>3, <2>4, <2>6, <2>7
<1> QED
  BY <1>1, <1>2

\* No call is shown before it has a name, and a shell call not before the end.
Named(c) == \A k \in Calls : c.calls[k].added => c.calls[k].name \notin {"", "shell"}

\* A response under way; what it shows may be published.
ChatLive(r, c, n) == ChatGood(r, c, n) /\ Named(c)

\* A snapshot of an item keeps the item it is of.
LEMMA SnapshotGrows ==
    ASSUME NEW s, s # NoSnapshot, DOMAIN s = SnapshotFields, s.item # NoItem, NEW x
    PROVE  /\ SameSnapshot(s, [s EXCEPT !.n = x])
           /\ SameSnapshot(s, [s EXCEPT !.sig = x])
<1>1. ASSUME NEW u, u.item = s.item, DOMAIN u = DOMAIN s PROVE SameSnapshot(s, u)
  <2>1. NoSnapshot.item = NoItem
    OBVIOUS
  <2>2. u # NoSnapshot
    BY <1>1, <2>1
  <2> QED
    BY <1>1, <2>2 DEF SameSnapshot
<1>2. /\ [s EXCEPT !.n = x].item = s.item /\ DOMAIN [s EXCEPT !.n = x] = DOMAIN s
      /\ [s EXCEPT !.sig = x].item = s.item /\ DOMAIN [s EXCEPT !.sig = x] = DOMAIN s
  BY DEF SnapshotFields
<1> QED
  BY <1>1, <1>2, Zenon

\* A snapshot is the same as itself.
LEMMA SnapshotSame == \A s : SameSnapshot(s, s)
BY DEF SameSnapshot

\* A call is the same as itself.
LEMMA CallSame == \A call : SameCall(call, call)
BY DEF SameCall

\* A chunk with reasoning.
LEMMA ReasoningPartGood ==
    ASSUME NEW r, NEW c, NEW n, ChatLive(r, c, n), n <= MaxBlocks, NEW m
    PROVE  ChatLive(r, C!ReasoningPart(c, m), n + 1)
<1> DEFINE b == C!EnsureReasoning(c)
           e == C!ReasoningDelta(b.reasoning.item, m)
           d == C!WriteReasoning(b, m)
<1>1. ChatGood(r, b, n + 1) /\ b.reasoning # NoSnapshot /\ b.calls = c.calls
  BY EnsureReasoningGood DEF ChatLive
<1> HIDE DEF b
<1>2. ChatShaped(b, n + 1)
  BY <1>1, ChatShape
<1>3. e.type \in Says /\ e.of.item = b.reasoning.item
  BY DEF C!ReasoningDelta, C!Delta, Says
<1>4. d.out = Append(b.out, e) /\ DOMAIN d = DOMAIN b /\ d.calls = b.calls
      /\ d.nextIndex = b.nextIndex /\ d.completed = b.completed /\ d.sentDone = b.sentDone
      /\ d.reasoning = [b.reasoning EXCEPT !.n = @ + m] /\ d.message = b.message
  BY <1>2 DEF C!WriteReasoning, C!Push, ChatShaped, ChatFields
<1> HIDE DEF d, e
<1>5. SameSnapshot(b.reasoning, d.reasoning)
  <2> DEFINE s == b.reasoning
             x == s.n + m
  <2>1. s # NoSnapshot /\ DOMAIN s = SnapshotFields /\ s.item # NoItem
    BY <1>1, <1>2 DEF ChatShaped
  <2>2. d.reasoning = [s EXCEPT !.n = x]
    BY <1>4
  <2> HIDE DEF s, x
  <2>3. SameSnapshot(s, [s EXCEPT !.n = x])
    BY <2>1, SnapshotGrows, Zenon
  <2> QED
    BY <2>2, <2>3 DEF s
<1>6. Alike(b, d)
  BY <1>4, <1>5, SnapshotSame, CallSame DEF Alike
<1>7. ChatGood(r, d, n + 1)
  BY <1>1, <1>3, <1>4, <1>6, ChatSays, Zenon
<1> QED
  BY <1>1, <1>4, <1>7, Zenon DEF ChatLive, Named, C!ReasoningPart, d, b

\* A chunk with redacted reasoning.
LEMMA RedactedPartGood ==
    ASSUME NEW r, NEW c, NEW n, ChatLive(r, c, n), n <= MaxBlocks, NEW sig
    PROVE  ChatLive(r, C!RedactedPart(c, sig), n + 1)
<1> DEFINE b == C!EnsureReasoning(c)
           d == [b EXCEPT !.reasoning.sig = sig]
<1>1. ChatGood(r, b, n + 1) /\ b.reasoning # NoSnapshot /\ b.calls = c.calls
  BY EnsureReasoningGood DEF ChatLive
<1> HIDE DEF b
<1>2. ChatShaped(b, n + 1)
  BY <1>1, ChatShape
<1>4. d.out = b.out /\ DOMAIN d = DOMAIN b /\ d.calls = b.calls
      /\ d.nextIndex = b.nextIndex /\ d.completed = b.completed /\ d.sentDone = b.sentDone
      /\ d.reasoning = [b.reasoning EXCEPT !.sig = sig] /\ d.message = b.message
  BY <1>2 DEF ChatShaped, ChatFields
<1> HIDE DEF d
<1>5. SameSnapshot(b.reasoning, d.reasoning)
  <2> DEFINE s == b.reasoning
             x == sig
  <2>1. s # NoSnapshot /\ DOMAIN s = SnapshotFields /\ s.item # NoItem
    BY <1>1, <1>2 DEF ChatShaped
  <2>2. d.reasoning = [s EXCEPT !.sig = x]
    BY <1>4
  <2> HIDE DEF s, x
  <2>3. SameSnapshot(s, [s EXCEPT !.sig = x])
    BY <2>1, SnapshotGrows, Zenon
  <2> QED
    BY <2>2, <2>3 DEF s
<1>6. Alike(b, d)
  BY <1>4, <1>5, SnapshotSame, CallSame DEF Alike
<1>7. ChatGood(r, d, n + 1)
  BY <1>1, <1>4, <1>6, ChatQuiet
<1> QED
  BY <1>1, <1>4, <1>7, Zenon DEF ChatLive, Named, C!RedactedPart, d, b

\* A chunk with text, which ends the reasoning.
LEMMA TextPartGood ==
    ASSUME NEW r, NEW c, NEW n, ChatLive(r, c, n), n <= MaxBlocks, NEW m
    PROVE  ChatLive(r, C!TextPart(c, m), n + 1)
<1> DEFINE a == IF m = 0 THEN c ELSE C!CloseReasoning(c)
           b == C!EnsureMessage(a)
           e == C!TextDelta(b.message.item, m)
           d == C!WriteText(b, m)
<1>0. ChatGood(r, a, n) /\ a.calls = c.calls
  BY CloseReasoningGood DEF ChatLive
<1> HIDE DEF a
<1>1. ChatGood(r, b, n + 1) /\ b.message # NoSnapshot /\ b.calls = a.calls
  BY <1>0, EnsureMessageGood
<1> HIDE DEF b
<1>2. ChatShaped(b, n + 1)
  BY <1>1, ChatShape
<1>3. e.type \in Says /\ e.of.item = b.message.item
  BY DEF C!TextDelta, C!Delta, Says
<1>4. d.out = Append(b.out, e) /\ DOMAIN d = DOMAIN b /\ d.calls = b.calls
      /\ d.nextIndex = b.nextIndex /\ d.completed = b.completed /\ d.sentDone = b.sentDone
      /\ d.message = [b.message EXCEPT !.n = @ + m] /\ d.reasoning = b.reasoning
  BY <1>2 DEF C!WriteText, C!Push, ChatShaped, ChatFields
<1> HIDE DEF d, e
<1>5. SameSnapshot(b.message, d.message)
  <2> DEFINE s == b.message
             x == s.n + m
  <2>1. s # NoSnapshot /\ DOMAIN s = SnapshotFields /\ s.item # NoItem
    BY <1>1, <1>2 DEF ChatShaped
  <2>2. d.message = [s EXCEPT !.n = x]
    BY <1>4
  <2> HIDE DEF s, x
  <2>3. SameSnapshot(s, [s EXCEPT !.n = x])
    BY <2>1, SnapshotGrows, Zenon
  <2> QED
    BY <2>2, <2>3 DEF s
<1>6. Alike(b, d)
  BY <1>4, <1>5, SnapshotSame, CallSame DEF Alike
<1>7. ChatGood(r, d, n + 1)
  BY <1>1, <1>3, <1>4, <1>6, ChatSays, Zenon
<1>8. C!TextPart(c, m) = d
  BY DEF C!TextPart, d, b, a
<1>9. d.calls = c.calls
  BY <1>0, <1>1, <1>4
<1> QED
  BY <1>7, <1>8, <1>9, Zenon DEF ChatLive, Named

\* A chunk with audio, which opens the message only.
LEMMA AudioPartGood ==
    ASSUME NEW r, NEW c, NEW n, ChatLive(r, c, n), n <= MaxBlocks
    PROVE  ChatLive(r, C!AudioPart(c), n + 1)
<1> DEFINE a == C!CloseReasoning(c)
<1>1. ChatGood(r, a, n) /\ a.calls = c.calls
  BY CloseReasoningGood DEF ChatLive
<1> HIDE DEF a
<1> QED
  BY <1>1, EnsureMessageGood, Zenon DEF ChatLive, Named, C!AudioPart, a

----------------------------------------------------------------------------
(* Tool calls.                                                             *)

\* What is told of a call that has its output_index leaves it that call.
LEMMA CallGrows ==
    ASSUME NEW call, DOMAIN call = CallFields, call.item # NoItem, NEW x, NEW y
    PROVE  /\ SameCall(call, [call EXCEPT !.n = x])
           /\ SameCall(call, [call EXCEPT !.hasId = x, !.name = y])
<1>1. ASSUME NEW u, u.item = call.item, u.added = call.added, DOMAIN u = DOMAIN call
      PROVE  SameCall(call, u)
  <2>1. C!NoCall.item = NoItem
    BY DEF C!NoCall
  <2>2. u # C!NoCall /\ call # C!NoCall
    BY <1>1, <2>1
  <2> QED
    BY <1>1, <2>2 DEF SameCall
<1>2. /\ [call EXCEPT !.n = x].item = call.item /\ DOMAIN [call EXCEPT !.n = x] = DOMAIN call
      /\ [call EXCEPT !.n = x].added = call.added
  BY DEF CallFields
<1>3. LET u == [call EXCEPT !.hasId = x, !.name = y] IN
      u.item = call.item /\ u.added = call.added /\ DOMAIN u = DOMAIN call
  BY DEF CallFields
<1> QED
  BY <1>1, <1>2, <1>3, Zenon

\* d is c with another record of call k.
SetsCall(c, d, k, x) ==
    /\ DOMAIN d = DOMAIN c /\ DOMAIN d.calls = DOMAIN c.calls
    /\ d.nextIndex = c.nextIndex /\ d.completed = c.completed /\ d.sentDone = c.sentDone
    /\ d.reasoning = c.reasoning /\ d.message = c.message
    /\ d.calls[k] = x
    /\ \A l \in Calls \ {k} : d.calls[l] = c.calls[l]

\* A call replaced by one with the same item leaves the items alone.
LEMMA AlikeCall ==
    ASSUME NEW c, NEW d, NEW k \in Calls, NEW x, SetsCall(c, d, k, x), SameCall(c.calls[k], x)
    PROVE  Alike(c, d)
BY SnapshotSame, CallSame DEF Alike, SetsCall

\* The call of a chunk gets its output_index with its first chunk.
LEMMA EnsureCallGood ==
    ASSUME NEW r, NEW c, NEW n, ChatLive(r, c, n), n <= MaxBlocks,
           NEW k \in Calls, NEW hasId, NEW name
    PROVE  LET d == C!EnsureCall(c, k, hasId, name) IN
           ChatLive(r, d, n + 1) /\ k \in Begun(d)
<1> DEFINE d == C!EnsureCall(c, k, hasId, name)
<1>0. ChatGood(r, c, n) /\ Named(c) /\ ChatShaped(c, n)
  BY ChatShape DEF ChatLive
<1>1. CASE c.calls[k] = C!NoCall
  <2> DEFINE i == Item("function_call", c.nextIndex, k)
             x == [C!NoCall EXCEPT !.item = i, !.hasId = hasId, !.name = name]
  <2>1. DOMAIN x = CallFields /\ x.added = FALSE /\ x.item = i
    BY DEF C!NoCall, CallFields
  <2>2. d = [C!Allot(c) EXCEPT !.calls[k] = x]
    BY <1>1 DEF C!EnsureCall, C!NextItem
  <2> HIDE DEF x, d
  <2>3. /\ DOMAIN d = ChatFields /\ d.nextIndex = c.nextIndex + 1
        /\ d.completed = c.completed /\ d.sentDone = c.sentDone
        /\ d.reasoning = c.reasoning /\ d.message = c.message /\ d.out = c.out
        /\ DOMAIN d.calls = DOMAIN c.calls /\ d.calls[k] = x
        /\ \A l \in Calls \ {k} : d.calls[l] = c.calls[l]
    BY <1>0, <2>2 DEF C!Allot, ChatShaped, ChatFields
  <2>4. Begins(c, d, k)
    BY <1>1, <2>1, <2>3 DEF Begins
  <2>5. ChatGood(r, d, n + 1)
    BY <1>0, <2>3, <2>4, ChatBegins
  <2>6. Named(d)
    BY <1>0, <2>1, <2>3, Zenon DEF Named
  <2>7. x # C!NoCall
    <3>1. x.item[1] = "function_call"
      BY <2>1
    <3>2. C!NoCall.item[1] = "none"
      BY DEF C!NoCall
    <3> QED
      BY <3>1, <3>2
  <2> QED
    BY <2>3, <2>5, <2>6, <2>7 DEF ChatLive, Begun, d
<1>2. CASE c.calls[k] # C!NoCall
  <2> DEFINE call == c.calls[k]
             a == call.hasId \/ hasId
             b == IF call.name = "" THEN name ELSE call.name
             x == [call EXCEPT !.hasId = a, !.name = b]
  <2>1. DOMAIN call = CallFields /\ call.item # NoItem
    BY <1>0, <1>2 DEF ChatShaped, Begun
  <2>2. SetsCall(c, d, k, x) /\ d.out = c.out
    <3>1. d = [c EXCEPT !.calls[k].hasId = @ \/ hasId,
                        !.calls[k].name = IF @ = "" THEN name ELSE @]
      BY <1>2 DEF C!EnsureCall
    <3> HIDE DEF d
    <3>2. d.calls = [c.calls EXCEPT ![k] = x]
      BY <1>0, <2>1, <3>1, Zenon DEF ChatShaped, ChatFields, CallFields
    <3>3. /\ DOMAIN d = DOMAIN c /\ d.out = c.out
          /\ d.nextIndex = c.nextIndex /\ d.completed = c.completed /\ d.sentDone = c.sentDone
          /\ d.reasoning = c.reasoning /\ d.message = c.message
      BY <1>0, <3>1 DEF ChatShaped, ChatFields
    <3> QED
      BY <1>0, <3>2, <3>3 DEF SetsCall, ChatShaped
  <2>3. SameCall(call, x)
    <3> HIDE DEF call, a, b
    <3> QED
      BY <2>1, CallGrows, Zenon
  <2>4. /\ x.name = b /\ x.added = call.added
    BY <2>1 DEF CallFields
  <2> HIDE DEF x, d
  <2>5. Alike(c, d)
    BY <2>2, <2>3, AlikeCall
  <2>6. ChatGood(r, d, n + 1)
    BY <1>0, <2>2, <2>5, ChatQuiet, ChatLater
  <2>7. Named(d)
    BY <1>0, <2>2, <2>4, Zenon DEF Named, SetsCall
  <2>8. k \in Begun(d)
    BY <1>2, <2>2, <2>3 DEF Begun, SameCall, SetsCall
  <2> QED
    BY <2>6, <2>7, <2>8 DEF ChatLive, d
<1> QED
  BY <1>1, <1>2

\* d is c after call k was shown, if it is ready to be.
Emitted(c, d, k, terminal) ==
    /\ d.reasoning = c.reasoning /\ d.message = c.message /\ d.completed = c.completed
    /\ d.nextIndex = c.nextIndex /\ DOMAIN d.calls = DOMAIN c.calls
    /\ \A l \in Calls \ {k} : d.calls[l] = c.calls[l]
    /\ d.calls[k].item = c.calls[k].item
    /\ IF C!Publishable(c.calls[k], terminal)
       THEN /\ d.calls[k].added
            /\ c.calls[k].name # "" => d.calls[k].name = c.calls[k].name
       ELSE d.calls[k] = c.calls[k]

\* emit_tool_call_if_ready adds a call with its arguments, or leaves it hidden.
LEMMA EmitGood ==
    ASSUME NEW r, NEW c, NEW n, ChatGood(r, c, n), NEW k \in Calls, k \in Begun(c),
           NEW terminal
    PROVE  LET d == C!EmitIfReady(c, k, terminal) IN
           ChatGood(r, d, n) /\ Emitted(c, d, k, terminal)
<1> DEFINE call == c.calls[k]
<1>0. ChatShaped(c, n)
  BY ChatShape
<1>1. CASE ~C!Publishable(call, terminal)
  BY <1>1 DEF C!EmitIfReady, Emitted
<1>2. CASE C!Publishable(call, terminal)
  <2> DEFINE b == C!AddCall(c, k)
             e == C!Added(call.item)
             x == [call EXCEPT !.added = TRUE, !.name = IF @ = "" THEN "tool" ELSE @]
  <2>1. DOMAIN call = CallFields /\ ~call.added
    BY <1>0, <1>2, Zenon DEF ChatShaped, C!Publishable
  <2>2. /\ DOMAIN x = CallFields /\ x.added = TRUE /\ x.item = call.item
        /\ (call.name # "" => x.name = call.name)
    BY <2>1, Zenon DEF CallFields
  <2>3. b.calls = [c.calls EXCEPT ![k] = x]
    BY <1>0, <2>1, Zenon DEF C!AddCall, C!Push, ChatShaped, ChatFields, CallFields
  <2>4. /\ DOMAIN b = ChatFields /\ b.out = Append(c.out, e)
        /\ b.nextIndex = c.nextIndex /\ b.completed = c.completed /\ b.sentDone = c.sentDone
        /\ b.reasoning = c.reasoning /\ b.message = c.message
    BY <1>0 DEF C!AddCall, C!Push, ChatShaped, ChatFields
  <2>5. e.type = "added" /\ e.of.item = call.item
    BY DEF C!Added
  <2> HIDE DEF b, e, x
  <2>6. /\ DOMAIN b.calls = DOMAIN c.calls /\ b.calls[k] = x
        /\ \A l \in Calls \ {k} : b.calls[l] = c.calls[l]
    BY <1>0, <2>3 DEF ChatShaped
  <2>7. Shows(c, b, k)
    BY <1>0, <2>1, <2>2, <2>4, <2>6, Zenon DEF Shows, ChatShaped
  <2>8. ChatGood(r, b, n)
    BY <2>4, <2>5, <2>7, ChatShows
  <2>9. Emitted(c, b, k, terminal)
    BY <1>2, <2>2, <2>4, <2>6, Zenon DEF Emitted
  <2> DEFINE d == C!AddArguments(b, call)
             f == C!ArgsDelta(call.item, call.n)
  <2>10. C!EmitIfReady(c, k, terminal) = d
    BY <1>2 DEF C!EmitIfReady, b
  <2>11. CASE call.name = "shell" \/ call.n = 0
    BY <2>8, <2>9, <2>10, <2>11 DEF C!AddArguments
  <2>12. CASE ~(call.name = "shell" \/ call.n = 0)
    <3>1. d = C!Push(b, f)
      BY <2>12 DEF C!AddArguments
    <3>2. f.type \in Says /\ f.of.item = call.item
      BY DEF C!ArgsDelta, C!Delta, Says
    <3> HIDE DEF d, f
    <3>3. /\ d.out = Append(b.out, f) /\ DOMAIN d = DOMAIN b /\ d.calls = b.calls
          /\ d.nextIndex = b.nextIndex /\ d.completed = b.completed
          /\ d.sentDone = b.sentDone /\ d.reasoning = b.reasoning /\ d.message = b.message
      BY <2>4, <3>1 DEF C!Push, ChatFields
    <3>4. Alike(b, d)
      BY <3>3, SnapshotSame, CallSame DEF Alike
    <3>5. k \in Begun(b) /\ b.calls[k].added /\ f.of.item = b.calls[k].item
      <4>1. x.item # NoItem
        BY <1>0, <2>2, Zenon DEF ChatShaped
      <4>2. C!NoCall.item = NoItem
        BY DEF C!NoCall
      <4> QED
        BY <2>2, <2>6, <3>2, <4>1, <4>2, Zenon DEF Begun
    <3>6. ChatGood(r, d, n)
      BY <2>8, <3>2, <3>3, <3>4, <3>5, ChatSays, Zenon
    <3>7. Emitted(c, d, k, terminal)
      BY <2>9, <3>3, Zenon DEF Emitted
    <3> QED
      BY <2>10, <3>6, <3>7
  <2> QED
    BY <2>11, <2>12
<1> QED
  BY <1>1, <1>2

\* handle_tool_call_delta for a call known already.
LEMMA WriteCallGood ==
    ASSUME NEW r, NEW c, NEW n, ChatLive(r, c, n), NEW k \in Calls, k \in Begun(c), NEW m
    PROVE  ChatLive(r, C!WriteCall(c, k, m), n)
<1> DEFINE call == c.calls[k]
           x == [call EXCEPT !.n = call.n + m]
<1>0. ChatGood(r, c, n) /\ Named(c) /\ ChatShaped(c, n)
  BY ChatShape DEF ChatLive
<1>1. DOMAIN call = CallFields /\ call.item # NoItem
  BY <1>0 DEF ChatShaped
<1>2. SameCall(call, x)
  <2> DEFINE y == call.n + m
  <2> HIDE DEF call, y
  <2>1. SameCall(call, [call EXCEPT !.n = y])
    BY <1>1, CallGrows, Zenon
  <2> QED
    BY <2>1 DEF y
<1>3. x.name = call.name /\ x.added = call.added /\ x.item = call.item
  BY <1>1 DEF CallFields
<1>4. CASE call.added /\ m > 0
  <2> DEFINE e == C!ArgsDelta(call.item, m)
             d == C!WriteCall(c, k, m)
  <2>1. d = [C!Push(c, e) EXCEPT !.calls[k].n = @ + m]
    BY <1>4 DEF C!WriteCall
  <2>2. e.type \in Says /\ e.of.item = call.item
    BY DEF C!ArgsDelta, C!Delta, Says
  <2> HIDE DEF d, e
  <2>3. d.calls = [c.calls EXCEPT ![k] = x]
    BY <1>0, <1>1, <2>1 DEF C!Push, ChatShaped, ChatFields, CallFields
  <2>4. /\ DOMAIN d = DOMAIN c /\ d.out = Append(c.out, e)
        /\ d.nextIndex = c.nextIndex /\ d.completed = c.completed /\ d.sentDone = c.sentDone
        /\ d.reasoning = c.reasoning /\ d.message = c.message
    BY <1>0, <2>1 DEF C!Push, ChatShaped, ChatFields
  <2> HIDE DEF x
  <2>5. SetsCall(c, d, k, x)
    BY <1>0, <2>3, <2>4 DEF SetsCall, ChatShaped
  <2>6. Alike(c, d)
    BY <1>2, <2>5, AlikeCall
  <2>7. ChatGood(r, d, n)
    BY <1>0, <1>4, <2>2, <2>4, <2>6, ChatSays, Zenon
  <2>8. Named(d)
    BY <1>0, <1>3, <2>5, Zenon DEF Named, SetsCall
  <2> QED
    BY <2>7, <2>8 DEF ChatLive, d
<1>5. CASE ~(call.added /\ m > 0)
  <2> DEFINE b == [c EXCEPT !.calls[k].n = @ + m]
             d == C!EmitIfReady(b, k, FALSE)
  <2>1. C!WriteCall(c, k, m) = d
    BY <1>5, Zenon DEF C!WriteCall
  <2>2. b.calls = [c.calls EXCEPT ![k] = x]
    BY <1>0, <1>1 DEF ChatShaped, ChatFields, CallFields
  <2>3. /\ DOMAIN b = DOMAIN c /\ b.out = c.out
        /\ b.nextIndex = c.nextIndex /\ b.completed = c.completed /\ b.sentDone = c.sentDone
        /\ b.reasoning = c.reasoning /\ b.message = c.message
    BY <1>0 DEF ChatShaped, ChatFields
  <2> HIDE DEF b, x
  <2>4. SetsCall(c, b, k, x)
    BY <1>0, <2>2, <2>3 DEF SetsCall, ChatShaped
  <2>5. Alike(c, b)
    BY <1>2, <2>4, AlikeCall
  <2>6. ChatGood(r, b, n) /\ Named(b)
    BY <1>0, <1>3, <2>3, <2>4, <2>5, ChatQuiet, Zenon DEF Named, SetsCall
  <2>7. k \in Begun(b)
    BY <1>2, <2>4 DEF Begun, SameCall, SetsCall
  <2>8. ChatGood(r, d, n) /\ Emitted(b, d, k, FALSE)
    BY <2>6, <2>7, EmitGood, Zenon
  <2>9. C!Publishable(b.calls[k], FALSE) => b.calls[k].name \notin {"", "shell"}
    BY Zenon DEF C!Publishable
  <2> HIDE DEF d
  <2>10. Named(d)
    BY <2>6, <2>8, <2>9, Zenon DEF Named, Emitted
  <2> QED
    BY <2>1, <2>8, <2>10 DEF ChatLive
<1> QED
  BY <1>4, <1>5

\* A chunk with a tool call, known or new.
LEMMA ToolPartGood ==
    ASSUME NEW r, NEW c, NEW n, ChatLive(r, c, n), n <= MaxBlocks,
           NEW k \in Calls, NEW hasId, NEW name, NEW m
    PROVE  ChatLive(r, C!ToolPart(c, k, hasId, name, m), n + 1)
<1> DEFINE a == C!CloseReasoning(c)
           b == C!EnsureCall(a, k, hasId, name)
<1>1. ChatLive(r, a, n)
  BY CloseReasoningGood, Zenon DEF ChatLive, Named
<1> HIDE DEF a
<1>2. ChatLive(r, b, n + 1) /\ k \in Begun(b)
  BY <1>1, EnsureCallGood
<1> HIDE DEF b
<1>3. ChatLive(r, C!WriteCall(b, k, m), n + 1)
  BY <1>2, WriteCallGood
<1> QED
  BY <1>3 DEF C!ToolPart, a, b

----------------------------------------------------------------------------
(* The end of a response: what is left open is finished, and the last      *)
(* events follow.                                                          *)

\* One or two events joined to a queue are appended.
LEMMA Joins ==
    ASSUME NEW E, NEW q \in Seq(E), NEW e, NEW f
    PROVE  /\ q \o <<>> = q
           /\ q \o <<e>> = Append(q, e)
           /\ q \o <<e, f>> = Append(Append(q, e), f)
<1>1. q \o <<>> = q
  OBVIOUS
<1>2. q \o <<e>> = Append(q, e)
  OBVIOUS
<1>3. q \o <<e, f>> = Append(Append(q, e), f)
  OBVIOUS
<1> QED
  BY <1>1, <1>2, <1>3

\* The reader of a response that is being ended will have heard of the items its, and
\* that those in done are finished, when it has had all that is queued.
Closing(r, out, its, done) ==
    \E u : /\ Reads(r, out, u) /\ IsReader(u) /\ u.phase = "open" /\ DOMAIN u.items = its
           /\ \A i \in its : u.items[i].finished = IF i \in done THEN 1 ELSE 0

\* The events q end item i, if it was not finished before.
EndsItem(q, i, finished) ==
    \/ finished /\ q = <<>>
    \/ /\ ~finished
       /\ \E e : q = <<e>> /\ e.type = "itemDone" /\ e.of.item = i
    \/ /\ ~finished
       /\ \E e, f : /\ q = <<e, f>> /\ e.type \in Says /\ e.of.item = i
                    /\ f.type = "itemDone" /\ f.of.item = i

\* The end of one more item is queued while a response ends.
LEMMA ClosingNext ==
    ASSUME NEW r, NEW out, NEW its, NEW done, Closing(r, out, its, done),
           NEW i \in its, NEW q, EndsItem(q, i, i \in done)
    PROVE  Closing(r, out \o q, its, done \cup {i})
<1>1. PICK u : /\ Reads(r, out, u) /\ IsReader(u) /\ u.phase = "open" /\ DOMAIN u.items = its
               /\ \A j \in its : u.items[j].finished = IF j \in done THEN 1 ELSE 0
  BY DEF Closing
<1>2. PICK E : out \in Seq(E)
  BY <1>1 DEF Reads
<1>3. CASE i \in done /\ q = <<>>
  <2>1. out \o q = out /\ done \cup {i} = done
    BY <1>2, <1>3, Joins
  <2> QED
    BY <2>1, Zenon
<1>4. ASSUME i \notin done, NEW b, NEW p, NEW f, Reads(r, p, b), Speaks(u, b),
             f.type = "itemDone", f.of.item = i, out \o q = Append(p, f)
      PROVE  Closing(r, out \o q, its, done \cup {i})
  <2> DEFINE v == Hear(b, f)
  <2>1. IsReader(b) /\ b.phase = "open" /\ IsOpen(b, f.of.item)
    BY <1>1, <1>4 DEF Speaks, IsOpen
  <2>2. Fits(b, f) /\ Finishes(b, v, f.of.item)
    BY <1>4, <2>1, HearItemDone
  <2> HIDE DEF v
  <2>3. Finishes(b, v, i)
    BY <1>4, <2>2
  <2>4. Reads(r, out \o q, v)
    BY <1>4, <2>2, ReadsMore DEF v
  <2>5. /\ IsReader(v) /\ v.phase = "open" /\ DOMAIN v.items = its
        /\ \A j \in its : v.items[j].finished = IF j \in done \cup {i} THEN 1 ELSE 0
    BY <1>1, <1>4, <2>3 DEF Finishes, Speaks
  <2> QED
    BY <2>4, <2>5 DEF Closing
<1>5. ASSUME i \notin done, NEW f, q = <<f>>, f.type = "itemDone", f.of.item = i
      PROVE  Closing(r, out \o q, its, done \cup {i})
  <2>1. out \o q = Append(out, f)
    BY <1>2, <1>5, Joins
  <2>2. Speaks(u, u)
    BY <1>1 DEF Speaks
  <2> QED
    BY <1>1, <1>4, <1>5, <2>1, <2>2, Zenon
<1>6. ASSUME i \notin done, NEW e, NEW f, q = <<e, f>>, e.type \in Says, e.of.item = i,
             f.type = "itemDone", f.of.item = i
      PROVE  Closing(r, out \o q, its, done \cup {i})
  <2> DEFINE b == Hear(u, e)
             p == Append(out, e)
  <2>1. out \o q = Append(p, f)
    BY <1>2, <1>6, Joins
  <2>2. IsOpen(u, e.of.item)
    BY <1>1, <1>6 DEF IsOpen
  <2>3. Fits(u, e) /\ Speaks(u, b)
    BY <1>1, <1>6, <2>2, HearSaid
  <2>4. Reads(r, p, b)
    BY <1>1, <2>3, ReadsMore
  <2> HIDE DEF b, p
  <2> QED
    BY <1>4, <1>6, <2>1, <2>3, <2>4, Zenon
<1> QED
  BY <1>3, <1>5, <1>6, Zenon DEF EndsItem

\* When all are finished the last events fit.
LEMMA ClosingLast ==
    ASSUME NEW r, NEW out, NEW its, NEW done, Closing(r, out, its, done), its \subseteq done,
           NEW e, e.type \in Ends, its = {e.output[j].item : j \in DOMAIN e.output},
           NEW f, f.type = "[DONE]"
    PROVE  \E v : Reads(r, out \o <<e, f>>, v) /\ v.phase = "ended"
<1>1. PICK u : /\ Reads(r, out, u) /\ IsReader(u) /\ u.phase = "open" /\ DOMAIN u.items = its
               /\ \A j \in its : u.items[j].finished = IF j \in done THEN 1 ELSE 0
  BY DEF Closing
<1>2. PICK E : out \in Seq(E)
  BY <1>1 DEF Reads
<1> DEFINE b == Hear(u, e)
           v == Hear(b, f)
<1>3. Fits(u, e)
  BY <1>1 DEF Fits
<1>4. b.phase = "ended"
  BY <1>1 DEF Hear, Ends, IsReader, ReadFields
<1>5. Fits(b, f)
  BY <1>4 DEF Fits
<1>6. Reads(r, Append(out, e), b)
  BY <1>1, <1>3, ReadsMore
<1>7. DOMAIN b = ReadFields
  BY <1>1 DEF Hear, Ends, IsReader
<1> HIDE DEF b
<1>8. v.phase = "ended"
  BY <1>4, <1>7 DEF Hear, ReadFields
<1>9. Reads(r, Append(Append(out, e), f), v)
  BY <1>5, <1>6, ReadsMore
<1>10. out \o <<e, f>> = Append(Append(out, e), f)
  BY <1>2, Joins
<1> HIDE DEF v
<1> QED
  BY <1>8, <1>9, <1>10, Zenon

\* d has ended its stream: with what is queued its reader will have had all of it.
Concluded(r, d) ==
    d.sentDone = TRUE /\ \E v : Reads(r, d.out, v) /\ v.phase = "ended"

\* q lists the elements of S, each once.
Lists(q, S) ==
    /\ \E n \in Nat : DOMAIN q = 1..n
    /\ \A j \in DOMAIN q : q[j] \in S
    /\ \A x \in S : \E j \in DOMAIN q : q[j] = x
    /\ \A j, k \in DOMAIN q : q[j] = q[k] => j = k

\* The elements of a finite set in the order of a rank list the set.
LEMMA RankLists ==
    ASSUME NEW S, IsFiniteSet(S), NEW r \in [S -> Nat],
           \A x, y \in S : r[x] = r[y] => x = y,
           NEW q, DOMAIN q = 1..Cardinality(S),
           \A j \in DOMAIN q : q[j] \in S /\ Below(S, r, q[j]) = j - 1
    PROVE  Lists(q, S)
<1> DEFINE n == Cardinality(S)
<1>1. /\ n \in Nat
      /\ \A x \in S : Below(S, r, x) \in Nat /\ Below(S, r, x) + 1 \in 1..n
      /\ \A x, z \in S : Below(S, r, x) = Below(S, r, z) => x = z
  BY Ranked
<1>2. DOMAIN q = 1..n
  OBVIOUS
<1> HIDE DEF n
<1>3. ASSUME NEW x \in S PROVE \E j \in DOMAIN q : q[j] = x
  <2> DEFINE j == Below(S, r, x) + 1
  <2>0. Below(S, r, x) \in Nat /\ j \in 1..n
    BY <1>1
  <2>1. j - 1 = Below(S, r, x)
    BY <2>0
  <2>2. j \in DOMAIN q
    BY <1>2, <2>0, Zenon
  <2> HIDE DEF j
  <2>3. q[j] \in S /\ Below(S, r, q[j]) = Below(S, r, x)
    BY <2>1, <2>2
  <2>4. q[j] = x
    BY <1>1, <2>3
  <2> QED
    BY <2>2, <2>4
<1>4. ASSUME NEW j \in DOMAIN q, NEW k \in DOMAIN q, q[j] = q[k] PROVE j = k
  <2>1. Below(S, r, q[j]) = j - 1 /\ Below(S, r, q[k]) = k - 1
    OBVIOUS
  <2>2. j - 1 = k - 1
    BY <1>4, <2>1
  <2> QED
    BY <1>1, <1>2, <2>2
<1> QED
  BY <1>1, <1>2, <1>3, <1>4 DEF Lists

\* Every place of a list by rank is taken.
LEMMA RankTaken ==
    ASSUME NEW S, IsFiniteSet(S), NEW r \in [S -> Nat],
           \A x, y \in S : r[x] = r[y] => x = y
    PROVE  \A j \in 1..Cardinality(S) : \E x \in S : Below(S, r, x) = j - 1
BY Ranked

\* What InOrder and ByRank list.
LEMMA OutputLists ==
    ASSUME NEW S, IsFiniteSet(S), \A s \in S : OutputIndex(s.item) \in Nat,
           \A s, u \in S : OutputIndex(s.item) = OutputIndex(u.item) => s = u
    PROVE  Lists(C!InOrder(S), S)
<1> DEFINE r == [s \in S |-> OutputIndex(s.item)]
           P(x, j) == Cardinality({y \in S : OutputIndex(y.item) < OutputIndex(x.item)}) = j - 1
           q == [j \in 1..Cardinality(S) |-> CHOOSE x \in S : P(x, j)]
<1>1. C!InOrder(S) = q
  BY DEF C!InOrder, C!ByRank, C!Cardinality, Cardinality
<1>2. r \in [S -> Nat] /\ \A x, y \in S : r[x] = r[y] => x = y
  OBVIOUS
<1>3. ASSUME NEW x \in S, NEW j PROVE P(x, j) <=> Below(S, r, x) = j - 1
  <2>1. {y \in S : OutputIndex(y.item) < OutputIndex(x.item)} = {y \in S : r[y] < r[x]}
    OBVIOUS
  <2> QED
    BY <2>1, Zenon DEF Below
<1> HIDE DEF r, P
<1>4. ASSUME NEW j \in 1..Cardinality(S) PROVE \E x \in S : P(x, j)
  <2>1. \E x \in S : Below(S, r, x) = j - 1
    BY <1>2, RankTaken
  <2> QED
    BY <1>3, <2>1
<1>5. DOMAIN q = 1..Cardinality(S)
  OBVIOUS
<1>6. \A j \in DOMAIN q : q[j] \in S /\ P(q[j], j)
  BY <1>4
<1> HIDE DEF q
<1>7. \A j \in DOMAIN q : q[j] \in S /\ Below(S, r, q[j]) = j - 1
  BY <1>3, <1>6
<1>8. Lists(q, S)
  BY <1>2, <1>5, <1>7, RankLists, Zenon
<1> QED
  BY <1>1, <1>8

\* Numbers by their size list a set of numbers.
LEMMA NumbersList ==
    ASSUME NEW S, IsFiniteSet(S), S \subseteq Nat
    PROVE  Lists(C!ByRank(S, LAMBDA k : k), S)
<1> DEFINE r == [k \in S |-> k]
           P(x, j) == Cardinality({y \in S : y < x}) = j - 1
           q == [j \in 1..Cardinality(S) |-> CHOOSE x \in S : P(x, j)]
<1>1. C!ByRank(S, LAMBDA k : k) = q
  BY DEF C!ByRank, C!Cardinality, Cardinality
<1>2. r \in [S -> Nat] /\ \A x, y \in S : r[x] = r[y] => x = y
  OBVIOUS
<1>3. ASSUME NEW x \in S, NEW j PROVE P(x, j) <=> Below(S, r, x) = j - 1
  <2>1. {y \in S : y < x} = {y \in S : r[y] < r[x]}
    OBVIOUS
  <2> QED
    BY <2>1, Zenon DEF Below
<1> HIDE DEF r, P
<1>4. ASSUME NEW j \in 1..Cardinality(S) PROVE \E x \in S : P(x, j)
  <2>1. \E x \in S : Below(S, r, x) = j - 1
    BY <1>2, RankTaken, Zenon
  <2> QED
    BY <1>3, <2>1
<1>5. DOMAIN q = 1..Cardinality(S)
  OBVIOUS
<1>6. \A j \in DOMAIN q : q[j] \in S /\ P(q[j], j)
  BY <1>4
<1> HIDE DEF q
<1>7. \A j \in DOMAIN q : q[j] \in S /\ Below(S, r, q[j]) = j - 1
  BY <1>3, <1>6, Zenon
<1>8. Lists(q, S)
  BY <1>2, <1>5, <1>7, RankLists, Zenon
<1> QED
  BY <1>1, <1>8

----------------------------------------------------------------------------
(* The end of a Chat upstream's response.                                  *)

\* After the first k calls of q were shown: x holds the reader, the converter before, the
\* count of chunks and q.
ShownAt(x, k, s) ==
    /\ ChatGood(x.r, s, x.n)
    /\ s.reasoning = x.c.reasoning /\ s.message = x.c.message
    /\ s.completed = x.c.completed
    /\ \A l \in Calls :
          IF \E j \in 1..k : x.q[j] = l
          THEN s.calls[l].added /\ s.calls[l].item = x.c.calls[l].item
          ELSE s.calls[l] = x.c.calls[l]
ShowFold == INSTANCE FoldLemmas WITH Op <- C!Publish, At <- ShownAt

\* d is c after the calls of S were shown.
AllShown(c, d, S) ==
    /\ d.reasoning = c.reasoning /\ d.message = c.message /\ d.completed = c.completed
    /\ \A l \in S : d.calls[l].added /\ d.calls[l].item = c.calls[l].item
    /\ \A l \in Calls \ S : d.calls[l] = c.calls[l]

\* Publishing every call that can be shown leaves them shown and a response
\* under way.
LEMMA EmitAllGood ==
    ASSUME NEW r, NEW c, NEW n, ChatGood(r, c, n), NEW S \in SUBSET Begun(c),
           \A k \in S : c.calls[k].added \/ C!Publishable(c.calls[k], TRUE)
    PROVE  LET d == C!EmitAll(c, S) IN ChatGood(r, d, n) /\ AllShown(c, d, S)
<1> DEFINE q == C!ByRank(S, LAMBDA k : k)
           x == [r |-> r, c |-> c, n |-> n, q |-> q]
           d == C!FoldOver(C!Publish, c, q)
<1>1. S \in SUBSET Calls /\ Calls \in SUBSET Nat /\ IsFiniteSet(S)
  BY StreamAssumption, FS_Subset, Zenon DEF Begun
<1>2. Lists(q, S)
  BY <1>1, NumbersList
<1> HIDE DEF q
<1>3. PICK m \in Nat : DOMAIN q = 1..m
  BY <1>2 DEF Lists
<1>4. ShownAt(x, 0, c)
  <2>1. 1..0 = {}
    OBVIOUS
  <2> QED
    BY <2>1 DEF ShownAt
<1>5. ASSUME NEW k \in 1..m, NEW s, ShownAt(x, k - 1, s)
      PROVE  ShownAt(x, k, C!Publish(s, q[k]))
  <2> DEFINE l == q[k]
             d1 == C!Publish(s, l)
  <2>1. l \in S /\ l \in Calls /\ l \in Begun(c)
    BY <1>1, <1>2, <1>3, Zenon DEF Lists
  <2>2. \A j \in 1..(k - 1) : q[j] # l
    BY <1>2, <1>3 DEF Lists
  <2>3. /\ ChatGood(r, s, n) /\ s.reasoning = c.reasoning /\ s.message = c.message
        /\ s.completed = c.completed /\ s.calls[l] = c.calls[l]
    BY <1>5, <2>1, <2>2 DEF ShownAt
  <2>4. l \in Begun(s)
    BY <2>1, <2>3 DEF Begun
  <2>5. ChatGood(r, d1, n) /\ Emitted(s, d1, l, TRUE)
    BY <2>1, <2>3, <2>4, EmitGood, Zenon DEF C!Publish
  <2> HIDE DEF l, d1
  <2>6. d1.calls[l].added /\ d1.calls[l].item = c.calls[l].item
    BY <2>1, <2>3, <2>5, Zenon DEF Emitted
  <2>7. ASSUME NEW j \in Calls
        PROVE  IF \E i \in 1..k : q[i] = j
               THEN d1.calls[j].added /\ d1.calls[j].item = c.calls[j].item
               ELSE d1.calls[j] = c.calls[j]
    <3>1. CASE j = l
      BY <2>6, <3>1 DEF l
    <3>2. CASE j # l
      <4>1. d1.calls[j] = s.calls[j]
        BY <2>5, <3>2, Zenon DEF Emitted
      <4>2. (\E i \in 1..k : q[i] = j) <=> (\E i \in 1..(k - 1) : q[i] = j)
        BY <3>2 DEF l
      <4>3. IF \E i \in 1..(k - 1) : q[i] = j
            THEN s.calls[j].added /\ s.calls[j].item = c.calls[j].item
            ELSE s.calls[j] = c.calls[j]
        BY <1>5 DEF ShownAt
      <4> QED
        BY <4>1, <4>2, <4>3
    <3> QED
      BY <3>1, <3>2
  <2>8. /\ d1.reasoning = c.reasoning /\ d1.message = c.message
        /\ d1.completed = c.completed
    BY <2>3, <2>5, Zenon DEF Emitted
  <2>9. ShownAt(x, k, d1)
    BY <2>5, <2>7, <2>8 DEF ShownAt
  <2> QED
    BY <2>9 DEF d1, l
<1> HIDE DEF x, d
<1>6. ShownAt(x, m, ShowFold!FoldOver(C!Publish, c, q))
  BY <1>3, <1>4, <1>5, ShowFold!FoldReaches, Least, Zenon DEF ShowFold!Least
<1>7. d = ShowFold!FoldOver(C!Publish, c, q)
  BY DEF d, C!FoldOver, C!MapThenFoldSet, ShowFold!FoldOver, ShowFold!MapThenFoldSet
<1>8. ShownAt(x, m, d)
  BY <1>6, <1>7
<1>9. \A l \in Calls : (\E j \in 1..m : q[j] = l) <=> l \in S
  BY <1>2, <1>3 DEF Lists
<1>10. ChatGood(r, d, n) /\ AllShown(c, d, S)
  BY <1>1, <1>8, <1>9 DEF ShownAt, AllShown, x
<1>11. C!EmitAll(c, S) = d
  BY DEF C!EmitAll, d, q
<1> QED
  BY <1>10, <1>11

\* After the first k items of the output were finished: x holds the reader, the items, those
\* finished before, the converter before and the output.
EndedAt(x, k, s) ==
    /\ DOMAIN s = ChatFields /\ s.completed = x.c.completed
    /\ Closing(x.r, s.out, x.its, x.done \cup {x.q[j].item : j \in 1..k})
OutputFold == INSTANCE FoldLemmas WITH Op <- C!FinishItem, At <- EndedAt

\* The output q of m snapshots has each of the items once, and the events that a converter
\* sends for each snapshot end its item.
EndsAll(c, q, m, its, done) ==
    /\ DOMAIN q = 1..m
    /\ its = {q[j].item : j \in 1..m}
    /\ \A j, k \in 1..m : q[j].item = q[k].item => j = k
    /\ \A j \in 1..m : \A s : s.completed = c.completed =>
           EndsItem(C!DoneEvents(s, q[j]), q[j].item, q[j].item \in done)

\* A converter that queues the ends of its items, its last event and [DONE] has
\* concluded.
LEMMA EndingGood ==
    ASSUME NEW r, NEW c, DOMAIN c = ChatFields, NEW its, NEW done,
           Closing(r, c.out, its, done), NEW q, NEW m \in Nat,
           EndsAll(c, q, m, its, done),
           NEW last, DOMAIN last = {"type", "of", "output", "reason"}, last.type \in Ends
    PROVE  LET d == C!Ending(c, q, last) IN DOMAIN d = ChatFields /\ Concluded(r, d)
<1> DEFINE x == [r |-> r, c |-> c, its |-> its, done |-> done, q |-> q]
           g == C!FoldOver(C!FinishItem, c, q)
           e == [last EXCEPT !.output = q]
           d == C!PushLast(g, e)
<1>0. /\ DOMAIN q = 1..m
      /\ its = {q[j].item : j \in 1..m}
      /\ \A j, k \in 1..m : q[j].item = q[k].item => j = k
      /\ \A j \in 1..m : \A s : s.completed = c.completed =>
             EndsItem(C!DoneEvents(s, q[j]), q[j].item, q[j].item \in done)
  BY DEF EndsAll
<1>1. EndedAt(x, 0, c)
  <2>1. {q[j].item : j \in 1..0} = {}
    OBVIOUS
  <2>2. done \cup {q[j].item : j \in 1..0} = done
    BY <2>1
  <2>3. Closing(r, c.out, its, done \cup {q[j].item : j \in 1..0})
    BY <2>2, Zenon
  <2> QED
    BY <2>3 DEF EndedAt
<1>2. ASSUME NEW k \in 1..m, NEW s, EndedAt(x, k - 1, s)
      PROVE  EndedAt(x, k, C!FinishItem(s, q[k]))
  <2> DEFINE i == q[k].item
             was == done \cup {q[j].item : j \in 1..(k - 1)}
             u == C!FinishItem(s, q[k])
             ev == C!DoneEvents(s, q[k])
  <2>1. DOMAIN s = ChatFields /\ s.completed = c.completed /\ Closing(r, s.out, its, was)
    BY <1>2 DEF EndedAt
  <2>2. i \in its
    BY <1>0
  <2>3. i \in was <=> i \in done
    <3>1. \A j \in 1..(k - 1) : q[j].item # i
      BY <1>0
    <3> QED
      BY <3>1
  <2>4. EndsItem(ev, i, i \in was)
    <3>1. EndsItem(ev, i, i \in done)
      BY <1>0, <2>1
    <3> HIDE DEF ev, i, was
    <3> QED
      BY <2>3, <3>1 DEF EndsItem
  <2>5. was \cup {i} = done \cup {q[j].item : j \in 1..k}
    OBVIOUS
  <2>6. DOMAIN u = ChatFields /\ u.completed = c.completed /\ u.out = s.out \o ev
    BY <2>1 DEF C!FinishItem, ChatFields
  <2> HIDE DEF i, was, u, ev
  <2>7. Closing(r, u.out, its, was \cup {i})
    BY <2>1, <2>2, <2>4, <2>6, ClosingNext
  <2>8. Closing(r, u.out, its, done \cup {q[j].item : j \in 1..k})
    BY <2>5, <2>7
  <2>9. EndedAt(x, k, u)
    BY <2>6, <2>8 DEF EndedAt
  <2> QED
    BY <2>9 DEF u
<1> HIDE DEF x, g
<1>3. EndedAt(x, m, OutputFold!FoldOver(C!FinishItem, c, q))
  BY <1>0, <1>1, <1>2, OutputFold!FoldReaches, Least, Zenon DEF OutputFold!Least
<1>4. g = OutputFold!FoldOver(C!FinishItem, c, q)
  BY DEF g, C!FoldOver, C!MapThenFoldSet, OutputFold!FoldOver, OutputFold!MapThenFoldSet
<1>5. EndedAt(x, m, g)
  BY <1>3, <1>4
<1>6. /\ DOMAIN g = ChatFields
      /\ Closing(r, g.out, its, done \cup {q[j].item : j \in 1..m})
  BY <1>5 DEF EndedAt, x
<1>7. e.type \in Ends /\ e.output = q
  OBVIOUS
<1>8. C!DoneMark.type = "[DONE]"
  BY DEF C!DoneMark
<1>9. DOMAIN d = ChatFields /\ d.sentDone = TRUE /\ d.out = g.out \o <<e, C!DoneMark>>
  BY <1>6 DEF C!PushLast, ChatFields
<1>10. its = {e.output[j].item : j \in DOMAIN e.output}
  BY <1>0, <1>7
<1>11. C!Ending(c, q, last) = d
  BY DEF C!Ending, d, e, g
<1> HIDE DEF d, e
<1> DEFINE f == C!DoneMark
           all == done \cup {q[j].item : j \in 1..m}
<1>12. its \subseteq all
  BY <1>0
<1> HIDE DEF f, all
<1>13. \E v : Reads(r, g.out \o <<e, f>>, v) /\ v.phase = "ended"
  BY <1>6, <1>7, <1>8, <1>10, <1>12, ClosingLast DEF f, all
<1> QED
  BY <1>9, <1>11, <1>13, Zenon DEF f, Concluded

\* A snapshot of the output, by what it is of.
IsPublished(c, S, reason, s) ==
    \E k \in S : s = C!CallSnapshot(c.calls[k], reason)

\* The output q holds reasoning, messages and the calls that are published.
OutputHolds(c, S, reason, q) ==
    \E m \in Nat : DOMAIN q = 1..m /\ \A j \in 1..m :
        \/ Kind(q[j].item) \in {"reasoning", "message"}
        \/ \E k \in S : /\ q[j] = C!CallSnapshot(c.calls[k], reason)
                        /\ Kind(q[j].item) = "function_call" /\ CallOf(q[j].item) = k

\* The response ends, whatever its last event is.
LEMMA ChatCloses ==
    ASSUME NEW r, NEW c, NEW n, ChatLive(r, c, n), NEW failed \in BOOLEAN, NEW reason,
           NEW last, DOMAIN last = {"type", "of", "output", "reason"}, last.type \in Ends
    PROVE  LET S == C!Published(c, failed)
               q == C!FinalOutput(c, S, reason)
               d == C!Ending(C!EmitAll(c, S), q, last)
           IN  DOMAIN d = ChatFields /\ Concluded(r, d) /\ OutputHolds(c, S, reason, q)
<1> DEFINE S == C!Published(c, failed)
           b == C!EmitAll(c, S)
           z == {C!CallSnapshot(c.calls[k], reason) : k \in S}
           W == (c.completed \cup {c.reasoning, c.message} \cup z) \ {C!NoSnapshot}
           q == C!FinalOutput(c, S, reason)
<1>0. ChatGood(r, c, n) /\ Named(c) /\ ChatShaped(c, n)
  BY ChatShape DEF ChatLive
<1>1. S \in SUBSET Begun(c)
  BY DEF C!Published, Begun
<1>2. \A k \in S : c.calls[k].added \/ C!Publishable(c.calls[k], TRUE)
  BY Zenon DEF C!Published, C!Publishable, C!Meaningful
<1>3. \A k \in Begun(c) : c.calls[k].added => k \in S
  BY <1>0, Zenon DEF Begun, Named, C!Published, C!Meaningful
<1>4. C!FinalOutput(c, S, reason) = C!InOrder(W)
  BY DEF C!FinalOutput
<1> HIDE DEF S
<1>5. ChatGood(r, b, n) /\ AllShown(c, b, S)
  BY <1>0, <1>1, <1>2, EmitAllGood, Zenon
<1> HIDE DEF b
<1>6. PICK t : Reads(r, b.out, t) /\ ChatHeard(t, b, n)
  BY <1>5 DEF ChatGood
<1>7. /\ b.reasoning = c.reasoning /\ b.message = c.message /\ b.completed = c.completed
      /\ IsReader(t) /\ t.phase = "open" /\ DOMAIN b = ChatFields
  BY <1>5, <1>6 DEF AllShown, ChatHeard, ChatBasic
<1> DEFINE its == DOMAIN t.items
           done == {s.item : s \in c.completed}
\* The calls that were shown are those published.
<1>8. ASSUME NEW k \in S
      PROVE  /\ k \in Begun(b) /\ b.calls[k].item = c.calls[k].item
             /\ IsOpen(t, c.calls[k].item)
             /\ Kind(c.calls[k].item) = "function_call" /\ CallOf(c.calls[k].item) = k
  <2>1. b.calls[k].added /\ b.calls[k].item = c.calls[k].item
    BY <1>5 DEF AllShown
  <2>2. c.calls[k].item # NoItem
    BY <1>0, <1>1 DEF ChatShaped
  <2>3. C!NoCall.item = NoItem
    BY DEF C!NoCall
  <2>4. k \in Begun(b)
    BY <1>1, <2>1, <2>2, <2>3 DEF Begun
  <2> QED
    BY <1>6, <2>1, <2>4 DEF ChatHeard, CallsHeard
<1>9. ASSUME NEW k \in Begun(b), b.calls[k].added PROVE k \in S
  <2>1. CASE k \notin S
    <3>1. b.calls[k] = c.calls[k]
      BY <1>5, <2>1 DEF AllShown, Begun
    <3> QED
      BY <1>3, <1>9, <3>1 DEF Begun
  <2> QED
    BY <2>1
\* What the snapshots of the output are of.
<1>10. ASSUME NEW k \in S
       PROVE  /\ C!CallSnapshot(c.calls[k], reason).item = c.calls[k].item
              /\ C!CallSnapshot(c.calls[k], reason) # NoSnapshot
  <2>1. C!CallSnapshot(c.calls[k], reason).item = c.calls[k].item
    BY DEF C!CallSnapshot
  <2>2. c.calls[k].item # NoItem
    BY <1>0, <1>1 DEF ChatShaped
  <2>3. NoSnapshot.item = NoItem
    OBVIOUS
  <2> HIDE DEF NoSnapshot, NoItem
  <2> QED
    BY <2>1, <2>2, <2>3
<1>11. /\ \A s \in c.completed : /\ Kind(s.item) = "reasoning" /\ s.item \in its
                                 /\ t.items[s.item].finished = 1
       /\ \A s, u \in c.completed : s.item = u.item => s = u
       /\ (c.reasoning # NoSnapshot =>
              Kind(c.reasoning.item) = "reasoning" /\ IsOpen(t, c.reasoning.item))
       /\ (c.message # NoSnapshot =>
              Kind(c.message.item) = "message" /\ IsOpen(t, c.message.item))
  BY <1>6, <1>7 DEF ChatHeard, CompletedHeard, OpenHeard
<1>12. ASSUME NEW s \in W
       PROVE  \/ s \in c.completed
              \/ s = c.reasoning /\ c.reasoning # NoSnapshot
              \/ s = c.message /\ c.message # NoSnapshot
              \/ IsPublished(c, S, reason, s)
  BY DEF IsPublished
<1>13. /\ c.completed \subseteq W
       /\ (c.reasoning # NoSnapshot => c.reasoning \in W)
       /\ (c.message # NoSnapshot => c.message \in W)
       /\ \A k \in S : C!CallSnapshot(c.calls[k], reason) \in W
  <2>1. \A s \in c.completed : s # NoSnapshot
    <3>1. NoSnapshot.item[1] = "none"
      OBVIOUS
    <3>2. \A s \in c.completed : s.item[1] = "reasoning"
      BY <1>11
    <3> QED
      BY <3>1, <3>2
  <2>2. C!NoSnapshot = NoSnapshot
    OBVIOUS
  <2> HIDE DEF NoSnapshot, C!NoSnapshot
  <2> QED
    BY <1>10, <2>1, <2>2
<1>14. ASSUME NEW s, IsPublished(c, S, reason, s)
       PROVE  \E k \in S : /\ s = C!CallSnapshot(c.calls[k], reason)
                           /\ s.item = c.calls[k].item /\ IsOpen(t, s.item)
                           /\ Kind(s.item) = "function_call" /\ CallOf(s.item) = k
  BY <1>8, <1>10, <1>14 DEF IsPublished
<1> HIDE DEF W, z
<1>15. ASSUME NEW s \in W
       PROVE  /\ s.item \in its
              /\ s \in c.completed => t.items[s.item].finished = 1
              /\ s \notin c.completed => IsOpen(t, s.item)
  BY <1>11, <1>12, <1>14 DEF IsOpen
<1>16. ASSUME NEW s \in W, NEW u \in W, s.item = u.item PROVE s = u
  <2>1. s \in c.completed <=> u \in c.completed
    BY <1>15, <1>16 DEF IsOpen
  <2>2. CASE s \in c.completed
    BY <1>11, <1>16, <2>1, <2>2
  <2>3. CASE s \notin c.completed
    <3>1. CASE s = c.reasoning /\ c.reasoning # NoSnapshot
      <4>1. Kind(u.item) = "reasoning"
        BY <1>11, <1>16, <3>1
      <4>2. u = c.reasoning
        BY <1>11, <1>12, <1>14, <2>1, <2>3, <4>1
      <4> QED
        BY <3>1, <4>2
    <3>2. CASE s = c.message /\ c.message # NoSnapshot
      <4>1. Kind(u.item) = "message"
        BY <1>11, <1>16, <3>2
      <4>2. u = c.message
        BY <1>11, <1>12, <1>14, <2>1, <2>3, <4>1
      <4> QED
        BY <3>2, <4>2
    <3>3. CASE IsPublished(c, S, reason, s)
      <4>1. PICK k \in S : /\ s = C!CallSnapshot(c.calls[k], reason)
                           /\ Kind(s.item) = "function_call" /\ CallOf(s.item) = k
        BY <1>14, <3>3
      <4>2. IsPublished(c, S, reason, u)
        BY <1>11, <1>12, <1>16, <2>1, <2>3, <4>1
      <4>3. PICK l \in S : u = C!CallSnapshot(c.calls[l], reason) /\ CallOf(u.item) = l
        BY <1>14, <4>2
      <4>4. k = l
        BY <1>16, <4>1, <4>3
      <4> QED
        BY <4>1, <4>3, <4>4
    <3> QED
      BY <1>12, <2>3, <3>1, <3>2, <3>3
  <2> QED
    BY <2>2, <2>3
<1>17. ASSUME NEW i \in its PROVE \E s \in W : s.item = i
  <2>1. \/ c.reasoning # NoSnapshot /\ i = c.reasoning.item
        \/ c.message # NoSnapshot /\ i = c.message.item
        \/ \E k \in Begun(b) : b.calls[k].added /\ i = b.calls[k].item
        \/ \E s \in c.completed : i = s.item
    BY <1>6, <1>7 DEF ChatHeard, AllHeard
  <2>2. ASSUME NEW k \in Begun(b), b.calls[k].added, i = b.calls[k].item
        PROVE  \E s \in W : s.item = i
    <3>1. k \in S /\ i = c.calls[k].item
      BY <1>8, <1>9, <2>2
    <3> QED
      BY <1>10, <1>13, <3>1
  <2> QED
    BY <1>13, <2>1, <2>2
<1>18. \A i \in its : i \in ItemNumbers
  BY <1>6 DEF ChatHeard, ChatApart, Allotted
<1>19. \A i, j \in its : OutputIndex(i) = OutputIndex(j) => i = j
  BY <1>6 DEF ChatHeard, ChatApart, Allotted
<1>20. \A i \in ItemNumbers : OutputIndex(i) \in Nat
  BY DEF ItemNumbers
<1>21. IsFiniteSet(W)
  <2>1. IsFiniteSet(c.completed) /\ IsFiniteSet(S)
    <3>1. IsFiniteSet(S)
      BY <1>1, StreamAssumption, FS_Subset, Zenon DEF Begun
    <3> QED
      BY <1>6, <1>7, <3>1 DEF ChatHeard, ChatBasic
  <2>2. IsFiniteSet(z)
    <3> DEFINE f == [k \in S |-> C!CallSnapshot(c.calls[k], reason)]
    <3>1. IsFiniteSet({f[k] : k \in DOMAIN f})
      BY <2>1, FiniteImage, Zenon
    <3>2. z = {f[k] : k \in DOMAIN f}
      BY DEF z
    <3> QED
      BY <3>1, <3>2
  <2>3. IsFiniteSet((c.completed \cup {c.reasoning}) \cup {c.message})
    BY <2>1, FS_AddElement, Zenon
  <2>4. IsFiniteSet(((c.completed \cup {c.reasoning}) \cup {c.message}) \cup z)
    BY <2>2, <2>3, FS_Union, Zenon
  <2>5. W \subseteq ((c.completed \cup {c.reasoning}) \cup {c.message}) \cup z
    BY DEF W
  <2> QED
    BY <2>4, <2>5, FS_Subset
<1>22. Lists(q, W)
  <2>1. \A s \in W : OutputIndex(s.item) \in Nat
    BY <1>15, <1>18, <1>20
  <2>2. \A s, u \in W : OutputIndex(s.item) = OutputIndex(u.item) => s = u
    BY <1>15, <1>16, <1>19
  <2> QED
    BY <1>4, <1>21, <2>1, <2>2, OutputLists
<1> HIDE DEF q
<1>23. PICK m \in Nat : DOMAIN q = 1..m
  BY <1>22 DEF Lists
<1>24. its = {q[j].item : j \in 1..m}
  <2>1. \A j \in 1..m : q[j].item \in its
    BY <1>15, <1>22, <1>23 DEF Lists
  <2>2. ASSUME NEW i \in its PROVE \E j \in 1..m : q[j].item = i
    <3>1. PICK s \in W : s.item = i
      BY <1>17
    <3>2. PICK j \in 1..m : q[j] = s
      BY <1>22, <1>23 DEF Lists
    <3> QED
      BY <3>1, <3>2
  <2> HIDE DEF its
  <2> QED
    BY <2>1, <2>2
<1>25. \A j, k \in 1..m : q[j].item = q[k].item => j = k
  BY <1>16, <1>22, <1>23 DEF Lists
<1>26. Closing(r, b.out, its, done)
  <2>1. ASSUME NEW i \in its
        PROVE  t.items[i].finished = IF i \in done THEN 1 ELSE 0
    <3>1. PICK s \in W : s.item = i
      BY <1>17
    <3>2. i \in done <=> s \in c.completed
      BY <1>13, <1>16, <3>1
    <3> QED
      BY <1>15, <3>1, <3>2 DEF IsOpen
  <2> QED
    BY <1>6, <1>7, <2>1 DEF Closing
<1>27. ASSUME NEW j \in 1..m, NEW g, g.completed = b.completed
       PROVE  EndsItem(C!DoneEvents(g, q[j]), q[j].item, q[j].item \in done)
  <2> DEFINE s == q[j]
             e == C!ItemDone(s)
             p == C!TextDone(s.item, s.n)
             a == C!ArgsDone(s.item, s.n)
  <2>1. s \in W
    BY <1>22, <1>23 DEF Lists
  <2>2. s.item \in done <=> s \in c.completed
    BY <1>13, <1>16, <2>1
  <2>3. /\ e.type = "itemDone" /\ e.of.item = s.item
        /\ p.type \in Says /\ p.of.item = s.item
        /\ a.type \in Says /\ a.of.item = s.item
    BY DEF C!ItemDone, C!TextDone, C!ArgsDone, C!Delta, Says
  <2>4. s \in c.completed => Kind(s.item) = "reasoning"
    BY <1>11
  <2>5. C!DoneEvents(g, s) \in
            IF s \in c.completed THEN {<<>>} ELSE {<<e>>, <<p, e>>, <<a, e>>}
    BY <1>7, <1>27, <2>4 DEF C!DoneEvents
  <2> HIDE DEF s, e, p, a
  <2>6. EndsItem(C!DoneEvents(g, s), s.item, s.item \in done)
    BY <2>2, <2>3, <2>5 DEF EndsItem
  <2> QED
    BY <2>6 DEF s
<1>28. \A j \in 1..m : \A s : s.completed = b.completed =>
           EndsItem(C!DoneEvents(s, q[j]), q[j].item, q[j].item \in done)
  BY <1>27
<1> HIDE DEF its, done
<1> DEFINE d == C!Ending(b, q, last)
<1>29. DOMAIN b = ChatFields /\ EndsAll(b, q, m, its, done)
  BY <1>7, <1>23, <1>24, <1>25, <1>28 DEF EndsAll
<1>30. DOMAIN d = ChatFields /\ Concluded(r, d)
  BY <1>23, <1>26, <1>29, EndingGood
<1>31. OutputHolds(c, S, reason, q)
  <2>1. ASSUME NEW j \in 1..m
        PROVE  \/ Kind(q[j].item) \in {"reasoning", "message"}
               \/ \E k \in S : /\ q[j] = C!CallSnapshot(c.calls[k], reason)
                               /\ Kind(q[j].item) = "function_call" /\ CallOf(q[j].item) = k
    BY <1>11, <1>12, <1>14, <1>22, <1>23 DEF Lists
  <2> QED
    BY <1>23, <2>1 DEF OutputHolds
<1> HIDE DEF d
<1> QED
  BY <1>30, <1>31 DEF d, b, q, S

\* The converter keeps what a reader of its stream is told of.
SameStream(c, d) ==
    /\ DOMAIN d = DOMAIN c /\ d.out = c.out /\ d.calls = c.calls
    /\ d.nextIndex = c.nextIndex /\ d.completed = c.completed /\ d.sentDone = c.sentDone
    /\ d.reasoning = c.reasoning /\ d.message = c.message

\* What a converter notes about the finish does not touch its stream.
LEMMA StreamSame ==
    ASSUME NEW r, NEW c, NEW n, ChatLive(r, c, n), NEW d, SameStream(c, d)
    PROVE  ChatLive(r, d, n)
<1>1. Alike(c, d) /\ d.out = c.out
  BY SnapshotSame, CallSame DEF Alike, SameStream
<1>2. ChatGood(r, d, n)
  BY <1>1, ChatQuiet DEF ChatLive
<1>3. Named(d)
  BY Zenon DEF ChatLive, Named, SameStream
<1> QED
  BY <1>2, <1>3 DEF ChatLive

\* The upstream failed, or its answer is over: the response is concluded.
LEMMA ChatErrsConcluded ==
    ASSUME NEW r, NEW c, NEW n, ChatLive(r, c, n)
    PROVE  LET d == C!PushError(c) IN DOMAIN d = ChatFields /\ Concluded(r, d)
<1> DEFINE b == C!Log(c, "error")
           S == C!Published(b, TRUE)
           last == C!Failed
           f == C!Ending(C!EmitAll(b, S), C!FinalOutput(b, S, "none"), last)
           d == [f EXCEPT !.ended = TRUE]
<1>1. DOMAIN c = ChatFields /\ ~c.sentDone
  BY ChatShape DEF ChatLive, ChatShaped
<1>2. SameStream(c, b)
  BY <1>1 DEF SameStream, C!Log, ChatFields
<1>3. C!PushError(c) = d
  BY <1>1 DEF C!PushError, C!Fail
<1> HIDE DEF b
<1>4. ChatLive(r, b, n)
  BY <1>2, StreamSame
<1>5. DOMAIN last = {"type", "of", "output", "reason"} /\ last.type \in Ends
  BY DEF C!Failed, Ends
<1> HIDE DEF last
<1>6. DOMAIN f = ChatFields /\ Concluded(r, f)
  BY <1>4, <1>5, ChatCloses, Zenon
<1> HIDE DEF f
<1>7. DOMAIN d = ChatFields /\ d.out = f.out /\ d.sentDone = f.sentDone
  BY <1>6 DEF ChatFields
<1> HIDE DEF d
<1> QED
  BY <1>3, <1>6, <1>7 DEF Concluded

\* push_done, whatever the response held, ends the stream a reader expects.
LEMMA ChatDoneConcluded ==
    ASSUME NEW r, NEW c, NEW n, ChatLive(r, c, n)
    PROVE  LET d == C!PushDone(c) IN DOMAIN d = ChatFields /\ Concluded(r, d)
<1>0. ~c.sentDone
  BY ChatShape DEF ChatLive, ChatShaped
<1>1. CASE c.finish = "none" \/ ~C!ShellCallsValid(c)
  <2>1. C!PushDone(c) = C!PushError(c)
    BY <1>0, <1>1 DEF C!PushDone
  <2> QED
    BY <2>1, ChatErrsConcluded
<1>2. CASE ~(c.finish = "none" \/ ~C!ShellCallsValid(c))
  <2> DEFINE S == C!Published(c, FALSE)
             reason == C!TerminalReason(c, S)
             last == C!Terminal(reason, <<>>)
             d == C!Ending(C!EmitAll(c, S), C!FinalOutput(c, S, reason), last)
  <2>1. C!PushDone(c) = d
    BY <1>0, <1>2 DEF C!PushDone, C!Complete, C!CompleteWith
  <2>2. DOMAIN last = {"type", "of", "output", "reason"} /\ last.type \in Ends
    BY DEF C!Terminal, Ends
  <2> HIDE DEF reason, last
  <2>3. DOMAIN d = ChatFields /\ Concluded(r, d)
    BY <2>2, ChatCloses, Zenon
  <2> QED
    BY <2>1, <2>3, Zenon
<1> QED
  BY <1>1, <1>2

\* Nothing queued after the end changes what has been concluded.
LEMMA ConcludedSame ==
    ASSUME NEW r, NEW c, Concluded(r, c), NEW d, d.out = c.out, d.sentDone = c.sentDone
    PROVE  Concluded(r, d)
BY DEF Concluded

----------------------------------------------------------------------------
(* The reader.                                                             *)

\* What an event in its place makes of a reader.
LEMMA HearFits ==
    ASSUME NEW r, NEW e, IsReader(r), Fits(r, e)
    PROVE  IsReader(Hear(r, e))
<1>1. CASE e.type = "added"
  BY <1>1, HearAdded DEF Fits, Adds, Says, Ends
<1>2. CASE e.type \in Says
  BY <1>2, HearSaid DEF Fits, Speaks, Says, Ends, IsOpen
<1>3. CASE e.type = "itemDone"
  BY <1>3, HearItemDone DEF Fits, Finishes, Says, Ends, IsOpen
<1>4. CASE e.type \in {"created", "[DONE]"} \cup Ends
  <2>1. Hear(r, e).items = r.items /\ DOMAIN Hear(r, e) = DOMAIN r
    BY <1>4 DEF Hear, Ends, IsReader, ReadFields
  <2> QED
    BY <2>1 DEF IsReader
<1> QED
  BY <1>1, <1>2, <1>3, <1>4 DEF Fits

\* It is a step of the stream that ResponsesStream describes.
LEMMA FitsStep ==
    ASSUME IsReader(Made), NEW e, Fits(Made, e), Made' = Hear(Made, e)
    PROVE  [ResponsesView!Next]_(ResponsesView!vars)
<1> DEFINE r == Made
           i == e.of.item
<1>0. DOMAIN r = ReadFields /\ \A j \in DOMAIN r.items : j \in ItemNumbers
  BY DEF IsReader
<1>1. CASE e.type = "created"
  <2>1. /\ r.phase = "new" /\ Made'.phase = "open"
        /\ Made'.items = r.items /\ Made'.final = r.final
    BY <1>0, <1>1 DEF Fits, Hear, Says, Ends, ReadFields
  <2> QED
    BY <2>1 DEF ResponsesView!Next, ResponsesView!Create
<1>2. CASE e.type \in Ends
  <2>1. /\ r.phase = "open" /\ Made'.phase = "ended"
        /\ Made'.items = r.items /\ Made'.final = e.output
        /\ \A j \in DOMAIN r.items : r.items[j].finished = 1
        /\ DOMAIN r.items = {e.output[j].item : j \in DOMAIN e.output}
    BY <1>0, <1>2 DEF Fits, Hear, Says, Ends, ReadFields
  <2> QED
    BY <2>1 DEF ResponsesView!Next, ResponsesView!End
<1>3. CASE e.type = "[DONE]"
  <2>1. Made'.phase = r.phase /\ Made'.items = r.items /\ Made'.final = r.final
    BY <1>0, <1>3 DEF Fits, Hear, Says, Ends, ReadFields
  <2> QED
    BY <2>1 DEF ResponsesView!vars
<1>4. CASE e.type = "added"
  <2>1. r.phase = "open" /\ i \in ItemNumbers \ DOMAIN r.items
    BY <1>4 DEF Fits, Says, Ends
  <2>2. Made' = Count(r, i, "added")
    BY <1>4 DEF Hear
  <2>3. /\ Made'.phase = r.phase /\ Made'.final = r.final
        /\ Made'.items = With(r.items, i,
               [[added |-> 0, said |-> 0, finished |-> 0] EXCEPT !["added"] = @ + 1])
    BY <1>0, <2>1, <2>2 DEF Count, Seen, ReadFields
  <2>4. Made'.items = [j \in DOMAIN r.items \cup {i} |->
             IF j = i THEN [added |-> 1, said |-> 0, finished |-> 0] ELSE r.items[j]]
    BY <2>3 DEF With
  <2>5. ResponsesView!Add(i)
    BY <2>1, <2>3, <2>4 DEF ResponsesView!Add
  <2> QED
    BY <2>1, <2>5 DEF ResponsesView!Next
<1>5. ASSUME NEW field \in {"said", "finished"}, Made' = Count(r, i, field),
             i \in DOMAIN r.items
      PROVE  /\ Made'.phase = r.phase /\ Made'.final = r.final
             /\ Made'.items = [j \in DOMAIN r.items |->
                    IF j = i THEN [r.items[i] EXCEPT ![field] = @ + 1] ELSE r.items[j]]
  <2>1. /\ Made'.phase = r.phase /\ Made'.final = r.final
        /\ Made'.items = With(r.items, i, [r.items[i] EXCEPT ![field] = @ + 1])
    BY <1>0, <1>5 DEF Count, Seen, ReadFields
  <2> QED
    BY <1>5, <2>1 DEF With
<1>6. CASE e.type \in Says
  <2>1. r.phase = "open" /\ i \in DOMAIN r.items /\ r.items[i].finished = 0 /\ i \in ItemNumbers
    BY <1>0, <1>6 DEF Fits, Says, Ends
  <2>2. Made' = Count(r, i, "said")
    BY <1>6 DEF Hear, Says
  <2>3. /\ Made'.phase = r.phase /\ Made'.final = r.final
        /\ Made'.items = [j \in DOMAIN r.items |->
               IF j = i THEN [r.items[i] EXCEPT !["said"] = @ + 1] ELSE r.items[j]]
    BY <1>5, <2>1, <2>2
  <2>4. ResponsesView!Say(i)
    BY <2>1, <2>3 DEF ResponsesView!Say, ResponsesView!Unfinished
  <2> QED
    BY <2>1, <2>4 DEF ResponsesView!Next
<1>7. CASE e.type = "itemDone"
  <2>1. r.phase = "open" /\ i \in DOMAIN r.items /\ r.items[i].finished = 0 /\ i \in ItemNumbers
    BY <1>0, <1>7 DEF Fits, Says, Ends
  <2>2. Made' = Count(r, i, "finished")
    BY <1>7 DEF Hear
  <2>3. /\ Made'.phase = r.phase /\ Made'.final = r.final
        /\ Made'.items = [j \in DOMAIN r.items |->
               IF j = i THEN [r.items[i] EXCEPT !["finished"] = @ + 1] ELSE r.items[j]]
    BY <1>5, <2>1, <2>2
  <2>4. [r.items[i] EXCEPT !["finished"] = @ + 1] = [r.items[i] EXCEPT !["finished"] = 1]
    BY <2>1
  <2>5. ResponsesView!Finish(i)
    BY <2>1, <2>3, <2>4 DEF ResponsesView!Finish, ResponsesView!Unfinished
  <2> QED
    BY <2>1, <2>5 DEF ResponsesView!Next
<1> QED
  BY <1>1, <1>2, <1>3, <1>4, <1>6, <1>7 DEF Fits

----------------------------------------------------------------------------
(* A Chat upstream's stream.                                               *)

\* What was read of the stream fits, and what is queued will; the converter still works on
\* the response, has concluded it, or is gone.
ChatStream ==
    route \in ChatRoutes =>
        /\ IsReader(read)
        /\ chat.gone \/ ChatLive(read, chat, up.sent) \/ Concluded(read, chat)

\* A stream begins with response.created queued or heard.
LEMMA ChatStarts == Init => ChatStream
<1> SUFFICES ASSUME Init, route \in ChatRoutes PROVE ChatStream
  BY DEF ChatStream
<1> DEFINE e == C!Created
           t == Hear(NothingRead, e)
<1>1. chat = C!NewChat /\ up.sent = 0 /\ read = NothingRead
  BY DEF Init, C!Init, ChatRoutes, NothingSent
<1>2. chat.out = Append(<<>>, e)
  BY <1>1 DEF C!NewChat
<1>3. DOMAIN <<>> = {}
  OBVIOUS
<1>4. IsReader(NothingRead) /\ NothingRead.phase = "new" /\ DOMAIN NothingRead.items = {}
  BY <1>3 DEF IsReader, NothingRead, ReadFields
<1>5. e.type = "created"
  BY DEF C!Created
<1> HIDE DEF e
<1>6. Fits(NothingRead, e)
  BY <1>4, <1>5 DEF Fits
<1>7. t.phase = "open" /\ t.items = NothingRead.items
  BY <1>4, <1>5 DEF Hear, IsReader, ReadFields
<1>8. IsReader(t)
  BY <1>4, <1>6, HearFits
<1>9. Reads(NothingRead, chat.out, t)
  BY <1>2, <1>6, ReadsNothing, ReadsMore, Zenon
<1> HIDE DEF t
<1>10. \A k \in Calls : chat.calls[k] = C!NoCall
  BY <1>1 DEF C!NewChat
<1>11. Begun(chat) = {}
  BY <1>10 DEF Begun
<1>12. /\ DOMAIN chat = ChatFields /\ DOMAIN chat.calls = Calls /\ ~chat.sentDone
       /\ chat.nextIndex = 0 /\ chat.completed = {}
       /\ chat.reasoning = NoSnapshot /\ chat.message = NoSnapshot
  BY <1>1 DEF C!NewChat, ChatFields
<1>13. ChatBasic(t, chat, 0)
  BY <1>7, <1>8, <1>12, FS_EmptySet DEF ChatBasic
<1>14. Allotted(t, chat) = {}
  BY <1>4, <1>7, <1>11 DEF Allotted
<1>15. ChatApart(t, chat) /\ CallsHeard(t, chat) /\ CompletedHeard(t, chat)
  BY <1>11, <1>12, <1>14 DEF ChatApart, CallsHeard, CompletedHeard
<1>16. AllHeard(t, chat)
  BY <1>4, <1>7 DEF AllHeard
<1>17. OpenHeard(t, chat.reasoning, "reasoning") /\ OpenHeard(t, chat.message, "message")
  BY <1>12 DEF OpenHeard
<1>18. ChatGood(NothingRead, chat, 0)
  BY <1>9, <1>13, <1>15, <1>16, <1>17 DEF ChatGood, ChatHeard
<1>19. Named(chat)
  <2>1. C!NoCall.added = FALSE
    BY DEF C!NoCall
  <2> QED
    BY <1>10, <2>1, Zenon DEF Named
<1> QED
  BY <1>1, <1>4, <1>18, <1>19 DEF ChatStream, ChatLive

\* While it reads, it works on the response.
LEMMA ChatStreamReads ==
    ASSUME OutcomeInv, ChatStream, route \in ChatRoutes, C!Reading
    PROVE  IsReader(read) /\ ChatLive(read, chat, up.sent) /\ up.sent \in Nat
<1>1. ~chat.sentDone /\ ~chat.gone
  BY ChatReads
<1>2. IsReader(read) /\ ChatLive(read, chat, up.sent)
  BY <1>1 DEF ChatStream, Concluded
<1> QED
  BY <1>2, ChatShape DEF ChatLive, ChatShaped

\* After a chunk of a Chat upstream the response is still under way.
LEMMA ChunkLive ==
    ASSUME OutcomeInv, ChatStream, NEW p \in Parts[route], Chunk(p)
    PROVE  IsReader(read) /\ ChatLive(read, chat', up'.sent)
<1>1. /\ route \in ChatRoutes /\ C!Reading /\ C!ReceivePart(p) /\ route' = route
      /\ read' = read /\ up.sent < MaxChunks
  BY DEF Chunk, ChatRead, C!ReceivePart, ChatUnchanged
<1> DEFINE n == up.sent
<1>2. IsReader(read) /\ ChatLive(read, chat, n) /\ n \in Nat
  BY <1>1, ChatStreamReads
<1>3. n <= MaxBlocks
  BY <1>1, <1>2, StreamAssumption
<1>4. /\ p.part \in {"reasoning", "redacted", "text", "audio", "tool"}
      /\ p.part = "tool" => p.call \in Calls
  BY StreamAssumption DEF OutcomeInv
<1>5. up'.sent = n + 1
  <2>1. "sent" \in DOMAIN Recorded(p) /\ Recorded(p).sent = up.sent
    BY DEF Recorded, OutcomeInv, UpFine, UpFields
  <2> QED
    BY <2>1 DEF Chunk
<1> HIDE DEF n
<1>6. ChatLive(read, chat', n + 1)
  <2>1. CASE p.part = "reasoning"
    BY <1>1, <1>2, <1>3, <2>1, ReasoningPartGood DEF C!ReceivePart
  <2>2. CASE p.part = "redacted"
    BY <1>1, <1>2, <1>3, <2>2, RedactedPartGood DEF C!ReceivePart
  <2>3. CASE p.part = "text"
    BY <1>1, <1>2, <1>3, <2>3, TextPartGood DEF C!ReceivePart
  <2>4. CASE p.part = "audio"
    BY <1>1, <1>2, <1>3, <2>4, AudioPartGood DEF C!ReceivePart
  <2>5. CASE p.part = "tool"
    BY <1>1, <1>2, <1>3, <1>4, <2>5, ToolPartGood DEF C!ReceivePart
  <2> QED
    BY <1>4, <2>1, <2>2, <2>3, <2>4, <2>5
<1> QED
  BY <1>2, <1>5, <1>6

\* So the stream stays as described.
LEMMA ChunkStream ==
    ASSUME OutcomeInv, ChatStream, NEW p \in Parts[route], Chunk(p)
    PROVE  ChatStream'
<1>1. read' = read
  BY DEF Chunk, ChatUnchanged
<1> QED
  BY <1>1, ChunkLive DEF ChatStream

\* The same when it states its finish reason.
LEMMA StateFinishLive ==
    ASSUME OutcomeInv, ChatStream, NEW reason, StateFinish(reason)
    PROVE  IsReader(read) /\ ChatLive(read, chat', up'.sent)
<1>1. /\ route \in ChatRoutes /\ C!Reading /\ route' = route /\ read' = read
      /\ chat' = [chat EXCEPT !.finish = reason]
  BY DEF StateFinish, ChatRead, C!ReceiveFinish, ChatUnchanged
<1> DEFINE n == up.sent
<1>2. IsReader(read) /\ ChatLive(read, chat, n)
  BY <1>1, ChatStreamReads
<1>3. DOMAIN chat = ChatFields
  BY <1>2, ChatShape DEF ChatLive, ChatShaped
<1>4. SameStream(chat, chat')
  BY <1>1, <1>3 DEF SameStream, ChatFields
<1>5. ChatLive(read, chat', n)
  BY <1>2, <1>4, StreamSame
<1>6. ChatLive(read, chat', n + 1)
  BY <1>5, ChatLater DEF ChatLive
<1>7. up'.sent \in {n, n + 1}
  BY DEF StateFinish, OutcomeInv, UpFine, UpFields
<1> QED
  BY <1>2, <1>5, <1>6, <1>7

\* So the stream stays as described.
LEMMA StateFinishStream ==
    ASSUME OutcomeInv, ChatStream, NEW reason, StateFinish(reason)
    PROVE  ChatStream'
<1>1. read' = read
  BY DEF StateFinish, ChatUnchanged
<1> QED
  BY <1>1, StateFinishLive DEF ChatStream

\* A Chat upstream ends.
LEMMA ChatEndsStream ==
    ASSUME OutcomeInv, ChatStream, ChatEnds
    PROVE  ChatStream'
<1>1. route \in ChatRoutes /\ C!Reading /\ route' = route /\ read' = read
  BY DEF ChatEnds, ChatRead, C!ReceiveDoneMark, C!EndOfUpstream, ChatUnchanged
<1> DEFINE n == up.sent
<1>2. IsReader(read) /\ ChatLive(read, chat, n)
  BY <1>1, ChatStreamReads
<1>3. DOMAIN chat = ChatFields
  BY <1>2, ChatShape DEF ChatLive, ChatShaped
<1>4. CASE C!ReceiveDoneMark
  <2>1. Concluded(read, chat')
    BY <1>2, <1>4, ChatDoneConcluded DEF C!ReceiveDoneMark
  <2> QED
    BY <1>1, <1>2, <2>1 DEF ChatStream
<1>5. CASE C!EndOfUpstream
  <2> DEFINE b == [chat EXCEPT !.ended = TRUE]
             d == C!PushDone(b)
  <2>1. SameStream(chat, b)
    BY <1>3 DEF SameStream, ChatFields
  <2> HIDE DEF b
  <2>2. ChatLive(read, b, n)
    BY <1>2, <2>1, StreamSame
  <2>3. DOMAIN d = ChatFields /\ Concluded(read, d)
    BY <2>2, ChatDoneConcluded
  <2>4. chat' = C!Log(d, "ok")
    BY <1>5 DEF C!EndOfUpstream, b
  <2> HIDE DEF d
  <2>5. chat'.out = d.out /\ chat'.sentDone = d.sentDone
    BY <2>3, <2>4 DEF C!Log, ChatFields
  <2>6. Concluded(read, chat')
    BY <2>3, <2>5, ConcludedSame
  <2> QED
    BY <1>1, <1>2, <2>6 DEF ChatStream
<1> QED
  BY <1>4, <1>5 DEF ChatEnds

\* A Chat upstream fails, or sends what cannot be read.
LEMMA ChatFailsStream ==
    ASSUME OutcomeInv, ChatStream, ChatFails
    PROVE  ChatStream'
<1>1. /\ route \in ChatRoutes /\ C!Reading /\ route' = route /\ read' = read
      /\ chat' = C!PushError(chat)
  BY DEF ChatFails, ChatRead, C!ReceiveError, ChatUnchanged
<1>2. IsReader(read) /\ ChatLive(read, chat, up.sent)
  BY <1>1, ChatStreamReads
<1>3. Concluded(read, chat')
  BY <1>1, <1>2, ChatErrsConcluded
<1> QED
  BY <1>1, <1>2, <1>3 DEF ChatStream

\* The reader is given the next event: it fits, and what is left fits what was read.
LEMMA ChatRelays ==
    ASSUME OutcomeInv, ChatStream, RelayChat, NEW e, e = Head(chat.out)
    PROVE  /\ route \in ChatRoutes /\ IsReader(read) /\ Fits(read, e)
           /\ read' = Hear(read, e) /\ ChatStream'
<1>1. /\ chat.out # <<>> /\ read' = Hear(read, e) /\ route' = route /\ up' = up
      /\ chat' = [chat EXCEPT !.out = Tail(chat.out)]
  BY DEF RelayChat, C!Emit
<1>2. ~chat.gone /\ route \in ChatRoutes /\ DOMAIN chat = ChatFields
  BY <1>1 DEF OutcomeInv, ChatPart, ChatFine
<1>3. IsReader(read)
  BY <1>2 DEF ChatStream
<1>4. chat'.out = Tail(chat.out) /\ chat'.sentDone = chat.sentDone
  BY <1>1, <1>2 DEF ChatFields
<1>5. CASE ChatLive(read, chat, up.sent)
  <2>1. PICK t : Reads(read, chat.out, t) /\ ChatHeard(t, chat, up.sent)
    BY <1>5 DEF ChatLive, ChatGood
  <2>2. Fits(read, e) /\ Reads(read', chat'.out, t)
    BY <1>1, <1>4, <2>1, ReadsNext
  <2>3. Alike(chat, chat') /\ chat'.calls = chat.calls
    BY <1>1, <1>2, SnapshotSame, CallSame DEF Alike, ChatFields
  <2>4. Speaks(t, t)
    BY <2>1 DEF Speaks, ChatHeard, ChatBasic
  <2>5. ChatHeard(t, chat', up.sent)
    BY <2>1, <2>3, <2>4, AlikeHeard
  <2>6. ChatLive(read', chat', up.sent)
    BY <1>5, <2>2, <2>3, <2>5, Zenon DEF ChatLive, ChatGood, Named
  <2> QED
    BY <1>1, <1>2, <1>3, <2>2, <2>6, HearFits DEF ChatStream
<1>6. CASE Concluded(read, chat)
  <2>1. PICK t : Reads(read, chat.out, t) /\ t.phase = "ended"
    BY <1>6 DEF Concluded
  <2>2. Fits(read, e) /\ Reads(read', chat'.out, t)
    BY <1>1, <1>4, <2>1, ReadsNext
  <2>3. Concluded(read', chat')
    BY <1>4, <1>6, <2>1, <2>2 DEF Concluded
  <2> QED
    BY <1>1, <1>2, <1>3, <2>2, <2>3, HearFits DEF ChatStream
<1> QED
  BY <1>2, <1>5, <1>6 DEF ChatStream
USE DEF L!Event, L!Snapshot, L!Item, L!Kind, L!OutputIndex, L!CallOf, L!NoItem, L!NoSnapshot

----------------------------------------------------------------------------
(* The converter of an Anthropic upstream: the blocks of a message.        *)

\* What the reader t was told of block b, which the converter knows as i.
BlockFields == {"item", "n", "sig", "closed", "inline"}
BlockHeard(t, b, i) ==
    /\ DOMAIN i = BlockFields /\ i.closed \in BOOLEAN /\ OutputIndex(i.item) = b
    /\ i.item \in DOMAIN t.items
    /\ t.items[i.item].finished = IF i.closed THEN 1 ELSE 0
    /\ i.closed => Kind(i.item) = "reasoning"
    /\ i.inline # 0 => Kind(i.item) = "function_call"
\* A response under way: the reader knows the blocks the converter does.
ClaudeHeard(t, c) ==
    /\ IsReader(t) /\ t.phase = "open"
    /\ DOMAIN c = ClaudeFields /\ ~c.sentDone
    /\ c.nextIndex \in Nat /\ DOMAIN c.items = 0..(c.nextIndex - 1)
    /\ \A b \in DOMAIN c.items : BlockHeard(t, b, c.items[b])
    /\ \A i \in DOMAIN t.items : \E b \in DOMAIN c.items : c.items[b].item = i
\* The same of what the reader will have heard when it has had all that is queued.
ClaudeGood(r, c) == \E t : Reads(r, c.out, t) /\ ClaudeHeard(t, c)

\* What the proofs about the converter's fields need of a response under way.
LEMMA ClaudeShape ==
    ASSUME NEW r, NEW c, ClaudeGood(r, c)
    PROVE  /\ DOMAIN c = ClaudeFields /\ ~c.sentDone
           /\ c.nextIndex \in Nat /\ DOMAIN c.items = 0..(c.nextIndex - 1)
           /\ \A b \in DOMAIN c.items : DOMAIN c.items[b] = BlockFields
BY DEF ClaudeGood, ClaudeHeard, BlockHeard

\* d knows the same blocks as c, as the same items, of which the same are closed.
SameBlocks(c, d) ==
    /\ DOMAIN d = DOMAIN c /\ d.sentDone = c.sentDone /\ d.nextIndex = c.nextIndex
    /\ DOMAIN d.items = DOMAIN c.items
    /\ \A b \in DOMAIN c.items :
          /\ DOMAIN d.items[b] = DOMAIN c.items[b]
          /\ d.items[b].item = c.items[b].item /\ d.items[b].closed = c.items[b].closed
          /\ d.items[b].inline # 0 =>
                c.items[b].inline # 0 \/ Kind(c.items[b].item) = "function_call"

\* Something said of an open block leaves all the converter relies on.
LEMMA SameBlocksHeard ==
    ASSUME NEW t, NEW c, ClaudeHeard(t, c), NEW d, SameBlocks(c, d), NEW v, Speaks(t, v)
    PROVE  ClaudeHeard(v, d)
<1>1. ASSUME NEW b \in DOMAIN c.items PROVE BlockHeard(v, b, d.items[b])
  <2>1. BlockHeard(t, b, c.items[b])
    BY DEF ClaudeHeard
  <2>2. d.items[b].item = c.items[b].item /\ d.items[b].closed = c.items[b].closed
    BY DEF SameBlocks
  <2>3. d.items[b].inline # 0 => Kind(d.items[b].item) = "function_call"
    BY <2>1 DEF SameBlocks, BlockHeard
  <2>4. DOMAIN d.items[b] = BlockFields
    BY <2>1 DEF SameBlocks, BlockHeard
  <2> QED
    BY <2>1, <2>2, <2>3, <2>4 DEF BlockHeard, Speaks
<1>2. \A i \in DOMAIN v.items : \E b \in DOMAIN d.items : d.items[b].item = i
  BY DEF ClaudeHeard, Speaks, SameBlocks
<1> QED
  BY <1>1, <1>2 DEF ClaudeHeard, SameBlocks, Speaks

\* A step that queues nothing and keeps the blocks.
LEMMA ClaudeQuiet ==
    ASSUME NEW r, NEW c, ClaudeGood(r, c), NEW d, SameBlocks(c, d), d.out = c.out
    PROVE  ClaudeGood(r, d)
<1>1. PICK t : Reads(r, c.out, t) /\ ClaudeHeard(t, c)
  BY DEF ClaudeGood
<1>2. Speaks(t, t)
  BY <1>1 DEF Speaks, ClaudeHeard
<1>3. ClaudeHeard(t, d)
  BY <1>1, <1>2, SameBlocksHeard
<1> QED
  BY <1>1, <1>3 DEF ClaudeGood

\* Something is told of a block that is not closed.
LEMMA ClaudeSays ==
    ASSUME NEW r, NEW c, ClaudeGood(r, c), NEW b \in DOMAIN c.items, ~c.items[b].closed,
           NEW e, e.type \in Says, e.of.item = c.items[b].item,
           NEW d, SameBlocks(c, d), d.out = Append(c.out, e)
    PROVE  ClaudeGood(r, d)
<1>1. PICK t : Reads(r, c.out, t) /\ ClaudeHeard(t, c)
  BY DEF ClaudeGood
<1> DEFINE v == Hear(t, e)
<1>2. IsOpen(t, e.of.item)
  BY <1>1, Zenon DEF ClaudeHeard, BlockHeard, IsOpen
<1>3. Fits(t, e) /\ Speaks(t, v)
  BY <1>1, <1>2, HearSaid DEF ClaudeHeard
<1>4. Reads(r, d.out, v)
  BY <1>1, <1>3, ReadsMore
<1> HIDE DEF v
<1>5. ClaudeHeard(v, d)
  BY <1>1, <1>3, SameBlocksHeard
<1> QED
  BY <1>4, <1>5 DEF ClaudeGood

\* d knows block b too, as an item of that kind if c did not know it.
Ensured(c, d, b, kind) ==
    /\ DOMAIN d.items = DOMAIN c.items \cup {b}
    /\ \A x \in DOMAIN c.items : d.items[x] = c.items[x]
    /\ b \notin DOMAIN c.items => Kind(d.items[b].item) = kind /\ d.items[b].closed = FALSE

BlockItem(kind, b) == Item(kind, b, IF kind = "function_call" THEN b ELSE 0)

\* ensure_output: a block heard of for the first time is added under the next
\* output_index.
LEMMA ClaudeEnsures ==
    ASSUME NEW r, NEW c, ClaudeGood(r, c), NEW b, NEW kind,
           \/ b \in DOMAIN c.items
           \/ b = c.nextIndex /\ BlockItem(kind, b) \in ItemNumbers
    PROVE  LET d == L!Ensure(c, b, kind) IN ClaudeGood(r, d) /\ Ensured(c, d, b, kind)
<1>1. CASE b \in DOMAIN c.items
  BY <1>1 DEF L!Ensure, Ensured
<1>2. CASE b \notin DOMAIN c.items
  <2> DEFINE i == BlockItem(kind, b)
             e == L!Added(i)
             block == [item |-> i, n |-> 0, sig |-> "none", closed |-> FALSE, inline |-> 0]
             d == L!Ensure(c, b, kind)
  <2>1. PICK t : Reads(r, c.out, t) /\ ClaudeHeard(t, c)
    BY DEF ClaudeGood
  <2> DEFINE v == Hear(t, e)
  <2>2. DOMAIN c = ClaudeFields /\ c.nextIndex = b /\ b \in Nat
    BY <1>2, <2>1 DEF ClaudeHeard
  <2>3. L!ItemOf(c, b, kind) = i
    BY <2>2 DEF L!ItemOf, BlockItem
  <2>4. d = L!OpenItem(c, b, i)
    BY <1>2, <2>3 DEF L!Ensure
  <2>5. /\ DOMAIN d = ClaudeFields /\ d.sentDone = c.sentDone
        /\ d.out = Append(c.out, e) /\ d.nextIndex = b + 1
        /\ d.items = L!With(c.items, b, block)
    BY <2>2, <2>4 DEF L!OpenItem, L!Push, ClaudeFields
  <2>6. /\ DOMAIN d.items = DOMAIN c.items \cup {b} /\ d.items[b] = block
        /\ \A x \in DOMAIN c.items : d.items[x] = c.items[x]
    BY <1>2, <2>5 DEF L!With
  <2>7. i \in ItemNumbers /\ Kind(i) = kind /\ OutputIndex(i) = b
    BY <1>2 DEF BlockItem
  <2>8. e.type = "added" /\ e.of.item = i
    BY DEF L!Added
  <2>9. \A x \in DOMAIN c.items : x # b /\ OutputIndex(c.items[x].item) = x
    BY <1>2, <2>1 DEF ClaudeHeard, BlockHeard
  <2> HIDE DEF d, e, i
  <2>10. i \notin DOMAIN t.items
    BY <2>1, <2>7, <2>9 DEF ClaudeHeard
  <2>11. Fits(t, e) /\ Adds(t, v, i)
    BY <2>1, <2>7, <2>8, <2>10, HearAdded DEF ClaudeHeard
  <2>12. Reads(r, d.out, v)
    BY <2>1, <2>5, <2>11, ReadsMore
  <2> HIDE DEF v
  <2>13. DOMAIN d.items = 0..(d.nextIndex - 1)
    <3>1. DOMAIN c.items = 0..(b - 1)
      BY <2>1, <2>2 DEF ClaudeHeard
    <3>2. d.nextIndex - 1 = b
      BY <2>2, <2>5
    <3> QED
      BY <2>2, <2>6, <3>1, <3>2
  <2>14. ASSUME NEW x \in DOMAIN d.items PROVE BlockHeard(v, x, d.items[x])
    <3>1. CASE x = b
      <4>1. d.items[x] = block
        BY <2>6, <3>1
      <4>2. DOMAIN block = BlockFields /\ block.closed = FALSE /\ block.item = i /\ block.inline = 0
        BY DEF BlockFields
      <4>3. v.items[i].finished = 0 /\ i \in DOMAIN v.items
        BY <2>11 DEF Adds
      <4> HIDE DEF block
      <4> QED
        BY <2>7, <3>1, <4>1, <4>2, <4>3, Zenon DEF BlockHeard
    <3>2. CASE x # b
      <4>1. x \in DOMAIN c.items /\ d.items[x] = c.items[x]
        BY <2>6, <3>2
      <4>2. BlockHeard(t, x, c.items[x])
        BY <2>1, <4>1 DEF ClaudeHeard
      <4>3. \A j \in DOMAIN t.items : v.items[j] = t.items[j] /\ j \in DOMAIN v.items
        BY <2>11 DEF Adds
      <4> QED
        BY <4>1, <4>2, <4>3 DEF BlockHeard
    <3> QED
      BY <3>1, <3>2
  <2>15. \A j \in DOMAIN v.items : \E x \in DOMAIN d.items : d.items[x].item = j
    <3>1. DOMAIN v.items = DOMAIN t.items \cup {i}
      BY <2>11 DEF Adds
    <3>2. d.items[b].item = i
      BY <2>6
    <3> QED
      BY <2>1, <2>6, <3>1, <3>2 DEF ClaudeHeard
  <2>16. IsReader(v) /\ v.phase = "open"
    BY <2>11 DEF Adds
  <2>17. ClaudeHeard(v, d)
    <3>1. ~d.sentDone /\ d.nextIndex \in Nat /\ DOMAIN d = ClaudeFields
      BY <2>1, <2>2, <2>5 DEF ClaudeHeard
    <3> QED
      BY <2>13, <2>14, <2>15, <2>16, <3>1 DEF ClaudeHeard
  <2>18. Ensured(c, d, b, kind)
    BY <2>6, <2>7 DEF Ensured
  <2> QED
    BY <2>12, <2>17, <2>18 DEF ClaudeGood, d
<1> QED
  BY <1>1, <1>2

\* d knows the same blocks as c, as the same items.
SameItems(c, d) ==
    /\ DOMAIN d.items = DOMAIN c.items
    /\ \A b \in DOMAIN c.items : d.items[b].item = c.items[b].item

\* handle_thinking_delta: reasoning of a block that is closed already is not
\* said.
LEMMA ClaudeThinks ==
    ASSUME NEW r, NEW c, ClaudeGood(r, c), NEW b \in DOMAIN c.items, NEW n
    PROVE  LET d == L!Thinking(c, b, n) IN ClaudeGood(r, d) /\ SameItems(c, d)
<1>1. CASE n = 0 \/ c.items[b].closed
  BY <1>1 DEF L!Thinking, SameItems
<1>2. CASE ~(n = 0 \/ c.items[b].closed)
  <2> DEFINE e == L!ReasoningDelta(c.items[b].item, n)
             d == [L!Push(c, e) EXCEPT !.items[b].n = @ + n]
  <2>1. L!Thinking(c, b, n) = d
    BY <1>2 DEF L!Thinking
  <2>2. DOMAIN c = ClaudeFields /\ DOMAIN c.items[b] = BlockFields
    BY ClaudeShape
  <2>3. e.type \in Says /\ e.of.item = c.items[b].item
    BY DEF L!ReasoningDelta, L!Delta, Says
  <2> HIDE DEF e
  <2>4. /\ DOMAIN d = DOMAIN c /\ d.sentDone = c.sentDone /\ d.nextIndex = c.nextIndex
        /\ d.out = Append(c.out, e)
        /\ d.items = [c.items EXCEPT ![b].n = @ + n]
    BY <2>2 DEF L!Push, ClaudeFields
  <2> HIDE DEF d
  <2>5. SameBlocks(c, d)
    BY <2>2, <2>4 DEF SameBlocks, BlockFields
  <2>6. ClaudeGood(r, d)
    BY <1>2, <2>3, <2>4, <2>5, ClaudeSays
  <2> QED
    BY <2>1, <2>5, <2>6 DEF SameItems, SameBlocks
<1> QED
  BY <1>1, <1>2

\* handle_text_delta for a block that is not closed.
LEMMA ClaudeTexts ==
    ASSUME NEW r, NEW c, ClaudeGood(r, c), NEW b \in DOMAIN c.items, ~c.items[b].closed, NEW n
    PROVE  LET d == L!Text(c, b, n) IN ClaudeGood(r, d) /\ SameItems(c, d)
<1> DEFINE e == L!TextDelta(c.items[b].item, n)
           d == [L!Push(c, e) EXCEPT !.items[b].n = @ + n]
<1>1. L!Text(c, b, n) = d
  BY DEF L!Text
<1>2. DOMAIN c = ClaudeFields /\ DOMAIN c.items[b] = BlockFields
  BY ClaudeShape
<1>3. e.type \in Says /\ e.of.item = c.items[b].item
  BY DEF L!TextDelta, L!Delta, Says
<1> HIDE DEF e
<1>4. /\ DOMAIN d = DOMAIN c /\ d.sentDone = c.sentDone /\ d.nextIndex = c.nextIndex
      /\ d.out = Append(c.out, e)
      /\ d.items = [c.items EXCEPT ![b].n = @ + n]
  BY <1>2 DEF L!Push, ClaudeFields
<1> HIDE DEF d
<1>5. SameBlocks(c, d)
  BY <1>2, <1>4 DEF SameBlocks, BlockFields
<1>6. ClaudeGood(r, d)
  BY <1>3, <1>4, <1>5, ClaudeSays
<1> QED
  BY <1>1, <1>5, <1>6 DEF SameItems, SameBlocks

\* handle_input_json_delta for a block that is not closed.
LEMMA ClaudeArguments ==
    ASSUME NEW r, NEW c, ClaudeGood(r, c), NEW b \in DOMAIN c.items, ~c.items[b].closed, NEW n
    PROVE  LET d == L!Arguments(c, b, n) IN ClaudeGood(r, d) /\ SameItems(c, d)
<1> DEFINE e == L!ArgsDelta(c.items[b].item, n)
           d == [L!Push(c, e) EXCEPT !.items[b].n = @ + n,
                                     !.items[b].inline = IF n > 0 THEN 0 ELSE @]
<1>1. L!Arguments(c, b, n) = d
  BY Zenon DEF L!Arguments
<1>2. DOMAIN c = ClaudeFields /\ DOMAIN c.items[b] = BlockFields
  BY ClaudeShape
<1>3. e.type \in Says /\ e.of.item = c.items[b].item
  BY DEF L!ArgsDelta, L!Delta, Says
<1> HIDE DEF e
<1>4. /\ DOMAIN d = DOMAIN c /\ d.sentDone = c.sentDone /\ d.nextIndex = c.nextIndex
      /\ d.out = Append(c.out, e)
      /\ DOMAIN d.items = DOMAIN c.items
      /\ \A x \in DOMAIN c.items : x # b => d.items[x] = c.items[x]
      /\ d.items[b] = [c.items[b] EXCEPT !.n = @ + n, !.inline = IF n > 0 THEN 0 ELSE @]
  BY <1>2 DEF L!Push, ClaudeFields, BlockFields
<1> HIDE DEF d
<1>5. SameBlocks(c, d)
  <2>1. /\ DOMAIN d.items[b] = DOMAIN c.items[b]
        /\ d.items[b].item = c.items[b].item /\ d.items[b].closed = c.items[b].closed
        /\ d.items[b].inline # 0 => c.items[b].inline # 0
    BY <1>2, <1>4 DEF BlockFields
  <2> QED
    BY <1>4, <2>1, Zenon DEF SameBlocks
<1>6. ClaudeGood(r, d)
  BY <1>3, <1>4, <1>5, ClaudeSays
<1> QED
  BY <1>1, <1>5, <1>6 DEF SameItems, SameBlocks

\* A signature is kept until the block ends.
LEMMA ClaudeSigns ==
    ASSUME NEW r, NEW c, ClaudeGood(r, c), NEW b \in DOMAIN c.items, NEW sig
    PROVE  LET d == L!Sign(c, b, sig) IN ClaudeGood(r, d) /\ SameItems(c, d)
<1>1. CASE sig = "none" \/ c.items[b].sig = "redacted"
  BY <1>1 DEF L!Sign, SameItems
<1>2. CASE ~(sig = "none" \/ c.items[b].sig = "redacted")
  <2> DEFINE d == [c EXCEPT !.items[b].sig = sig]
  <2>1. L!Sign(c, b, sig) = d
    BY <1>2 DEF L!Sign
  <2>2. DOMAIN c = ClaudeFields /\ DOMAIN c.items[b] = BlockFields
    BY ClaudeShape
  <2>3. SameBlocks(c, d) /\ d.out = c.out
    BY <2>2 DEF SameBlocks, ClaudeFields, BlockFields
  <2>4. ClaudeGood(r, d)
    BY <2>3, ClaudeQuiet, Zenon
  <2> QED
    BY <2>1, <2>3, <2>4 DEF SameItems, SameBlocks
<1> QED
  BY <1>1, <1>2

\* The arguments a call was started with are kept for later.
LEMMA ClaudeKeepsInline ==
    ASSUME NEW r, NEW c, ClaudeGood(r, c), NEW b \in DOMAIN c.items,
           Kind(c.items[b].item) = "function_call", NEW n
    PROVE  LET d == [c EXCEPT !.items[b].inline = n] IN ClaudeGood(r, d) /\ SameItems(c, d)
<1> DEFINE d == [c EXCEPT !.items[b].inline = n]
<1>1. DOMAIN c = ClaudeFields /\ DOMAIN c.items[b] = BlockFields
  BY ClaudeShape
<1>2. SameBlocks(c, d) /\ d.out = c.out
  BY <1>1 DEF SameBlocks, ClaudeFields, BlockFields
<1>3. ClaudeGood(r, d)
  BY <1>2, ClaudeQuiet, Zenon
<1> QED
  BY <1>2, <1>3 DEF SameItems, SameBlocks

\* A reasoning is finished with its block.
LEMMA ClaudeStops ==
    ASSUME NEW r, NEW c, ClaudeGood(r, c), NEW b
    PROVE  LET d == L!StopBlock(c, b) IN ClaudeGood(r, d) /\ SameItems(c, d)
<1> DEFINE quiet == \/ b \notin DOMAIN c.items \/ c.items[b].closed
                    \/ Kind(c.items[b].item) # "reasoning"
<1>1. CASE quiet
  BY <1>1 DEF L!StopBlock, SameItems
<1>2. CASE ~quiet
  <2> DEFINE e == L!ItemDone(L!Told(c, b))
             d == [L!Push(c, e) EXCEPT !.items[b].closed = TRUE]
             i == c.items[b].item
  <2>1. L!StopBlock(c, b) = d
    BY <1>2 DEF L!StopBlock
  <2>2. PICK t : Reads(r, c.out, t) /\ ClaudeHeard(t, c)
    BY DEF ClaudeGood
  <2>3. b \in DOMAIN c.items /\ ~c.items[b].closed /\ Kind(i) = "reasoning"
    BY <1>2
  <2>4. DOMAIN c = ClaudeFields /\ DOMAIN c.items[b] = BlockFields
    BY <2>3, ClaudeShape
  <2>5. e.type = "itemDone" /\ e.of.item = i
    BY DEF L!ItemDone, L!Told
  <2> HIDE DEF e
  <2>6. /\ DOMAIN d = ClaudeFields /\ d.sentDone = c.sentDone /\ d.nextIndex = c.nextIndex
        /\ d.out = Append(c.out, e)
        /\ DOMAIN d.items = DOMAIN c.items
        /\ \A x \in DOMAIN c.items : x # b => d.items[x] = c.items[x]
        /\ d.items[b] = [c.items[b] EXCEPT !.closed = TRUE]
    BY <2>3, <2>4 DEF L!Push, ClaudeFields
  <2>7. /\ DOMAIN d.items[b] = BlockFields /\ d.items[b].item = i
        /\ d.items[b].closed = TRUE /\ d.items[b].inline = c.items[b].inline
    BY <2>4, <2>6 DEF BlockFields
  <2> HIDE DEF d, quiet
  <2> DEFINE v == Hear(t, e)
  <2>8. IsOpen(t, e.of.item)
    BY <2>2, <2>3, <2>5 DEF ClaudeHeard, BlockHeard, IsOpen
  <2>9. Fits(t, e) /\ Finishes(t, v, i)
    BY <2>2, <2>5, <2>8, HearItemDone DEF ClaudeHeard
  <2>10. Reads(r, d.out, v)
    BY <2>2, <2>6, <2>9, ReadsMore
  <2> HIDE DEF v
  <2>11. ASSUME NEW x \in DOMAIN d.items PROVE BlockHeard(v, x, d.items[x])
    <3>0. x \in DOMAIN c.items /\ BlockHeard(t, x, c.items[x])
      BY <2>2, <2>6 DEF ClaudeHeard
    <3>1. CASE x = b
      BY <2>3, <2>7, <2>9, <3>0, <3>1, Zenon DEF BlockHeard, Finishes
    <3>2. CASE x # b
      <4>1. d.items[x] = c.items[x]
        BY <2>6, <3>0, <3>2
      <4>2. BlockHeard(t, b, c.items[b])
        BY <2>2, <2>3 DEF ClaudeHeard
      <4>3. c.items[x].item # i
        BY <3>0, <3>2, <4>2 DEF BlockHeard
      <4>4. v.items[c.items[x].item] = t.items[c.items[x].item]
        BY <2>9, <3>0, <4>3 DEF BlockHeard, Finishes
      <4> QED
        BY <2>9, <3>0, <4>1, <4>4 DEF BlockHeard, Finishes
    <3> QED
      BY <3>1, <3>2
  <2>12. \A j \in DOMAIN v.items : \E x \in DOMAIN d.items : d.items[x].item = j
    <3>1. \A x \in DOMAIN c.items : d.items[x].item = c.items[x].item
      BY <2>6, <2>7, Zenon
    <3> QED
      BY <2>2, <2>6, <2>9, <3>1 DEF ClaudeHeard, Finishes
  <2>13. ClaudeHeard(v, d)
    <3>1. /\ ~d.sentDone /\ d.nextIndex \in Nat
          /\ DOMAIN d.items = 0..(d.nextIndex - 1)
      BY <2>2, <2>6 DEF ClaudeHeard
    <3>2. IsReader(v) /\ v.phase = "open"
      BY <2>9 DEF Finishes
    <3> QED
      BY <2>6, <2>11, <2>12, <3>1, <3>2 DEF ClaudeHeard
  <2>14. SameItems(c, d)
    BY <2>6, <2>7, Zenon DEF SameItems
  <2> QED
    BY <2>1, <2>10, <2>13, <2>14 DEF ClaudeGood
<1> QED
  BY <1>1, <1>2

ClaudeKinds == {"message", "reasoning", "function_call", "web_search_call"}

\* d knows the blocks that c knows, as the same items, and block b as one of that kind.
BlockKnown(c, d, b, kind) ==
    /\ DOMAIN d.items = DOMAIN c.items \cup {b}
    /\ \A x \in DOMAIN c.items : d.items[x].item = c.items[x].item
    /\ Kind(d.items[b].item) = kind

\* After a block is ensured, and after what is said of it, it is the block the
\* upstream means.
LEMMA EnsuredKnown ==
    ASSUME NEW c, NEW m, NEW d, NEW b, NEW kind, Ensured(c, m, b, kind), SameItems(m, d),
           b \in DOMAIN c.items => Kind(c.items[b].item) = kind
    PROVE  BlockKnown(c, d, b, kind)
<1>1. /\ DOMAIN m.items = DOMAIN c.items \cup {b}
      /\ \A x \in DOMAIN c.items : m.items[x] = c.items[x]
      /\ Kind(m.items[b].item) = kind
  BY DEF Ensured
<1>2. DOMAIN d.items = DOMAIN m.items /\ \A x \in DOMAIN m.items : d.items[x].item = m.items[x].item
  BY DEF SameItems
<1>3. b \in DOMAIN m.items /\ \A x \in DOMAIN c.items : x \in DOMAIN m.items
  BY <1>1
<1> QED
  BY <1>1, <1>2, <1>3 DEF BlockKnown

\* A block starts.
LEMMA ClaudeStarts ==
    ASSUME NEW r, NEW c, ClaudeGood(r, c), NEW b, b = c.nextIndex, NEW kind \in ClaudeKinds,
           BlockItem(kind, b) \in ItemNumbers, NEW n, NEW sig
    PROVE  LET d == L!StartBlock(c, b, kind, n, sig) IN
           ClaudeGood(r, d) /\ BlockKnown(c, d, b, kind)
<1> DEFINE m == L!Ensure(c, b, kind)
<1>1. ClaudeGood(r, m) /\ Ensured(c, m, b, kind)
  BY ClaudeEnsures
<1>2. b \notin DOMAIN c.items
  BY ClaudeShape
<1> DEFINE d == L!StartBlock(c, b, kind, n, sig)
<1>3. CASE kind = "reasoning"
  <2> DEFINE s == L!Sign(m, b, sig)
             w == L!Thinking(s, b, n)
  <2>1. d = w
    BY <1>3 DEF L!StartBlock
  <2> HIDE DEF m, d
  <2>2. b \in DOMAIN m.items
    BY <1>1 DEF Ensured
  <2>3. ClaudeGood(r, s) /\ SameItems(m, s)
    BY <1>1, <2>2, ClaudeSigns
  <2> HIDE DEF s
  <2>4. b \in DOMAIN s.items
    BY <2>2, <2>3 DEF SameItems
  <2>5. ClaudeGood(r, w) /\ SameItems(s, w)
    BY <2>3, <2>4, ClaudeThinks
  <2> HIDE DEF w
  <2>6. SameItems(m, w)
    BY <2>3, <2>5 DEF SameItems
  <2> QED
    BY <1>1, <1>2, <2>1, <2>5, <2>6, EnsuredKnown DEF d
<1>4. CASE kind = "function_call"
  <2> DEFINE w == [m EXCEPT !.items[b].inline = n]
  <2>1. d = w
    BY <1>4 DEF L!StartBlock
  <2> HIDE DEF m, d
  <2>2. b \in DOMAIN m.items /\ Kind(m.items[b].item) = "function_call"
    BY <1>1, <1>2, <1>4 DEF Ensured
  <2>3. ClaudeGood(r, w) /\ SameItems(m, w)
    BY <1>1, <2>2, ClaudeKeepsInline, Zenon
  <2> HIDE DEF w
  <2> QED
    BY <1>1, <1>2, <2>1, <2>3, EnsuredKnown DEF d
<1>5. CASE kind \in {"message", "web_search_call"}
  <2>1. d = m
    BY <1>5 DEF L!StartBlock
  <2>2. SameItems(m, m)
    BY DEF SameItems
  <2> HIDE DEF m, d
  <2> QED
    BY <1>1, <1>2, <2>1, <2>2, EnsuredKnown DEF d
<1> QED
  BY <1>3, <1>4, <1>5 DEF ClaudeKinds

\* A block is written, or heard of for the first time in a delta.
LEMMA ClaudeWritten ==
    ASSUME NEW r, NEW c, ClaudeGood(r, c), NEW b, NEW kind \in ClaudeKinds,
           \/ b \in DOMAIN c.items /\ Kind(c.items[b].item) = kind
           \/ b = c.nextIndex /\ kind # "web_search_call" /\ BlockItem(kind, b) \in ItemNumbers,
           NEW n
    PROVE  LET d == L!WriteBlock(c, b, ClaudeDelta(kind), n) IN
           ClaudeGood(r, d) /\ BlockKnown(c, d, b, kind)
<1> DEFINE m == L!Ensure(c, b, kind)
           d == L!WriteBlock(c, b, ClaudeDelta(kind), n)
<1>0. b \in DOMAIN c.items => Kind(c.items[b].item) = kind
  BY ClaudeShape
<1>1. ClaudeGood(r, m) /\ Ensured(c, m, b, kind)
  BY ClaudeEnsures
<1>2. b \in DOMAIN m.items /\ Kind(m.items[b].item) = kind
  BY <1>0, <1>1 DEF Ensured
<1>3. kind # "reasoning" => ~m.items[b].closed
  BY <1>1, <1>2, Zenon DEF ClaudeGood, ClaudeHeard, BlockHeard
<1>4. CASE kind = "reasoning"
  <2>1. d = L!Thinking(m, b, n)
    BY <1>4 DEF L!WriteBlock, ClaudeDelta
  <2> HIDE DEF m, d
  <2>2. ClaudeGood(r, d) /\ SameItems(m, d)
    BY <1>1, <1>2, <2>1, ClaudeThinks
  <2> QED
    BY <1>0, <1>1, <2>2, EnsuredKnown DEF d
<1>5. CASE kind = "message"
  <2>1. d = L!Text(m, b, n)
    BY <1>5 DEF L!WriteBlock, ClaudeDelta
  <2> HIDE DEF m, d
  <2>2. ClaudeGood(r, d) /\ SameItems(m, d)
    BY <1>1, <1>2, <1>3, <1>5, <2>1, ClaudeTexts
  <2> QED
    BY <1>0, <1>1, <2>2, EnsuredKnown DEF d
<1>6. CASE kind = "function_call"
  <2>1. d = L!Arguments(m, b, n)
    BY <1>0, <1>6 DEF L!WriteBlock, ClaudeDelta
  <2> HIDE DEF m, d
  <2>2. ClaudeGood(r, d) /\ SameItems(m, d)
    BY <1>1, <1>2, <1>3, <1>6, <2>1, ClaudeArguments
  <2> QED
    BY <1>0, <1>1, <2>2, EnsuredKnown DEF d
<1>7. CASE kind = "web_search_call"
  <2>1. b \in DOMAIN c.items
    BY <1>7
  <2>2. d = c
    BY <1>0, <1>7, <2>1 DEF L!WriteBlock, ClaudeDelta
  <2> HIDE DEF d
  <2>3. BlockKnown(c, d, b, kind)
    BY <1>0, <2>1, <2>2 DEF BlockKnown
  <2> QED
    BY <2>2, <2>3 DEF d
<1> QED
  BY <1>4, <1>5, <1>6, <1>7 DEF ClaudeKinds

----------------------------------------------------------------------------
(* The end of an Anthropic upstream's response.                            *)

\* The blocks in the order of their output_index are all the blocks.
LEMMA ByIndexLists ==
    ASSUME NEW r, NEW c, ClaudeGood(r, c)
    PROVE  Lists(L!ByIndex(c), DOMAIN c.items)
<1> DEFINE S == DOMAIN c.items
           k == [b \in S |-> OutputIndex(c.items[b].item)]
           P(x, j) == Cardinality({y \in S : OutputIndex(c.items[y].item)
                                                < OutputIndex(c.items[x].item)}) = j - 1
           q == [j \in 1..Cardinality(S) |-> CHOOSE x \in S : P(x, j)]
<1>1. L!ByIndex(c) = q
  BY DEF L!ByIndex, L!ByRank, L!Cardinality, Cardinality
<1>2. S \in SUBSET Nat /\ IsFiniteSet(S)
  <2>1. c.nextIndex \in Nat /\ S = 0..(c.nextIndex - 1)
    BY ClaudeShape
  <2> QED
    BY <2>1, FS_Interval
<1>3. \A b \in S : OutputIndex(c.items[b].item) = b
  BY DEF ClaudeGood, ClaudeHeard, BlockHeard
<1>4. k \in [S -> Nat] /\ \A x, y \in S : k[x] = k[y] => x = y
  BY <1>2, <1>3
<1>5. ASSUME NEW x \in S, NEW j PROVE P(x, j) <=> Below(S, k, x) = j - 1
  <2>1. {y \in S : OutputIndex(c.items[y].item) < OutputIndex(c.items[x].item)}
            = {y \in S : k[y] < k[x]}
    OBVIOUS
  <2> QED
    BY <2>1, Zenon DEF Below
<1> HIDE DEF k, P, S
<1>6. ASSUME NEW j \in 1..Cardinality(S) PROVE \E x \in S : P(x, j)
  <2>1. \E x \in S : Below(S, k, x) = j - 1
    BY <1>2, <1>4, RankTaken, Zenon
  <2> QED
    BY <1>5, <2>1
<1>7. DOMAIN q = 1..Cardinality(S)
  OBVIOUS
<1>8. \A j \in DOMAIN q : q[j] \in S /\ P(q[j], j)
  BY <1>6
<1> HIDE DEF q
<1>9. \A j \in DOMAIN q : q[j] \in S /\ Below(S, k, q[j]) = j - 1
  BY <1>5, <1>8
<1>10. Lists(q, S)
  BY <1>2, <1>4, <1>7, <1>9, RankLists, Zenon
<1> QED
  BY <1>1, <1>10 DEF S

\* Arguments that were kept are told.
LEMMA ClaudeRestores ==
    ASSUME NEW r, NEW c, ClaudeGood(r, c), NEW b \in DOMAIN c.items
    PROVE  LET d == L!RestoreInline(c, b) IN ClaudeGood(r, d) /\ SameItems(c, d)
<1>1. CASE c.items[b].inline = 0
  BY <1>1 DEF L!RestoreInline, SameItems
<1>2. CASE c.items[b].inline # 0
  <2> DEFINE e == L!ArgsDelta(c.items[b].item, c.items[b].inline)
             d == [L!Push(c, e) EXCEPT !.items[b].n = c.items[b].inline,
                                       !.items[b].inline = 0]
  <2>1. L!RestoreInline(c, b) = d
    BY <1>2, Zenon DEF L!RestoreInline
  <2>2. DOMAIN c = ClaudeFields /\ DOMAIN c.items[b] = BlockFields
    BY ClaudeShape
  <2>3. e.type \in Says /\ e.of.item = c.items[b].item
    BY DEF L!ArgsDelta, L!Delta, Says
  <2>4. ~c.items[b].closed
    BY <1>2 DEF ClaudeGood, ClaudeHeard, BlockHeard
  <2> HIDE DEF e
  <2>5. /\ DOMAIN d = DOMAIN c /\ d.sentDone = c.sentDone /\ d.nextIndex = c.nextIndex
        /\ d.out = Append(c.out, e)
        /\ DOMAIN d.items = DOMAIN c.items
        /\ \A x \in DOMAIN c.items : x # b => d.items[x] = c.items[x]
        /\ d.items[b] = [c.items[b] EXCEPT !.n = c.items[b].inline, !.inline = 0]
    BY <2>2 DEF L!Push, ClaudeFields, BlockFields
  <2> HIDE DEF d
  <2>6. SameBlocks(c, d)
    <3>1. /\ DOMAIN d.items[b] = DOMAIN c.items[b]
          /\ d.items[b].item = c.items[b].item /\ d.items[b].closed = c.items[b].closed
          /\ d.items[b].inline = 0
      BY <2>2, <2>5 DEF BlockFields
    <3> QED
      BY <2>5, <3>1, Zenon DEF SameBlocks
  <2>7. ClaudeGood(r, d)
    BY <2>3, <2>4, <2>5, <2>6, ClaudeSays
  <2> QED
    BY <2>1, <2>6, <2>7 DEF SameItems, SameBlocks
<1> QED
  BY <1>1, <1>2

\* x holds the reader and the converter before.
RestoredAt(x, k, s) == ClaudeGood(x.r, s) /\ SameItems(x.c, s)
InlineFold == INSTANCE FoldLemmas WITH Op <- L!RestoreInline, At <- RestoredAt

\* What was kept inline in a text is said before a response ends.
LEMMA RestoreAllGood ==
    ASSUME NEW r, NEW c, ClaudeGood(r, c)
    PROVE  LET d == L!RestoreAll(c) IN ClaudeGood(r, d) /\ SameItems(c, d)
<1> DEFINE q == L!ByIndex(c)
           x == [r |-> r, c |-> c]
           d == L!FoldOver(L!RestoreInline, c, q)
<1>1. Lists(q, DOMAIN c.items)
  BY ByIndexLists
<1>2. L!RestoreAll(c) = d
  BY DEF L!RestoreAll
<1> HIDE DEF q
<1>3. PICK m \in Nat : DOMAIN q = 1..m
  BY <1>1 DEF Lists
<1>4. RestoredAt(x, 0, c)
  BY DEF RestoredAt, SameItems
<1>5. ASSUME NEW k \in 1..m, NEW s, RestoredAt(x, k - 1, s)
      PROVE  RestoredAt(x, k, L!RestoreInline(s, q[k]))
  <2> DEFINE b == q[k]
             u == L!RestoreInline(s, b)
  <2>1. ClaudeGood(r, s) /\ SameItems(c, s)
    BY <1>5 DEF RestoredAt
  <2>2. b \in DOMAIN s.items
    BY <1>1, <1>3, <2>1 DEF Lists, SameItems
  <2> HIDE DEF b
  <2>3. ClaudeGood(r, u) /\ SameItems(s, u)
    BY <2>1, <2>2, ClaudeRestores
  <2> HIDE DEF u
  <2>4. SameItems(c, u)
    BY <2>1, <2>3 DEF SameItems
  <2>5. RestoredAt(x, k, u)
    BY <2>3, <2>4 DEF RestoredAt
  <2> QED
    BY <2>5 DEF u, b
<1> HIDE DEF x, d
<1>6. RestoredAt(x, m, InlineFold!FoldOver(L!RestoreInline, c, q))
  BY <1>3, <1>4, <1>5, InlineFold!FoldReaches, Least, Zenon DEF InlineFold!Least
<1>7. d = InlineFold!FoldOver(L!RestoreInline, c, q)
  BY DEF d, L!FoldOver, L!MapThenFoldSet, InlineFold!FoldOver, InlineFold!MapThenFoldSet
<1>8. RestoredAt(x, m, d)
  BY <1>6, <1>7
<1> QED
  BY <1>2, <1>8 DEF RestoredAt, x

\* After the first k blocks of q were finished: x holds the reader, the items, those finished
\* before, the converter before and the blocks.
BlocksEndedAt(x, k, s) ==
    /\ DOMAIN s = ClaudeFields /\ s.items = x.c.items
    /\ Closing(x.r, s.out, x.its, x.done \cup {x.c.items[x.q[j]].item : j \in 1..k})
BlockFold == INSTANCE FoldLemmas WITH Op <- L!FinishItem, At <- BlocksEndedAt

\* What is sent for a block ends its item.
LEMMA BlockEnds ==
    ASSUME NEW r, NEW c, ClaudeGood(r, c), NEW s, s.items = c.items, NEW b \in DOMAIN c.items
    PROVE  EndsItem(L!DoneEvents(s, b), c.items[b].item, c.items[b].closed)
<1> DEFINE f == L!FinalItem(s, b)
           i == c.items[b].item
           e == L!ItemDone(f)
           shut == c.items[b].closed
<1>1. f.item = i
  BY DEF L!FinalItem, L!Told
<1>2. shut \in BOOLEAN /\ (shut => Kind(i) = "reasoning")
  BY DEF ClaudeGood, ClaudeHeard, BlockHeard
<1> HIDE DEF f
<1>3. e.type = "itemDone" /\ e.of.item = i
  BY <1>1 DEF L!ItemDone
<1>4. L!DoneEvents(s, b) =
        CASE Kind(i) = "reasoning" -> IF shut THEN <<>> ELSE <<e>>
          [] Kind(i) = "message" -> <<L!TextDone(i, f.n), e>>
          [] Kind(i) = "function_call" -> <<L!ArgsDone(i, f.n), e>>
          [] OTHER -> <<e>>
  BY <1>1 DEF L!DoneEvents, f
<1> HIDE DEF i, e, shut
<1>5. CASE Kind(i) = "reasoning"
  BY <1>2, <1>3, <1>4, <1>5 DEF EndsItem, i, shut
<1>6. CASE Kind(i) = "message"
  <2> DEFINE a == L!TextDone(i, f.n)
  <2>1. a.type \in Says /\ a.of.item = i
    BY DEF L!TextDone, L!Delta, Says
  <2>2. L!DoneEvents(s, b) = <<a, e>>
    BY <1>4, <1>6
  <2> HIDE DEF a
  <2> QED
    BY <1>2, <1>3, <1>6, <2>1, <2>2 DEF EndsItem, i, shut
<1>7. CASE Kind(i) = "function_call"
  <2> DEFINE a == L!ArgsDone(i, f.n)
  <2>1. a.type \in Says /\ a.of.item = i
    BY DEF L!ArgsDone, L!Delta, Says
  <2>2. L!DoneEvents(s, b) = <<a, e>>
    BY <1>4, <1>7
  <2> HIDE DEF a
  <2> QED
    BY <1>2, <1>3, <1>7, <2>1, <2>2 DEF EndsItem, i, shut
<1>8. CASE Kind(i) \notin {"reasoning", "message", "function_call"}
  <2>1. L!DoneEvents(s, b) = <<e>>
    BY <1>4, <1>8
  <2> QED
    BY <1>2, <1>3, <1>8, <2>1 DEF EndsItem, i, shut
<1> QED
  BY <1>5, <1>6, <1>7, <1>8

\* finish_response ends every open block once, then the response, then the
\* stream.
LEMMA ClaudeCloses ==
    ASSUME NEW r, NEW c, ClaudeGood(r, c), NEW last,
           DOMAIN last = {"type", "of", "output", "reason"}, last.type \in Ends
    PROVE  LET d == L!FinishResponse(c, last) IN DOMAIN d = ClaudeFields /\ Concluded(r, d)
<1> DEFINE q == L!ByIndex(c)
           f == L!RestoreAll(c)
           S == DOMAIN c.items
           its == {f.items[b].item : b \in S}
           done == {f.items[b].item : b \in {y \in S : f.items[y].closed}}
           x == [r |-> r, c |-> f, its |-> its, done |-> done, q |-> q]
           g == L!FoldOver(L!FinishItem, f, q)
           output == [j \in DOMAIN q |-> L!FinalItem(f, q[j])]
           e == [last EXCEPT !.output = output]
           d == L!PushLast(g, e)
<1>1. Lists(q, S)
  BY ByIndexLists
<1>2. L!FinishResponse(c, last) = d
  <2>1. ~c.sentDone
    BY ClaudeShape
  <2> QED
    BY <2>1 DEF L!FinishResponse, L!Ending
<1> HIDE DEF q
<1>3. ClaudeGood(r, f) /\ DOMAIN f.items = S
  BY RestoreAllGood DEF SameItems
<1> HIDE DEF f
<1>4. PICK t : Reads(r, f.out, t) /\ ClaudeHeard(t, f)
  BY <1>3 DEF ClaudeGood
<1>5. PICK m \in Nat : DOMAIN q = 1..m
  BY <1>1 DEF Lists
<1>6. \A a, b \in S : f.items[a].item = f.items[b].item => a = b
  BY <1>3, <1>4 DEF ClaudeHeard, BlockHeard
<1>7. \A b \in S : f.items[b].item \in done <=> f.items[b].closed = TRUE
  <2>1. \A b \in S : f.items[b].closed \in BOOLEAN
    BY <1>3, <1>4 DEF ClaudeHeard, BlockHeard
  <2> QED
    BY <1>6, <2>1
<1>8. Closing(r, f.out, its, done)
  <2>1. \A b \in S : BlockHeard(t, b, f.items[b])
    BY <1>3, <1>4 DEF ClaudeHeard
  <2>2. DOMAIN t.items = its
    BY <1>3, <1>4, <2>1 DEF ClaudeHeard, BlockHeard
  <2>3. ASSUME NEW b \in S
        PROVE  t.items[f.items[b].item].finished = IF f.items[b].item \in done THEN 1 ELSE 0
    BY <1>7, <2>1 DEF BlockHeard
  <2>4. \A i \in its : t.items[i].finished = IF i \in done THEN 1 ELSE 0
    BY <2>3
  <2>5. IsReader(t) /\ t.phase = "open"
    BY <1>4 DEF ClaudeHeard
  <2> HIDE DEF its, done
  <2> QED
    BY <1>4, <2>2, <2>4, <2>5 DEF Closing
<1> HIDE DEF done
<1>9. BlocksEndedAt(x, 0, f)
  <2>1. {f.items[q[j]].item : j \in 1..0} = {}
    OBVIOUS
  <2>2. done \cup {f.items[q[j]].item : j \in 1..0} = done
    BY <2>1
  <2>3. Closing(r, f.out, its, done \cup {f.items[q[j]].item : j \in 1..0})
    BY <1>8, <2>2, Zenon
  <2>4. DOMAIN f = ClaudeFields
    BY <1>4 DEF ClaudeHeard
  <2> HIDE DEF its
  <2> QED
    BY <2>3, <2>4 DEF BlocksEndedAt
<1>10. ASSUME NEW k \in 1..m, NEW s, BlocksEndedAt(x, k - 1, s)
       PROVE  BlocksEndedAt(x, k, L!FinishItem(s, q[k]))
  <2> DEFINE b == q[k]
             i == f.items[b].item
             was == done \cup {f.items[q[j]].item : j \in 1..(k - 1)}
             u == L!FinishItem(s, b)
             ev == L!DoneEvents(s, b)
  <2>1. DOMAIN s = ClaudeFields /\ s.items = f.items /\ Closing(r, s.out, its, was)
    BY <1>10 DEF BlocksEndedAt
  <2>2. b \in S /\ i \in its
    BY <1>1, <1>5 DEF Lists
  <2>3. i \in was <=> i \in done
    <3>1. ASSUME NEW j \in 1..(k - 1) PROVE f.items[q[j]].item # i
      <4>1. j \in DOMAIN q /\ k \in DOMAIN q /\ j # k
        BY <1>5
      <4>2. q[j] \in S /\ q[j] # b
        BY <1>1, <4>1 DEF Lists
      <4> QED
        BY <1>6, <2>2, <4>2
    <3> QED
      BY <3>1
  <2>4. EndsItem(ev, i, i \in was)
    <3>1. EndsItem(ev, i, f.items[b].closed)
      BY <1>3, <2>1, <2>2, BlockEnds
    <3>2. f.items[b].closed \in BOOLEAN
      BY <1>3, <1>4, <2>2, Zenon DEF ClaudeHeard, BlockHeard
    <3>3. f.items[b].closed <=> i \in was
      BY <1>7, <2>2, <2>3, <3>2
    <3> HIDE DEF ev, i, was
    <3> QED
      BY <3>1, <3>3 DEF EndsItem
  <2>5. was \cup {i} = done \cup {f.items[q[j]].item : j \in 1..k}
    OBVIOUS
  <2>6. DOMAIN u = ClaudeFields /\ u.items = f.items /\ u.out = s.out \o ev
    BY <2>1 DEF L!FinishItem, ClaudeFields
  <2> HIDE DEF i, was, u, ev, its, b
  <2>7. Closing(r, u.out, its, was \cup {i})
    BY <2>1, <2>2, <2>4, <2>6, ClosingNext
  <2>8. Closing(r, u.out, its, done \cup {f.items[q[j]].item : j \in 1..k})
    BY <2>5, <2>7
  <2>9. BlocksEndedAt(x, k, u)
    BY <2>6, <2>8 DEF BlocksEndedAt
  <2> QED
    BY <2>9 DEF u, b
<1> HIDE DEF x, g
<1>11. BlocksEndedAt(x, m, BlockFold!FoldOver(L!FinishItem, f, q))
  BY <1>5, <1>9, <1>10, BlockFold!FoldReaches, Least, Zenon DEF BlockFold!Least
<1>12. g = BlockFold!FoldOver(L!FinishItem, f, q)
  BY DEF g, L!FoldOver, L!MapThenFoldSet, BlockFold!FoldOver, BlockFold!MapThenFoldSet
<1>13. BlocksEndedAt(x, m, g)
  BY <1>11, <1>12
<1> DEFINE all == done \cup {f.items[q[j]].item : j \in 1..m}
<1>14. DOMAIN g = ClaudeFields /\ Closing(r, g.out, its, all)
  BY <1>13 DEF BlocksEndedAt, x
<1>15. \A b \in S : \E j \in 1..m : q[j] = b
  BY <1>1, <1>5 DEF Lists
<1>16. its \subseteq all
  BY <1>15
<1>17. its = {e.output[j].item : j \in DOMAIN e.output}
  <2>1. e.output = output /\ DOMAIN output = 1..m
    BY <1>5
  <2>2. \A j \in 1..m : output[j].item = f.items[q[j]].item
    BY <1>5 DEF L!FinalItem, L!Told
  <2>3. \A j \in 1..m : q[j] \in S
    BY <1>1, <1>5 DEF Lists
  <2> HIDE DEF output
  <2>4. {output[j].item : j \in 1..m} = {f.items[q[j]].item : j \in 1..m}
    BY <2>2
  <2>5. its = {f.items[q[j]].item : j \in 1..m}
    BY <1>15, <2>3
  <2> HIDE DEF e, its
  <2>6. {e.output[j].item : j \in DOMAIN e.output} = {output[j].item : j \in 1..m}
    BY <2>1
  <2> QED
    BY <2>4, <2>5, <2>6
<1>18. e.type \in Ends
  OBVIOUS
<1>19. L!DoneMark.type = "[DONE]"
  BY DEF L!DoneMark
<1>20. DOMAIN d = ClaudeFields /\ d.sentDone = TRUE /\ d.out = g.out \o <<e, L!DoneMark>>
  BY <1>14 DEF L!PushLast, ClaudeFields
<1> HIDE DEF d, e, its, all
<1> DEFINE h == L!DoneMark
<1> HIDE DEF h
<1>21. \E v : Reads(r, g.out \o <<e, h>>, v) /\ v.phase = "ended"
  BY <1>14, <1>16, <1>17, <1>18, <1>19, ClosingLast DEF h
<1> QED
  BY <1>2, <1>20, <1>21 DEF h, Concluded

\* The message is over, or the upstream failed: the response is concluded.
LEMMA ClaudeDoneConcluded ==
    ASSUME NEW r, NEW c, ClaudeGood(r, c)
    PROVE  Concluded(r, L!PushDone(c))
<1> DEFINE last == L!Terminal(c.reason, <<>>)
<1>1. DOMAIN last = {"type", "of", "output", "reason"} /\ last.type \in Ends
  BY DEF L!Terminal, Ends
<1>2. L!PushDone(c) = L!FinishResponse(c, last)
  BY DEF L!PushDone
<1> HIDE DEF last
<1> QED
  BY <1>1, <1>2, ClaudeCloses

\* push_error ends the open blocks as well, then the response as failed.
LEMMA ClaudeErrsConcluded ==
    ASSUME NEW r, NEW c, ClaudeGood(r, c)
    PROVE  LET d == L!PushError(c) IN DOMAIN d = ClaudeFields /\ Concluded(r, d)
<1> DEFINE b == L!Log(c, "error")
           last == L!Failed
           f == L!FinishResponse(b, last)
           d == [f EXCEPT !.ended = TRUE]
<1>1. DOMAIN c = ClaudeFields /\ ~c.sentDone
  BY ClaudeShape
<1>2. L!PushError(c) = d
  BY <1>1 DEF L!PushError
<1>3. SameBlocks(c, b) /\ b.out = c.out
  BY <1>1 DEF SameBlocks, L!Log, ClaudeFields
<1> HIDE DEF b
<1>4. ClaudeGood(r, b)
  BY <1>3, ClaudeQuiet
<1>5. DOMAIN last = {"type", "of", "output", "reason"} /\ last.type \in Ends
  BY DEF L!Failed, Ends
<1> HIDE DEF last
<1>6. DOMAIN f = ClaudeFields /\ Concluded(r, f)
  BY <1>4, <1>5, ClaudeCloses
<1> HIDE DEF f
<1>7. DOMAIN d = ClaudeFields /\ d.out = f.out /\ d.sentDone = f.sentDone
  BY <1>6 DEF ClaudeFields
<1> HIDE DEF d
<1> QED
  BY <1>2, <1>6, <1>7 DEF Concluded

----------------------------------------------------------------------------
(* An Anthropic upstream's stream.                                         *)

\* The converter knows the blocks the upstream has told of; data that is redacted is reasoning.
BlocksMatch(c, u) ==
    /\ DOMAIN u.blocks = DOMAIN c.items
    /\ \A b \in DOMAIN u.blocks :
          /\ "kind" \in DOMAIN u.blocks[b]
          /\ Kind(c.items[b].item) = IF u.blocks[b].kind = "redacted" THEN "reasoning"
                                     ELSE u.blocks[b].kind

\* What was read of the stream fits, and what is queued will; the converter still works on
\* the message, has concluded it, or is gone.
ClaudeLive(r, c, u) == ClaudeGood(r, c) /\ BlocksMatch(c, u)
ClaudeStream ==
    route \in ClaudeRoutes =>
        /\ IsReader(read)
        /\ claude.gone \/ ClaudeLive(read, claude, up) \/ Concluded(read, claude)

\* A stream begins with response.created queued or heard.
LEMMA ClaudeStreamStarts == Init => ClaudeStream
<1> SUFFICES ASSUME Init, route \in ClaudeRoutes PROVE ClaudeStream
  BY DEF ClaudeStream
<1> DEFINE e == L!Created
           t == Hear(NothingRead, e)
<1>1. claude = L!NewClaude /\ up.blocks = <<>> /\ read = NothingRead
  BY DEF Init, L!Init, ClaudeRoutes, NothingSent
<1>2. claude.out = Append(<<>>, e)
  BY <1>1 DEF L!NewClaude
<1>3. DOMAIN <<>> = {}
  OBVIOUS
<1>4. IsReader(NothingRead) /\ NothingRead.phase = "new" /\ DOMAIN NothingRead.items = {}
  BY <1>3 DEF IsReader, NothingRead, ReadFields
<1>5. e.type = "created"
  BY DEF L!Created
<1> HIDE DEF e
<1>6. Fits(NothingRead, e)
  BY <1>4, <1>5 DEF Fits
<1>7. t.phase = "open" /\ t.items = NothingRead.items
  BY <1>4, <1>5 DEF Hear, IsReader, ReadFields
<1>8. IsReader(t)
  BY <1>4, <1>6, HearFits
<1>9. Reads(NothingRead, claude.out, t)
  BY <1>2, <1>6, ReadsNothing, ReadsMore, Zenon
<1> HIDE DEF t
<1>10. /\ DOMAIN claude = ClaudeFields /\ ~claude.sentDone
       /\ claude.nextIndex = 0 /\ claude.items = <<>>
  BY <1>1 DEF L!NewClaude, ClaudeFields
<1>11. 0..(0 - 1) = {}
  OBVIOUS
<1>12. ClaudeHeard(t, claude)
  BY <1>3, <1>4, <1>7, <1>8, <1>10, <1>11 DEF ClaudeHeard
<1>13. BlocksMatch(claude, up)
  BY <1>1, <1>3, <1>10 DEF BlocksMatch
<1> QED
  BY <1>1, <1>4, <1>9, <1>12, <1>13 DEF ClaudeStream, ClaudeLive, ClaudeGood

\* While it reads, it works on the message.
LEMMA ClaudeStreamReads ==
    ASSUME OutcomeInv, ClaudeStream, route \in ClaudeRoutes, L!Reading
    PROVE  /\ IsReader(read) /\ ClaudeGood(read, claude) /\ BlocksMatch(claude, up)
           /\ NextBlock = claude.nextIndex /\ DOMAIN up = UpFields
<1>1. ~claude.sentDone /\ ~claude.gone /\ DOMAIN up = UpFields
  BY ClaudeReads DEF UpFine
<1>2. IsReader(read) /\ ClaudeGood(read, claude) /\ BlocksMatch(claude, up)
  BY <1>1 DEF ClaudeStream, ClaudeLive, Concluded
<1>3. claude.nextIndex \in Nat /\ DOMAIN up.blocks = 0..(claude.nextIndex - 1)
  BY <1>2, ClaudeShape DEF BlocksMatch
<1> DEFINE n == claude.nextIndex
<1>4. Cardinality(0..(n - 1)) = n
  <2> HIDE DEF n
  <2> QED
    BY <1>3, FS_Interval DEF n
<1> QED
  BY <1>1, <1>2, <1>3, <1>4 DEF NextBlock

\* The upstream has told of a block the converter is told of.
LEMMA BlocksTold ==
    ASSUME NEW c, NEW d, NEW b, NEW kind, BlockKnown(c, d, b, kind), BlocksMatch(c, up),
           DOMAIN up = UpFields, NEW block, "kind" \in DOMAIN block,
           kind = IF block.kind = "redacted" THEN "reasoning" ELSE block.kind,
           NEW n
    PROVE  BlocksMatch(d, Wrote(up, b, block, n))
<1> DEFINE k == [block EXCEPT !.n = @ + n]
           w == Wrote(up, b, block, n)
<1>1. w.blocks = With(up.blocks, b, k)
  BY DEF Wrote, Tick, UpFields
<1>2. "kind" \in DOMAIN k /\ k.kind = block.kind
  OBVIOUS
<1> HIDE DEF k, w
<1>3. DOMAIN w.blocks = DOMAIN up.blocks \cup {b} /\ w.blocks[b] = k
  BY <1>1 DEF With
<1>4. \A x \in DOMAIN up.blocks : x # b => w.blocks[x] = up.blocks[x]
  BY <1>1 DEF With
<1>5. DOMAIN w.blocks = DOMAIN d.items
  BY <1>3 DEF BlocksMatch, BlockKnown
<1>6. ASSUME NEW x \in DOMAIN w.blocks
      PROVE  /\ "kind" \in DOMAIN w.blocks[x]
             /\ Kind(d.items[x].item) = IF w.blocks[x].kind = "redacted" THEN "reasoning"
                                        ELSE w.blocks[x].kind
  <2>1. CASE x = b
    BY <1>2, <1>3, <2>1 DEF BlockKnown
  <2>2. CASE x # b
    <3>1. x \in DOMAIN up.blocks /\ w.blocks[x] = up.blocks[x]
      BY <1>3, <1>4, <2>2
    <3>2. d.items[x].item = c.items[x].item
      BY <3>1 DEF BlocksMatch, BlockKnown
    <3> QED
      BY <3>1, <3>2 DEF BlocksMatch
  <2> QED
    BY <2>1, <2>2
<1> QED
  BY <1>5, <1>6 DEF BlocksMatch, w

\* The kinds of an Anthropic upstream's blocks, and the items they become.
LEMMA ClaudeItems ==
    ASSUME NEW kind \in NativeKinds \ {"commentary"}
    PROVE  /\ kind \in ClaudeKinds /\ kind # "redacted"
           /\ \A b \in Nat : b < MaxItems => BlockItem(kind, b) \in ItemNumbers
<1>1. kind \in ClaudeKinds /\ kind # "redacted"
  BY StreamAssumption, Zenon DEF ClaudeKinds
<1>2. MaxItems \in Nat /\ MaxBlocks \in Nat /\ MaxItems <= MaxBlocks
  BY StreamAssumption
<1>3. ASSUME NEW b \in Nat, b < MaxItems PROVE BlockItem(kind, b) \in ItemNumbers
  <2>1. b \in 0..MaxBlocks /\ b \in 0..MaxItems
    BY <1>2, <1>3
  <2> QED
    BY <1>1, <2>1 DEF BlockItem, ItemNumbers, ClaudeKinds
<1> QED
  BY <1>1, <1>3

\* content_block_start.
LEMMA BlockOpensStream ==
    ASSUME OutcomeInv, ClaudeStream, NEW kind \in NativeKinds \ {"commentary"},
           NEW n \in 0..Full, NEW sig, BlockOpens(kind, n, sig)
    PROVE  ClaudeStream'
<1> DEFINE b == NextBlock
<1>1. /\ route \in ClaudeRoutes /\ L!Reading /\ route' = route /\ read' = read
      /\ b < MaxItems /\ claude' = L!StartBlock(claude, b, kind, n, sig)
      /\ up' = IF kind = "reasoning"
               THEN Wrote(up, b, BlockOfKind(IF sig = "redacted" THEN sig ELSE kind, 0), n)
               ELSE Wrote(up, b, BlockOfKind(kind, n), 0)
  BY DEF BlockOpens, ClaudeSends, ClaudeRead, L!ReceiveStart, ClaudeUnchanged
<1>2. /\ IsReader(read) /\ ClaudeGood(read, claude) /\ BlocksMatch(claude, up)
      /\ b = claude.nextIndex /\ DOMAIN up = UpFields
  BY <1>1, ClaudeStreamReads
<1> HIDE DEF b
<1>3. b \in Nat
  BY <1>2, ClaudeShape
<1>4. kind \in ClaudeKinds /\ kind # "redacted" /\ BlockItem(kind, b) \in ItemNumbers
  BY <1>1, <1>3, ClaudeItems
<1>5. ClaudeGood(read, claude') /\ BlockKnown(claude, claude', b, kind)
  BY <1>1, <1>2, <1>4, ClaudeStarts
<1>6. BlocksMatch(claude', up')
  <2>1. \A k, i : "kind" \in DOMAIN BlockOfKind(k, i) /\ BlockOfKind(k, i).kind = k
    BY DEF BlockOfKind
  <2>2. CASE kind = "reasoning"
    <3> DEFINE x == BlockOfKind(IF sig = "redacted" THEN sig ELSE kind, 0)
    <3>1. "kind" \in DOMAIN x /\ kind = IF x.kind = "redacted" THEN "reasoning" ELSE x.kind
      BY <2>1, <2>2
    <3>2. up' = Wrote(up, b, x, n)
      BY <1>1, <2>2
    <3> HIDE DEF x
    <3> QED
      BY <1>2, <1>5, <3>1, <3>2, BlocksTold
  <2>3. CASE kind # "reasoning"
    <3> DEFINE x == BlockOfKind(kind, n)
    <3>1. "kind" \in DOMAIN x /\ kind = IF x.kind = "redacted" THEN "reasoning" ELSE x.kind
      BY <1>4, <2>1
    <3>2. up' = Wrote(up, b, x, 0)
      BY <1>1, <2>3
    <3> HIDE DEF x
    <3> QED
      BY <1>2, <1>5, <3>1, <3>2, BlocksTold
  <2> QED
    BY <2>2, <2>3
<1> QED
  BY <1>1, <1>2, <1>5, <1>6 DEF ClaudeStream, ClaudeLive

\* content_block_delta for a block that is open upstream.
LEMMA BlockWrittenStream ==
    ASSUME OutcomeInv, ClaudeStream, NEW kind \in NativeKinds \ {"commentary"},
           NEW b \in 0..MaxItems, BlockWritten(b, kind)
    PROVE  ClaudeStream'
<1> DEFINE x == IF b = NextBlock THEN BlockOfKind(kind, 0) ELSE up.blocks[b]
<1>1. /\ route \in ClaudeRoutes /\ L!Reading /\ route' = route /\ read' = read
      /\ claude' = L!WriteBlock(claude, b, ClaudeDelta(kind), 1)
      /\ up' = Wrote(up, b, x, 1)
      /\ \/ b \in DOMAIN up.blocks /\ up.blocks[b].kind = kind
         \/ b = NextBlock /\ b < MaxItems /\ kind # "web_search_call"
  BY DEF BlockWritten, ClaudeSends, ClaudeRead, L!ReceiveDelta, ClaudeUnchanged
<1>2. /\ IsReader(read) /\ ClaudeGood(read, claude) /\ BlocksMatch(claude, up)
      /\ NextBlock = claude.nextIndex /\ DOMAIN up = UpFields
  BY <1>1, ClaudeStreamReads
<1>3. DOMAIN up.blocks = 0..(claude.nextIndex - 1) /\ claude.nextIndex \in Nat
  BY <1>2, ClaudeShape DEF BlocksMatch
<1>4. kind \in ClaudeKinds /\ kind # "redacted"
  BY ClaudeItems
<1>5. \/ b \in DOMAIN claude.items /\ Kind(claude.items[b].item) = kind
      \/ b = claude.nextIndex /\ kind # "web_search_call" /\ BlockItem(kind, b) \in ItemNumbers
  <2>1. CASE b \in DOMAIN up.blocks /\ up.blocks[b].kind = kind
    BY <1>2, <1>4, <2>1 DEF BlocksMatch
  <2>2. CASE b = NextBlock /\ b < MaxItems /\ kind # "web_search_call"
    BY <1>2, <1>3, <2>2, ClaudeItems
  <2> QED
    BY <1>1, <2>1, <2>2
<1>6. "kind" \in DOMAIN x /\ x.kind = kind
  <2>1. "kind" \in DOMAIN BlockOfKind(kind, 0) /\ BlockOfKind(kind, 0).kind = kind
    BY DEF BlockOfKind
  <2>2. b \in DOMAIN up.blocks => b # NextBlock /\ "kind" \in DOMAIN up.blocks[b]
    BY <1>2, <1>3 DEF BlocksMatch
  <2> QED
    BY <1>1, <2>1, <2>2
<1> HIDE DEF x
<1>7. ClaudeGood(read, claude') /\ BlockKnown(claude, claude', b, kind)
  BY <1>1, <1>2, <1>4, <1>5, ClaudeWritten, Zenon
<1>8. BlocksMatch(claude', up')
  BY <1>1, <1>2, <1>4, <1>6, <1>7, BlocksTold
<1> QED
  BY <1>1, <1>2, <1>7, <1>8 DEF ClaudeStream, ClaudeLive

\* The converter knows the same items, and the upstream has told of no other block.
LEMMA ClaudeStillLive ==
    ASSUME OutcomeInv, ClaudeStream, route \in ClaudeRoutes, L!Reading,
           NEW d, ClaudeGood(read, d), SameItems(claude, d),
           NEW u, DOMAIN u.blocks = DOMAIN up.blocks,
           \A b \in DOMAIN up.blocks :
              "kind" \in DOMAIN up.blocks[b] =>
                 "kind" \in DOMAIN u.blocks[b] /\ u.blocks[b].kind = up.blocks[b].kind
    PROVE  IsReader(read) /\ ClaudeLive(read, d, u)
<1>1. IsReader(read) /\ ClaudeGood(read, claude) /\ BlocksMatch(claude, up)
  BY ClaudeStreamReads
<1>2. BlocksMatch(d, u)
  BY <1>1 DEF BlocksMatch, SameItems
<1> QED
  BY <1>1, <1>2 DEF ClaudeLive

\* signature_delta.
LEMMA BlockSignedStream ==
    ASSUME OutcomeInv, ClaudeStream, NEW b \in DOMAIN up.blocks, BlockSigned(b)
    PROVE  ClaudeStream'
<1>1. /\ route \in ClaudeRoutes /\ L!Reading /\ route' = route /\ read' = read
      /\ claude' = L!WriteBlock(claude, b, "signature", 0) /\ up' = Tick(up)
      /\ up.blocks[b].kind = "reasoning"
  BY DEF BlockSigned, ClaudeSends, ClaudeRead, L!ReceiveDelta, ClaudeUnchanged
<1>2. ClaudeGood(read, claude) /\ BlocksMatch(claude, up) /\ DOMAIN up = UpFields
  BY <1>1, ClaudeStreamReads
<1>3. b \in DOMAIN claude.items
  BY <1>2 DEF BlocksMatch
<1>4. claude' = L!Sign(claude, b, "signed")
  BY <1>1, <1>3 DEF L!WriteBlock, L!Ensure
<1>5. ClaudeGood(read, claude') /\ SameItems(claude, claude')
  BY <1>2, <1>3, <1>4, ClaudeSigns
<1>6. up'.blocks = up.blocks
  BY <1>1, <1>2 DEF Tick, UpFields
<1> DEFINE u == up'
<1>7. DOMAIN u.blocks = DOMAIN up.blocks
  BY <1>6
<1>8. \A x \in DOMAIN up.blocks :
          "kind" \in DOMAIN up.blocks[x] =>
             "kind" \in DOMAIN u.blocks[x] /\ u.blocks[x].kind = up.blocks[x].kind
  BY <1>6
<1>9. IsReader(read) /\ ClaudeLive(read, claude', u)
  BY <1>1, <1>5, <1>7, <1>8, ClaudeStillLive
<1> QED
  BY <1>1, <1>9 DEF ClaudeStream

\* content_block_stop.
LEMMA BlockStopsStream ==
    ASSUME OutcomeInv, ClaudeStream, NEW b \in DOMAIN up.blocks, BlockStops(b)
    PROVE  ClaudeStream'
<1>1. /\ route \in ClaudeRoutes /\ L!Reading /\ route' = route /\ read' = read
      /\ claude' = L!StopBlock(claude, b)
      /\ up' = [Tick(up) EXCEPT !.blocks[b].stopped = TRUE]
  BY DEF BlockStops, ClaudeSends, ClaudeRead, L!ReceiveStop, ClaudeUnchanged
<1>2. ClaudeGood(read, claude) /\ DOMAIN up = UpFields
  BY <1>1, ClaudeStreamReads
<1>3. ClaudeGood(read, claude') /\ SameItems(claude, claude')
  BY <1>1, <1>2, ClaudeStops
<1>4. up'.blocks = [up.blocks EXCEPT ![b].stopped = TRUE]
  BY <1>1, <1>2 DEF Tick, UpFields
<1> DEFINE u == up'
<1>5. DOMAIN u.blocks = DOMAIN up.blocks
  BY <1>4
<1>6. \A x \in DOMAIN up.blocks :
          "kind" \in DOMAIN up.blocks[x] =>
             "kind" \in DOMAIN u.blocks[x] /\ u.blocks[x].kind = up.blocks[x].kind
  BY <1>4
<1>7. IsReader(read) /\ ClaudeLive(read, claude', u)
  BY <1>1, <1>3, <1>5, <1>6, ClaudeStillLive, Zenon
<1> QED
  BY <1>1, <1>7 DEF ClaudeStream

\* message_delta with a stop reason.
LEMMA StateReasonStream ==
    ASSUME OutcomeInv, ClaudeStream, NEW reason, StateReason(reason)
    PROVE  ClaudeStream'
<1>1. /\ route \in ClaudeRoutes /\ L!Reading /\ route' = route /\ read' = read
      /\ claude' = IF reason = "none" THEN claude
                   ELSE [claude EXCEPT !.reason = L!StatusOf(reason)]
      /\ up' = [Tick(up) EXCEPT !.finish = IF reason = "none" THEN @ ELSE reason]
  BY DEF StateReason, ClaudeSends, ClaudeRead, L!ReceiveReason, ClaudeUnchanged
<1>2. ClaudeGood(read, claude) /\ DOMAIN up = UpFields
  BY <1>1, ClaudeStreamReads
<1>3. DOMAIN claude = ClaudeFields
  BY <1>2, ClaudeShape
<1>4. SameBlocks(claude, claude') /\ claude'.out = claude.out
  BY <1>1, <1>3 DEF SameBlocks, ClaudeFields
<1>5. ClaudeGood(read, claude') /\ SameItems(claude, claude')
  BY <1>2, <1>4, ClaudeQuiet DEF SameItems, SameBlocks
<1>6. up'.blocks = up.blocks
  BY <1>1, <1>2 DEF Tick, UpFields
<1> DEFINE u == up'
<1>7. DOMAIN u.blocks = DOMAIN up.blocks
  BY <1>6
<1>8. \A x \in DOMAIN up.blocks :
          "kind" \in DOMAIN up.blocks[x] =>
             "kind" \in DOMAIN u.blocks[x] /\ u.blocks[x].kind = up.blocks[x].kind
  BY <1>6
<1>9. IsReader(read) /\ ClaudeLive(read, claude', u)
  BY <1>1, <1>5, <1>7, <1>8, ClaudeStillLive, Zenon
<1> QED
  BY <1>1, <1>9 DEF ClaudeStream

\* message_stop.
LEMMA MessageStopsStream ==
    ASSUME OutcomeInv, ClaudeStream, MessageStops
    PROVE  ClaudeStream'
<1>1. /\ route \in ClaudeRoutes /\ L!Reading /\ route' = route /\ read' = read
      /\ claude' = L!PushDone(claude)
  BY DEF MessageStops, ClaudeRead, L!ReceiveMessageStop, ClaudeUnchanged
<1>2. IsReader(read) /\ ClaudeGood(read, claude)
  BY <1>1, ClaudeStreamReads
<1>3. Concluded(read, claude')
  BY <1>1, <1>2, ClaudeDoneConcluded
<1> QED
  BY <1>1, <1>2, <1>3 DEF ClaudeStream

\* An Anthropic upstream fails, or sends what cannot be read.
LEMMA ClaudeFailsStream ==
    ASSUME OutcomeInv, ClaudeStream, ClaudeFails
    PROVE  ClaudeStream'
<1>1. /\ route \in ClaudeRoutes /\ L!Reading /\ route' = route /\ read' = read
      /\ \/ claude' = L!PushError(claude)
         \/ claude' = L!Log(L!PushError([claude EXCEPT !.ended = TRUE]), "ok")
  BY DEF ClaudeFails, ClaudeRead, L!ReceiveError, L!EndOfUpstream, ClaudeUnchanged
<1>2. IsReader(read) /\ ClaudeGood(read, claude)
  BY <1>1, ClaudeStreamReads
<1>3. CASE claude' = L!PushError(claude)
  <2>1. Concluded(read, claude')
    BY <1>2, <1>3, ClaudeErrsConcluded
  <2> QED
    BY <1>1, <1>2, <2>1 DEF ClaudeStream
<1>4. CASE claude' = L!Log(L!PushError([claude EXCEPT !.ended = TRUE]), "ok")
  <2> DEFINE b == [claude EXCEPT !.ended = TRUE]
             d == L!PushError(b)
  <2>1. DOMAIN claude = ClaudeFields
    BY <1>2, ClaudeShape
  <2>2. SameBlocks(claude, b) /\ b.out = claude.out
    BY <2>1 DEF SameBlocks, ClaudeFields
  <2>3. claude' = L!Log(d, "ok")
    BY <1>4
  <2> HIDE DEF b
  <2>4. ClaudeGood(read, b)
    BY <1>2, <2>2, ClaudeQuiet
  <2>5. DOMAIN d = ClaudeFields /\ Concluded(read, d)
    BY <2>4, ClaudeErrsConcluded
  <2> HIDE DEF d
  <2>6. claude'.out = d.out /\ claude'.sentDone = d.sentDone
    BY <2>3, <2>5 DEF L!Log, ClaudeFields
  <2>7. Concluded(read, claude')
    BY <2>5, <2>6, ConcludedSame
  <2> QED
    BY <1>1, <1>2, <2>7 DEF ClaudeStream
<1> QED
  BY <1>1, <1>3, <1>4

\* The reader is given the next event: it fits, and what is left fits what was read.
LEMMA ClaudeRelays ==
    ASSUME OutcomeInv, ClaudeStream, RelayClaude, NEW e, e = Head(claude.out)
    PROVE  /\ route \in ClaudeRoutes /\ IsReader(read) /\ Fits(read, e)
           /\ read' = Hear(read, e) /\ ClaudeStream'
<1>1. /\ claude.out # <<>> /\ read' = Hear(read, e) /\ route' = route /\ up' = up
      /\ claude' = [claude EXCEPT !.out = Tail(claude.out)]
  BY DEF RelayClaude, L!Emit
<1>2. ~claude.gone /\ route \in ClaudeRoutes /\ DOMAIN claude = ClaudeFields
  BY <1>1 DEF OutcomeInv, ClaudePart, ClaudeFine
<1>3. IsReader(read)
  BY <1>2 DEF ClaudeStream
<1>4. claude'.out = Tail(claude.out) /\ claude'.sentDone = claude.sentDone
  BY <1>1, <1>2 DEF ClaudeFields
<1>5. CASE ClaudeLive(read, claude, up)
  <2>1. PICK t : Reads(read, claude.out, t) /\ ClaudeHeard(t, claude)
    BY <1>5 DEF ClaudeLive, ClaudeGood
  <2>2. Fits(read, e) /\ Reads(read', claude'.out, t)
    BY <1>1, <1>4, <2>1, ReadsNext
  <2>3. SameBlocks(claude, claude')
    BY <1>1, <1>2 DEF SameBlocks, ClaudeFields
  <2>4. Speaks(t, t)
    BY <2>1 DEF Speaks, ClaudeHeard
  <2>5. ClaudeHeard(t, claude')
    BY <2>1, <2>3, <2>4, SameBlocksHeard
  <2>6. ClaudeLive(read', claude', up')
    BY <1>1, <1>5, <2>2, <2>3, <2>5 DEF ClaudeLive, ClaudeGood, BlocksMatch, SameBlocks
  <2> QED
    BY <1>1, <1>2, <1>3, <2>2, <2>6, HearFits DEF ClaudeStream
<1>6. CASE Concluded(read, claude)
  <2>1. PICK t : Reads(read, claude.out, t) /\ t.phase = "ended"
    BY <1>6 DEF Concluded
  <2>2. Fits(read, e) /\ Reads(read', claude'.out, t)
    BY <1>1, <1>4, <2>1, ReadsNext
  <2>3. Concluded(read', claude')
    BY <1>4, <1>6, <2>1, <2>2 DEF Concluded
  <2> QED
    BY <1>1, <1>2, <1>3, <2>2, <2>3, HearFits DEF ClaudeStream
<1> QED
  BY <1>2, <1>5, <1>6 DEF ClaudeStream

----------------------------------------------------------------------------
(* All routes.                                                             *)

\* The inductive invariant: the outcome's, and what is queued for the reader.
StreamInv == OutcomeInv /\ ChatStream /\ ClaudeStream

\* What a step does: the streams stay as described, and the reader's is one that a
\* Responses stream may take.
StreamGoesOn ==
    /\ ChatStream' /\ ClaudeStream'
    /\ [ResponsesView!Next]_(ResponsesView!vars)

\* A step in which the reader hears nothing is a stutter of the abstract
\* stream.
LEMMA ReaderWaits ==
    ASSUME Made' = Made
    PROVE  [ResponsesView!Next]_(ResponsesView!vars)
BY DEF ResponsesView!vars

\* A step that neither the reader nor the converter before it takes part in.
LEMMA StreamWaits ==
    ASSUME StreamInv, UNCHANGED <<route, chat, claude, up, read>>
    PROVE  StreamGoesOn
<1>1. Made' = Made
  BY DEF Made
<1>2. ChatStream' /\ ClaudeStream'
  BY DEF StreamInv, ChatStream, ClaudeStream
<1> QED
  BY <1>1, <1>2, ReaderWaits DEF StreamGoesOn

\* A step on a route whose Responses stream comes from its upstream.
LEMMA StreamElsewhere ==
    ASSUME route \notin ChatRoutes \cup ClaudeRoutes, route' = route, Made' = Made
    PROVE  StreamGoesOn
BY ReaderWaits DEF StreamGoesOn, ChatStream, ClaudeStream

\* A step of the upstream that keeps what its converter's stream is.
LEMMA UpstreamGoesOn ==
    ASSUME StreamInv, route' = route, read' = read,
           \/ route \in ChatRoutes /\ ChatStream'
           \/ route \in ClaudeRoutes /\ ClaudeStream'
    PROVE  StreamGoesOn
<1>1. Made' = Made
  BY DEF Made
<1>2. ChatStream' /\ ClaudeStream'
  BY DEF ChatStream, ClaudeStream, ChatRoutes, ClaudeRoutes
<1> QED
  BY <1>1, <1>2, ReaderWaits DEF StreamGoesOn

\* What one converter relays, the next one reads.
LEMMA RelayStream == StreamInv /\ Relay => StreamGoesOn
<1> SUFFICES ASSUME StreamInv, Relay PROVE StreamGoesOn
  OBVIOUS
<1>1. CASE RelayChat
  <2> DEFINE e == Head(chat.out)
  <2>1. /\ route \in ChatRoutes /\ IsReader(read) /\ Fits(read, e)
        /\ read' = Hear(read, e) /\ ChatStream'
    BY <1>1, ChatRelays DEF StreamInv
  <2> HIDE DEF e
  <2>2. route' = route
    BY <1>1 DEF RelayChat
  <2>3. route # "codex" /\ route \notin ClaudeRoutes
    BY <2>1 DEF ChatRoutes, ClaudeRoutes
  <2>4. Made = read /\ Made' = read'
    BY <2>2, <2>3 DEF Made
  <2>5. [ResponsesView!Next]_(ResponsesView!vars)
    BY <2>1, <2>4, FitsStep
  <2> QED
    BY <2>1, <2>2, <2>3, <2>5 DEF StreamGoesOn, ClaudeStream
<1>2. CASE RelayClaude
  <2> DEFINE e == Head(claude.out)
  <2>1. /\ route \in ClaudeRoutes /\ IsReader(read) /\ Fits(read, e)
        /\ read' = Hear(read, e) /\ ClaudeStream'
    BY <1>2, ClaudeRelays DEF StreamInv
  <2> HIDE DEF e
  <2>2. route' = route
    BY <1>2 DEF RelayClaude
  <2>3. route # "codex" /\ route \notin ChatRoutes
    BY <2>1 DEF ChatRoutes, ClaudeRoutes
  <2>4. Made = read /\ Made' = read'
    BY <2>2, <2>3 DEF Made
  <2>5. [ResponsesView!Next]_(ResponsesView!vars)
    BY <2>1, <2>4, FitsStep
  <2> QED
    BY <2>1, <2>2, <2>3, <2>5 DEF StreamGoesOn, ChatStream
<1>3. CASE RelayCodex
  <2>1. UNCHANGED <<route, chat, claude, up>> /\ (route # "codex" => read' = read)
    BY <1>3 DEF RelayCodex
  <2>2. CASE route = "codex"
    <3>1. route \notin ChatRoutes \cup ClaudeRoutes /\ Made' = Made
      BY <2>1, <2>2 DEF ChatRoutes, ClaudeRoutes, Made
    <3> QED
      BY <2>1, <3>1, StreamElsewhere
  <2>3. CASE route # "codex"
    BY <2>1, <2>3, StreamWaits
  <2> QED
    BY <2>2, <2>3
<1> QED
  BY <1>1, <1>2, <1>3 DEF Relay

\* The first converter has nothing more.
LEMMA RelayEndStream == StreamInv /\ RelayEnd => StreamGoesOn
<1> SUFFICES ASSUME StreamInv, RelayEnd PROVE StreamGoesOn
  OBVIOUS
<1>1. UNCHANGED <<route, up, read>>
  BY DEF RelayEnd
<1>2. \/ chat'.gone = TRUE /\ claude' = claude
      \/ chat' = chat /\ claude'.gone = TRUE
      \/ chat' = chat /\ claude' = claude
  <2>1. /\ \A x : C!GoneChat(x).gone = TRUE
        /\ \A x : L!GoneClaude(x).gone = TRUE
    BY DEF C!GoneChat, C!NewChat, L!GoneClaude, L!NewClaude
  <2> QED
    BY <2>1 DEF RelayEnd, C!Close, L!Close
<1>3. ChatStream' /\ ClaudeStream'
  BY <1>1, <1>2 DEF StreamInv, ChatStream, ClaudeStream
<1>4. Made' = Made
  BY <1>1 DEF Made
<1> QED
  BY <1>3, <1>4, ReaderWaits DEF StreamGoesOn

\* The client leaves: the stream is cut, and every converter is gone.
LEMMA LeaveStream == StreamInv /\ Leave => StreamGoesOn
<1> SUFFICES ASSUME StreamInv, Leave PROVE StreamGoesOn
  OBVIOUS
<1>1. /\ route' = route /\ read' = IF route \in Heard THEN Left(read) ELSE read
      /\ C!Abandon /\ L!Abandon
  BY DEF Leave
<1>2. chat'.gone = TRUE /\ claude'.gone = TRUE
  <2>1. /\ \A x : C!GoneChat(x).gone = TRUE
        /\ \A x : L!GoneClaude(x).gone = TRUE
    BY DEF C!GoneChat, C!NewChat, L!GoneClaude, L!NewClaude
  <2> QED
    BY <1>1, <2>1 DEF C!Abandon, L!Abandon
<1>3. CASE route \in ChatRoutes \cup ClaudeRoutes
  <2>1. read' = [read EXCEPT !.phase = "cut"]
    BY <1>1, <1>3 DEF Heard, Left
  <2>2. IsReader(read)
    BY <1>3 DEF StreamInv, ChatStream, ClaudeStream
  <2>3. /\ DOMAIN read' = ReadFields /\ read'.items = read.items
        /\ read'.final = read.final /\ read'.phase = "cut"
    BY <2>1, <2>2 DEF IsReader, ReadFields
  <2>4. IsReader(read')
    BY <2>2, <2>3 DEF IsReader
  <2>5. ChatStream' /\ ClaudeStream'
    BY <1>2, <2>4 DEF ChatStream, ClaudeStream
  <2>6. Made = read /\ Made' = read'
    BY <1>1, <1>3 DEF Made, ChatRoutes, ClaudeRoutes
  <2>7. [ResponsesView!Next]_(ResponsesView!vars)
    <3>1. CASE read.phase = "cut"
      BY <2>3, <2>6, <3>1 DEF ResponsesView!vars
    <3>2. CASE read.phase # "cut"
      BY <2>3, <2>6, <3>2 DEF ResponsesView!Next, ResponsesView!Cut
    <3> QED
      BY <3>1, <3>2
  <2> QED
    BY <2>5, <2>7 DEF StreamGoesOn
<1>4. CASE route \notin ChatRoutes \cup ClaudeRoutes
  <2>1. Made' = Made
    BY <1>1, <1>4 DEF Made, Heard
  <2> QED
    BY <1>1, <1>4, <2>1, StreamElsewhere
<1> QED
  BY <1>3, <1>4

\* The steps of a Chat upstream.
LEMMA ChatUpstreamStream ==
    ASSUME StreamInv,
           \/ \E p \in Parts[route] : Chunk(p)
           \/ \E reason \in FinishReasons : StateFinish(reason)
           \/ ChatEnds \/ ChatFails
    PROVE  StreamGoesOn
<1>1. route \in ChatRoutes /\ route' = route /\ read' = read
  BY Zenon DEF Chunk, StateFinish, ChatEnds, ChatFails, ChatRead, ChatUnchanged
<1>2. ChatStream'
  BY ChunkStream, StateFinishStream, ChatEndsStream, ChatFailsStream DEF StreamInv
<1> QED
  BY <1>1, <1>2, UpstreamGoesOn

\* The steps of an Anthropic upstream.
LEMMA ClaudeUpstreamStream ==
    ASSUME StreamInv,
           \/ \E kind \in NativeKinds \ {"commentary"} :
                 \/ \E n \in 0..Full, sig \in {"none", "signed", "redacted"} :
                       BlockOpens(kind, n, sig)
                 \/ \E b \in 0..MaxItems : BlockWritten(b, kind)
           \/ \E b \in DOMAIN up.blocks : BlockSigned(b) \/ BlockStops(b)
           \/ \E reason \in StopReasons : StateReason(reason)
           \/ MessageStops \/ ClaudeFails
    PROVE  StreamGoesOn
<1>1. route \in ClaudeRoutes /\ route' = route /\ read' = read
  BY DEF BlockOpens, BlockWritten, BlockSigned, BlockStops, StateReason, MessageStops,
         ClaudeFails, ClaudeSends, ClaudeRead, ClaudeUnchanged
<1>2. ClaudeStream'
  BY BlockOpensStream, BlockWrittenStream, BlockSignedStream, BlockStopsStream,
     StateReasonStream, MessageStopsStream, ClaudeFailsStream DEF StreamInv
<1> QED
  BY <1>1, <1>2, UpstreamGoesOn

\* The steps of a Responses or Codex upstream.
NativeStep ==
    \/ \E kind \in NativeKinds : ItemOpens(kind)
    \/ \E i \in DOMAIN up.items :
          \/ ItemWritten(i)
          \/ \E n \in 0..Full : ItemWhole(i, n)
          \/ \E n \in 0..Full, sig \in {"none", "untrusted", "signed", "redacted"} :
                ItemCloses(i, n, sig)
    \/ ResponseEnds \/ NativeFails \/ NativeEnds \/ NativeReadError \/ NativeHangs

\* Their streams are not converted to Responses, and the reader hears nothing of them at once.
LEMMA NativeStepElsewhere ==
    ASSUME NativeStep
    PROVE  route \notin ChatRoutes \cup ClaudeRoutes /\ route' = route /\ read' = read
<1> DEFINE goes == /\ route \in NativeRoutes \cup CodexRoutes
                   /\ route' = route /\ read' = read
<1>1. ASSUME NEW e, Send(e) PROVE goes
  BY <1>1 DEF Send, NativeRead, NativeUnchanged
<1>2. ASSUME NEW reason, NEW output, NativeTerminal(reason, output) PROVE goes
  BY <1>1, <1>2 DEF NativeTerminal
<1>3. ASSUME ResponseEnds PROVE goes
  <2> HIDE DEF goes
  <2>1. \E reason, output : NativeTerminal(reason, output)
    BY <1>3, Zenon DEF ResponseEnds
  <2> QED
    BY <1>2, <2>1
<1>4. ASSUME NativeEnds PROVE goes
  BY <1>1, <1>4 DEF NativeEnds, NativeRead, NativeUnchanged
<1>5. ASSUME NativeReadError PROVE goes
  BY <1>5 DEF NativeReadError, NativeRead
<1>6. ASSUME NativeHangs PROVE goes
  BY <1>6 DEF NativeHangs, NativeUnchanged, CodexRoutes
<1>7. goes
  <2> HIDE DEF goes
  <2> QED
    BY <1>1, <1>3, <1>4, <1>5, <1>6, Zenon
       DEF NativeStep, ItemOpens, ItemWritten, ItemWhole, ItemCloses, NativeFails
<1> QED
  BY <1>7 DEF NativeRoutes, CodexRoutes, ChatRoutes, ClaudeRoutes

\* So what it reads is no concern of theirs.
LEMMA NativeUpstreamStream ==
    ASSUME NativeStep PROVE StreamGoesOn
BY NativeStepElsewhere, StreamElsewhere DEF Made

\* The invariant holds at first, and the reader has heard nothing.
LEMMA StreamInit == Init => StreamInv /\ ResponsesView!Init
<1> SUFFICES ASSUME Init PROVE StreamInv /\ ResponsesView!Init
  OBVIOUS
<1>1. StreamInv
  BY OutcomeInit, ChatStarts, ClaudeStreamStarts DEF StreamInv
<1>2. Made = NothingRead
  BY DEF Init, Made
<1>3. DOMAIN <<>> = {}
  OBVIOUS
<1>4. ResponsesView!Init
  BY <1>2, <1>3 DEF ResponsesView!Init, NothingRead
<1> QED
  BY <1>1, <1>4

\* Every step keeps the invariant and is one of the abstract stream, or a
\* stutter.
LEMMA StreamNext ==
    StreamInv /\ [Next]_vars => StreamInv' /\ [ResponsesView!Next]_(ResponsesView!vars)
<1> SUFFICES ASSUME StreamInv, [Next]_vars PROVE OutcomeInv' /\ StreamGoesOn
  BY DEF StreamInv, StreamGoesOn
<1>1. OutcomeInv'
  BY OutcomeNext DEF StreamInv
<1>2. CASE UNCHANGED vars \/ Deliver \/ Finish
  <2>1. UNCHANGED <<route, chat, claude, up, read>>
    BY <1>2 DEF vars, Deliver, DeliverBlock, DeliverChunk, Finish
  <2> QED
    BY <1>1, <2>1, StreamWaits
<1>3. CASE Upstream
  BY <1>1, <1>3, ChatUpstreamStream, ClaudeUpstreamStream, NativeUpstreamStream
     DEF Upstream, NativeStep
<1> QED
  BY <1>1, <1>2, <1>3, RelayStream, RelayEndStream, LeaveStream DEF Next

\* However an upstream behaves and whenever the client leaves, what the reader of a Responses
\* stream sees is one: every item is added before it is written to, finished exactly once and
\* not written to again, and the response ends with those items.
THEOREM ResponsesStreamImplemented == Spec => ImplementsResponsesStream
BY StreamInit, StreamNext, PTL DEF Spec, ImplementsResponsesStream, ResponsesView!Spec

----------------------------------------------------------------------------
(* What a reader may believe: no success that was not stated, no shell     *)
(* action that is not whole.                                               *)

\* The reasons that cut an answer short.
CutShort == {"length", "max_tokens", "model_context_window_exceeded",
             "pause_turn", "refusal", "content_filter"}
Succeeded(u) == HasStated(u) /\ u.finish \notin CutShort

\* i is a call of the shell tool by the upstream's account u, which told all of it.
Action(u, i) ==
    /\ Kind(i) = "function_call"
    /\ CallOf(i) \in DOMAIN u.named /\ u.named[CallOf(i)] = "shell"
WholeAction(u, i) == u.tools[CallOf(i)] = Full /\ ~u.fault

CallsFull(output) ==
    \A j \in DOMAIN output : Kind(output[j].item) = "function_call" => output[j].n = Full

\* An event that is true by the upstream's account: no piece of a shell action, and a success
\* only if the upstream's.  made tells that the converter makes the response.
Touches == Says \cup {"added", "itemDone"}
TrueEvent(e, u, made) ==
    /\ e.type \in Touches /\ Action(u, e.of.item)
          => e.type \notin Says /\ WholeAction(u, e.of.item)
    /\ e.type = "completed" /\ e.reason = "none"
          => Succeeded(u) /\ (made => CallsFull(e.output))

\* The same of all that is queued, and of all that was read.
TrueQueue(q, u, made) ==
    /\ \E E : q \in Seq(E)
    /\ \A j \in 1..Len(q) : TrueEvent(q[j], u, made)
TrueReading(r, u, made) ==
    /\ \A i \in DOMAIN r.items :
          Action(u, i) => r.items[i].said = 0 /\ WholeAction(u, i)
    /\ r.end = "completed" => Succeeded(u) /\ (made => CallsFull(r.final))

\* Nothing queued is true,
LEMMA TrueNone == \A u, made : TrueQueue(<<>>, u, made)
<1>1. <<>> \in Seq({}) /\ Len(<<>>) = 0 /\ 1..0 = {}
  OBVIOUS
<1> QED
  BY <1>1 DEF TrueQueue

\* so is one more true event behind true ones,
LEMMA TrueMore ==
    ASSUME NEW q, NEW u, NEW made, TrueQueue(q, u, made), NEW e, TrueEvent(e, u, made)
    PROVE  TrueQueue(Append(q, e), u, made)
<1>1. PICK E : q \in Seq(E)
  BY DEF TrueQueue
<1>2. Append(q, e) \in Seq(E \cup {e}) /\ Len(Append(q, e)) = Len(q) + 1 /\ Len(q) \in Nat
  BY <1>1
<1>3. \A j \in 1..Len(q) + 1 : Append(q, e)[j] = IF j = Len(q) + 1 THEN e ELSE q[j]
  BY <1>1
<1>4. ASSUME NEW j \in 1..Len(q) + 1 PROVE TrueEvent(Append(q, e)[j], u, made)
  <2>1. j # Len(q) + 1 => j \in 1..Len(q)
    BY <1>2
  <2> QED
    BY <1>3, <2>1 DEF TrueQueue
<1> QED
  BY <1>2, <1>4 DEF TrueQueue

\* and two of them;
LEMMA TrueTwo ==
    ASSUME NEW q, NEW u, NEW made, TrueQueue(q, u, made),
           NEW e, NEW f, TrueEvent(e, u, made), TrueEvent(f, u, made)
    PROVE  TrueQueue(q \o <<e>>, u, made) /\ TrueQueue(q \o <<e, f>>, u, made)
<1>1. PICK E : q \in Seq(E)
  BY DEF TrueQueue
<1>2. q \o <<e>> = Append(q, e) /\ q \o <<e, f>> = Append(Append(q, e), f)
  BY <1>1, Joins
<1> QED
  BY <1>2, TrueMore, Zenon

\* and what is true when it is queued is when it is delivered.
LEMMA TrueNext ==
    ASSUME NEW q, NEW u, NEW made, TrueQueue(q, u, made), q # <<>>
    PROVE  TrueEvent(Head(q), u, made) /\ TrueQueue(Tail(q), u, made)
<1>1. PICK E : q \in Seq(E)
  BY DEF TrueQueue
<1>2. Len(q) \in Nat \ {0} /\ Head(q) = q[1]
  BY <1>1
<1>3. /\ Tail(q) \in Seq(E) /\ Len(Tail(q)) = Len(q) - 1
      /\ \A j \in 1..Len(Tail(q)) : Tail(q)[j] = q[j + 1]
  BY <1>1, <1>2
<1>4. 1 \in 1..Len(q) /\ \A j \in 1..Len(q) - 1 : j + 1 \in 1..Len(q)
  BY <1>2
<1> QED
  BY <1>2, <1>3, <1>4 DEF TrueQueue

\* What an event in its place does to the reader's items.
LEMMA HearTouches ==
    ASSUME NEW r, NEW e, IsReader(r), Fits(r, e)
    PROVE  /\ IsReader(Hear(r, e))
           /\ DOMAIN r.items \subseteq DOMAIN Hear(r, e).items
           /\ e.type \in Touches => e.of.item \in DOMAIN Hear(r, e).items
           /\ e.type \in Ends => Hear(r, e).phase = "ended"
           /\ r.phase = "ended" => Hear(r, e).phase = "ended"
<1>1. DOMAIN r = ReadFields
  BY DEF IsReader
<1>2. ASSUME NEW i, NEW field
      PROVE  /\ DOMAIN Count(r, i, field).items = DOMAIN r.items \cup {i}
             /\ Count(r, i, field).phase = r.phase
  BY <1>1 DEF Count, With, ReadFields
<1>3. CASE e.type \in Touches
  <2>1. r.phase = "open" /\ \E field : Hear(r, e) = Count(r, e.of.item, field)
    BY <1>3 DEF Touches, Says, Fits, Hear, Ends
  <2> QED
    BY <1>2, <1>3, <2>1, HearFits DEF Touches, Says, Ends
<1>4. CASE e.type \in Ends
  <2>1. Hear(r, e).items = r.items /\ Hear(r, e).phase = "ended"
    BY <1>1, <1>4 DEF Hear, Ends, Fits, Says, ReadFields
  <2> QED
    BY <1>4, <2>1, HearFits DEF Touches, Says, Ends
<1>5. CASE e.type \in {"created", "[DONE]"}
  <2>1. Hear(r, e).items = r.items /\ (r.phase = "ended" => Hear(r, e).phase = "ended")
    BY <1>1, <1>5 DEF Hear, Ends, Fits, Says, ReadFields
  <2> QED
    BY <1>5, <2>1, HearFits DEF Touches, Says, Ends
<1> QED
  BY <1>3, <1>4, <1>5 DEF Fits, Touches, Says, Ends

\* Who reads all of q knows of every item that q is about, and has its end if q has it.
LEMMA ReadsItems ==
    ASSUME NEW s, NEW q, NEW t, Reads(s, q, t), IsReader(s)
    PROVE  /\ DOMAIN s.items \subseteq DOMAIN t.items
           /\ \A j \in 1..Len(q) : q[j].type \in Touches => q[j].of.item \in DOMAIN t.items
           /\ \A j \in 1..Len(q) : q[j].type \in Ends => t.phase = "ended"
<1>1. PICK E : q \in Seq(E)
  BY DEF Reads
<1>2. PICK r : /\ r[0] = s /\ r[Len(q)] = t
               /\ \A j \in 1..Len(q) :
                     Fits(r[j - 1], q[j]) /\ r[j] = Hear(r[j - 1], q[j])
  BY DEF Reads
<1> DEFINE n == Len(q)
           Knows(m) ==
               /\ IsReader(r[m]) /\ DOMAIN s.items \subseteq DOMAIN r[m].items
               /\ \A j \in 1..m : q[j].type \in Touches => q[j].of.item \in DOMAIN r[m].items
               /\ \A j \in 1..m : q[j].type \in Ends => r[m].phase = "ended"
           B == {m \in 0..n : ~Knows(m)}
<1>3. n \in Nat
  BY <1>1
<1>4. Knows(0)
  <2>1. 1..0 = {}
    OBVIOUS
  <2> QED
    BY <1>2, <2>1
<1>5. ASSUME NEW m \in 1..n, Knows(m - 1) PROVE Knows(m)
  <2>1. Fits(r[m - 1], q[m]) /\ r[m] = Hear(r[m - 1], q[m])
    BY <1>2
  <2>2. /\ IsReader(r[m]) /\ DOMAIN r[m - 1].items \subseteq DOMAIN r[m].items
        /\ q[m].type \in Touches => q[m].of.item \in DOMAIN r[m].items
        /\ q[m].type \in Ends => r[m].phase = "ended"
        /\ r[m - 1].phase = "ended" => r[m].phase = "ended"
    BY <1>5, <2>1, HearTouches
  <2>3. \A j \in 1..m : j = m \/ j \in 1..(m - 1)
    BY <1>3
  <2> QED
    BY <1>5, <2>2, <2>3
<1> HIDE DEF Knows
<1>6. B = {}
  <2>1. SUFFICES ASSUME B # {} PROVE FALSE
    OBVIOUS
  <2>2. B \subseteq Nat
    BY <1>3
  <2>3. PICK b \in B : \A m \in B : b <= m
    <3> HIDE DEF B
    <3> QED
      BY <2>1, <2>2, Least
  <2>4. b # 0 /\ b \in 0..n /\ ~Knows(b)
    BY <1>4, <2>3
  <2>5. b - 1 \in 0..n /\ b - 1 \notin B /\ b \in 1..n
    BY <1>3, <2>3, <2>4
  <2>6. Knows(b - 1)
    BY <2>5
  <2> QED
    BY <1>5, <2>4, <2>5, <2>6
<1>7. Knows(n)
  BY <1>3, <1>6
<1> QED
  BY <1>2, <1>7 DEF Knows

\* A reader that is given a true event in its place believes nothing that is not.
LEMMA HearTrue ==
    ASSUME NEW r, NEW e, IsReader(r), Fits(r, e), NEW u, NEW made,
           TrueReading(r, u, made), TrueEvent(e, u, made)
    PROVE  TrueReading(Hear(r, e), u, made)
<1> DEFINE i == e.of.item
           h == Hear(r, e)
<1>1. DOMAIN r = ReadFields
  BY DEF IsReader
<1>2. ASSUME NEW field \in {"added", "finished"}, h = Count(r, i, field), e.type \in Touches,
             e.type \notin Says
      PROVE  TrueReading(h, u, made)
  <2>1. /\ h.items = With(r.items, i, [Seen(r, i) EXCEPT ![field] = @ + 1])
        /\ h.end = r.end /\ h.final = r.final
    BY <1>1, <1>2 DEF Count, ReadFields
  <2>2. [Seen(r, i) EXCEPT ![field] = @ + 1].said = Seen(r, i).said
    <3>1. DOMAIN Seen(r, i) = ItemFields
      BY DEF Seen, IsReader, ItemFields
    <3> QED
      BY <3>1 DEF ItemFields
  <2>3. \A j \in DOMAIN h.items : j = i \/ (j \in DOMAIN r.items /\ h.items[j] = r.items[j])
    BY <2>1 DEF With
  <2>4. h.items[i].said = Seen(r, i).said
    BY <2>1, <2>2 DEF With
  <2>5. Action(u, i) => h.items[i].said = 0 /\ WholeAction(u, i)
    BY <1>2, <2>4 DEF TrueEvent, Touches, Seen, TrueReading
  <2> HIDE DEF h, i
  <2> QED
    BY <2>1, <2>3, <2>5, Zenon DEF TrueReading
<1>3. ASSUME e.type \in Says, h = Count(r, i, "said") PROVE TrueReading(h, u, made)
  <2>1. /\ h.items = With(r.items, i, [Seen(r, i) EXCEPT !["said"] = @ + 1])
        /\ h.end = r.end /\ h.final = r.final
    BY <1>1, <1>3 DEF Count, ReadFields
  <2>2. \A j \in DOMAIN h.items : j = i \/ (j \in DOMAIN r.items /\ h.items[j] = r.items[j])
    BY <2>1 DEF With
  <2>3. ~Action(u, i)
    BY <1>3 DEF TrueEvent, Touches
  <2> HIDE DEF h, i
  <2> QED
    BY <2>1, <2>2, <2>3, Zenon DEF TrueReading
<1>4. CASE e.type \in Ends
  <2>1. /\ h.items = r.items /\ h.final = e.output
        /\ h.end = IF e.reason = "none" THEN e.type ELSE "incomplete"
    BY <1>1, <1>4 DEF Hear, Ends, ReadFields
  <2> HIDE DEF h
  <2>2. h.end = "completed" => e.type = "completed" /\ e.reason = "none"
    BY <1>4, <2>1 DEF Ends
  <2>3. TrueReading(h, u, made)
    BY <2>1, <2>2 DEF TrueReading, TrueEvent
  <2> QED
    BY <2>3 DEF h
<1>5. CASE e.type \in {"created", "[DONE]"}
  <2>1. h.items = r.items /\ h.final = r.final /\ h.end = r.end
    BY <1>1, <1>5 DEF Hear, ReadFields
  <2> HIDE DEF h
  <2>2. TrueReading(h, u, made)
    BY <2>1 DEF TrueReading
  <2> QED
    BY <2>2 DEF h
<1>6. CASE e.type \in Touches
  <2>1. \/ e.type = "added" /\ h = Count(r, i, "added")
        \/ e.type = "itemDone" /\ h = Count(r, i, "finished")
        \/ e.type \in Says /\ h = Count(r, i, "said")
    BY <1>6 DEF Hear, Touches, Says
  <2> HIDE DEF h, i
  <2>2. e.type \in {"added", "itemDone"} => e.type \notin Says
    BY DEF Says
  <2> QED
    BY <1>2, <1>3, <1>6, <2>1, <2>2 DEF h, i
<1> QED
  BY <1>4, <1>5, <1>6 DEF Fits, Touches, Says, Ends

----------------------------------------------------------------------------
(* A Chat upstream's shell actions and success.                            *)

\* What the upstream's account u tells of call k: its first name, its units.
NoName == ""
NameTold(u, k) == IF k \in DOMAIN u.named THEN u.named[k] ELSE NoName
UnitsTold(u, k) == IF k \in DOMAIN u.tools THEN u.tools[k] ELSE 0

\* The converter knows of every call what the upstream told.
CallsTold(c, u) ==
    /\ \A k \in DOMAIN u.named : u.named[k] # NoName
    /\ DOMAIN u.tools \subseteq Calls
    /\ \A k \in Calls : c.calls[k].name = NameTold(u, k) /\ c.calls[k].n = UnitsTold(u, k)

\* While a response is under way no shell action and no success is queued or read.
LEMMA LiveTrue ==
    ASSUME NEW r, NEW c, NEW n, IsReader(r), ChatLive(r, c, n), r.end = "none",
           NEW u, CallsTold(c, u), NEW made
    PROVE  TrueQueue(c.out, u, made) /\ TrueReading(r, u, made)
<1>1. PICK t : Reads(r, c.out, t) /\ ChatHeard(t, c, n)
  BY DEF ChatLive, ChatGood
<1>2. ASSUME NEW i \in DOMAIN t.items PROVE ~Action(u, i)
  <2>1. CASE \/ c.reasoning # NoSnapshot /\ i = c.reasoning.item
             \/ c.message # NoSnapshot /\ i = c.message.item
             \/ \E s \in c.completed : i = s.item
    <3>1. Kind(i) \in {"reasoning", "message"}
      BY <1>1, <2>1 DEF ChatHeard, OpenHeard, CompletedHeard
    <3> QED
      BY <3>1 DEF Action
  <2>2. CASE \E k \in Begun(c) : c.calls[k].added /\ i = c.calls[k].item
    <3>1. PICK k \in Begun(c) : c.calls[k].added /\ i = c.calls[k].item
      BY <2>2
    <3>2. CallOf(i) = k /\ k \in Calls
      BY <1>1, <3>1 DEF ChatHeard, CallsHeard, Begun
    <3>3. NameTold(u, k) # "shell"
      BY <3>1, <3>2, Zenon DEF ChatLive, Named, CallsTold
    <3> QED
      BY <3>2, <3>3 DEF Action, NameTold
  <2> QED
    BY <1>1, <2>1, <2>2 DEF ChatHeard, AllHeard
<1>3. t.phase = "open"
  BY <1>1 DEF ChatHeard, ChatBasic
<1>4. /\ DOMAIN r.items \subseteq DOMAIN t.items
      /\ \A j \in 1..Len(c.out) : c.out[j].type \in Touches => c.out[j].of.item \in DOMAIN t.items
      /\ \A j \in 1..Len(c.out) : c.out[j].type \notin Ends
  BY <1>1, <1>3, ReadsItems
<1>5. \A j \in 1..Len(c.out) : TrueEvent(c.out[j], u, made)
  BY <1>2, <1>4 DEF TrueEvent, Ends
<1>6. \E E : c.out \in Seq(E)
  BY <1>1 DEF Reads
<1>7. TrueReading(r, u, made)
  BY <1>2, <1>4 DEF TrueReading
<1> QED
  BY <1>5, <1>6, <1>7 DEF TrueQueue

\* The upstream's account of a chunk.
LEMMA RecordedTool ==
    ASSUME OutcomeInv, NEW p, p.part = "tool"
    PROVE  /\ Recorded(p).tools = Plus(up.tools, p.call, p.n)
           /\ Recorded(p).named = IF p.name = NoName \/ p.call \in DOMAIN up.named THEN up.named
                                  ELSE With(up.named, p.call, p.name)
           /\ DOMAIN Recorded(p) = DOMAIN up
BY Zenon DEF Recorded, OutcomeInv, UpFine, UpFields, NoName

\* No other part tells of a call.
LEMMA RecordedOther ==
    ASSUME OutcomeInv, NEW p, p.part # "tool"
    PROVE  /\ Recorded(p).tools = up.tools /\ Recorded(p).named = up.named
           /\ DOMAIN Recorded(p) = DOMAIN up
BY DEF Recorded, OutcomeInv, UpFine, UpFields

\* d knows the same of the calls as c.
SameTold(c, d) ==
    \A k \in Calls : d.calls[k].name = c.calls[k].name /\ d.calls[k].n = c.calls[k].n

\* What emit_tool_call_if_ready leaves of the calls before the end.
LEMMA EmitTold ==
    ASSUME NEW c, DOMAIN c = ChatFields, DOMAIN c.calls = Calls,
           NEW k \in Calls, DOMAIN c.calls[k] = CallFields
    PROVE  SameTold(c, C!EmitIfReady(c, k, FALSE))
<1> DEFINE call == c.calls[k]
           x == [call EXCEPT !.added = TRUE, !.name = IF @ = "" THEN "tool" ELSE @]
           b == C!AddCall(c, k)
           d == C!AddArguments(b, call)
<1>1. CASE ~C!Publishable(call, FALSE)
  BY <1>1 DEF C!EmitIfReady, SameTold
<1>2. CASE C!Publishable(call, FALSE)
  <2>1. call.name # ""
    BY <1>2, Zenon DEF C!Publishable
  <2>2. x.name = call.name /\ x.n = call.n
    BY <2>1, Zenon DEF CallFields
  <2>3. b.calls = [c.calls EXCEPT ![k] = x] /\ DOMAIN b = ChatFields
    BY Zenon DEF C!AddCall, C!Push, ChatFields, CallFields
  <2>4. d.calls = b.calls
    <3> HIDE DEF b
    <3> QED
      BY <2>3 DEF C!AddArguments, C!Push, ChatFields
  <2>5. C!EmitIfReady(c, k, FALSE) = d
    BY <1>2 DEF C!EmitIfReady
  <2> HIDE DEF b, d, x
  <2> QED
    BY <2>2, <2>3, <2>4, <2>5, Zenon DEF SameTold
<1> QED
  BY <1>1, <1>2, Zenon

\* What a chunk tells of a call is noted of it, and of no other.
LEMMA ToolPartTold ==
    ASSUME NEW r, NEW c, NEW n, ChatLive(r, c, n), n <= MaxBlocks,
           NEW k \in Calls, NEW hasId, NEW name, NEW m
    PROVE  LET d == C!ToolPart(c, k, hasId, name, m) IN
           /\ \A l \in Calls \ {k} :
                 d.calls[l].name = c.calls[l].name /\ d.calls[l].n = c.calls[l].n
           /\ d.calls[k].name = IF c.calls[k].name = NoName THEN name ELSE c.calls[k].name
           /\ d.calls[k].n = c.calls[k].n + m
<1> DEFINE a == C!CloseReasoning(c)
           b == C!EnsureCall(a, k, hasId, name)
           d == C!WriteCall(b, k, m)
<1>1. ChatLive(r, a, n)
  BY CloseReasoningGood, Zenon DEF ChatLive, Named
<1>2. a.calls = c.calls
  <2>1. DOMAIN c = ChatFields
    BY ChatShape DEF ChatLive, ChatShaped
  <2> QED
    BY <2>1 DEF C!CloseReasoning, C!Push, ChatFields
<1> HIDE DEF a
<1>3. DOMAIN a = ChatFields /\ DOMAIN a.calls = Calls
  BY <1>1, ChatShape DEF ChatLive, ChatShaped
<1>4. ChatLive(r, b, n + 1) /\ k \in Begun(b)
  BY <1>1, EnsureCallGood
<1>5. /\ \A l \in Calls \ {k} : b.calls[l] = a.calls[l]
      /\ b.calls[k].name = IF a.calls[k].name = NoName THEN name ELSE a.calls[k].name
      /\ b.calls[k].n = a.calls[k].n
  <2>1. CASE a.calls[k] = C!NoCall
    <3> DEFINE i == C!NextItem(a, "function_call", k)
               x == [C!NoCall EXCEPT !.item = i, !.hasId = hasId, !.name = name]
    <3>1. /\ x.name = name /\ x.n = 0 /\ C!NoCall.name = "" /\ C!NoCall.n = 0
      BY DEF C!NoCall
    <3>2. b = [C!Allot(a) EXCEPT !.calls[k] = x]
      BY <2>1 DEF C!EnsureCall
    <3> HIDE DEF x, b
    <3>3. b.calls = [a.calls EXCEPT ![k] = x]
      BY <1>3, <3>2 DEF C!Allot, ChatFields
    <3> QED
      BY <1>3, <2>1, <3>1, <3>3, Zenon DEF NoName
  <2>2. CASE a.calls[k] # C!NoCall
    <3> DEFINE call == a.calls[k]
               y == IF call.name = "" THEN name ELSE call.name
               h == call.hasId \/ hasId
               x == [call EXCEPT !.hasId = h, !.name = y]
    <3>1. DOMAIN call = CallFields
      BY <1>1, <2>2, ChatShape DEF ChatLive, ChatShaped, Begun
    <3>2. b.calls = [a.calls EXCEPT ![k] = x]
      BY <1>3, <2>2, <3>1, Zenon DEF C!EnsureCall, ChatFields, CallFields
    <3>3. x.name = y /\ x.n = call.n
      BY <3>1 DEF CallFields
    <3> HIDE DEF x, b
    <3> QED
      BY <1>3, <3>2, <3>3, Zenon DEF NoName
  <2> QED
    BY <2>1, <2>2
<1> HIDE DEF b
<1>6. DOMAIN b = ChatFields /\ DOMAIN b.calls = Calls /\ DOMAIN b.calls[k] = CallFields
  BY <1>4, ChatShape DEF ChatLive, ChatShaped
<1>7. /\ \A l \in Calls \ {k} : d.calls[l].name = b.calls[l].name /\ d.calls[l].n = b.calls[l].n
      /\ d.calls[k].name = b.calls[k].name /\ d.calls[k].n = b.calls[k].n + m
  <2> DEFINE x == [b.calls[k] EXCEPT !.n = @ + m]
             f == [b EXCEPT !.calls[k].n = @ + m]
  <2>1. /\ x.n = b.calls[k].n + m /\ x.name = b.calls[k].name /\ DOMAIN x = CallFields
    BY <1>6 DEF CallFields
  <2>2. f.calls = [b.calls EXCEPT ![k] = x] /\ DOMAIN f = ChatFields
    BY <1>6 DEF ChatFields, CallFields
  <2>3. CASE b.calls[k].added /\ m > 0
    <3>1. d.calls = [b.calls EXCEPT ![k] = x]
      BY <1>6, <2>3 DEF C!WriteCall, C!Push, ChatFields, CallFields
    <3> HIDE DEF d, x
    <3> QED
      BY <1>6, <2>1, <3>1
  <2>4. CASE ~(b.calls[k].added /\ m > 0)
    <3>1. d = C!EmitIfReady(f, k, FALSE)
      BY <2>4, Zenon DEF C!WriteCall
    <3> HIDE DEF d, x, f
    <3>2. /\ DOMAIN f.calls = Calls /\ f.calls[k] = x
          /\ \A l \in Calls \ {k} : f.calls[l] = b.calls[l]
      BY <1>6, <2>2
    <3>3. SameTold(f, d)
      BY <2>1, <2>2, <3>1, <3>2, EmitTold, Zenon
    <3> QED
      BY <2>1, <3>2, <3>3 DEF SameTold
  <2> QED
    BY <2>3, <2>4
<1> HIDE DEF d
<1>8. C!ToolPart(c, k, hasId, name, m) = d
  BY DEF C!ToolPart, d, b, a
<1> QED
  BY <1>2, <1>5, <1>7, <1>8

\* On a Chat upstream's route what is queued and what was read is true, and the
\* converter of a response under way knows what the upstream told.
ChatWhole ==
    route \in ChatRoutes =>
        /\ up.finish \in FinishReasons \cup {"none"}
        /\ ~chat.sentDone => read.end = "none" /\ CallsTold(chat, up)
        /\ TrueQueue(chat.out, up, TRUE) /\ TrueReading(read, up, TRUE)

\* A chunk's call in the upstream's account.
LEMMA CallTold ==
    ASSUME NEW c, NEW d, NEW u, NEW v, CallsTold(c, u),
           NEW k \in Calls, NEW name, NEW m,
           v.tools = Plus(u.tools, k, m),
           v.named = IF name = NoName \/ k \in DOMAIN u.named THEN u.named
                     ELSE With(u.named, k, name),
           \A l \in Calls \ {k} :
               d.calls[l].name = c.calls[l].name /\ d.calls[l].n = c.calls[l].n,
           d.calls[k].name = IF c.calls[k].name = NoName THEN name ELSE c.calls[k].name,
           d.calls[k].n = c.calls[k].n + m
    PROVE  CallsTold(d, v)
<1>1. /\ DOMAIN v.tools = DOMAIN u.tools \cup {k}
      /\ v.tools[k] = UnitsTold(u, k) + m
      /\ \A l \in DOMAIN u.tools \ {k} : v.tools[l] = u.tools[l]
  BY DEF Plus, With, UnitsTold
<1>2. \A l \in Calls \ {k} : UnitsTold(v, l) = UnitsTold(u, l)
  BY <1>1 DEF UnitsTold
<1>3. UnitsTold(v, k) = UnitsTold(u, k) + m
  BY <1>1 DEF UnitsTold
<1>4. /\ \A l \in DOMAIN v.named : v.named[l] # NoName
      /\ \A l \in Calls \ {k} : NameTold(v, l) = NameTold(u, l)
      /\ NameTold(v, k) = IF NameTold(u, k) = NoName THEN name ELSE NameTold(u, k)
  <2>1. CASE name = NoName \/ k \in DOMAIN u.named
    BY <2>1 DEF CallsTold, NameTold
  <2>2. CASE ~(name = NoName \/ k \in DOMAIN u.named)
    <3>1. /\ DOMAIN v.named = DOMAIN u.named \cup {k} /\ v.named[k] = name
          /\ \A l \in DOMAIN u.named : v.named[l] = u.named[l]
      BY <2>2 DEF With
    <3> QED
      BY <2>2, <3>1 DEF CallsTold, NameTold
  <2> QED
    BY <2>1, <2>2
<1> QED
  BY <1>1, <1>2, <1>3, <1>4 DEF CallsTold

\* At the start nothing is told.
LEMMA ChatWholeStarts == Init => ChatWhole
<1> SUFFICES ASSUME Init, route \in ChatRoutes PROVE ChatWhole
  BY Zenon DEF ChatWhole
<1>1. chat = C!NewChat /\ up = NothingSent /\ read = NothingRead
  BY DEF Init, C!Init, ChatRoutes
<1>2. up.finish = "none" /\ up.named = <<>> /\ up.tools = <<>> /\ read.end = "none"
  BY <1>1 DEF NothingSent, NothingRead
<1>3. DOMAIN <<>> = {}
  OBVIOUS
<1>4. DOMAIN up.named = {} /\ DOMAIN up.tools = {}
  BY <1>2, <1>3
<1>5. \A k \in Calls : chat.calls[k] = C!NoCall
  BY <1>1 DEF C!NewChat
<1>6. C!NoCall.name = NoName /\ C!NoCall.n = 0
  BY DEF C!NoCall, NoName
<1>7. CallsTold(chat, up)
  BY <1>4, <1>5, <1>6 DEF CallsTold, NameTold, UnitsTold
<1>8. IsReader(read) /\ (ChatLive(read, chat, up.sent) \/ Concluded(read, chat)) /\ ~chat.sentDone
  BY <1>1, ChatStarts DEF ChatStream, C!NewChat
<1>9. ChatLive(read, chat, up.sent)
  BY <1>8 DEF Concluded
<1> QED
  BY <1>2, <1>7, <1>8, <1>9, LiveTrue, Zenon DEF ChatWhole

\* A chunk leaves all that is queued and read true.
LEMMA ChunkWhole ==
    ASSUME OutcomeInv, ChatStream, ChatWhole, NEW p \in Parts[route], Chunk(p)
    PROVE  ChatWhole'
<1>1. /\ route \in ChatRoutes /\ C!Reading /\ C!ReceivePart(p) /\ route' = route
      /\ read' = read /\ up.sent < MaxChunks
  BY DEF Chunk, ChatRead, C!ReceivePart, ChatUnchanged
<1> DEFINE n == up.sent
<1>2. IsReader(read) /\ ChatLive(read, chat, n) /\ n \in Nat
  BY <1>1, ChatStreamReads
<1>3. n <= MaxBlocks
  BY <1>1, <1>2, StreamAssumption
<1> HIDE DEF n
<1>4. /\ p.part \in {"reasoning", "redacted", "text", "audio", "tool"}
      /\ p.part = "tool" => p.call \in Calls
  BY StreamAssumption DEF OutcomeInv
<1>5. ~chat.sentDone /\ DOMAIN chat = ChatFields
  BY <1>2, ChatShape DEF ChatLive, ChatShaped
<1>6. /\ up.finish \in FinishReasons \cup {"none"} /\ read.end = "none"
      /\ CallsTold(chat, up)
  BY <1>1, <1>5 DEF ChatWhole
<1>7. up'.finish = up.finish /\ up'.tools = Recorded(p).tools /\ up'.named = Recorded(p).named
  <2>1. Recorded(p).finish = up.finish /\ DOMAIN Recorded(p) = DOMAIN up
    BY DEF Recorded, OutcomeInv, UpFine, UpFields
  <2>2. DOMAIN up = UpFields
    BY DEF OutcomeInv, UpFine
  <2> QED
    BY <2>1, <2>2 DEF Chunk, UpFields
<1>8. CallsTold(chat', up')
  <2>1. CASE p.part = "tool"
    <3> DEFINE k == p.call
               hasId == p.hasId
               name == p.name
               m == p.n
               d == C!ToolPart(chat, k, hasId, name, m)
    <3>1. chat' = d /\ k \in Calls
      BY <1>1, <1>4, <2>1 DEF C!ReceivePart
    <3>2. /\ up'.tools = Plus(up.tools, k, m)
          /\ up'.named = IF name = NoName \/ k \in DOMAIN up.named THEN up.named
                         ELSE With(up.named, k, name)
      BY <1>7, <2>1, RecordedTool
    <3> HIDE DEF k, hasId, name, m
    <3>3. /\ \A l \in Calls \ {k} : 
                    d.calls[l].name = chat.calls[l].name /\ d.calls[l].n = chat.calls[l].n
          /\ d.calls[k].name = IF chat.calls[k].name = NoName THEN name ELSE chat.calls[k].name
          /\ d.calls[k].n = chat.calls[k].n + m
      BY <1>2, <1>3, <3>1, ToolPartTold
    <3> HIDE DEF d
    <3> QED
      BY <1>6, <3>1, <3>2, <3>3, CallTold
  <2>2. CASE p.part # "tool"
    <3>1. chat'.calls = chat.calls
      BY <1>1, <1>4, <1>5, <2>2
         DEF C!ReceivePart, C!ReasoningPart, C!WriteReasoning, C!EnsureReasoning,
             C!OpenReasoning, C!RedactedPart, C!TextPart, C!WriteText, C!AudioPart,
             C!EnsureMessage, C!OpenMessage, C!CloseReasoning, C!Push, C!Allot, ChatFields
    <3>2. up'.tools = up.tools /\ up'.named = up.named
      BY <1>7, <2>2, RecordedOther
    <3> QED
      BY <1>6, <3>1, <3>2 DEF CallsTold, NameTold, UnitsTold
  <2> QED
    BY <2>1, <2>2
<1>9. ChatLive(read, chat', up'.sent)
  BY ChunkLive
<1> QED
  BY <1>1, <1>2, <1>6, <1>7, <1>8, <1>9, LiveTrue, Zenon DEF ChatWhole

\* So does its finish reason.
LEMMA StateFinishWhole ==
    ASSUME OutcomeInv, ChatStream, ChatWhole, NEW reason \in FinishReasons, StateFinish(reason)
    PROVE  ChatWhole'
<1>1. /\ route \in ChatRoutes /\ C!Reading /\ route' = route /\ read' = read
      /\ chat' = [chat EXCEPT !.finish = reason]
  BY DEF StateFinish, ChatRead, C!ReceiveFinish, ChatUnchanged
<1>2. IsReader(read) /\ ChatLive(read, chat', up'.sent)
  BY StateFinishLive
<1>3. DOMAIN chat = ChatFields /\ ~chat.sentDone /\ DOMAIN up = UpFields
  BY <1>1, ChatReads DEF ChatWorking, UpFine
<1>4. chat'.calls = chat.calls
  BY <1>1, <1>3 DEF ChatFields
<1>5. up'.finish = reason /\ up'.tools = up.tools /\ up'.named = up.named
  BY <1>3 DEF StateFinish, UpFields
<1>6. CallsTold(chat', up') /\ read.end = "none"
  BY <1>1, <1>3, <1>4, <1>5 DEF ChatWhole, CallsTold, NameTold, UnitsTold
<1> QED
  BY <1>1, <1>2, <1>5, <1>6, LiveTrue, Zenon DEF ChatWhole

\* What the upstream's account u says of a call that goes by the item i: a shell action is
\* known by its name, and it may be shown whole.
KnownWhole(u, i, name) == Action(u, i) => name = "shell" /\ WholeAction(u, i)

\* An event about an item, that does not end the response.
LEMMA ItemEventTrue ==
    ASSUME NEW u, NEW e, e.type \notin Ends,
           Action(u, e.of.item) => e.type \notin Says /\ WholeAction(u, e.of.item)
    PROVE  TrueEvent(e, u, TRUE)
BY DEF TrueEvent, Ends

\* emit_tool_call_if_ready shows no piece of a shell action.
LEMMA EmitTrue ==
    ASSUME NEW c, DOMAIN c = ChatFields, DOMAIN c.calls = Calls,
           NEW k \in Calls, DOMAIN c.calls[k] = CallFields,
           NEW u, TrueQueue(c.out, u, TRUE),
           KnownWhole(u, c.calls[k].item, c.calls[k].name)
    PROVE  LET d == C!Publish(c, k) IN
           /\ DOMAIN d = ChatFields /\ DOMAIN d.calls = Calls /\ d.completed = c.completed
           /\ \A l \in Calls \ {k} : d.calls[l] = c.calls[l]
           /\ DOMAIN d.calls[k] = CallFields /\ d.calls[k].item = c.calls[k].item
           /\ c.calls[k].name = "shell" => d.calls[k].name = "shell"
           /\ TrueQueue(d.out, u, TRUE)
<1> DEFINE call == c.calls[k]
           x == [call EXCEPT !.added = TRUE, !.name = IF @ = "" THEN "tool" ELSE @]
           b == C!AddCall(c, k)
           d == C!AddArguments(b, call)
           e == C!Added(call.item)
           f == C!ArgsDelta(call.item, call.n)
<1>1. CASE ~C!Publishable(call, TRUE)
  BY <1>1, Zenon DEF C!Publish, C!EmitIfReady
<1>2. CASE C!Publishable(call, TRUE)
  <2>1. /\ x.item = call.item /\ DOMAIN x = CallFields
        /\ call.name = "shell" => x.name = "shell"
    BY Zenon DEF CallFields
  <2>2. /\ b.calls = [c.calls EXCEPT ![k] = x] /\ DOMAIN b = ChatFields
        /\ b.completed = c.completed /\ b.out = Append(c.out, e)
    BY Zenon DEF C!AddCall, C!Push, ChatFields, CallFields
  <2>3. e.type \notin Says \cup Ends /\ e.of.item = call.item
    BY DEF C!Added, Says, Ends
  <2>4. f.type \notin Ends /\ f.of.item = call.item
    BY DEF C!ArgsDelta, C!Delta, Ends
  <2>5. C!Publish(c, k) = d
    BY <1>2 DEF C!Publish, C!EmitIfReady
  <2> HIDE DEF b, x, e
  <2>6. TrueQueue(b.out, u, TRUE)
    <3>1. TrueEvent(e, u, TRUE)
      <4> HIDE DEF f, d
      <4> QED
        BY <2>3, ItemEventTrue, Zenon DEF KnownWhole
    <3> HIDE DEF call, f, d
    <3>2. TrueQueue(Append(c.out, e), u, TRUE)
      BY <3>1, TrueMore, Zenon
    <3> QED
      BY <2>2, <3>2, Zenon
  <2>7. /\ d.calls = b.calls /\ DOMAIN d = ChatFields /\ d.completed = b.completed
        /\ TrueQueue(d.out, u, TRUE)
    <3>1. CASE call.name = "shell" \/ call.n = 0
      BY <2>2, <2>6, <3>1, Zenon DEF C!AddArguments
    <3>2. CASE ~(call.name = "shell" \/ call.n = 0)
      <4>1. d = C!Push(b, f)
        BY <3>2 DEF C!AddArguments
      <4> HIDE DEF d, f
      <4>2. /\ d.calls = b.calls /\ DOMAIN d = ChatFields /\ d.completed = b.completed
            /\ d.out = Append(b.out, f)
        BY <2>2, <4>1 DEF C!Push, ChatFields
      <4>3. TrueEvent(f, u, TRUE)
        BY <2>4, <3>2, ItemEventTrue, Zenon DEF KnownWhole
      <4> QED
        BY <2>6, <4>2, <4>3, TrueMore, Zenon
    <3> QED
      BY <3>1, <3>2, Zenon
  <2> HIDE DEF d
  <2>8. /\ DOMAIN d.calls = Calls /\ d.calls[k] = x
        /\ \A l \in Calls \ {k} : d.calls[l] = c.calls[l]
    BY <2>2, <2>7
  <2> QED
    BY <2>1, <2>2, <2>5, <2>7, <2>8, Zenon
<1> QED
  BY <1>1, <1>2, Zenon

\* d holds the calls of c, shown or not.
KeepsCalls(c, d) ==
    /\ DOMAIN d = ChatFields /\ DOMAIN d.calls = Calls /\ d.completed = c.completed
    /\ \A l \in Calls : /\ DOMAIN d.calls[l] = CallFields
                        /\ d.calls[l].item = c.calls[l].item
                        /\ c.calls[l].name = "shell" => d.calls[l].name = "shell"

\* After calls were shown: x holds the converter before and the upstream's account.
ShownTrue(x, k, s) == KeepsCalls(x.c, s) /\ TrueQueue(s.out, x.u, TRUE)
ShowTrueFold == INSTANCE FoldLemmas WITH Op <- C!Publish, At <- ShownTrue

\* Nor do all of them, one after the other.
LEMMA EmitAllTrue ==
    ASSUME NEW c, KeepsCalls(c, c), NEW S \in SUBSET Calls,
           NEW u, TrueQueue(c.out, u, TRUE),
           \A k \in S : KnownWhole(u, c.calls[k].item, c.calls[k].name)
    PROVE  LET d == C!EmitAll(c, S) IN KeepsCalls(c, d) /\ TrueQueue(d.out, u, TRUE)
<1> DEFINE q == C!ByRank(S, LAMBDA k : k)
           x == [c |-> c, u |-> u]
           d == C!FoldOver(C!Publish, c, q)
<1>1. Calls \in SUBSET Nat /\ IsFiniteSet(S)
  BY StreamAssumption, FS_Subset, Zenon
<1>2. Lists(q, S)
  BY <1>1, NumbersList
<1> HIDE DEF q
<1>3. PICK m \in Nat : DOMAIN q = 1..m
  BY <1>2 DEF Lists
<1>4. ShownTrue(x, 0, c)
  BY Zenon DEF ShownTrue
<1>5. ASSUME NEW k \in 1..m, NEW s, ShownTrue(x, k - 1, s)
      PROVE  ShownTrue(x, k, C!Publish(s, q[k]))
  <2> DEFINE l == q[k]
             e == C!Publish(s, l)
  <2>1. l \in S /\ l \in Calls
    BY <1>2, <1>3 DEF Lists
  <2>2. KeepsCalls(c, s) /\ TrueQueue(s.out, u, TRUE)
    BY <1>5, Zenon DEF ShownTrue
  <2> HIDE DEF l
  <2>3. KnownWhole(u, s.calls[l].item, s.calls[l].name)
    BY <2>1, <2>2 DEF KeepsCalls, KnownWhole
  <2>4. /\ DOMAIN e = ChatFields /\ DOMAIN e.calls = Calls /\ e.completed = s.completed
        /\ \A j \in Calls \ {l} : e.calls[j] = s.calls[j]
        /\ DOMAIN e.calls[l] = CallFields /\ e.calls[l].item = s.calls[l].item
        /\ s.calls[l].name = "shell" => e.calls[l].name = "shell"
        /\ TrueQueue(e.out, u, TRUE)
    BY <2>1, <2>2, <2>3, EmitTrue, Zenon DEF KeepsCalls
  <2> HIDE DEF e
  <2>5. KeepsCalls(c, e)
    BY <2>1, <2>2, <2>4 DEF KeepsCalls
  <2>6. ShownTrue(x, k, e)
    BY <2>4, <2>5, Zenon DEF ShownTrue
  <2> QED
    BY <2>6 DEF e, l
<1> HIDE DEF x, d
<1>6. ShownTrue(x, m, ShowTrueFold!FoldOver(C!Publish, c, q))
  BY <1>3, <1>4, <1>5, ShowTrueFold!FoldReaches, Least, Zenon DEF ShowTrueFold!Least
<1>7. d = ShowTrueFold!FoldOver(C!Publish, c, q)
  BY DEF d, C!FoldOver, C!MapThenFoldSet, ShowTrueFold!FoldOver, ShowTrueFold!MapThenFoldSet
<1>8. ShownTrue(x, m, d)
  BY <1>6, <1>7
<1>9. KeepsCalls(c, d) /\ TrueQueue(d.out, u, TRUE)
  BY <1>8, Zenon DEF ShownTrue, x
<1>10. C!EmitAll(c, S) = d
  BY DEF C!EmitAll, d, q
<1> QED
  BY <1>9, <1>10, Zenon

\* What the output's snapshots are of: no action, or a whole one that the converter
\* knows by its name.
KnownOutput(c, u, q) ==
    \A j \in DOMAIN q :
        \/ Kind(q[j].item) \in {"reasoning", "message"}
        \/ \E k \in Calls : /\ Kind(q[j].item) = "function_call"
                            /\ q[j].item = c.calls[k].item
                            /\ KnownWhole(u, q[j].item, c.calls[k].name)

\* The end of one item.
LEMMA DoneTrue ==
    ASSUME NEW c, NEW u, NEW q, KnownOutput(c, u, q), NEW j \in DOMAIN q,
           NEW s, s.calls = c.calls, TrueQueue(s.out, u, TRUE)
    PROVE  TrueQueue(s.out \o C!DoneEvents(s, q[j]), u, TRUE)
<1> DEFINE p == q[j]
           e == C!ItemDone(p)
           t == C!TextDone(p.item, p.n)
           a == C!ArgsDone(p.item, p.n)
<1>1. /\ e.type \notin Says \cup Ends /\ e.of.item = p.item
      /\ t.type \notin Ends /\ t.of.item = p.item
      /\ a.type \notin Ends /\ a.of.item = p.item
  BY DEF C!ItemDone, C!TextDone, C!ArgsDone, C!Delta, Says, Ends
<1>2. PICK E : s.out \in Seq(E)
  BY DEF TrueQueue
<1>3. s.out \o <<>> = s.out
  BY <1>2
<1>4. CASE Kind(p.item) \in {"reasoning", "message"}
  <2>1. C!DoneEvents(s, p) \in {<<>>, <<e>>, <<t, e>>}
    BY <1>4 DEF C!DoneEvents
  <2>2. ~Action(u, p.item)
    BY <1>4 DEF Action
  <2> HIDE DEF p, e, t
  <2>3. TrueEvent(e, u, TRUE) /\ TrueEvent(t, u, TRUE)
    BY <1>1, <2>2, ItemEventTrue, Zenon
  <2>4. /\ TrueQueue(s.out \o <<e>>, u, TRUE)
        /\ TrueQueue(s.out \o <<t>>, u, TRUE) /\ TrueQueue(s.out \o <<t, e>>, u, TRUE)
    BY <2>3, TrueTwo, Zenon
  <2>5. TrueQueue(s.out \o C!DoneEvents(s, p), u, TRUE)
    BY <1>3, <2>1, <2>4, Zenon
  <2> QED
    BY <2>5, Zenon DEF p
<1>5. ASSUME NEW k \in Calls, Kind(p.item) = "function_call", p.item = c.calls[k].item,
             KnownWhole(u, p.item, c.calls[k].name)
      PROVE  TrueQueue(s.out \o C!DoneEvents(s, q[j]), u, TRUE)
  <2>1. C!DoneEvents(s, p) = IF \E l \in Calls : s.calls[l].item = p.item
                                                    /\ s.calls[l].name = "shell"
                             THEN <<e>> ELSE <<a, e>>
    BY <1>5 DEF C!DoneEvents
  <2> HIDE DEF p, e, a
  <2>2. TrueEvent(e, u, TRUE)
    BY <1>1, <1>5, ItemEventTrue, Zenon DEF KnownWhole
  <2>3. CASE \E l \in Calls : s.calls[l].item = p.item /\ s.calls[l].name = "shell"
    <3>1. TrueQueue(s.out \o <<e>>, u, TRUE)
      BY <2>2, TrueTwo, Zenon
    <3> QED
      BY <2>1, <2>3, <3>1, Zenon DEF p
  <2>4. CASE ~\E l \in Calls : s.calls[l].item = p.item /\ s.calls[l].name = "shell"
    <3>1. ~Action(u, p.item)
      BY <1>5, <2>4 DEF KnownWhole
    <3>2. TrueEvent(a, u, TRUE)
      BY <1>1, <3>1, ItemEventTrue, Zenon
    <3>3. TrueQueue(s.out \o <<a, e>>, u, TRUE)
      BY <2>2, <3>2, TrueTwo, Zenon
    <3> QED
      BY <2>1, <2>4, <3>3, Zenon DEF p
  <2> QED
    BY <2>3, <2>4, Zenon
<1> QED
  BY <1>4, <1>5, Zenon DEF KnownOutput

EndedTrue(x, k, s) ==
    DOMAIN s = ChatFields /\ s.calls = x.c.calls /\ TrueQueue(s.out, x.u, TRUE)
EndTrueFold == INSTANCE FoldLemmas WITH Op <- C!FinishItem, At <- EndedTrue

\* The end of all of them, and of the response.
LEMMA EndingTrue ==
    ASSUME NEW c, DOMAIN c = ChatFields, NEW u, TrueQueue(c.out, u, TRUE),
           NEW q, NEW m \in Nat, DOMAIN q = 1..m, KnownOutput(c, u, q),
           NEW last, DOMAIN last = {"type", "of", "output", "reason"}, last.type \in Ends,
           last.type = "completed" /\ last.reason = "none" => Succeeded(u) /\ CallsFull(q)
    PROVE  TrueQueue(C!Ending(c, q, last).out, u, TRUE)
<1> DEFINE x == [c |-> c, u |-> u]
           g == C!FoldOver(C!FinishItem, c, q)
           e == [last EXCEPT !.output = q]
           f == C!DoneMark
<1>1. EndedTrue(x, 0, c)
  BY Zenon DEF EndedTrue
<1>2. ASSUME NEW k \in 1..m, NEW s, EndedTrue(x, k - 1, s)
      PROVE  EndedTrue(x, k, C!FinishItem(s, q[k]))
  <2> DEFINE d == C!FinishItem(s, q[k])
  <2>1. DOMAIN s = ChatFields /\ s.calls = c.calls /\ TrueQueue(s.out, u, TRUE)
    BY <1>2, Zenon DEF EndedTrue
  <2>2. DOMAIN d = ChatFields /\ d.calls = s.calls /\ d.out = s.out \o C!DoneEvents(s, q[k])
    BY <2>1 DEF C!FinishItem, ChatFields
  <2> HIDE DEF d
  <2>3. TrueQueue(d.out, u, TRUE)
    BY <2>1, <2>2, DoneTrue, Zenon
  <2>4. EndedTrue(x, k, d)
    BY <2>1, <2>2, <2>3, Zenon DEF EndedTrue
  <2> QED
    BY <2>4 DEF d
<1> HIDE DEF x, g
<1>3. EndedTrue(x, m, EndTrueFold!FoldOver(C!FinishItem, c, q))
  BY <1>1, <1>2, EndTrueFold!FoldReaches, Least, Zenon DEF EndTrueFold!Least
<1>4. g = EndTrueFold!FoldOver(C!FinishItem, c, q)
  BY DEF g, C!FoldOver, C!MapThenFoldSet, EndTrueFold!FoldOver, EndTrueFold!MapThenFoldSet
<1>5. EndedTrue(x, m, g)
  BY <1>3, <1>4
<1>6. DOMAIN g = ChatFields /\ TrueQueue(g.out, u, TRUE)
  BY <1>5, Zenon DEF EndedTrue, x
<1>7. e.type = last.type /\ e.output = q /\ e.reason = last.reason
  OBVIOUS
<1>8. f.type = "[DONE]"
  BY DEF C!DoneMark
<1>9. C!Ending(c, q, last).out = g.out \o <<e, f>>
  BY <1>6 DEF C!Ending, C!PushLast, ChatFields, g
<1> HIDE DEF e, f
<1>10. TrueEvent(e, u, TRUE) /\ TrueEvent(f, u, TRUE)
  BY <1>7, <1>8 DEF TrueEvent, Touches, Says, Ends
<1> QED
  BY <1>6, <1>9, <1>10, TrueTwo, Zenon

\* A response ends, and neither shows a piece of a shell action nor claims a success that
\* is not the upstream's.
LEMMA ChatClosesTrue ==
    ASSUME NEW r, NEW c, NEW n, ChatLive(r, c, n), NEW u, CallsTold(c, u),
           TrueQueue(c.out, u, TRUE), NEW failed \in BOOLEAN, NEW reason,
           NEW last, DOMAIN last = {"type", "of", "output", "reason"}, last.type \in Ends,
           \A k \in C!Published(c, failed) :
               c.calls[k].name = "shell" => u.tools[k] = Full /\ ~u.fault,
           last.type = "completed" /\ last.reason = "none" =>
               /\ Succeeded(u) /\ reason = "none"
               /\ \A k \in C!Published(c, failed) : c.calls[k].n \in {0, Full}
    PROVE  LET S == C!Published(c, failed) IN
           TrueQueue(C!Ending(C!EmitAll(c, S), C!FinalOutput(c, S, reason), last).out, u, TRUE)
<1> DEFINE S == C!Published(c, failed)
           b == C!EmitAll(c, S)
           q == C!FinalOutput(c, S, reason)
<1>1. ChatShaped(c, n) /\ ChatGood(r, c, n)
  BY ChatShape DEF ChatLive
<1>2. S \in SUBSET Begun(c) /\ Begun(c) \in SUBSET Calls
  BY DEF C!Published, Begun
<1>3. DOMAIN C!NoCall = CallFields
  BY DEF C!NoCall, CallFields
<1>4. KeepsCalls(c, c)
  BY <1>1, <1>3 DEF KeepsCalls, ChatShaped, Begun
<1>5. OutputHolds(c, S, reason, q)
  BY ChatCloses
<1> HIDE DEF q
<1>6. ASSUME NEW k \in S
      PROVE  /\ Kind(c.calls[k].item) = "function_call" /\ CallOf(c.calls[k].item) = k
             /\ KnownWhole(u, c.calls[k].item, c.calls[k].name)
  <2>1. Kind(c.calls[k].item) = "function_call" /\ CallOf(c.calls[k].item) = k
    BY <1>1, <1>2 DEF ChatGood, ChatHeard, CallsHeard
  <2>2. c.calls[k].name = NameTold(u, k)
    BY <1>2 DEF CallsTold
  <2> QED
    BY <2>1, <2>2 DEF KnownWhole, Action, WholeAction, NameTold
<1> HIDE DEF S
<1>7. KeepsCalls(c, b) /\ TrueQueue(b.out, u, TRUE)
  BY <1>2, <1>4, <1>6, EmitAllTrue, Zenon
<1> HIDE DEF b
<1>8. PICK m \in Nat : DOMAIN q = 1..m /\ \A j \in 1..m :
          \/ Kind(q[j].item) \in {"reasoning", "message"}
          \/ \E k \in S : /\ q[j] = C!CallSnapshot(c.calls[k], reason)
                          /\ Kind(q[j].item) = "function_call" /\ CallOf(q[j].item) = k
  BY <1>5 DEF OutputHolds
<1>9. ASSUME NEW k \in S
      PROVE  /\ C!CallSnapshot(c.calls[k], reason).item = c.calls[k].item
             /\ C!CallSnapshot(c.calls[k], reason).n =
                    IF c.calls[k].n = 0 /\ reason = "none" THEN Full ELSE c.calls[k].n
  BY DEF C!CallSnapshot, Full, C!Full
<1>10. KnownOutput(b, u, q)
  <2>1. ASSUME NEW k \in S
        PROVE  b.calls[k].item = c.calls[k].item
               /\ KnownWhole(u, c.calls[k].item, b.calls[k].name)
    BY <1>2, <1>6, <1>7 DEF KeepsCalls, KnownWhole
  <2>2. ASSUME NEW j \in 1..m, NEW k \in S, q[j] = C!CallSnapshot(c.calls[k], reason)
        PROVE  k \in Calls /\ q[j].item = b.calls[k].item
               /\ KnownWhole(u, q[j].item, b.calls[k].name)
    BY <1>2, <1>9, <2>1, <2>2
  <2> QED
    BY <1>8, <2>2 DEF KnownOutput
<1>11. last.type = "completed" /\ last.reason = "none" => Succeeded(u) /\ CallsFull(q)
  <2> SUFFICES ASSUME last.type = "completed" /\ last.reason = "none"
               PROVE  Succeeded(u) /\ CallsFull(q)
    OBVIOUS
  <2>1. Succeeded(u) /\ reason = "none" /\ \A k \in S : c.calls[k].n \in {0, Full}
    BY DEF S
  <2>2. ASSUME NEW j \in 1..m, Kind(q[j].item) = "function_call" PROVE q[j].n = Full
    <3>1. PICK k \in S : q[j] = C!CallSnapshot(c.calls[k], reason)
      BY <1>8, <2>2
    <3> QED
      BY <1>9, <2>1, <3>1
  <2> QED
    BY <1>8, <2>1, <2>2 DEF CallsFull
<1>12. DOMAIN b = ChatFields
  BY <1>7 DEF KeepsCalls
<1>13. TrueQueue(C!Ending(b, q, last).out, u, TRUE)
  BY <1>7, <1>8, <1>10, <1>11, <1>12, EndingTrue, Zenon
<1> QED
  BY <1>13, Zenon DEF b, q, S

\* A failed response shows no shell action.
LEMMA ChatErrsTrue ==
    ASSUME NEW r, NEW c, NEW n, ChatLive(r, c, n), NEW u, CallsTold(c, u),
           TrueQueue(c.out, u, TRUE)
    PROVE  TrueQueue(C!PushError(c).out, u, TRUE)
<1> DEFINE b == C!Log(c, "error")
           S == C!Published(b, TRUE)
           last == C!Failed
           f == C!Ending(C!EmitAll(b, S), C!FinalOutput(b, S, "none"), last)
           d == [f EXCEPT !.ended = TRUE]
<1>1. DOMAIN c = ChatFields /\ ~c.sentDone
  BY ChatShape DEF ChatLive, ChatShaped
<1>2. SameStream(c, b)
  BY <1>1 DEF SameStream, C!Log, ChatFields
<1>3. C!PushError(c) = d
  BY <1>1 DEF C!PushError, C!Fail
<1> HIDE DEF b
<1>4. ChatLive(r, b, n)
  BY <1>2, StreamSame
<1>5. CallsTold(b, u) /\ TrueQueue(b.out, u, TRUE)
  BY <1>2, Zenon DEF SameStream, CallsTold
<1>6. DOMAIN last = {"type", "of", "output", "reason"} /\ last.type \in Ends
      /\ last.type # "completed"
  BY DEF C!Failed, Ends
<1>7. \A k \in S : b.calls[k].name # "shell"
  BY DEF C!Published
<1> HIDE DEF last
<1>8. TrueQueue(f.out, u, TRUE)
  BY <1>4, <1>5, <1>6, <1>7, ChatClosesTrue, Zenon
<1>9. DOMAIN f = ChatFields
  BY <1>4, <1>6, ChatCloses, Zenon
<1> HIDE DEF f
<1>10. d.out = f.out
  BY <1>9 DEF ChatFields
<1> HIDE DEF d
<1> QED
  BY <1>3, <1>8, <1>10, Zenon

\* A response that ends holds whole shell actions, and is completed only if the upstream's
\* answer was not cut short and every call has all its arguments.
LEMMA ChatDoneTrue ==
    ASSUME NEW r, NEW c, NEW n, ChatLive(r, c, n), NEW u, CallsTold(c, u),
           TrueQueue(c.out, u, TRUE), u.finish = c.finish,
           u.finish \in FinishReasons \cup {"none"}, u.finish # "none" => ~u.fault
    PROVE  TrueQueue(C!PushDone(c).out, u, TRUE)
<1>0. ~c.sentDone
  BY ChatShape DEF ChatLive, ChatShaped
<1>1. CASE c.finish = "none" \/ ~C!ShellCallsValid(c)
  <2>1. C!PushDone(c) = C!PushError(c)
    BY <1>0, <1>1 DEF C!PushDone
  <2> QED
    BY <2>1, ChatErrsTrue, Zenon
<1>2. CASE ~(c.finish = "none" \/ ~C!ShellCallsValid(c))
  <2> DEFINE S == C!Published(c, FALSE)
             reason == C!TerminalReason(c, S)
             last == C!Terminal(reason, <<>>)
             d == C!Ending(C!EmitAll(c, S), C!FinalOutput(c, S, reason), last)
  <2>1. C!PushDone(c) = d
    BY <1>0, <1>2 DEF C!PushDone, C!Complete, C!CompleteWith
  <2>2. /\ DOMAIN last = {"type", "of", "output", "reason"} /\ last.type \in Ends
        /\ last.reason = reason
    BY DEF C!Terminal, Ends
  <2>3. S \in SUBSET Calls
    BY DEF C!Published
  <2>4. ASSUME NEW k \in S, c.calls[k].name = "shell" PROVE u.tools[k] = Full /\ ~u.fault
    <3>1. c.calls[k].n = Full /\ c.calls[k].n = UnitsTold(u, k)
      BY <1>2, <2>3, <2>4, Zenon DEF C!ShellCallsValid, CallsTold, Full, C!Full
    <3> QED
      BY <1>2, <3>1 DEF UnitsTold, Full
  <2>5. ASSUME reason = "none"
        PROVE  Succeeded(u) /\ \A k \in S : c.calls[k].n \in {0, Full}
    <3>1. C!IncompleteReason(c.finish) = "none"
      BY <2>5, Zenon DEF C!TerminalReason
    <3>2. c.finish \notin {"length", "max_tokens", "content_filter"}
      BY <3>1 DEF C!IncompleteReason
    <3>3. \A k \in S : C!ValidCall(c, c.calls[k])
      BY <2>5, <3>2, Zenon DEF C!TerminalReason
    <3>4. \A k \in S : c.calls[k].n \in {0, Full}
      BY <3>3, Zenon DEF C!ValidCall, Full, C!Full
    <3>5. u.finish \notin CutShort
      BY <1>2, <3>2, StreamAssumption DEF CutShort
    <3> QED
      BY <1>2, <3>4, <3>5, Zenon DEF Succeeded, HasStated
  <2> HIDE DEF S, reason, last
  <2>6. TrueQueue(d.out, u, TRUE)
    BY <2>2, <2>4, <2>5, ChatClosesTrue, Zenon DEF S
  <2> QED
    BY <2>1, <2>6, Zenon
<1> QED
  BY <1>1, <1>2, Zenon

\* A Chat upstream that ends or fails.
LEMMA ChatStopsWhole ==
    ASSUME OutcomeInv, ChatStream, ChatWhole, ChatEnds \/ ChatFails
    PROVE  ChatWhole'
<1>1. route \in ChatRoutes /\ C!Reading /\ route' = route /\ read' = read
  BY DEF ChatEnds, ChatFails, ChatRead, C!ReceiveDoneMark, C!EndOfUpstream, C!ReceiveError,
         ChatUnchanged
<1> DEFINE n == up.sent
<1>2. IsReader(read) /\ ChatLive(read, chat, n)
  BY <1>1, ChatStreamReads
<1> HIDE DEF n
<1>3. /\ DOMAIN chat = ChatFields /\ ~chat.sentDone /\ ~chat.ended /\ DOMAIN up = UpFields
      /\ chat.finish = up.finish
  BY <1>1, ChatReads DEF ChatWorking, UpFine, ChatTells
<1>4. /\ up.finish \in FinishReasons \cup {"none"} /\ read.end = "none"
      /\ CallsTold(chat, up)
  BY <1>1, <1>3 DEF ChatWhole
<1>5. /\ up'.finish = up.finish /\ up'.tools = up.tools /\ up'.named = up.named
      /\ ChatEnds => up'.fault = (up.finish = "none")
  BY <1>3, Zenon DEF ChatEnds, ChatFails, UpFields
<1>6. chat.out = <<>>
  BY <1>1 DEF C!Reading
<1>7. CallsTold(chat, up') /\ TrueQueue(chat.out, up', TRUE)
  BY <1>4, <1>5, <1>6, TrueNone, Zenon DEF CallsTold, NameTold, UnitsTold
<1>8. TrueReading(read, up', TRUE)
  BY <1>2, <1>4, <1>7, LiveTrue, Zenon
<1>9. chat'.sentDone /\ TrueQueue(chat'.out, up', TRUE)
  <2>1. CASE chat' = C!PushError(chat)
    BY <1>2, <1>7, <2>1, ChatErrsTrue, ChatErrsConcluded, Zenon DEF Concluded
  <2>2. CASE ChatEnds /\ chat' = C!PushDone(chat)
    BY <1>2, <1>3, <1>4, <1>5, <1>7, <2>2, ChatDoneTrue, ChatDoneConcluded, Zenon DEF Concluded
  <2>3. CASE ChatEnds /\ C!EndOfUpstream
    <3> DEFINE b == [chat EXCEPT !.ended = TRUE]
               d == C!PushDone(b)
    <3>1. SameStream(chat, b) /\ b.finish = chat.finish
      BY <1>3 DEF SameStream, ChatFields
    <3>2. chat' = C!Log(d, "ok")
      BY <2>3 DEF C!EndOfUpstream
    <3> HIDE DEF b
    <3>3. ChatLive(read, b, n)
      BY <1>2, <3>1, StreamSame
    <3>4. CallsTold(b, up') /\ TrueQueue(b.out, up', TRUE)
      BY <1>7, <3>1, Zenon DEF SameStream, CallsTold
    <3>5. TrueQueue(d.out, up', TRUE)
      BY <1>3, <1>4, <1>5, <2>3, <3>1, <3>3, <3>4, ChatDoneTrue, Zenon
    <3>6. DOMAIN d = ChatFields /\ d.sentDone
      BY <3>3, ChatDoneConcluded, Zenon DEF Concluded
    <3> HIDE DEF d
    <3>7. chat'.out = d.out /\ chat'.sentDone = d.sentDone
      BY <3>2, <3>6, Zenon DEF C!Log, ChatFields
    <3> QED
      BY <3>5, <3>6, <3>7, Zenon
  <2> QED
    BY <2>1, <2>2, <2>3, Zenon DEF ChatEnds, ChatFails, C!ReceiveDoneMark, C!ReceiveError
<1> QED
  BY <1>1, <1>4, <1>5, <1>8, <1>9, Zenon DEF ChatWhole

\* A response under way has queued no end, so its reader has none.
LEMMA LiveGoesOn ==
    ASSUME NEW r, NEW c, NEW n, IsReader(r), ChatLive(r, c, n), c.out # <<>>
    PROVE  Head(c.out).type \notin Ends
<1>1. PICK t : Reads(r, c.out, t) /\ ChatHeard(t, c, n)
  BY DEF ChatLive, ChatGood
<1>2. PICK E : c.out \in Seq(E)
  BY <1>1 DEF Reads
<1>3. 1 \in 1..Len(c.out) /\ Head(c.out) = c.out[1]
  BY <1>2
<1>4. \A j \in 1..Len(c.out) : c.out[j].type \in Ends => t.phase = "ended"
  BY <1>1, ReadsItems
<1>5. t.phase = "open"
  BY <1>1 DEF ChatHeard, ChatBasic
<1> QED
  BY <1>3, <1>4, <1>5

\* Only the end of a response gives its reader one.
LEMMA HearsNoEnd ==
    ASSUME NEW r, NEW e, IsReader(r), Fits(r, e), e.type \notin Ends
    PROVE  Hear(r, e).end = r.end
<1>1. DOMAIN r = ReadFields
  BY DEF IsReader
<1>2. \A i, field : Count(r, i, field).end = r.end
  BY <1>1 DEF Count, ReadFields
<1> QED
  BY <1>1, <1>2 DEF Hear, Ends, ReadFields

\* The reader is given the next event.
LEMMA RelayChatWhole ==
    ASSUME OutcomeInv, ChatStream, ChatWhole, RelayChat
    PROVE  ChatWhole'
<1> DEFINE e == Head(chat.out)
<1>1. /\ route \in ChatRoutes /\ IsReader(read) /\ Fits(read, e) /\ read' = Hear(read, e)
  BY ChatRelays
<1>2. /\ chat.out # <<>> /\ route' = route /\ up' = up
      /\ chat' = [chat EXCEPT !.out = Tail(chat.out)]
  BY DEF RelayChat, C!Emit
<1>3. ~chat.gone /\ DOMAIN chat = ChatFields
  BY <1>2 DEF OutcomeInv, ChatPart, ChatFine
<1>4. /\ chat'.out = Tail(chat.out) /\ chat'.sentDone = chat.sentDone
      /\ chat'.calls = chat.calls
  BY <1>2, <1>3 DEF ChatFields
<1>5. TrueEvent(e, up, TRUE) /\ TrueQueue(Tail(chat.out), up, TRUE)
  BY <1>1, <1>2, TrueNext, Zenon DEF ChatWhole
<1>6. ASSUME ~chat.sentDone PROVE read'.end = "none" /\ CallsTold(chat', up)
  <2>1. ChatLive(read, chat, up.sent)
    BY <1>1, <1>3, <1>6 DEF ChatStream, Concluded
  <2>2. e.type \notin Ends
    BY <1>1, <1>2, <2>1, LiveGoesOn
  <2> HIDE DEF e
  <2>3. read'.end = read.end
    BY <1>1, <2>2, HearsNoEnd
  <2> QED
    BY <1>1, <1>4, <1>6, <2>3 DEF ChatWhole, CallsTold
<1> HIDE DEF e
<1>7. TrueReading(read', up, TRUE)
  BY <1>1, <1>5, HearTrue, Zenon DEF ChatWhole
<1> QED
  BY <1>1, <1>2, <1>4, <1>5, <1>6, <1>7, Zenon DEF ChatWhole

----------------------------------------------------------------------------
(* An Anthropic upstream's success.  Its calls have no names here, so no   *)
(* item is a shell action.                                                 *)

\* What the upstream's account has of a call that the converter knows as i: its block, and
\* its units.
CallWhole(i, block, told) ==
    /\ i.n \in Nat /\ i.inline \in Nat /\ (i.n > 0 => i.inline = 0)
    /\ "n" \in DOMAIN block /\ block.n = i.n
    /\ told = IF i.n = 0 THEN i.inline ELSE i.n
BlocksWhole(c, u) ==
    \A b \in DOMAIN c.items :
        Kind(c.items[b].item) = "function_call" =>
            b \in DOMAIN u.tools /\ CallWhole(c.items[b], u.blocks[b], u.tools[b])

\* What is queued and what was read is true, and the converter of a response under way knows
\* what the upstream told.
ClaudeWhole ==
    route \in ClaudeRoutes =>
        /\ up.finish \in StopReasons \cup {"none"} /\ up.named = <<>>
        /\ ~claude.sentDone => /\ read.end = "none" /\ claude.reason = L!StatusOf(up.finish)
                               /\ BlocksWhole(claude, up)
        /\ TrueQueue(claude.out, up, TRUE) /\ TrueReading(read, up, TRUE)

\* Where no call has a name there is no shell action.
LEMMA NoActions ==
    ASSUME NEW u, u.named = <<>> PROVE \A i : ~Action(u, i)
<1>1. DOMAIN <<>> = {}
  OBVIOUS
<1> QED
  BY <1>1 DEF Action

\* So an event that does not end the response is true.
LEMMA PlainTrue ==
    ASSUME NEW u, u.named = <<>>, NEW e, e.type \notin Ends PROVE TrueEvent(e, u, TRUE)
BY NoActions, ItemEventTrue, Zenon

\* While a response is under way no success is queued or read.
LEMMA ClaudeLiveTrue ==
    ASSUME NEW r, NEW c, ClaudeGood(r, c), IsReader(r), r.end = "none",
           NEW u, u.named = <<>>
    PROVE  /\ TrueQueue(c.out, u, TRUE) /\ TrueReading(r, u, TRUE)
           /\ c.out # <<>> => Head(c.out).type \notin Ends
<1>1. PICK t : Reads(r, c.out, t) /\ t.phase = "open"
  BY DEF ClaudeGood, ClaudeHeard
<1>2. \A j \in 1..Len(c.out) : c.out[j].type \notin Ends
  BY <1>1, ReadsItems
<1>3. PICK E : c.out \in Seq(E)
  BY <1>1 DEF Reads
<1>4. \A j \in 1..Len(c.out) : TrueEvent(c.out[j], u, TRUE)
  BY <1>2, PlainTrue, Zenon
<1>5. TrueQueue(c.out, u, TRUE)
  BY <1>3, <1>4, Zenon DEF TrueQueue
<1>6. TrueReading(r, u, TRUE)
  BY NoActions DEF TrueReading
<1>7. c.out # <<>> => 1 \in 1..Len(c.out) /\ Head(c.out) = c.out[1]
  BY <1>3
<1> QED
  BY <1>2, <1>5, <1>6, <1>7, Zenon

\* At the start nothing is told.
LEMMA ClaudeWholeStarts == Init => ClaudeWhole
<1> SUFFICES ASSUME Init, route \in ClaudeRoutes PROVE ClaudeWhole
  BY Zenon DEF ClaudeWhole
<1>1. claude = L!NewClaude /\ up = NothingSent /\ read = NothingRead
  BY DEF Init, L!Init, ClaudeRoutes
<1>2. up.finish = "none" /\ up.named = <<>> /\ read.end = "none"
  BY <1>1 DEF NothingSent, NothingRead
<1>3. ~claude.sentDone /\ ~claude.gone /\ claude.items = <<>> /\ claude.reason = "none"
  BY <1>1 DEF L!NewClaude
<1>4. IsReader(read) /\ ClaudeGood(read, claude)
  BY <1>3, ClaudeStreamStarts DEF ClaudeStream, ClaudeLive, Concluded
<1>5. DOMAIN <<>> = {}
  OBVIOUS
<1>6. BlocksWhole(claude, up)
  BY <1>3, <1>5 DEF BlocksWhole
<1>7. L!StatusOf("none") = "none"
  BY DEF L!StatusOf
<1> QED
  BY <1>2, <1>3, <1>4, <1>6, <1>7, ClaudeLiveTrue, Zenon DEF ClaudeWhole

\* A step of the upstream after which the response is still under way.
LEMMA ClaudeGoesOnWhole ==
    ASSUME OutcomeInv, ClaudeStream, ClaudeWhole, route \in ClaudeRoutes, L!Reading,
           ClaudeStream', route' = route, read' = read,
           claude'.sentDone = claude.sentDone, claude'.gone = claude.gone,
           up'.named = up.named, up'.finish \in StopReasons \cup {"none"},
           claude'.reason = L!StatusOf(up'.finish), BlocksWhole(claude', up')
    PROVE  ClaudeWhole'
<1>1. ~claude.sentDone /\ ~claude.gone
  BY ClaudeReads
<1>2. IsReader(read) /\ ClaudeGood(read, claude')
  BY <1>1 DEF ClaudeStream, ClaudeLive, Concluded
<1>3. read.end = "none" /\ up'.named = <<>>
  BY <1>1 DEF ClaudeWhole
<1> QED
  BY <1>2, <1>3, ClaudeLiveTrue, Zenon DEF ClaudeWhole

\* d differs from c in block b alone, and in what is queued.
Beside(c, d, b) ==
    /\ DOMAIN d = ClaudeFields
    /\ d.sentDone = c.sentDone /\ d.gone = c.gone /\ d.reason = c.reason
    /\ DOMAIN d.items = DOMAIN c.items \cup {b}
    /\ \A x \in DOMAIN c.items \ {b} : d.items[x] = c.items[x]

\* A block is heard of.
LEMMA EnsureBeside ==
    ASSUME NEW c, DOMAIN c = ClaudeFields, NEW b, NEW kind
    PROVE  LET d == L!Ensure(c, b, kind) IN
           /\ Beside(c, d, b)
           /\ b \in DOMAIN c.items => d = c
           /\ b \notin DOMAIN c.items =>
                 DOMAIN d.items[b] = BlockFields /\ d.items[b].n = 0 /\ d.items[b].inline = 0
<1>1. CASE b \in DOMAIN c.items
  BY <1>1 DEF L!Ensure, Beside
<1>2. CASE b \notin DOMAIN c.items
  <2> DEFINE i == L!ItemOf(c, b, kind)
             x == [item |-> i, n |-> 0, sig |-> "none", closed |-> FALSE, inline |-> 0]
             d == L!OpenItem(c, b, i)
  <2>1. x.n = 0 /\ x.inline = 0 /\ DOMAIN x = BlockFields
    BY DEF BlockFields
  <2>2. /\ DOMAIN d = ClaudeFields /\ d.items = L!With(c.items, b, x)
        /\ d.sentDone = c.sentDone /\ d.gone = c.gone /\ d.reason = c.reason
    BY DEF L!OpenItem, L!Push, ClaudeFields
  <2>3. L!Ensure(c, b, kind) = d
    BY <1>2 DEF L!Ensure
  <2> HIDE DEF d, x
  <2> QED
    BY <1>2, <2>1, <2>2, <2>3 DEF Beside, L!With
<1> QED
  BY <1>1, <1>2

\* Something is said of it, or kept for it.
LEMMA TellBeside ==
    ASSUME NEW c, DOMAIN c = ClaudeFields, NEW b \in DOMAIN c.items,
           DOMAIN c.items[b] = BlockFields, NEW n, NEW sig
    PROVE  /\ Beside(c, L!Thinking(c, b, n), b) /\ Beside(c, L!Sign(c, b, sig), b)
           /\ Beside(c, L!Text(c, b, n), b) /\ Beside(c, L!StopBlock(c, b), b)
           /\ DOMAIN L!Sign(c, b, sig).items[b] = BlockFields
<1>0. DOMAIN c.items \cup {b} = DOMAIN c.items
  OBVIOUS
<1>1. Beside(c, c, b)
  BY <1>0 DEF Beside
<1>2. Beside(c, L!Thinking(c, b, n), b)
  BY <1>0, <1>1 DEF L!Thinking, L!Push, Beside, ClaudeFields
<1>3. Beside(c, L!Sign(c, b, sig), b) /\ DOMAIN L!Sign(c, b, sig).items[b] = BlockFields
  BY <1>0, <1>1 DEF L!Sign, Beside, ClaudeFields, BlockFields
<1>4. Beside(c, L!Text(c, b, n), b)
  BY <1>0 DEF L!Text, L!Push, Beside, ClaudeFields
<1>5. Beside(c, L!StopBlock(c, b), b)
  BY <1>0, <1>1 DEF L!StopBlock, L!Push, Beside, ClaudeFields
<1> QED
  BY <1>2, <1>3, <1>4, <1>5

\* The arguments of a call.
LEMMA ArgumentsBeside ==
    ASSUME NEW c, DOMAIN c = ClaudeFields, NEW b \in DOMAIN c.items,
           DOMAIN c.items[b] = BlockFields, NEW n
    PROVE  LET d == L!Arguments(c, b, n) IN
           /\ Beside(c, d, b) /\ d.items[b].n = c.items[b].n + n
           /\ n > 0 => d.items[b].inline = 0
<1>0. DOMAIN c.items \cup {b} = DOMAIN c.items
  OBVIOUS
<1> DEFINE e == L!ArgsDelta(c.items[b].item, n)
           d == [L!Push(c, e) EXCEPT !.items[b].n = @ + n,
                                     !.items[b].inline = IF n > 0 THEN 0 ELSE @]
<1>1. L!Arguments(c, b, n) = d
  BY Zenon DEF L!Arguments
<1> HIDE DEF e
<1>2. /\ DOMAIN d = ClaudeFields
      /\ d.sentDone = c.sentDone /\ d.gone = c.gone /\ d.reason = c.reason
      /\ DOMAIN d.items = DOMAIN c.items
      /\ \A x \in DOMAIN c.items : x # b => d.items[x] = c.items[x]
      /\ d.items[b] = [c.items[b] EXCEPT !.n = @ + n, !.inline = IF n > 0 THEN 0 ELSE @]
  BY DEF L!Push, ClaudeFields, BlockFields
<1> HIDE DEF d
<1>3. /\ d.items[b].n = c.items[b].n + n
      /\ n > 0 => d.items[b].inline = 0
  BY <1>2 DEF BlockFields
<1>4. Beside(c, d, b)
  BY <1>0, <1>2 DEF Beside
<1> QED
  BY <1>1, <1>3, <1>4

\* Those it was started with.
LEMMA InlineBeside ==
    ASSUME NEW c, DOMAIN c = ClaudeFields, NEW b \in DOMAIN c.items,
           DOMAIN c.items[b] = BlockFields, NEW n
    PROVE  LET d == [c EXCEPT !.items[b].inline = n] IN
           Beside(c, d, b) /\ d.items[b].n = c.items[b].n /\ d.items[b].inline = n
<1>1. DOMAIN c.items \cup {b} = DOMAIN c.items
  OBVIOUS
<1> QED
  BY <1>1 DEF Beside, ClaudeFields, BlockFields

\* Steps beside one block.
LEMMA BesideBeside ==
    ASSUME NEW c, NEW d, NEW e, NEW b, Beside(c, d, b), Beside(d, e, b)
    PROVE  Beside(c, e, b)
BY DEF Beside

\* content_block_start touches its block alone, and keeps a call's arguments.
LEMMA StartBeside ==
    ASSUME NEW c, DOMAIN c = ClaudeFields, NEW b, b \notin DOMAIN c.items,
           NEW kind, NEW n, NEW sig
    PROVE  LET d == L!StartBlock(c, b, kind, n, sig) IN
           /\ Beside(c, d, b)
           /\ kind = "function_call" => d.items[b].n = 0 /\ d.items[b].inline = n
<1> DEFINE m == L!Ensure(c, b, kind)
           d == L!StartBlock(c, b, kind, n, sig)
<1>1. /\ Beside(c, m, b) /\ DOMAIN m = ClaudeFields /\ b \in DOMAIN m.items
      /\ DOMAIN m.items[b] = BlockFields /\ m.items[b].n = 0 /\ m.items[b].inline = 0
  BY EnsureBeside DEF Beside
<1>2. CASE kind = "reasoning"
  <2> DEFINE s == L!Sign(m, b, sig)
             w == L!Thinking(s, b, n)
  <2>1. d = w
    BY <1>2 DEF L!StartBlock
  <2> HIDE DEF m, d
  <2>2. Beside(m, s, b) /\ DOMAIN s.items[b] = BlockFields
    BY <1>1, TellBeside
  <2> HIDE DEF s
  <2>3. DOMAIN s = ClaudeFields /\ b \in DOMAIN s.items
    BY <1>1, <2>2 DEF Beside
  <2>4. Beside(s, w, b)
    BY <2>2, <2>3, TellBeside
  <2> HIDE DEF w
  <2>5. Beside(c, w, b)
    BY <1>1, <2>2, <2>4, BesideBeside
  <2> QED
    BY <1>2, <2>1, <2>5 DEF d
<1>3. CASE kind = "function_call"
  <2> DEFINE w == [m EXCEPT !.items[b].inline = n]
  <2>1. d = w
    BY <1>3 DEF L!StartBlock
  <2> HIDE DEF m, d
  <2>2. Beside(m, w, b) /\ w.items[b].n = 0 /\ w.items[b].inline = n
    BY <1>1, InlineBeside
  <2> HIDE DEF w
  <2>3. Beside(c, w, b)
    BY <1>1, <2>2, BesideBeside
  <2> QED
    BY <2>1, <2>2, <2>3 DEF d
<1>4. CASE kind \notin {"reasoning", "function_call"}
  <2>1. d = m
    BY <1>4 DEF L!StartBlock
  <2> QED
    BY <1>1, <1>4, <2>1
<1> QED
  BY <1>2, <1>3, <1>4

\* content_block_delta touches its block alone, and replaces a call's arguments.
LEMMA WriteBeside ==
    ASSUME NEW c, DOMAIN c = ClaudeFields, NEW b, NEW kind \in ClaudeKinds,
           \/ b \in DOMAIN c.items /\ DOMAIN c.items[b] = BlockFields
                                   /\ Kind(c.items[b].item) = kind
           \/ b \notin DOMAIN c.items /\ kind # "web_search_call"
    PROVE  LET d == L!WriteBlock(c, b, ClaudeDelta(kind), 1) IN
           /\ Beside(c, d, b)
           /\ kind = "function_call" =>
                 /\ d.items[b].n = (IF b \in DOMAIN c.items THEN c.items[b].n ELSE 0) + 1
                 /\ d.items[b].inline = 0
<1> DEFINE m == L!Ensure(c, b, kind)
           d == L!WriteBlock(c, b, ClaudeDelta(kind), 1)
           was == IF b \in DOMAIN c.items THEN c.items[b].n ELSE 0
<1>1. /\ Beside(c, m, b) /\ DOMAIN m = ClaudeFields /\ b \in DOMAIN m.items
      /\ DOMAIN m.items[b] = BlockFields /\ m.items[b].n = was
  BY EnsureBeside DEF Beside
<1>2. CASE kind = "reasoning"
  <2>1. d = L!Thinking(m, b, 1)
    BY <1>2 DEF L!WriteBlock, ClaudeDelta
  <2> HIDE DEF m, d
  <2>2. Beside(m, d, b)
    BY <1>1, <2>1, TellBeside
  <2>3. Beside(c, d, b)
    BY <1>1, <2>2, BesideBeside
  <2> QED
    BY <1>2, <2>3 DEF d
<1>3. CASE kind = "message"
  <2>1. d = L!Text(m, b, 1)
    BY <1>3 DEF L!WriteBlock, ClaudeDelta
  <2> HIDE DEF m, d
  <2>2. Beside(m, d, b)
    BY <1>1, <2>1, TellBeside
  <2>3. Beside(c, d, b)
    BY <1>1, <2>2, BesideBeside
  <2> QED
    BY <1>3, <2>3 DEF d
<1>4. CASE kind = "function_call"
  <2>1. d = L!Arguments(m, b, 1)
    BY <1>4 DEF L!WriteBlock, ClaudeDelta
  <2> HIDE DEF m, d, was
  <2>2. Beside(m, d, b) /\ d.items[b].n = m.items[b].n + 1 /\ d.items[b].inline = 0
    BY <1>1, <2>1, ArgumentsBeside
  <2>3. Beside(c, d, b) /\ d.items[b].n = was + 1 /\ d.items[b].inline = 0
    BY <1>1, <2>2, BesideBeside
  <2> QED
    BY <2>3 DEF d, was
<1>5. CASE kind = "web_search_call"
  <2>1. d = c
    BY <1>5 DEF L!WriteBlock, ClaudeDelta
  <2> QED
    BY <1>5, <2>1 DEF Beside
<1> QED
  BY <1>2, <1>3, <1>4, <1>5 DEF ClaudeKinds

\* The upstream's account of the block.
LEMMA WroteTells ==
    ASSUME NEW b, NEW block, NEW n, DOMAIN up = UpFields
    PROVE  LET u == Wrote(up, b, block, n) IN
           /\ u.blocks = With(up.blocks, b, [block EXCEPT !.n = @ + n])
           /\ u.named = up.named /\ u.finish = up.finish
           /\ u.tools = IF block.kind = "function_call"
                        THEN With(up.tools, b, IF block.n + n = 0 THEN block.inline ELSE block.n + n)
                        ELSE up.tools
BY DEF Wrote, Tick, UpFields

\* It states no reason.
LEMMA WroteStates ==
    ASSUME NEW b, NEW block, NEW n, DOMAIN up = UpFields, up' = Wrote(up, b, block, n)
    PROVE  up'.named = up.named /\ up'.finish = up.finish
BY DEF Wrote, Tick, UpFields

\* After n more units of the block, the converter knows it as i.
CallGrew(i, block, n) ==
    Kind(i.item) = "function_call" =>
        /\ block.kind = "function_call" /\ "n" \in DOMAIN block /\ block.n \in Nat
        /\ i.n = block.n + n /\ i.inline \in Nat
        /\ IF i.n = 0 THEN i.inline = block.inline ELSE i.inline = 0

\* The converter knows what the upstream told of the block, and of all others.
LEMMA BlockTold ==
    ASSUME NEW c, NEW d, BlocksMatch(c, up), BlocksWhole(c, up), DOMAIN up = UpFields,
           NEW b, Beside(c, d, b), NEW block, NEW n \in Nat,
           CallGrew(d.items[b], block, n)
    PROVE  BlocksWhole(d, Wrote(up, b, block, n))
<1> DEFINE k == [block EXCEPT !.n = @ + n]
           u == Wrote(up, b, block, n)
           told == IF block.n + n = 0 THEN block.inline ELSE block.n + n
<1>1. /\ u.blocks = With(up.blocks, b, k)
      /\ u.tools = IF block.kind = "function_call" THEN With(up.tools, b, told) ELSE up.tools
  BY WroteTells
<1>2. "n" \in DOMAIN block => "n" \in DOMAIN k /\ k.n = block.n + n
  OBVIOUS
<1> HIDE DEF k, u, told
<1>3. ASSUME NEW x \in DOMAIN d.items, Kind(d.items[x].item) = "function_call", x # b
      PROVE  x \in DOMAIN u.tools /\ CallWhole(d.items[x], u.blocks[x], u.tools[x])
  <2>1. x \in DOMAIN c.items /\ d.items[x] = c.items[x]
    BY <1>3 DEF Beside
  <2>2. x \in DOMAIN up.tools /\ CallWhole(c.items[x], up.blocks[x], up.tools[x])
    BY <1>3, <2>1 DEF BlocksWhole
  <2>3. x \in DOMAIN u.tools /\ u.tools[x] = up.tools[x]
    BY <1>1, <1>3, <2>2 DEF With
  <2>4. u.blocks[x] = up.blocks[x]
    BY <1>1, <1>3, <2>1 DEF With, BlocksMatch
  <2> QED
    BY <2>1, <2>2, <2>3, <2>4
<1>4. ASSUME Kind(d.items[b].item) = "function_call"
      PROVE  b \in DOMAIN u.tools /\ CallWhole(d.items[b], u.blocks[b], u.tools[b])
  <2>1. b \in DOMAIN u.tools /\ u.tools[b] = told /\ u.blocks[b] = k
    BY <1>1, <1>4 DEF With, CallGrew
  <2>2. /\ d.items[b].n \in Nat /\ d.items[b].inline \in Nat
        /\ d.items[b].n > 0 => d.items[b].inline = 0
    BY <1>4 DEF CallGrew
  <2>3. told = IF d.items[b].n = 0 THEN d.items[b].inline ELSE d.items[b].n
    BY <1>4, Zenon DEF told, CallGrew
  <2>4. "n" \in DOMAIN k /\ k.n = d.items[b].n
    BY <1>2, <1>4 DEF CallGrew
  <2> QED
    BY <2>1, <2>2, <2>3, <2>4 DEF CallWhole
<1> QED
  BY <1>3, <1>4 DEF BlocksWhole, u

\* What a step that tells no arguments leaves of them.
LEMMA CallsStay ==
    ASSUME NEW c, NEW d, BlocksMatch(c, up), BlocksWhole(c, up),
           NEW b \in DOMAIN c.items, Beside(c, d, b), SameItems(c, d),
           Kind(c.items[b].item) = "function_call" => d.items[b] = c.items[b],
           NEW u, u.tools = up.tools,
           \A x \in DOMAIN up.blocks :
               "n" \in DOMAIN up.blocks[x] =>
                  "n" \in DOMAIN u.blocks[x] /\ u.blocks[x].n = up.blocks[x].n
    PROVE  BlocksWhole(d, u)
<1>1. ASSUME NEW x \in DOMAIN d.items, Kind(d.items[x].item) = "function_call"
      PROVE  x \in DOMAIN u.tools /\ CallWhole(d.items[x], u.blocks[x], u.tools[x])
  <2>1. x \in DOMAIN c.items /\ Kind(c.items[x].item) = "function_call"
    BY <1>1 DEF SameItems
  <2>2. d.items[x] = c.items[x]
    BY <2>1 DEF Beside
  <2>3. x \in DOMAIN up.tools /\ CallWhole(c.items[x], up.blocks[x], up.tools[x])
    BY <2>1 DEF BlocksWhole
  <2>4. x \in DOMAIN up.blocks
    BY <2>1 DEF BlocksMatch
  <2> QED
    BY <2>2, <2>3, <2>4 DEF CallWhole
<1> QED
  BY <1>1 DEF BlocksWhole

\* What is known of a response that an Anthropic upstream still tells.
LEMMA ClaudeWholeReads ==
    ASSUME OutcomeInv, ClaudeStream, ClaudeWhole, route \in ClaudeRoutes, L!Reading
    PROVE  /\ DOMAIN claude = ClaudeFields /\ ~claude.sentDone /\ DOMAIN up = UpFields
           /\ up.finish \in StopReasons \cup {"none"} /\ up.named = <<>>
           /\ read.end = "none" /\ claude.reason = L!StatusOf(up.finish)
           /\ BlocksWhole(claude, up)
BY ClaudeReads, ClaudeStreamReads, ClaudeShape DEF ClaudeWhole

\* content_block_start.
LEMMA BlockOpensWhole ==
    ASSUME OutcomeInv, ClaudeStream, ClaudeWhole, NEW kind \in NativeKinds \ {"commentary"},
           NEW n \in 0..Full, NEW sig, BlockOpens(kind, n, sig)
    PROVE  ClaudeWhole'
<1> DEFINE b == NextBlock
           x == IF kind = "reasoning"
                THEN BlockOfKind(IF sig = "redacted" THEN sig ELSE kind, 0)
                ELSE BlockOfKind(kind, n)
           m == IF kind = "reasoning" THEN n ELSE 0
           d == L!StartBlock(claude, b, kind, n, sig)
<1>1. /\ route \in ClaudeRoutes /\ L!Reading /\ route' = route /\ read' = read
      /\ b < MaxItems /\ claude' = d /\ up' = Wrote(up, b, x, m)
  BY DEF BlockOpens, ClaudeSends, ClaudeRead, L!ReceiveStart, ClaudeUnchanged
<1>2. /\ ClaudeGood(read, claude) /\ BlocksMatch(claude, up)
      /\ b = claude.nextIndex /\ DOMAIN up = UpFields
  BY <1>1, ClaudeStreamReads
<1>3. /\ DOMAIN claude = ClaudeFields /\ up.finish \in StopReasons \cup {"none"}
      /\ claude.reason = L!StatusOf(up.finish) /\ BlocksWhole(claude, up)
  BY <1>1, ClaudeWholeReads
<1>4. n \in Nat /\ m \in Nat
  BY DEF Full
<1>5. /\ x.inline = (IF kind = "reasoning" THEN 0 ELSE n)
      /\ x.n = 0 /\ "n" \in DOMAIN x
      /\ kind # "reasoning" => x.kind = kind
  BY DEF BlockOfKind
<1> HIDE DEF b, x
<1>6. b \in Nat /\ b \notin DOMAIN claude.items
  BY <1>2, ClaudeShape
<1>7. kind \in ClaudeKinds /\ BlockItem(kind, b) \in ItemNumbers
  BY <1>1, <1>6, ClaudeItems
<1>8. /\ Beside(claude, d, b)
      /\ kind = "function_call" => d.items[b].n = 0 /\ d.items[b].inline = n
  BY <1>3, <1>6, StartBeside
<1>9. BlockKnown(claude, d, b, kind)
  BY <1>2, <1>7, ClaudeStarts
<1> HIDE DEF d
<1>10. Kind(d.items[b].item) = kind
  BY <1>9 DEF BlockKnown
<1>11. CallGrew(d.items[b], x, m)
  <2> SUFFICES ASSUME kind = "function_call"
               PROVE  /\ x.kind = "function_call" /\ x.n \in Nat /\ "n" \in DOMAIN x
                      /\ d.items[b].n = x.n + m /\ d.items[b].inline \in Nat
                      /\ d.items[b].n = 0 /\ d.items[b].inline = x.inline
    BY <1>10 DEF CallGrew
  <2>1. m = 0 /\ x.kind = kind /\ x.inline = n /\ x.n = 0
    BY <1>5
  <2>2. d.items[b].n = 0 /\ d.items[b].inline = n
    BY <1>8
  <2> QED
    BY <1>4, <1>5, <2>1, <2>2
<1> HIDE DEF m
<1>12. BlocksWhole(d, Wrote(up, b, x, m))
  BY <1>2, <1>3, <1>4, <1>8, <1>11, BlockTold, Zenon
<1>13. ClaudeStream'
  BY BlockOpensStream
<1>14. up'.named = up.named /\ up'.finish = up.finish
  BY <1>1, <1>2, WroteStates
<1> QED
  BY <1>1, <1>3, <1>8, <1>12, <1>13, <1>14, ClaudeGoesOnWhole DEF Beside

\* content_block_delta.
LEMMA BlockWrittenWhole ==
    ASSUME OutcomeInv, ClaudeStream, ClaudeWhole, NEW kind \in NativeKinds \ {"commentary"},
           NEW b \in 0..MaxItems, BlockWritten(b, kind)
    PROVE  ClaudeWhole'
<1> DEFINE x == IF b = NextBlock THEN BlockOfKind(kind, 0) ELSE up.blocks[b]
           d == L!WriteBlock(claude, b, ClaudeDelta(kind), 1)
<1>1. /\ route \in ClaudeRoutes /\ L!Reading /\ route' = route /\ read' = read
      /\ claude' = d /\ up' = Wrote(up, b, x, 1)
      /\ \/ b \in DOMAIN up.blocks /\ up.blocks[b].kind = kind
         \/ b = NextBlock /\ b < MaxItems /\ kind # "web_search_call"
  BY DEF BlockWritten, ClaudeSends, ClaudeRead, L!ReceiveDelta, ClaudeUnchanged
<1>2. /\ ClaudeGood(read, claude) /\ BlocksMatch(claude, up)
      /\ NextBlock = claude.nextIndex /\ DOMAIN up = UpFields
  BY <1>1, ClaudeStreamReads
<1>3. /\ DOMAIN claude = ClaudeFields /\ up.finish \in StopReasons \cup {"none"}
      /\ claude.reason = L!StatusOf(up.finish) /\ BlocksWhole(claude, up)
  BY <1>1, ClaudeWholeReads
<1>4. /\ DOMAIN up.blocks = 0..(claude.nextIndex - 1) /\ claude.nextIndex \in Nat
      /\ DOMAIN up.blocks = DOMAIN claude.items
      /\ b \in DOMAIN claude.items => DOMAIN claude.items[b] = BlockFields
  BY <1>2, ClaudeShape DEF BlocksMatch
<1>5. kind \in ClaudeKinds /\ kind # "redacted"
  BY ClaudeItems
<1>6. \/ b \in DOMAIN claude.items /\ Kind(claude.items[b].item) = kind /\ x = up.blocks[b]
      \/ /\ b = claude.nextIndex /\ b \notin DOMAIN claude.items /\ kind # "web_search_call"
         /\ BlockItem(kind, b) \in ItemNumbers /\ x = BlockOfKind(kind, 0)
  <2>1. CASE b \in DOMAIN up.blocks /\ up.blocks[b].kind = kind
    <3>1. b # NextBlock
      BY <1>2, <1>4, <2>1
    <3> QED
      BY <1>2, <1>4, <1>5, <2>1, <3>1 DEF BlocksMatch
  <2>2. CASE b = NextBlock /\ b < MaxItems /\ kind # "web_search_call"
    <3>1. b = claude.nextIndex /\ b \notin DOMAIN claude.items
      BY <1>2, <1>4, <2>2
    <3>2. BlockItem(kind, b) \in ItemNumbers
      BY <1>4, <2>2, <3>1, ClaudeItems
    <3> QED
      BY <2>2, <3>1, <3>2
  <2> QED
    BY <1>1, <2>1, <2>2
<1> HIDE DEF x
<1>7. /\ Beside(claude, d, b)
      /\ kind = "function_call" =>
            /\ d.items[b].n = (IF b \in DOMAIN claude.items THEN claude.items[b].n ELSE 0) + 1
            /\ d.items[b].inline = 0
  BY <1>3, <1>4, <1>5, <1>6, WriteBeside
<1>8. BlockKnown(claude, d, b, kind)
  BY <1>2, <1>5, <1>6, ClaudeWritten
<1> HIDE DEF d
<1>9. Kind(d.items[b].item) = kind
  BY <1>8 DEF BlockKnown
<1>10. kind = "function_call" =>
           /\ x.kind = "function_call" /\ "n" \in DOMAIN x /\ x.n \in Nat
           /\ d.items[b].n = x.n + 1 /\ d.items[b].inline = 0
  <2> SUFFICES ASSUME kind = "function_call"
               PROVE  /\ x.kind = "function_call" /\ "n" \in DOMAIN x /\ x.n \in Nat
                      /\ d.items[b].n = x.n + 1 /\ d.items[b].inline = 0
    OBVIOUS
  <2>1. CASE b \in DOMAIN claude.items
    <3>1. x = up.blocks[b] /\ Kind(claude.items[b].item) = "function_call"
      BY <1>6, <2>1
    <3>2. CallWhole(claude.items[b], up.blocks[b], up.tools[b])
      BY <1>3, <2>1, <3>1 DEF BlocksWhole
    <3>3. x.kind = "function_call"
      BY <1>2, <1>4, <2>1, <3>1 DEF BlocksMatch
    <3> QED
      BY <1>7, <2>1, <3>1, <3>2, <3>3 DEF CallWhole
  <2>2. CASE b \notin DOMAIN claude.items
    <3>1. x.kind = kind /\ x.n = 0 /\ "n" \in DOMAIN x
      BY <1>6, <2>2 DEF BlockOfKind
    <3> QED
      BY <1>7, <2>2, <3>1
  <2> QED
    BY <2>1, <2>2
<1>11. CallGrew(d.items[b], x, 1)
  BY <1>9, <1>10 DEF CallGrew
<1>12. BlocksWhole(d, Wrote(up, b, x, 1))
  <2>1. 1 \in Nat
    OBVIOUS
  <2> QED
    BY <1>2, <1>3, <1>7, <1>11, <2>1, BlockTold, Zenon
<1>13. ClaudeStream'
  BY BlockWrittenStream
<1>14. up'.named = up.named /\ up'.finish = up.finish
  BY <1>1, <1>2, WroteStates
<1> QED
  BY <1>1, <1>3, <1>7, <1>12, <1>13, <1>14, ClaudeGoesOnWhole DEF Beside

\* signature_delta.
LEMMA BlockSignedWhole ==
    ASSUME OutcomeInv, ClaudeStream, ClaudeWhole, NEW b \in DOMAIN up.blocks, BlockSigned(b)
    PROVE  ClaudeWhole'
<1>1. /\ route \in ClaudeRoutes /\ L!Reading /\ route' = route /\ read' = read
      /\ claude' = L!WriteBlock(claude, b, "signature", 0) /\ up' = Tick(up)
      /\ up.blocks[b].kind = "reasoning"
  BY DEF BlockSigned, ClaudeSends, ClaudeRead, L!ReceiveDelta, ClaudeUnchanged
<1>2. ClaudeGood(read, claude) /\ BlocksMatch(claude, up) /\ DOMAIN up = UpFields
  BY <1>1, ClaudeStreamReads
<1>3. /\ DOMAIN claude = ClaudeFields /\ up.finish \in StopReasons \cup {"none"}
      /\ claude.reason = L!StatusOf(up.finish) /\ BlocksWhole(claude, up)
  BY <1>1, ClaudeWholeReads
<1>4. /\ b \in DOMAIN claude.items /\ Kind(claude.items[b].item) = "reasoning"
      /\ DOMAIN claude.items[b] = BlockFields
  BY <1>1, <1>2, ClaudeShape DEF BlocksMatch
<1>5. claude' = L!Sign(claude, b, "signed")
  BY <1>1, <1>4 DEF L!WriteBlock, L!Ensure
<1>6. Beside(claude, claude', b) /\ SameItems(claude, claude')
  BY <1>2, <1>3, <1>4, <1>5, TellBeside, ClaudeSigns
<1>7. /\ up'.blocks = up.blocks /\ up'.tools = up.tools
      /\ up'.named = up.named /\ up'.finish = up.finish
  BY <1>1, <1>2 DEF Tick, UpFields
<1>8. BlocksWhole(claude', up')
  BY <1>2, <1>3, <1>4, <1>6, <1>7, CallsStay
<1>9. ClaudeStream'
  BY BlockSignedStream
<1> QED
  BY <1>1, <1>3, <1>6, <1>7, <1>8, <1>9, ClaudeGoesOnWhole DEF Beside

\* content_block_stop.
LEMMA BlockStopsWhole ==
    ASSUME OutcomeInv, ClaudeStream, ClaudeWhole, NEW b \in DOMAIN up.blocks, BlockStops(b)
    PROVE  ClaudeWhole'
<1>1. /\ route \in ClaudeRoutes /\ L!Reading /\ route' = route /\ read' = read
      /\ claude' = L!StopBlock(claude, b)
      /\ up' = [Tick(up) EXCEPT !.blocks[b].stopped = TRUE]
  BY DEF BlockStops, ClaudeSends, ClaudeRead, L!ReceiveStop, ClaudeUnchanged
<1>2. ClaudeGood(read, claude) /\ BlocksMatch(claude, up) /\ DOMAIN up = UpFields
  BY <1>1, ClaudeStreamReads
<1>3. /\ DOMAIN claude = ClaudeFields /\ up.finish \in StopReasons \cup {"none"}
      /\ claude.reason = L!StatusOf(up.finish) /\ BlocksWhole(claude, up)
  BY <1>1, ClaudeWholeReads
<1>4. b \in DOMAIN claude.items /\ DOMAIN claude.items[b] = BlockFields
  BY <1>1, <1>2, ClaudeShape DEF BlocksMatch
<1>5. Beside(claude, claude', b) /\ SameItems(claude, claude')
  BY <1>1, <1>2, <1>3, <1>4, TellBeside, ClaudeStops
<1>6. Kind(claude.items[b].item) = "function_call" => claude' = claude
  BY <1>1 DEF L!StopBlock
<1>7. /\ up'.blocks = [up.blocks EXCEPT ![b].stopped = TRUE] /\ up'.tools = up.tools
      /\ up'.named = up.named /\ up'.finish = up.finish
  BY <1>1, <1>2 DEF Tick, UpFields
<1>8. \A x \in DOMAIN up.blocks :
          "n" \in DOMAIN up.blocks[x] =>
             "n" \in DOMAIN up'.blocks[x] /\ up'.blocks[x].n = up.blocks[x].n
  BY <1>7
<1>9. BlocksWhole(claude', up')
  BY <1>2, <1>3, <1>4, <1>5, <1>6, <1>7, <1>8, CallsStay
<1>10. ClaudeStream'
  BY BlockStopsStream
<1> QED
  BY <1>1, <1>3, <1>5, <1>7, <1>9, <1>10, ClaudeGoesOnWhole DEF Beside

\* message_delta.
LEMMA StateReasonWhole ==
    ASSUME OutcomeInv, ClaudeStream, ClaudeWhole, NEW reason \in StopReasons,
           StateReason(reason)
    PROVE  ClaudeWhole'
<1>1. /\ route \in ClaudeRoutes /\ L!Reading /\ route' = route /\ read' = read
      /\ claude' = IF reason = "none" THEN claude
                   ELSE [claude EXCEPT !.reason = L!StatusOf(reason)]
      /\ up' = [Tick(up) EXCEPT !.finish = IF reason = "none" THEN @ ELSE reason]
  BY DEF StateReason, ClaudeSends, ClaudeRead, L!ReceiveReason, ClaudeUnchanged
<1>2. /\ DOMAIN claude = ClaudeFields /\ up.finish \in StopReasons \cup {"none"}
      /\ claude.reason = L!StatusOf(up.finish) /\ BlocksWhole(claude, up)
      /\ DOMAIN up = UpFields
  BY <1>1, ClaudeWholeReads
<1>3. /\ up'.blocks = up.blocks /\ up'.tools = up.tools /\ up'.named = up.named
      /\ up'.finish = IF reason = "none" THEN up.finish ELSE reason
  BY <1>1, <1>2 DEF Tick, UpFields
<1>4. /\ claude'.items = claude.items /\ claude'.sentDone = claude.sentDone
      /\ claude'.gone = claude.gone
      /\ claude'.reason = IF reason = "none" THEN claude.reason ELSE L!StatusOf(reason)
  BY <1>1, <1>2 DEF ClaudeFields
<1>5. claude'.reason = L!StatusOf(up'.finish)
  BY <1>2, <1>3, <1>4
<1>6. BlocksWhole(claude', up')
  BY <1>2, <1>3, <1>4 DEF BlocksWhole
<1>7. ClaudeStream'
  BY StateReasonStream
<1> QED
  BY <1>1, <1>2, <1>3, <1>4, <1>5, <1>6, <1>7, ClaudeGoesOnWhole

\* The arguments of a call once those it was started with are restored.
Restored(i) == IF i.inline = 0 THEN i.n ELSE i.inline

\* d knows the calls of c, whose arguments are restored or will be.
KeepsBlocks(c, d) ==
    /\ DOMAIN d = ClaudeFields /\ DOMAIN d.items = DOMAIN c.items
    /\ \A b \in DOMAIN c.items :
          /\ DOMAIN d.items[b] = BlockFields /\ d.items[b].item = c.items[b].item
          /\ Restored(d.items[b]) = Restored(c.items[b])

\* Restoring the arguments of one call.
LEMMA RestoreTrue ==
    ASSUME NEW c, KeepsBlocks(c, c), NEW b \in DOMAIN c.items,
           NEW u, u.named = <<>>, TrueQueue(c.out, u, TRUE)
    PROVE  LET d == L!RestoreInline(c, b) IN
           /\ KeepsBlocks(c, d) /\ TrueQueue(d.out, u, TRUE) /\ d.items[b].inline = 0
           /\ \A x \in DOMAIN c.items : c.items[x].inline = 0 => d.items[x].inline = 0
<1>1. CASE c.items[b].inline = 0
  BY <1>1, Zenon DEF L!RestoreInline
<1>2. CASE c.items[b].inline # 0
  <2> DEFINE e == L!ArgsDelta(c.items[b].item, c.items[b].inline)
             d == [L!Push(c, e) EXCEPT !.items[b].n = c.items[b].inline,
                                       !.items[b].inline = 0]
  <2>1. L!RestoreInline(c, b) = d
    BY <1>2, Zenon DEF L!RestoreInline
  <2>2. DOMAIN c = ClaudeFields /\ \A x \in DOMAIN c.items : DOMAIN c.items[x] = BlockFields
    BY DEF KeepsBlocks
  <2>3. e.type \notin Ends
    BY DEF L!ArgsDelta, L!Delta, Ends
  <2> HIDE DEF e
  <2>4. /\ DOMAIN d = ClaudeFields /\ d.out = Append(c.out, e)
        /\ DOMAIN d.items = DOMAIN c.items
        /\ \A x \in DOMAIN c.items : x # b => d.items[x] = c.items[x]
        /\ d.items[b] = [c.items[b] EXCEPT !.n = c.items[b].inline, !.inline = 0]
    BY <2>2 DEF L!Push, ClaudeFields, BlockFields
  <2> HIDE DEF d
  <2>5. /\ DOMAIN d.items[b] = BlockFields /\ d.items[b].item = c.items[b].item
        /\ d.items[b].n = c.items[b].inline /\ d.items[b].inline = 0
    BY <2>2, <2>4 DEF BlockFields
  <2>6. KeepsBlocks(c, d)
    BY <1>2, <2>2, <2>4, <2>5, Zenon DEF KeepsBlocks, Restored
  <2>7. TrueEvent(e, u, TRUE)
    BY <2>3, PlainTrue, Zenon
  <2>8. TrueQueue(d.out, u, TRUE)
    <3>1. TrueQueue(Append(c.out, e), u, TRUE)
      BY <2>7, TrueMore, Zenon
    <3> QED
      BY <2>4, <3>1, Zenon
  <2> QED
    BY <2>1, <2>4, <2>5, <2>6, <2>8, Zenon
<1> QED
  BY <1>1, <1>2, Zenon

\* After k of the blocks q: x holds the converter before, the upstream's account and q.
RestoredTrue(x, k, s) ==
    /\ KeepsBlocks(x.c, s) /\ TrueQueue(s.out, x.u, TRUE)
    /\ \A j \in 1..k : s.items[x.q[j]].inline = 0
RestoreTrueFold == INSTANCE FoldLemmas WITH Op <- L!RestoreInline, At <- RestoredTrue

\* Restoring them all.
LEMMA RestoreAllTrue ==
    ASSUME NEW r, NEW c, ClaudeGood(r, c), NEW u, u.named = <<>>, TrueQueue(c.out, u, TRUE)
    PROVE  LET d == L!RestoreAll(c) IN
           /\ KeepsBlocks(c, d) /\ TrueQueue(d.out, u, TRUE)
           /\ \A b \in DOMAIN c.items : d.items[b].inline = 0
<1> DEFINE q == L!ByIndex(c)
           x == [c |-> c, u |-> u, q |-> q]
           d == L!FoldOver(L!RestoreInline, c, q)
<1>1. Lists(q, DOMAIN c.items)
  BY ByIndexLists
<1>2. L!RestoreAll(c) = d
  BY DEF L!RestoreAll
<1> HIDE DEF q
<1>3. PICK m \in Nat : DOMAIN q = 1..m
  BY <1>1 DEF Lists
<1>4. RestoredTrue(x, 0, c)
  <2>1. KeepsBlocks(c, c)
    BY ClaudeShape DEF KeepsBlocks
  <2>2. 1..0 = {}
    OBVIOUS
  <2> QED
    BY <2>1, <2>2, Zenon DEF RestoredTrue
<1>5. ASSUME NEW k \in 1..m, NEW s, RestoredTrue(x, k - 1, s)
      PROVE  RestoredTrue(x, k, L!RestoreInline(s, q[k]))
  <2> DEFINE b == q[k]
             e == L!RestoreInline(s, b)
  <2>1. /\ KeepsBlocks(c, s) /\ TrueQueue(s.out, u, TRUE)
        /\ \A j \in 1..(k - 1) : s.items[q[j]].inline = 0
    BY <1>5, Zenon DEF RestoredTrue
  <2>2. KeepsBlocks(s, s) /\ b \in DOMAIN s.items
    BY <1>1, <1>3, <2>1 DEF Lists, KeepsBlocks
  <2> HIDE DEF b
  <2>3. /\ KeepsBlocks(s, e) /\ TrueQueue(e.out, u, TRUE) /\ e.items[b].inline = 0
        /\ \A y \in DOMAIN s.items : s.items[y].inline = 0 => e.items[y].inline = 0
    BY <2>1, <2>2, RestoreTrue, Zenon
  <2> HIDE DEF e
  <2>4. KeepsBlocks(c, e)
    BY <2>1, <2>3 DEF KeepsBlocks
  <2>5. ASSUME NEW j \in 1..k PROVE e.items[q[j]].inline = 0
    <3>1. CASE j = k
      BY <2>3, <3>1 DEF b
    <3>2. CASE j # k
      <4>1. j \in 1..(k - 1) /\ j \in 1..m
        BY <3>2
      <4>2. q[j] \in DOMAIN s.items
        BY <1>1, <1>3, <2>1, <4>1 DEF Lists, KeepsBlocks
      <4> QED
        BY <2>1, <2>3, <4>1, <4>2
    <3> QED
      BY <3>1, <3>2
  <2>6. RestoredTrue(x, k, e)
    BY <2>3, <2>4, <2>5, Zenon DEF RestoredTrue
  <2> QED
    BY <2>6 DEF e, b
<1> HIDE DEF x, d
<1>6. RestoredTrue(x, m, RestoreTrueFold!FoldOver(L!RestoreInline, c, q))
  BY <1>3, <1>4, <1>5, RestoreTrueFold!FoldReaches, Least, Zenon DEF RestoreTrueFold!Least
<1>7. d = RestoreTrueFold!FoldOver(L!RestoreInline, c, q)
  BY DEF d, L!FoldOver, L!MapThenFoldSet, RestoreTrueFold!FoldOver,
         RestoreTrueFold!MapThenFoldSet
<1>8. RestoredTrue(x, m, d)
  BY <1>6, <1>7
<1>9. /\ KeepsBlocks(c, d) /\ TrueQueue(d.out, u, TRUE)
      /\ \A j \in 1..m : d.items[q[j]].inline = 0
  BY <1>8, Zenon DEF RestoredTrue, x
<1>10. \A b \in DOMAIN c.items : d.items[b].inline = 0
  BY <1>1, <1>3, <1>9 DEF Lists
<1> QED
  BY <1>2, <1>9, <1>10, Zenon

\* The end of one block.
LEMMA FinishTrue ==
    ASSUME NEW s, DOMAIN s = ClaudeFields, NEW b, NEW u, u.named = <<>>,
           TrueQueue(s.out, u, TRUE)
    PROVE  LET d == L!FinishItem(s, b) IN
           DOMAIN d = ClaudeFields /\ d.items = s.items /\ TrueQueue(d.out, u, TRUE)
<1> DEFINE f == L!FinalItem(s, b)
           e == L!ItemDone(f)
           t == L!TextDone(f.item, f.n)
           a == L!ArgsDone(f.item, f.n)
           d == L!FinishItem(s, b)
<1>1. L!DoneEvents(s, b) \in {<<>>, <<e>>, <<t, e>>, <<a, e>>}
  <2> HIDE DEF f
  <2>1. L!DoneEvents(s, b) =
          CASE Kind(f.item) = "reasoning" -> IF s.items[b].closed THEN <<>> ELSE <<e>>
            [] Kind(f.item) = "message" -> <<t, e>>
            [] Kind(f.item) = "function_call" -> <<a, e>>
            [] OTHER -> <<e>>
    BY DEF L!DoneEvents, f
  <2> HIDE DEF e, t, a
  <2> QED
    BY <2>1
<1>2. e.type \notin Ends /\ t.type \notin Ends /\ a.type \notin Ends
  BY DEF L!ItemDone, L!TextDone, L!ArgsDone, L!Delta, Ends
<1> HIDE DEF f, e, t, a
<1>3. TrueEvent(e, u, TRUE) /\ TrueEvent(t, u, TRUE) /\ TrueEvent(a, u, TRUE)
  BY <1>2, PlainTrue, Zenon
<1>4. /\ TrueQueue(s.out \o <<e>>, u, TRUE) /\ TrueQueue(s.out \o <<t, e>>, u, TRUE)
      /\ TrueQueue(s.out \o <<a, e>>, u, TRUE)
  BY <1>3, TrueTwo, Zenon
<1>5. PICK E : s.out \in Seq(E)
  BY DEF TrueQueue
<1>6. s.out \o <<>> = s.out
  BY <1>5
<1>7. DOMAIN d = ClaudeFields /\ d.items = s.items /\ d.out = s.out \o L!DoneEvents(s, b)
  BY DEF L!FinishItem, ClaudeFields
<1> HIDE DEF d
<1>8. TrueQueue(d.out, u, TRUE)
  BY <1>1, <1>4, <1>6, <1>7, Zenon
<1> QED
  BY <1>7, <1>8, Zenon DEF d

FinishedTrue(x, k, s) ==
    DOMAIN s = ClaudeFields /\ s.items = x.c.items /\ TrueQueue(s.out, x.u, TRUE)
FinishTrueFold == INSTANCE FoldLemmas WITH Op <- L!FinishItem, At <- FinishedTrue

\* A response ends, completed only if the upstream's answer was not cut short and every
\* call has all its arguments.
LEMMA ClaudeClosesTrue ==
    ASSUME NEW r, NEW c, ClaudeGood(r, c), NEW u, u.named = <<>>, TrueQueue(c.out, u, TRUE),
           NEW last, DOMAIN last = {"type", "of", "output", "reason"}, last.type \in Ends,
           last.type = "completed" /\ last.reason = "none" =>
               /\ Succeeded(u)
               /\ \A b \in DOMAIN c.items : Kind(c.items[b].item) = "function_call" =>
                      Restored(c.items[b]) \in {0, Full}
    PROVE  LET d == L!FinishResponse(c, last) IN
           d.sentDone /\ TrueQueue(d.out, u, TRUE)
<1> DEFINE q == L!ByIndex(c)
           f == L!RestoreAll(c)
           x == [c |-> f, u |-> u]
           g == L!FoldOver(L!FinishItem, f, q)
           output == [j \in DOMAIN q |-> L!FinalItem(f, q[j])]
           e == [last EXCEPT !.output = output]
           h == L!DoneMark
           d == L!PushLast(g, e)
<1>1. Lists(q, DOMAIN c.items)
  BY ByIndexLists
<1>2. L!FinishResponse(c, last) = d
  <2>1. ~c.sentDone
    BY ClaudeShape
  <2> QED
    BY <2>1 DEF L!FinishResponse, L!Ending
<1> HIDE DEF q
<1>3. /\ KeepsBlocks(c, f) /\ TrueQueue(f.out, u, TRUE)
      /\ \A b \in DOMAIN c.items : f.items[b].inline = 0
  BY RestoreAllTrue, Zenon
<1> HIDE DEF f
<1>4. PICK m \in Nat : DOMAIN q = 1..m
  BY <1>1 DEF Lists
<1>5. FinishedTrue(x, 0, f)
  BY <1>3, Zenon DEF FinishedTrue, KeepsBlocks
<1>6. ASSUME NEW k \in 1..m, NEW s, FinishedTrue(x, k - 1, s)
      PROVE  FinishedTrue(x, k, L!FinishItem(s, q[k]))
  <2>1. DOMAIN s = ClaudeFields /\ s.items = f.items /\ TrueQueue(s.out, u, TRUE)
    BY <1>6, Zenon DEF FinishedTrue
  <2> DEFINE z == L!FinishItem(s, q[k])
  <2>2. DOMAIN z = ClaudeFields /\ z.items = s.items /\ TrueQueue(z.out, u, TRUE)
    BY <2>1, FinishTrue, Zenon
  <2> HIDE DEF z
  <2>3. FinishedTrue(x, k, z)
    BY <2>1, <2>2, Zenon DEF FinishedTrue
  <2> QED
    BY <2>3 DEF z
<1> HIDE DEF x, g
<1>7. FinishedTrue(x, m, FinishTrueFold!FoldOver(L!FinishItem, f, q))
  BY <1>4, <1>5, <1>6, FinishTrueFold!FoldReaches, Least, Zenon DEF FinishTrueFold!Least
<1>8. g = FinishTrueFold!FoldOver(L!FinishItem, f, q)
  BY DEF g, L!FoldOver, L!MapThenFoldSet, FinishTrueFold!FoldOver,
         FinishTrueFold!MapThenFoldSet
<1>9. FinishedTrue(x, m, g)
  BY <1>7, <1>8
<1>10. DOMAIN g = ClaudeFields /\ TrueQueue(g.out, u, TRUE)
  BY <1>9, Zenon DEF FinishedTrue, x
<1>11. e.type = last.type /\ e.output = output /\ e.reason = last.reason
  OBVIOUS
<1>12. e.type = "completed" /\ e.reason = "none" => Succeeded(u) /\ CallsFull(e.output)
  <2> SUFFICES ASSUME last.type = "completed" /\ last.reason = "none"
               PROVE  Succeeded(u) /\ CallsFull(output)
    BY <1>11
  <2>1. ASSUME NEW j \in DOMAIN q, Kind(output[j].item) = "function_call"
        PROVE  output[j].n = Full
    <3> DEFINE b == q[j]
    <3>1. b \in DOMAIN c.items /\ output[j] = L!FinalItem(f, b)
      BY <1>1 DEF Lists
    <3> HIDE DEF b, output
    <3>2. /\ L!FinalItem(f, b).item = f.items[b].item
          /\ L!FinalItem(f, b).n = IF Kind(f.items[b].item) = "function_call"
                                         /\ f.items[b].n = 0
                                   THEN Full ELSE f.items[b].n
      BY DEF L!FinalItem, L!Told, Full, L!Full
    <3>3. f.items[b].item = c.items[b].item /\ f.items[b].n = Restored(c.items[b])
      BY <1>3, <3>1 DEF KeepsBlocks, Restored
    <3>4. Restored(c.items[b]) \in {0, Full}
      BY <2>1, <3>1, <3>2, <3>3
    <3> QED
      BY <2>1, <3>1, <3>2, <3>3, <3>4
  <2>2. DOMAIN output = DOMAIN q
    OBVIOUS
  <2> HIDE DEF output
  <2> QED
    BY <2>1, <2>2 DEF CallsFull
<1>13. h.type = "[DONE]"
  BY DEF L!DoneMark
<1>14. d.sentDone = TRUE /\ d.out = g.out \o <<e, h>>
  BY <1>10 DEF L!PushLast, ClaudeFields
<1> HIDE DEF d, e, h
<1>15. TrueEvent(e, u, TRUE)
  BY <1>11, <1>12 DEF TrueEvent, Touches, Says, Ends
<1>16. TrueEvent(h, u, TRUE)
  BY <1>13, PlainTrue, Zenon DEF Ends
<1>17. TrueQueue(g.out \o <<e, h>>, u, TRUE)
  BY <1>10, <1>15, <1>16, TrueTwo, Zenon
<1> QED
  BY <1>2, <1>14, <1>17, Zenon

\* A failed response claims no success.
LEMMA ClaudeErrsTrue ==
    ASSUME NEW r, NEW c, ClaudeGood(r, c), NEW u, u.named = <<>>, TrueQueue(c.out, u, TRUE)
    PROVE  LET d == L!PushError(c) IN d.sentDone /\ TrueQueue(d.out, u, TRUE)
<1> DEFINE b == L!Log(c, "error")
           last == L!Failed
           f == L!FinishResponse(b, last)
           d == [f EXCEPT !.ended = TRUE]
<1>1. DOMAIN c = ClaudeFields /\ ~c.sentDone
  BY ClaudeShape
<1>2. L!PushError(c) = d
  BY <1>1 DEF L!PushError
<1>3. SameBlocks(c, b) /\ b.out = c.out
  BY <1>1 DEF SameBlocks, L!Log, ClaudeFields
<1> HIDE DEF b
<1>4. ClaudeGood(r, b)
  BY <1>3, ClaudeQuiet
<1>5. /\ DOMAIN last = {"type", "of", "output", "reason"} /\ last.type \in Ends
      /\ last.type # "completed"
  BY DEF L!Failed, Ends
<1> HIDE DEF last
<1>6. f.sentDone /\ TrueQueue(f.out, u, TRUE)
  BY <1>3, <1>4, <1>5, ClaudeClosesTrue, Zenon
<1>7. DOMAIN f = ClaudeFields
  BY <1>4, <1>5, ClaudeCloses
<1> HIDE DEF f
<1>8. d.out = f.out /\ d.sentDone = f.sentDone
  BY <1>7 DEF ClaudeFields
<1> HIDE DEF d
<1> QED
  BY <1>2, <1>6, <1>8, Zenon

\* message_stop.
LEMMA MessageStopsWhole ==
    ASSUME OutcomeInv, ClaudeStream, ClaudeWhole, MessageStops
    PROVE  ClaudeWhole'
<1>1. /\ route \in ClaudeRoutes /\ L!Reading /\ route' = route /\ read' = read
      /\ claude' = L!PushDone(claude)
      /\ ~Truncated => \A b \in DOMAIN up.tools : up.tools[b] \in {0, Full}
      /\ up' = [up EXCEPT !.over = TRUE, !.closed = TRUE]
  BY DEF MessageStops, ClaudeRead, L!ReceiveMessageStop, ClaudeUnchanged
<1>2. IsReader(read) /\ ClaudeGood(read, claude)
  BY <1>1, ClaudeStreamReads
<1>3. /\ DOMAIN up = UpFields /\ read.end = "none" /\ up.named = <<>>
      /\ up.finish \in StopReasons \cup {"none"}
      /\ claude.reason = L!StatusOf(up.finish) /\ BlocksWhole(claude, up)
  BY <1>1, ClaudeWholeReads
<1>4. ~up.fault
  BY <1>1, ClaudeReads
<1>5. /\ up'.named = up.named /\ up'.finish = up.finish /\ up'.over = TRUE
      /\ up'.fault = up.fault
  BY <1>1, <1>3 DEF UpFields
<1> DEFINE last == L!Terminal(claude.reason, <<>>)
           d == L!FinishResponse(claude, last)
<1>6. /\ DOMAIN last = {"type", "of", "output", "reason"} /\ last.type \in Ends
      /\ last.reason = claude.reason
  BY DEF L!Terminal, Ends
<1>7. claude' = d
  BY <1>1 DEF L!PushDone
<1> HIDE DEF last
<1>8. ASSUME last.reason = "none"
      PROVE  /\ Succeeded(up')
             /\ \A b \in DOMAIN claude.items : Kind(claude.items[b].item) = "function_call" =>
                    Restored(claude.items[b]) \in {0, Full}
  <2>1. L!StatusOf(up.finish) = "none"
    BY <1>3, <1>6, <1>8
  <2>2. up.finish \notin {"pause_turn", "max_tokens", "model_context_window_exceeded", "refusal"}
    BY <2>1 DEF L!StatusOf
  <2>3. up.finish \notin CutShort
    BY <1>3, <2>2, StreamAssumption DEF CutShort
  <2>4. Succeeded(up')
    BY <1>4, <1>5, <2>3 DEF Succeeded, HasStated
  <2>5. \A b \in DOMAIN up.tools : up.tools[b] \in {0, Full}
    BY <1>1, <2>3 DEF Truncated, CutShort
  <2>6. ASSUME NEW b \in DOMAIN claude.items, Kind(claude.items[b].item) = "function_call"
        PROVE  Restored(claude.items[b]) \in {0, Full}
    <3>1. b \in DOMAIN up.tools /\ CallWhole(claude.items[b], up.blocks[b], up.tools[b])
      BY <1>3, <2>6 DEF BlocksWhole
    <3>2. Restored(claude.items[b]) = up.tools[b]
      BY <3>1 DEF CallWhole, Restored
    <3> QED
      BY <2>5, <3>1, <3>2
  <2> QED
    BY <2>4, <2>6
<1>9. TrueQueue(claude.out, up', TRUE) /\ TrueReading(read, up', TRUE)
  BY <1>2, <1>3, <1>5, ClaudeLiveTrue, Zenon
<1>10. d.sentDone /\ TrueQueue(d.out, up', TRUE)
  BY <1>2, <1>3, <1>5, <1>6, <1>8, <1>9, ClaudeClosesTrue, Zenon
<1> HIDE DEF d
<1> QED
  BY <1>1, <1>3, <1>5, <1>7, <1>9, <1>10, Zenon DEF ClaudeWhole

\* An error event, a failed read or the end of the connection.
LEMMA ClaudeFailsWhole ==
    ASSUME OutcomeInv, ClaudeStream, ClaudeWhole, ClaudeFails
    PROVE  ClaudeWhole'
<1>1. /\ route \in ClaudeRoutes /\ L!Reading /\ route' = route /\ read' = read
      /\ \/ claude' = L!PushError(claude)
         \/ claude' = L!Log(L!PushError([claude EXCEPT !.ended = TRUE]), "ok")
      /\ up' = [up EXCEPT !.fault = TRUE, !.closed = TRUE]
  BY DEF ClaudeFails, ClaudeRead, L!ReceiveError, L!EndOfUpstream, ClaudeUnchanged
<1>2. IsReader(read) /\ ClaudeGood(read, claude) /\ DOMAIN claude = ClaudeFields
  BY <1>1, ClaudeStreamReads, ClaudeShape
<1>3. /\ DOMAIN up = UpFields /\ read.end = "none" /\ up.named = <<>>
      /\ up.finish \in StopReasons \cup {"none"}
  BY <1>1, ClaudeWholeReads
<1>4. up'.named = up.named /\ up'.finish = up.finish
  BY <1>1, <1>3 DEF UpFields
<1>5. TrueQueue(claude.out, up', TRUE) /\ TrueReading(read, up', TRUE)
  BY <1>2, <1>3, <1>4, ClaudeLiveTrue, Zenon
<1>6. claude'.sentDone /\ TrueQueue(claude'.out, up', TRUE)
  <2>1. CASE claude' = L!PushError(claude)
    BY <1>2, <1>3, <1>4, <1>5, <2>1, ClaudeErrsTrue, Zenon
  <2>2. CASE claude' = L!Log(L!PushError([claude EXCEPT !.ended = TRUE]), "ok")
    <3> DEFINE b == [claude EXCEPT !.ended = TRUE]
               d == L!PushError(b)
    <3>1. SameBlocks(claude, b) /\ b.out = claude.out
      BY <1>2 DEF SameBlocks, ClaudeFields
    <3>2. claude' = L!Log(d, "ok")
      BY <2>2
    <3> HIDE DEF b
    <3>3. ClaudeGood(read, b)
      BY <1>2, <3>1, ClaudeQuiet
    <3>4. d.sentDone /\ TrueQueue(d.out, up', TRUE)
      BY <1>3, <1>4, <1>5, <3>1, <3>3, ClaudeErrsTrue, Zenon
    <3>5. DOMAIN d = ClaudeFields
      BY <3>3, ClaudeErrsConcluded
    <3> HIDE DEF d
    <3>6. claude'.out = d.out /\ claude'.sentDone = d.sentDone
      BY <3>2, <3>5 DEF L!Log, ClaudeFields
    <3> QED
      BY <3>4, <3>6, Zenon
  <2> QED
    BY <1>1, <2>1, <2>2, Zenon
<1> QED
  BY <1>1, <1>3, <1>4, <1>5, <1>6, Zenon DEF ClaudeWhole

\* The reader is given the next event.
LEMMA RelayClaudeWhole ==
    ASSUME OutcomeInv, ClaudeStream, ClaudeWhole, RelayClaude
    PROVE  ClaudeWhole'
<1> DEFINE e == Head(claude.out)
<1>1. /\ route \in ClaudeRoutes /\ IsReader(read) /\ Fits(read, e) /\ read' = Hear(read, e)
  BY ClaudeRelays
<1>2. /\ claude.out # <<>> /\ route' = route /\ up' = up
      /\ claude' = [claude EXCEPT !.out = Tail(claude.out)]
  BY DEF RelayClaude, L!Emit
<1>3. ~claude.gone /\ DOMAIN claude = ClaudeFields
  BY <1>2 DEF OutcomeInv, ClaudePart, ClaudeFine
<1>4. /\ claude'.out = Tail(claude.out) /\ claude'.sentDone = claude.sentDone
      /\ claude'.items = claude.items /\ claude'.reason = claude.reason
  BY <1>2, <1>3 DEF ClaudeFields
<1>5. TrueEvent(e, up, TRUE) /\ TrueQueue(Tail(claude.out), up, TRUE)
  BY <1>1, <1>2, TrueNext, Zenon DEF ClaudeWhole
<1>6. ASSUME ~claude.sentDone
      PROVE  /\ read'.end = "none" /\ claude'.reason = L!StatusOf(up.finish)
             /\ BlocksWhole(claude', up)
  <2>1. ClaudeGood(read, claude)
    BY <1>1, <1>3, <1>6 DEF ClaudeStream, ClaudeLive, Concluded
  <2>2. /\ read.end = "none" /\ up.named = <<>> /\ claude.reason = L!StatusOf(up.finish)
        /\ BlocksWhole(claude, up)
    BY <1>1, <1>6 DEF ClaudeWhole
  <2>3. e.type \notin Ends
    BY <1>1, <1>2, <2>1, <2>2, ClaudeLiveTrue, Zenon
  <2> HIDE DEF e
  <2>4. read'.end = read.end
    BY <1>1, <2>3, HearsNoEnd
  <2> QED
    BY <1>4, <2>2, <2>4 DEF BlocksWhole
<1> HIDE DEF e
<1>7. TrueReading(read', up, TRUE)
  BY <1>1, <1>5, HearTrue, Zenon DEF ClaudeWhole
<1> QED
  BY <1>1, <1>2, <1>4, <1>5, <1>6, <1>7, Zenon DEF ClaudeWhole

----------------------------------------------------------------------------
(* The success of the other upstreams: only the reader of a Codex stream   *)
(* hears of one, and no call of theirs has a name here.                    *)

\* No event of q ends the response.
NoEnd(q) == \A j \in 1..Len(q) : q[j].type \notin Ends

\* What is queued and what was read is true; the reader has no end while the converter waits
\* for one.
OtherWhole ==
    route \notin ChatRoutes \cup ClaudeRoutes =>
        /\ up.finish \in {"none", "stop", "length"} /\ up.named = <<>>
        /\ DOMAIN read = ReadFields /\ TrueReading(read, up, FALSE)
        /\ route # "codex" => read.end = "none"
        /\ route = "codex" =>
              /\ TrueQueue(codex.out, up, FALSE)
              /\ ~codex.sentDone /\ ~codex.ended => read.end = "none" /\ NoEnd(codex.out)

\* An event that claims no success is true.
LEMMA NoSuccessTrue ==
    ASSUME NEW u, u.named = <<>>, NEW e, ~(e.type = "completed" /\ e.reason = "none")
    PROVE  TrueEvent(e, u, FALSE)
BY NoActions DEF TrueEvent

\* Nor does a reader that has no end believe in one.
LEMMA NoEndTrue ==
    ASSUME NEW u, u.named = <<>>, NEW r, r.end = "none" PROVE TrueReading(r, u, FALSE)
BY NoActions DEF TrueReading

\* What the converter of a Codex stream queues of itself: a failed or an incomplete response,
\* and [DONE].
LEMMA CodexOwnTrue ==
    ASSUME NEW u, u.named = <<>>
    PROVE  /\ TrueEvent(D!Failed, u, FALSE) /\ TrueEvent(D!Disconnected, u, FALSE)
           /\ TrueEvent(D!DoneMark, u, FALSE)
<1>1. D!Failed.type = "failed" /\ D!DoneMark.type = "[DONE]" /\ D!Disconnected.reason = "error"
  BY DEF D!Failed, D!DoneMark, D!Event, D!Disconnected, D!Terminal
<1> QED
  BY <1>1, NoSuccessTrue, Zenon

\* A last event that is true leaves a queue that is.
LEMMA CodexLastTrue ==
    ASSUME NEW u, u.named = <<>>, NEW s, DOMAIN s = CodexFields, s.out = <<>>,
           NEW e, TrueEvent(e, u, FALSE), NEW x, NEW d,
           \/ d = D!PushLast(s, e)
           \/ d = [D!PushLast(s, e) EXCEPT !.override = x]
           \/ d = D!Log(D!PushLast(s, e), x)
    PROVE  DOMAIN d = CodexFields /\ d.sentDone = TRUE /\ TrueQueue(d.out, u, FALSE)
<1> DEFINE w == D!PushLast(s, e)
           h == D!DoneMark
<1>1. DOMAIN w = CodexFields /\ w.sentDone = TRUE /\ w.out = s.out \o <<e, h>>
  BY DEF D!PushLast, CodexFields
<1>2. TrueEvent(h, u, FALSE)
  BY CodexOwnTrue, Zenon
<1> HIDE DEF w, h
<1>3. TrueQueue(s.out \o <<e, h>>, u, FALSE)
  BY <1>2, TrueNone, TrueTwo, Zenon
<1>4. DOMAIN d = DOMAIN w /\ d.sentDone = w.sentDone /\ d.out = w.out
  <2>1. d = w \/ d = [w EXCEPT !.override = x] \/ d = D!Log(w, x)
    BY DEF w
  <2> QED
    BY <1>1, <2>1 DEF D!Log, CodexFields
<1> QED
  BY <1>1, <1>3, <1>4, Zenon

\* What becomes of a Codex event that is true.
LEMMA CodexTrue ==
    ASSUME NEW u, u.named = <<>>, NEW s, DOMAIN s = CodexFields, s.out = <<>>,
           NEW e, TrueEvent(e, u, FALSE), NEW d \in D!HandleEvent(s, e)
    PROVE  TrueQueue(d.out, u, FALSE) /\ (~d.sentDone => NoEnd(d.out))
<1>1. CASE d = D!PushDisconnected(s)
  BY <1>1, CodexOwnTrue, CodexLastTrue, Zenon DEF D!PushDisconnected
<1>2. CASE d = D!FailStream(s)
  BY <1>2, CodexOwnTrue, CodexLastTrue, Zenon DEF D!FailStream
<1>3. CASE d = D!PassOn(s, e) /\ e.type \in D!Terminals
  BY <1>3, CodexLastTrue, Zenon DEF D!PassOn
<1>4. CASE d = D!PassOn(s, e) /\ e.type \notin D!Terminals
  <2>1. d.out = Append(<<>>, e)
    BY <1>4 DEF D!PassOn, CodexFields
  <2>2. TrueQueue(d.out, u, FALSE)
    BY <2>1, TrueNone, TrueMore, Zenon
  <2>3. Len(d.out) = 1 /\ \A j \in 1..1 : d.out[j] = e
    BY <2>1
  <2>4. e.type \notin Ends
    BY <1>4 DEF D!Terminals, Ends
  <2> QED
    BY <2>2, <2>3, <2>4, Zenon DEF NoEnd
<1> QED
  BY <1>1, <1>2, <1>3, <1>4, Zenon DEF D!HandleEvent

\* At the start nothing is told.
LEMMA OtherWholeStarts == Init => OtherWhole
<1> SUFFICES ASSUME Init, route \notin ChatRoutes \cup ClaudeRoutes PROVE OtherWhole
  BY Zenon DEF OtherWhole
<1>1. /\ up = NothingSent /\ read \in {Joined, NothingRead}
      /\ route = "codex" => codex = D!NewCodex
  BY DEF Init, D!Init, Relayed
<1>2. up.finish = "none" /\ up.named = <<>>
  BY <1>1 DEF NothingSent
<1>3. DOMAIN read = ReadFields /\ read.end = "none"
  BY <1>1 DEF Joined, NothingRead, ReadFields
<1>4. route = "codex" => TrueQueue(codex.out, up, FALSE) /\ NoEnd(codex.out)
  <2>1. D!NewCodex.out = <<>>
    BY DEF D!NewCodex
  <2>2. 1..Len(<<>>) = {}
    OBVIOUS
  <2> QED
    BY <1>1, <2>1, <2>2, TrueNone, Zenon DEF NoEnd
<1> QED
  BY <1>2, <1>3, <1>4, NoEndTrue, Zenon DEF OtherWhole

\* A step of such an upstream: the reader hears nothing, and what the converter of a Codex
\* stream has queued after it is true.
LEMMA OtherGoesOnWhole ==
    ASSUME OutcomeInv, OtherWhole, route \notin ChatRoutes \cup ClaudeRoutes,
           route' = route, read' = read,
           up'.named = up.named, up'.finish \in {"none", "stop", "length"},
           route = "codex" =>
               /\ D!Reading
               /\ TrueQueue(codex'.out, up', FALSE) /\ (~codex'.sentDone => NoEnd(codex'.out))
    PROVE  OtherWhole'
<1>1. read.end = "none"
  BY Zenon DEF OtherWhole, D!Reading
<1>2. TrueReading(read, up', FALSE)
  BY <1>1, NoEndTrue, Zenon DEF OtherWhole
<1> QED
  BY <1>1, <1>2, Zenon DEF OtherWhole

\* On the route to a Responses client the converter is given every event.
LEMMA SendsCodex ==
    ASSUME OutcomeInv, OtherWhole, NEW e, Send(e)
    PROVE  /\ route \notin ChatRoutes \cup ClaudeRoutes /\ route' = route /\ read' = read
           /\ UpFine(up) /\ up.named = <<>> /\ up.finish \in {"none", "stop", "length"}
           /\ route = "codex" =>
                 /\ D!Reading /\ codex' \in D!HandleEvent(codex, e) /\ ~up.fault
                 /\ DOMAIN codex = CodexFields /\ codex.out = <<>>
<1>1. /\ route \in NativeRoutes \cup CodexRoutes /\ route' = route /\ read' = read
      /\ IntoFirst(e)
  BY DEF Send, NativeRead, NativeUnchanged
<1>2. route \notin ChatRoutes \cup ClaudeRoutes
  BY <1>1 DEF NativeRoutes, CodexRoutes, ChatRoutes, ClaudeRoutes
<1>3. ASSUME route = "codex" PROVE D!Reading /\ codex' \in D!HandleEvent(codex, e)
  <2>1. D!Receive(e)
    BY <1>1, <1>3 DEF IntoFirst, NativeRoutes, Relayed
  <2> QED
    BY <2>1 DEF D!Receive
<1>4. route = "codex" => ~up.fault /\ DOMAIN codex = CodexFields /\ codex.out = <<>>
  BY <1>3, CodexWaits DEF Relayed
<1> QED
  BY <1>1, <1>2, <1>3, <1>4 DEF OutcomeInv, OtherWhole

\* An upstream sends an event that is true.
LEMMA SendWhole ==
    ASSUME OutcomeInv, OtherWhole, NEW e, Send(e), up'.named = up.named,
           up'.finish \in {"none", "stop", "length"},
           route = "codex" => TrueEvent(e, up', FALSE)
    PROVE  OtherWhole'
<1>1. /\ route \notin ChatRoutes \cup ClaudeRoutes /\ route' = route /\ read' = read
      /\ up.named = <<>>
      /\ route = "codex" =>
            /\ D!Reading /\ codex' \in D!HandleEvent(codex, e)
            /\ DOMAIN codex = CodexFields /\ codex.out = <<>>
  BY SendsCodex
<1>2. route = "codex" =>
          TrueQueue(codex'.out, up', FALSE) /\ (~codex'.sentDone => NoEnd(codex'.out))
  BY <1>1, CodexTrue, Zenon
<1> QED
  BY <1>1, <1>2, OtherGoesOnWhole, Zenon

\* It tells of an item.
LEMMA ToldWhole ==
    ASSUME OutcomeInv, OtherWhole, NEW e, NEW i, NEW n, NEW whole, NEW done, Send(e),
           e.type \notin Ends, up' = Tick(Told(up, i, n, whole, done))
    PROVE  OtherWhole'
<1>1. UpFine(up) /\ up.named = <<>> /\ up.finish \in {"none", "stop", "length"}
  BY SendsCodex
<1>2. up'.named = up.named /\ up'.finish = up.finish
  BY <1>1, UpTold, UpTicks, Zenon
<1>3. TrueEvent(e, up', FALSE)
  BY <1>1, <1>2, NoSuccessTrue, Zenon DEF Ends
<1> QED
  BY <1>1, <1>2, <1>3, SendWhole, Zenon

\* It opens an item, writes it, tells the whole of it, or closes it.
LEMMA ItemWholeTrue ==
    ASSUME OutcomeInv, OtherWhole,
           \/ \E kind : ItemOpens(kind)
           \/ \E i : ItemWritten(i)
           \/ \E i, n : ItemWhole(i, n)
           \/ \E i, n, sig : ItemCloses(i, n, sig)
    PROVE  OtherWhole'
<1>1. ASSUME NEW kind, ItemOpens(kind) PROVE OtherWhole'
  <2> DEFINE e == Added(NewItem(kind))
  <2>1. Send(e) /\ up' = Tick(Told(up, NewItem(kind), 0, FALSE, FALSE))
    BY <1>1 DEF ItemOpens
  <2>2. e.type \notin Ends
    BY DEF Added, Event, Ends
  <2> HIDE DEF e
  <2> QED
    BY <2>1, <2>2, ToldWhole, Zenon
<1>2. ASSUME NEW i, ItemWritten(i) PROVE OtherWhole'
  <2> DEFINE e == Delta(DeltaType(Kind(i)), i, 1)
  <2>1. Send(e) /\ up' = Tick(Told(up, i, up.items[i].n + 1, FALSE, FALSE))
    BY <1>2 DEF ItemWritten
  <2>2. e.type \notin Ends
    BY DEF Delta, Event, DeltaType, Ends
  <2> HIDE DEF e
  <2> QED
    BY <2>1, <2>2, ToldWhole, Zenon
<1>3. ASSUME NEW i, NEW n, ItemWhole(i, n) PROVE OtherWhole'
  <2> DEFINE e == IF Kind(i) = "function_call" THEN ArgsDone(i, n) ELSE TextDone(i, n)
  <2>1. Send(e) /\ up' = Tick(Told(up, i, n, TRUE, FALSE))
    BY <1>3 DEF ItemWhole
  <2>2. e.type \notin Ends
    BY DEF ArgsDone, TextDone, Delta, Event, Ends
  <2> HIDE DEF e
  <2> QED
    BY <2>1, <2>2, ToldWhole, Zenon
<1>4. ASSUME NEW i, NEW n, NEW sig, ItemCloses(i, n, sig) PROVE OtherWhole'
  <2> DEFINE e == ItemDone(Snapshot(i, n, sig))
  <2>1. Send(e) /\ up' = Tick(Told(up, i, n, TRUE, TRUE))
    BY <1>4 DEF ItemCloses
  <2>2. e.type \notin Ends
    BY DEF ItemDone, Event, Ends
  <2> HIDE DEF e
  <2> QED
    BY <2>1, <2>2, ToldWhole, ZenonT(30)
<1> QED
  BY <1>1, <1>2, <1>3, <1>4

\* It ends its response: completed, if it says so.
LEMMA TerminalWhole ==
    ASSUME OutcomeInv, OtherWhole, NEW reason, NEW output, IsList(output),
           NativeTerminal(reason, output)
    PROVE  OtherWhole'
<1> DEFINE e == Terminal(reason, output)
           v == Tick(FoldOver(ToldBy, up, output))
           x == IF reason = "none" THEN "stop" ELSE "length"
<1>1. Send(e) /\ up' = [v EXCEPT !.over = TRUE, !.finish = x]
  BY Zenon DEF NativeTerminal
<1>2. e.type = "completed" => reason = "none"
  BY DEF Terminal
<1>3. UpFine(up) /\ up.named = <<>> /\ (route = "codex" => ~up.fault)
  BY <1>1, SendsCodex
<1>4. UpFine(v) /\ v.fault = up.fault /\ v.named = up.named
  BY <1>3, UpToldAll, UpTicks
<1> HIDE DEF e, v
<1>5. up'.fault = up.fault /\ up'.named = up.named /\ up'.over = TRUE /\ up'.finish = x
  BY <1>1, <1>4 DEF UpFine, UpFields
<1>6. x \in {"none", "stop", "length"} /\ (reason = "none" => x \notin CutShort)
  BY DEF CutShort
<1>7. route = "codex" => TrueEvent(e, up', FALSE)
  <2>1. CASE e.type = "completed" /\ e.reason = "none"
    <3>1. x \notin CutShort
      BY <1>2, <1>6, <2>1
    <3> HIDE DEF x
    <3>2. route = "codex" => Succeeded(up')
      BY <1>3, <1>5, <3>1 DEF Succeeded, HasStated
    <3>3. \A i : ~Action(up', i)
      BY <1>3, <1>5, NoActions
    <3> QED
      BY <3>2, <3>3 DEF TrueEvent
  <2>2. CASE ~(e.type = "completed" /\ e.reason = "none")
    BY <1>3, <1>5, <2>2, NoSuccessTrue, Zenon
  <2> QED
    BY <2>1, <2>2, Zenon
<1> HIDE DEF x
<1> QED
  BY <1>1, <1>5, <1>6, <1>7, SendWhole, Zenon

\* So it does with any output the model lets it carry.
LEMMA ResponseEndsWhole ==
    ASSUME OutcomeInv, OtherWhole, ResponseEnds PROVE OtherWhole'
<1>1. UpFine(up)
  BY DEF OutcomeInv
<1>2. IsList(<<>>)
  <2>1. DOMAIN <<>> = 1..0
    OBVIOUS
  <2> QED
    BY <2>1 DEF IsList
<1>3. \A more : IsList(Output(more, {}))
  BY <1>1, OutputIsList, FS_EmptySet
<1>4. \A x : IsList(Output(0, {x}))
  <2>1. \A x : IsFiniteSet({x})
    BY FS_Singleton
  <2> QED
    BY <1>1, <2>1, OutputIsList
<1>5. \E reason, output : IsList(output) /\ NativeTerminal(reason, output)
  BY <1>2, <1>3, <1>4, Zenon DEF ResponseEnds
<1> QED
  BY <1>5, TerminalWhole

\* It fails.
LEMMA NativeFailsWhole ==
    ASSUME OutcomeInv, OtherWhole, NativeFails PROVE OtherWhole'
<1>1. Send(Failed) /\ up' = [Tick(up) EXCEPT !.fault = TRUE, !.closed = TRUE]
  BY DEF NativeFails
<1>2. UpFine(up) /\ up.named = <<>> /\ up.finish \in {"none", "stop", "length"}
  BY <1>1, SendsCodex
<1>3. up'.named = up.named /\ up'.finish = up.finish
  BY <1>1, <1>2 DEF Tick, UpFine, UpFields
<1>4. Failed.type = "failed"
  BY DEF Failed, Event
<1>5. TrueEvent(Failed, up', FALSE)
  BY <1>2, <1>3, <1>4, NoSuccessTrue, Zenon
<1> QED
  BY <1>1, <1>2, <1>3, <1>5, SendWhole, Zenon

\* It ends, with [DONE] or without: the converter then says that the response is incomplete.
LEMMA NativeEndsWhole ==
    ASSUME OutcomeInv, OtherWhole, NativeEnds PROVE OtherWhole'
<1>1. CASE Send(DoneMark)
  <2>1. UpFine(up) /\ up.named = <<>> /\ up.finish \in {"none", "stop", "length"}
    BY <1>1, SendsCodex
  <2>2. up'.named = up.named /\ up'.finish = up.finish
    BY <2>1 DEF NativeEnds, Tick, UpFine, UpFields
  <2>3. DoneMark.type = "[DONE]"
    BY DEF DoneMark, Event
  <2>4. TrueEvent(DoneMark, up', FALSE)
    BY <2>1, <2>2, <2>3, NoSuccessTrue, Zenon
  <2> QED
    BY <1>1, <2>1, <2>2, <2>4, SendWhole, Zenon
<1>2. CASE NativeRead /\ EndOfNative /\ up' = [up EXCEPT !.closed = TRUE] /\ NativeUnchanged
  <2>1. route \notin ChatRoutes \cup ClaudeRoutes /\ route' = route /\ read' = read
    BY <1>2 DEF NativeRead, NativeUnchanged, NativeRoutes, CodexRoutes, ChatRoutes, ClaudeRoutes
  <2>2. UpFine(up) /\ up.named = <<>> /\ up.finish \in {"none", "stop", "length"}
    BY <2>1 DEF OutcomeInv, OtherWhole
  <2>3. up'.named = up.named /\ up'.finish = up.finish
    BY <1>2, <2>2 DEF UpFine, UpFields
  <2>4. ASSUME route = "codex"
        PROVE  D!Reading /\ codex'.sentDone /\ TrueQueue(codex'.out, up', FALSE)
    <3> DEFINE b == [codex EXCEPT !.ended = TRUE]
               d == D!PushDisconnected(b)
    <3>1. D!Reading /\ codex' = D!LogUsage(d)
      BY <1>2, <2>4, Zenon DEF EndOfNative, NativeRoutes, Relayed, D!EndOfUpstream
    <3>2. DOMAIN codex = CodexFields /\ codex.out = <<>>
      BY <2>4, <3>1, CodexWaits DEF Relayed
    <3>3. DOMAIN b = CodexFields /\ b.out = <<>>
      BY <3>2 DEF CodexFields
    <3> HIDE DEF b
    <3>4. d = [D!PushLast(b, D!Disconnected) EXCEPT !.override = TRUE]
      BY DEF D!PushDisconnected
    <3>5. TrueEvent(D!Disconnected, up', FALSE)
      BY <2>2, <2>3, CodexOwnTrue, Zenon
    <3> HIDE DEF d
    <3>6. DOMAIN d = CodexFields /\ d.sentDone = TRUE /\ TrueQueue(d.out, up', FALSE)
      BY <2>2, <2>3, <3>3, <3>4, <3>5, CodexLastTrue, Zenon
    <3>7. codex'.sentDone = d.sentDone /\ codex'.out = d.out
      BY <3>1, <3>6 DEF D!LogUsage, D!Log, CodexFields
    <3> QED
      BY <3>1, <3>6, <3>7, Zenon
  <2> QED
    BY <2>1, <2>2, <2>3, <2>4, OtherGoesOnWhole, Zenon
<1> QED
  BY <1>1, <1>2 DEF NativeEnds

\* A read fails, or nothing comes in time.
LEMMA NativeCutWhole ==
    ASSUME OutcomeInv, OtherWhole, NativeReadError \/ NativeHangs PROVE OtherWhole'
<1>1. /\ route \notin ChatRoutes \cup ClaudeRoutes /\ route' = route /\ read' = read
      /\ up' = [up EXCEPT !.fault = TRUE, !.closed = TRUE]
  BY DEF NativeReadError, NativeHangs, NativeRead, NativeUnchanged, NativeRoutes, CodexRoutes,
         ChatRoutes, ClaudeRoutes
<1>2. UpFine(up) /\ up.named = <<>> /\ up.finish \in {"none", "stop", "length"}
  BY <1>1 DEF OutcomeInv, OtherWhole
<1>3. up'.named = up.named /\ up'.finish = up.finish
  BY <1>1, <1>2 DEF UpFine, UpFields
<1>4. ASSUME route = "codex"
      PROVE  D!Reading /\ codex'.sentDone /\ TrueQueue(codex'.out, up', FALSE)
  <2>1. D!Reading /\ codex' \in {D!FailResponse(codex), D!FailStream(codex)}
    <3>1. CASE NativeReadError
      <4>1. D!ReadError
        BY <1>4, <3>1, ZenonT(30) DEF NativeReadError, NativeReadFails, Relayed
      <4> QED
        BY <4>1 DEF D!ReadError
    <3>2. CASE NativeHangs
      BY <3>2 DEF NativeHangs, D!SemanticTimeout
    <3> QED
      BY <3>1, <3>2
  <2>2. DOMAIN codex = CodexFields /\ codex.out = <<>>
    BY <1>4, <2>1, CodexWaits DEF Relayed
  <2>3. TrueEvent(D!Failed, up', FALSE)
    BY <1>2, <1>3, CodexOwnTrue, Zenon
  <2>4. \/ codex' = [D!PushLast(codex, D!Failed) EXCEPT !.override = TRUE]
        \/ codex' = D!Log(D!PushLast(codex, D!Failed), "error")
    BY <2>1 DEF D!FailResponse, D!FailStream
  <2>5. up'.named = <<>>
    BY <1>2, <1>3
  <2>6. codex'.sentDone = TRUE /\ TrueQueue(codex'.out, up', FALSE)
    <3>1. CASE codex' = [D!PushLast(codex, D!Failed) EXCEPT !.override = TRUE]
      BY <2>2, <2>3, <2>5, <3>1, CodexLastTrue, Zenon
    <3>2. CASE codex' = D!Log(D!PushLast(codex, D!Failed), "error")
      BY <2>2, <2>3, <2>5, <3>2, CodexLastTrue, Zenon
    <3> QED
      BY <2>4, <3>1, <3>2, Zenon
  <2> QED
    BY <2>1, <2>6, Zenon
<1> QED
  BY <1>1, <1>2, <1>3, <1>4, OtherGoesOnWhole, Zenon

\* Whatever such an upstream does.
LEMMA NativeStepWhole ==
    ASSUME OutcomeInv, OtherWhole, NativeStep PROVE OtherWhole'
BY ItemWholeTrue, ResponseEndsWhole, NativeFailsWhole, NativeEndsWhole, NativeCutWhole
   DEF NativeStep

\* What hearing of an event does to what a reader believes, if no item is a shell action.
LEMMA HearPlainTrue ==
    ASSUME NEW r, DOMAIN r = ReadFields, NEW e, NEW u, u.named = <<>>,
           TrueReading(r, u, FALSE), TrueEvent(e, u, FALSE)
    PROVE  /\ DOMAIN Hear(r, e) = ReadFields /\ TrueReading(Hear(r, e), u, FALSE)
           /\ e.type \notin Ends => Hear(r, e).end = r.end
<1> DEFINE h == Hear(r, e)
<1>1. \A i, field : DOMAIN Count(r, i, field) = ReadFields /\ Count(r, i, field).end = r.end
  BY DEF Count, ReadFields
<1>2. /\ DOMAIN h = ReadFields
      /\ \/ h.end = r.end
         \/ e.type \in Ends /\ h.end = IF e.reason = "none" THEN e.type ELSE "incomplete"
      /\ e.type \notin Ends => h.end = r.end
  BY <1>1 DEF Hear, Ends, ReadFields
<1> HIDE DEF h
<1>3. h.end = "completed" => Succeeded(u)
  BY <1>2 DEF TrueReading, TrueEvent
<1>4. TrueReading(h, u, FALSE)
  BY <1>3, NoActions DEF TrueReading
<1> QED
  BY <1>2, <1>4, Zenon DEF h

\* The reader is given the next event.
LEMMA RelayCodexWhole ==
    ASSUME OutcomeInv, OtherWhole, RelayCodex PROVE OtherWhole'
<1> DEFINE e == Head(codex.out)
<1>1. /\ codex.out # <<>> /\ route' = route /\ up' = up
      /\ codex' = [codex EXCEPT !.out = Tail(codex.out)]
      /\ read' = IF route = "codex" THEN Hear(read, e) ELSE read
  BY DEF RelayCodex, D!Emit
<1>2. CASE route = "codex"
  <2>1. DOMAIN codex = CodexFields /\ Events(codex.out)
    BY DEF OutcomeInv, CodexPart, CodexFine
  <2>2. /\ codex'.out = Tail(codex.out) /\ codex'.sentDone = codex.sentDone
        /\ codex'.ended = codex.ended
    BY <1>1, <2>1 DEF CodexFields
  <2>3. route \notin ChatRoutes \cup ClaudeRoutes
    BY <1>2 DEF ChatRoutes, ClaudeRoutes
  <2>4. /\ up.finish \in {"none", "stop", "length"} /\ up.named = <<>>
        /\ DOMAIN read = ReadFields /\ TrueReading(read, up, FALSE)
        /\ TrueQueue(codex.out, up, FALSE)
        /\ ~codex.sentDone /\ ~codex.ended => read.end = "none" /\ NoEnd(codex.out)
    BY <1>2, <2>3, Zenon DEF OtherWhole
  <2>5. TrueEvent(e, up, FALSE) /\ TrueQueue(Tail(codex.out), up, FALSE)
    BY <1>1, <2>4, TrueNext, Zenon
  <2>6. NoEnd(codex.out) => e.type \notin Ends /\ NoEnd(Tail(codex.out))
    <3>1. PICK S : codex.out \in Seq(S)
      BY <2>1 DEF Events
    <3>2. /\ Len(codex.out) \in Nat \ {0} /\ e = codex.out[1]
          /\ Len(Tail(codex.out)) = Len(codex.out) - 1
          /\ \A j \in 1..Len(Tail(codex.out)) : Tail(codex.out)[j] = codex.out[j + 1]
      BY <1>1, <3>1
    <3>3. 1 \in 1..Len(codex.out) /\ \A j \in 1..Len(codex.out) - 1 : j + 1 \in 1..Len(codex.out)
      BY <3>2
    <3> QED
      BY <3>2, <3>3 DEF NoEnd
  <2> HIDE DEF e
  <2>7. /\ DOMAIN read' = ReadFields /\ TrueReading(read', up, FALSE)
        /\ e.type \notin Ends => read'.end = read.end
    BY <1>1, <1>2, <2>4, <2>5, HearPlainTrue, Zenon
  <2> QED
    BY <1>1, <1>2, <2>2, <2>4, <2>5, <2>6, <2>7, Zenon DEF OtherWhole
<1>3. CASE route # "codex"
  BY <1>1, <1>3, Zenon DEF OtherWhole
<1> QED
  BY <1>2, <1>3

----------------------------------------------------------------------------
(* On all routes.                                                          *)

\* The inductive invariant: the streams', and what may be believed of them.
WholeInv == StreamInv /\ ChatWhole /\ ClaudeWhole /\ OtherWhole

\* A step on a Chat upstream's route is none of the other upstreams'.
LEMMA OnChat ==
    ASSUME route \in ChatRoutes, route' = route, ChatWhole'
    PROVE  ChatWhole' /\ ClaudeWhole' /\ OtherWhole'
BY Zenon DEF ClaudeWhole, OtherWhole, ChatRoutes, ClaudeRoutes

\* Nor is one on an Anthropic upstream's route,
LEMMA OnClaude ==
    ASSUME route \in ClaudeRoutes, route' = route, ClaudeWhole'
    PROVE  ChatWhole' /\ ClaudeWhole' /\ OtherWhole'
BY Zenon DEF ChatWhole, OtherWhole, ChatRoutes, ClaudeRoutes

\* nor one on the others.
LEMMA OnOther ==
    ASSUME route \notin ChatRoutes \cup ClaudeRoutes, route' = route, OtherWhole'
    PROVE  ChatWhole' /\ ClaudeWhole' /\ OtherWhole'
BY Zenon DEF ChatWhole, ClaudeWhole

\* The reader hears nothing, and a converter before it stays as it is or goes.
LEMMA NothingHeardWhole ==
    ASSUME WholeInv, OutcomeInv', route' = route, up' = up, read' = read \/ read' = Left(read),
           chat' = chat \/ chat'.gone, claude' = claude \/ claude'.gone,
           codex' = codex \/ codex'.gone
    PROVE  ChatWhole' /\ ClaudeWhole' /\ OtherWhole'
<1>1. /\ chat'.gone => chat'.out = <<>> /\ chat'.sentDone
      /\ claude'.gone => claude'.out = <<>> /\ claude'.sentDone
      /\ codex'.gone => codex'.out = <<>> /\ codex'.ended
  BY DEF OutcomeInv, ChatPart, ChatFine, ClaudePart, ClaudeFine, CodexPart, CodexFine
<1>2. DOMAIN read = ReadFields
  BY Zenon DEF WholeInv, StreamInv, ChatStream, ClaudeStream, OtherWhole, IsReader
<1>3. /\ DOMAIN read' = ReadFields /\ read'.items = read.items /\ read'.end = read.end
      /\ read'.final = read.final
  BY <1>2 DEF Left, ReadFields
<1>4. \A made : TrueReading(read, up, made) => TrueReading(read', up, made)
  BY <1>3 DEF TrueReading
<1>5. CASE route \in ChatRoutes
  <2>1. /\ up.finish \in FinishReasons \cup {"none"}
        /\ ~chat.sentDone => read.end = "none" /\ CallsTold(chat, up)
        /\ TrueQueue(chat.out, up, TRUE) /\ TrueReading(read, up, TRUE)
    BY <1>5, Zenon DEF WholeInv, ChatWhole
  <2>2. ChatWhole'
    BY <1>1, <1>3, <1>4, <2>1, TrueNone, Zenon DEF ChatWhole
  <2> QED
    BY <1>5, <2>2, OnChat
<1>6. CASE route \in ClaudeRoutes
  <2>1. /\ up.finish \in StopReasons \cup {"none"} /\ up.named = <<>>
        /\ ~claude.sentDone => /\ read.end = "none" /\ claude.reason = L!StatusOf(up.finish)
                               /\ BlocksWhole(claude, up)
        /\ TrueQueue(claude.out, up, TRUE) /\ TrueReading(read, up, TRUE)
    BY <1>6, Zenon DEF WholeInv, ClaudeWhole
  <2>2. ClaudeWhole'
    BY <1>1, <1>3, <1>4, <2>1, TrueNone, Zenon DEF ClaudeWhole
  <2> QED
    BY <1>6, <2>2, OnClaude
<1>7. CASE route \notin ChatRoutes \cup ClaudeRoutes
  <2>1. /\ up.finish \in {"none", "stop", "length"} /\ up.named = <<>>
        /\ DOMAIN read = ReadFields /\ TrueReading(read, up, FALSE)
        /\ route # "codex" => read.end = "none"
        /\ route = "codex" =>
              /\ TrueQueue(codex.out, up, FALSE)
              /\ ~codex.sentDone /\ ~codex.ended => read.end = "none" /\ NoEnd(codex.out)
    BY <1>7, Zenon DEF WholeInv, OtherWhole
  <2>2. OtherWhole'
    BY <1>1, <1>3, <1>4, <2>1, TrueNone, Zenon DEF OtherWhole
  <2> QED
    BY <1>7, <2>2, OnOther
<1> QED
  BY <1>5, <1>6, <1>7

\* The reader is given an event.
LEMMA RelayWhole == WholeInv /\ Relay => ChatWhole' /\ ClaudeWhole' /\ OtherWhole'
<1> SUFFICES ASSUME WholeInv, Relay PROVE ChatWhole' /\ ClaudeWhole' /\ OtherWhole'
  OBVIOUS
<1>1. CASE RelayChat
  <2>1. ChatWhole'
    BY <1>1, RelayChatWhole DEF WholeInv, StreamInv
  <2>2. route \in ChatRoutes /\ route' = route
    BY <1>1, ChatRelays DEF WholeInv, StreamInv, RelayChat
  <2> QED
    BY <2>1, <2>2, OnChat
<1>2. CASE RelayClaude
  <2>1. ClaudeWhole'
    BY <1>2, RelayClaudeWhole DEF WholeInv, StreamInv
  <2>2. route \in ClaudeRoutes /\ route' = route
    BY <1>2, ClaudeRelays DEF WholeInv, StreamInv, RelayClaude
  <2> QED
    BY <2>1, <2>2, OnClaude
<1>3. CASE RelayCodex
  <2>1. OtherWhole'
    BY <1>3, RelayCodexWhole DEF WholeInv, StreamInv
  <2>2. route \in Relayed
    BY <1>3 DEF RelayCodex, WholeInv, StreamInv, OutcomeInv, CodexPart, CodexFine
  <2>3. route \notin ChatRoutes \cup ClaudeRoutes /\ route' = route
    BY <1>3, <2>2 DEF RelayCodex, Relayed, ChatRoutes, ClaudeRoutes
  <2> QED
    BY <2>1, <2>3, OnOther
<1> QED
  BY <1>1, <1>2, <1>3 DEF Relay

\* The upstream takes a step.
LEMMA UpstreamWhole == WholeInv /\ Upstream => ChatWhole' /\ ClaudeWhole' /\ OtherWhole'
<1> SUFFICES ASSUME WholeInv, Upstream PROVE ChatWhole' /\ ClaudeWhole' /\ OtherWhole'
  OBVIOUS
<1>0. /\ OutcomeInv /\ ChatStream /\ ClaudeStream
      /\ ChatWhole /\ ClaudeWhole /\ OtherWhole
  BY DEF WholeInv, StreamInv
<1>1. CASE \/ \E p \in Parts[route] : Chunk(p)
           \/ \E reason \in FinishReasons : StateFinish(reason)
           \/ ChatEnds \/ ChatFails
  <2>1. route \in ChatRoutes /\ route' = route
    BY <1>1, Zenon DEF Chunk, StateFinish, ChatEnds, ChatFails, ChatRead, ChatUnchanged
  <2>2. ChatWhole'
    BY <1>0, <1>1, ChunkWhole, StateFinishWhole, ChatStopsWhole
  <2> QED
    BY <2>1, <2>2, OnChat
<1>2. CASE \/ \E kind \in NativeKinds \ {"commentary"} :
                 \/ \E n \in 0..Full, sig \in {"none", "signed", "redacted"} :
                       BlockOpens(kind, n, sig)
                 \/ \E b \in 0..MaxItems : BlockWritten(b, kind)
           \/ \E b \in DOMAIN up.blocks : BlockSigned(b) \/ BlockStops(b)
           \/ \E reason \in StopReasons : StateReason(reason)
           \/ MessageStops \/ ClaudeFails
  <2>1. route \in ClaudeRoutes /\ route' = route
    BY <1>2 DEF BlockOpens, BlockWritten, BlockSigned, BlockStops, StateReason, MessageStops,
                ClaudeFails, ClaudeSends, ClaudeRead, ClaudeUnchanged
  <2>2. ClaudeWhole'
    BY <1>0, <1>2, BlockOpensWhole, BlockWrittenWhole, BlockSignedWhole, BlockStopsWhole,
       StateReasonWhole, MessageStopsWhole, ClaudeFailsWhole
  <2> QED
    BY <2>1, <2>2, OnClaude
<1>3. CASE NativeStep
  <2>1. OtherWhole'
    BY <1>0, <1>3, NativeStepWhole
  <2>2. route \notin ChatRoutes \cup ClaudeRoutes /\ route' = route
    BY <1>3, NativeStepElsewhere
  <2> QED
    BY <2>1, <2>2, OnOther
<1> QED
  BY <1>1, <1>2, <1>3 DEF Upstream, NativeStep

\* Every step keeps the invariant.
LEMMA WholeNext == WholeInv /\ [Next]_vars => WholeInv'
<1> SUFFICES ASSUME WholeInv, [Next]_vars PROVE ChatWhole' /\ ClaudeWhole' /\ OtherWhole'
  BY StreamNext DEF WholeInv
<1>1. OutcomeInv'
  BY StreamNext DEF WholeInv, StreamInv
<1>2. CASE UNCHANGED vars \/ Deliver \/ Finish
  <2>1. UNCHANGED <<route, chat, claude, codex, up, read>>
    BY <1>2 DEF vars, Deliver, DeliverBlock, DeliverChunk, Finish
  <2> QED
    BY <1>1, <2>1, NothingHeardWhole
<1>3. CASE RelayEnd \/ Leave
  <2>1. /\ \A x : C!GoneChat(x).gone = TRUE
        /\ \A x : L!GoneClaude(x).gone = TRUE
        /\ \A x : D!GoneCodex(x).gone = TRUE
    BY DEF C!GoneChat, C!NewChat, L!GoneClaude, L!NewClaude, D!GoneCodex, D!NewCodex
  <2>2. /\ chat' = chat \/ chat'.gone
        /\ claude' = claude \/ claude'.gone
        /\ codex' = codex \/ codex'.gone
    BY <1>3, <2>1 DEF RelayEnd, Leave, C!Close, L!Close, D!Close, C!Abandon, L!Abandon, D!Abandon
  <2>3. route' = route /\ up' = up /\ (read' = read \/ read' = Left(read))
    BY <1>3 DEF RelayEnd, Leave
  <2> QED
    BY <1>1, <2>2, <2>3, NothingHeardWhole
<1> QED
  BY <1>2, <1>3, RelayWhole, UpstreamWhole DEF Next

\* It holds always.
LEMMA WholeAlways == Spec => []WholeInv
<1>1. Init => WholeInv
  BY StreamInit, ChatWholeStarts, ClaudeWholeStarts, OtherWholeStarts DEF WholeInv
<1> QED
  BY <1>1, WholeNext, PTL DEF Spec

\* However its call is told, in whatever order and whether the upstream fails afterwards: a
\* shell action is in what the reader of a Responses stream has heard only in one piece, with
\* all its arguments, from an upstream that has not failed.
THEOREM OnlyWholeActionsAlways == Spec => []OnlyWholeActions
<1>1. ASSUME WholeInv PROVE OnlyWholeActions
  <2>1. \E made : TrueReading(read, up, made)
    BY <1>1, Zenon DEF WholeInv, ChatWhole, ClaudeWhole, OtherWhole
  <2> QED
    BY <2>1 DEF OnlyWholeActions, IsAction, TrueReading, Action, WholeAction
<1> QED
  BY <1>1, WholeAlways, PTL

\* The reader of a Responses stream is told of success only if the upstream said that its
\* answer was whole, never when it was cut short, and never with a call, of a response made
\* for it, whose arguments are not complete.
THEOREM NoFalseResponseAlways == Spec => []NoFalseResponse
<1>1. ASSUME WholeInv PROVE NoFalseResponse
  <2> SUFFICES ASSUME read.end = "completed"
               PROVE  /\ ~Truncated /\ Stated
                      /\ \A j \in DOMAIN Made.final :
                            Kind(read.final[j].item) = "function_call" => read.final[j].n = Full
    BY DEF NoFalseResponse
  <2>1. CASE route \in ChatRoutes \cup ClaudeRoutes
    <3>1. TrueReading(read, up, TRUE) /\ Made = read
      BY <1>1, <2>1, Zenon DEF WholeInv, ChatWhole, ClaudeWhole, Made, ChatRoutes, ClaudeRoutes
    <3>2. Succeeded(up) /\ CallsFull(Made.final)
      BY <3>1 DEF TrueReading
    <3> QED
      BY <3>1, <3>2 DEF Succeeded, HasStated, Truncated, CutShort, Stated, CallsFull
  <2>2. CASE route \notin ChatRoutes \cup ClaudeRoutes
    <3>1. TrueReading(read, up, FALSE) /\ route = "codex"
      BY <1>1, <2>2, Zenon DEF WholeInv, OtherWhole
    <3>2. Succeeded(up)
      BY <3>1 DEF TrueReading
    <3>3. DOMAIN Made.final = {}
      BY <3>1 DEF Made, NothingRead
    <3> QED
      BY <3>2, <3>3 DEF Succeeded, HasStated, Truncated, CutShort, Stated
  <2> QED
    BY <2>1, <2>2
<1> QED
  BY <1>1, WholeAlways, PTL
=============================================================================
