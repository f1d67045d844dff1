----------------------------- MODULE FoldLemmas -----------------------------
(***************************************************************************)
(* What the fold of an operation over a list reaches.  A module that folds *)
(* an operation of its own (FoldOver) instantiates Op with it, and         *)
(* At(x, k, s) with what is to hold of the state s after the first k       *)
(* elements of the list.                                                   *)
(***************************************************************************)
EXTENDS ListFolds, Integers

CONSTANTS Op(_, _), At(_, _, _)

Top(S) == CHOOSE x \in S : \A y \in S : y <= x

\* The least-number principle.  WellFoundedInduction proves it, and the module that
\* instantiates this one cites that proof: extending it here would bring the whole
\* of it into every instance.
Least == \A S \in SUBSET Nat : S # {} => \E i \in S : \A j \in S : i <= j

\* The number m + 1 is the greatest of a set of numbers up to it.
LEMMA TopIsLast ==
    ASSUME NEW m \in Nat, NEW t \in SUBSET (1..m + 1), m + 1 \in t
    PROVE  Top(t) = m + 1
<1> DEFINE P(x) == x \in t /\ \A y \in t : y <= x
<1>1. P(m + 1)
  OBVIOUS
<1>2. \A x : P(x) => x = m + 1
  OBVIOUS
<1> QED
  BY <1>1, <1>2 DEF Top

\* What MapThenFoldSet's recursive function g computes for the set t of indices,
\* and that g computes it for every set of the first m.
Step(g, s, q, t) == IF t = {} THEN s ELSE Op(g[t \ {Top(t)}], q[Top(t)])
Folds(g, s, q, m) == g = [t \in SUBSET (1..m) |-> Step(g, s, q, t)]

\* The recursive function of the first m indices extends to the next one.
LEMMA FoldsExtend ==
    ASSUME NEW s, NEW q, NEW m \in Nat, NEW g, Folds(g, s, q, m)
    PROVE  \E h : Folds(h, s, q, m + 1)
<1> DEFINE h == [t \in SUBSET (1..m + 1) |->
                    IF m + 1 \in t THEN Op(g[t \ {m + 1}], q[m + 1]) ELSE g[t]]
<1>1. ASSUME NEW t \in SUBSET (1..m + 1) PROVE h[t] = Step(h, s, q, t)
  <2>1. CASE m + 1 \in t
    <3>1. Top(t) = m + 1
      BY <2>1, TopIsLast
    <3>2. h[t \ {m + 1}] = g[t \ {m + 1}]
      OBVIOUS
    <3> QED
      BY <2>1, <3>1, <3>2 DEF Step
  <2>2. CASE m + 1 \notin t
    <3>1. t \in SUBSET (1..m)
      BY <2>2
    <3>2. h[t] = Step(g, s, q, t)
      BY <2>2, <3>1 DEF Folds
    <3>3. \A u \in SUBSET t : h[u] = g[u]
      BY <2>2
    <3> QED
      BY <3>2, <3>3 DEF Step
  <2> QED
    BY <2>1, <2>2
<1>2. Folds(h, s, q, m + 1)
  BY <1>1 DEF Folds
<1> QED
  BY <1>2

\* So there is one for the indices of any list: the CHOOSE that TLA+ defines it
\* by has something to choose.
LEMMA FoldsExist ==
    ASSUME Least, NEW s, NEW q, NEW n \in Nat
    PROVE  \E g : Folds(g, s, q, n)
<1> DEFINE B == {m \in Nat : ~\E g : Folds(g, s, q, m)}
<1>1. SUFFICES B = {}
  OBVIOUS
<1>2. SUFFICES ASSUME B # {} PROVE FALSE
  OBVIOUS
<1>3. PICK b \in B : \A m \in B : b <= m
  <2>1. B \subseteq Nat
    OBVIOUS
  <2> HIDE DEF B
  <2> QED
    BY <1>2, <2>1 DEF Least
<1>4. b = 0
  <2>1. SUFFICES ASSUME b # 0 PROVE FALSE
    OBVIOUS
  <2>2. b - 1 \in Nat /\ b - 1 \notin B
    BY <1>3, <2>1
  <2>3. \E h : Folds(h, s, q, (b - 1) + 1)
    BY <2>2, FoldsExtend
  <2> QED
    BY <2>3
<1>5. Folds([t \in {{}} |-> s], s, q, 0)
  BY DEF Folds, Step
<1> QED
  BY <1>4, <1>5

\* The states r that the fold goes through, one after each element.
Runs(r, s, q, n) == r[0] = s /\ \A k \in 1..n : r[k] = Op(r[k - 1], q[k])

\* A fold over a list goes through such states and returns the last.
LEMMA FoldRuns ==
    ASSUME Least, NEW s, NEW q, NEW n \in Nat, DOMAIN q = 1..n
    PROVE  \E r : Runs(r, s, q, n) /\ FoldOver(Op, s, q) = r[n]
<1> DEFINE f == CHOOSE g : Folds(g, s, q, n)
           r == [k \in 0..n |-> f[1..k]]
<1>1. Folds(f, s, q, n)
  BY FoldsExist
<1>2. FoldOver(Op, s, q) = f[1..n]
  BY DEF FoldOver, MapThenFoldSet, Folds, Step, Top
<1> HIDE DEF f
<1>3. r[0] = s
  <2>1. 1..0 = {}
    OBVIOUS
  <2> QED
    BY <1>1, <2>1 DEF Folds, Step
<1>4. ASSUME NEW k \in 1..n PROVE r[k] = Op(r[k - 1], q[k])
  <2>1. Top(1..k) = k
    <3> DEFINE m == k - 1
    <3>1. m \in Nat /\ 1..k \in SUBSET (1..m + 1) /\ m + 1 \in 1..k
      OBVIOUS
    <3>2. Top(1..k) = m + 1
      BY <3>1, TopIsLast
    <3> QED
      BY <3>2
  <2>2. (1..k) \ {k} = 1..(k - 1) /\ 1..k # {}
    OBVIOUS
  <2>3. 1..k \in SUBSET (1..n)
    OBVIOUS
  <2>4. f[1..k] = Op(f[1..(k - 1)], q[k])
    BY <1>1, <2>1, <2>2, <2>3 DEF Folds, Step
  <2> QED
    BY <2>4
<1>5. Runs(r, s, q, n)
  BY <1>3, <1>4 DEF Runs
<1>6. FoldOver(Op, s, q) = r[n]
  BY <1>2
<1> HIDE DEF r
<1> QED
  BY <1>5, <1>6

\* What holds before the first element and is kept by every step holds at the end:
\* the rule by which every property of a converter that walks a response's output,
\* its open items or its held-back calls is proved.
THEOREM FoldReaches ==
    ASSUME Least, NEW x, NEW a, NEW q, NEW n \in Nat, DOMAIN q = 1..n,
           At(x, 0, a),
           \A k \in 1..n : \A s : At(x, k - 1, s) => At(x, k, Op(s, q[k]))
    PROVE  At(x, n, FoldOver(Op, a, q))
<1>1. PICK r : Runs(r, a, q, n) /\ FoldOver(Op, a, q) = r[n]
  BY FoldRuns
<1> DEFINE B == {k \in 0..n : ~At(x, k, r[k])}
<1>2. SUFFICES ASSUME B # {} PROVE FALSE
  BY <1>1
<1>3. PICK b \in B : \A m \in B : b <= m
  <2>1. B \subseteq Nat
    OBVIOUS
  <2> HIDE DEF B
  <2> QED
    BY <1>2, <2>1 DEF Least
<1>4. b # 0
  BY <1>1 DEF Runs
<1>5. b - 1 \in 0..n /\ b - 1 \notin B /\ b \in 1..n
  BY <1>3, <1>4
<1>6. At(x, b - 1, r[b - 1])
  BY <1>5
<1>7. r[b] = Op(r[b - 1], q[b])
  BY <1>1, <1>5 DEF Runs
<1>8. At(x, b, r[b])
  BY <1>5, <1>6, <1>7
<1> QED
  BY <1>8
=============================================================================
