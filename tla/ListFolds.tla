----------------------------- MODULE ListFolds ------------------------------
(***************************************************************************)
(* FoldOver and Without are SequencesExt's FoldLeft and RemoveAt, without  *)
(* the rest of that module: every converter is instantiated, and each      *)
(* instance would bring all of it.                                         *)
(***************************************************************************)
EXTENDS Naturals, Sequences, Folds

\* op applied to s and to each element of q in turn.
FoldOver(op(_, _), s, q) ==
    MapThenFoldSet(LAMBDA x, y : op(y, x), s, LAMBDA j : q[j],
                   LAMBDA T : CHOOSE m \in T : \A k \in T : k <= m, DOMAIN q)

\* q without its j-th element.
Without(q, j) == SubSeq(q, 1, j - 1) \o SubSeq(q, j + 1, Len(q))
=============================================================================
