-------------------------- MODULE ResponsesStream --------------------------
(***************************************************************************)
(* What a Responses stream promises its reader: it opens with created; an  *)
(* item is added before anything is said of it, finished exactly once, and *)
(* silent from then on; the response ends when every item is finished, and *)
(* its final output is those items.                                        *)
(***************************************************************************)
EXTENDS Naturals

CONSTANT Items      \* the output items the upstream may produce

VARIABLES
    phase,      \* "new", "open", "ended", or "cut" when the reader left
    items,      \* for each item added: how often it was added and finished,
                \* and how much was said of it
    output      \* the items of the final output

vars == <<phase, items, output>>

Init ==
    /\ phase = "new"
    /\ items = <<>>
    /\ output = {}

Create ==
    /\ phase = "new"
    /\ phase' = "open"
    /\ UNCHANGED <<items, output>>

Add(i) ==
    /\ phase = "open" /\ i \notin DOMAIN items
    /\ items' = [j \in DOMAIN items \cup {i} |->
                    IF j = i THEN [added |-> 1, said |-> 0, finished |-> 0] ELSE items[j]]
    /\ UNCHANGED <<phase, output>>

Unfinished(i) == phase = "open" /\ i \in DOMAIN items /\ items[i].finished = 0

Say(i) ==
    /\ Unfinished(i)
    /\ items' = [items EXCEPT ![i].said = @ + 1]
    /\ UNCHANGED <<phase, output>>

Finish(i) ==
    /\ Unfinished(i)
    /\ items' = [items EXCEPT ![i].finished = 1]
    /\ UNCHANGED <<phase, output>>

End ==
    /\ phase = "open"
    /\ \A i \in DOMAIN items : items[i].finished = 1
    /\ phase' = "ended"
    /\ output' = DOMAIN items
    /\ UNCHANGED items

\* The connection is gone; what was delivered stays.
Cut ==
    /\ phase # "cut"
    /\ phase' = "cut"
    /\ UNCHANGED <<items, output>>

Next ==
    \/ Create \/ End \/ Cut
    \/ \E i \in Items : Add(i) \/ Say(i) \/ Finish(i)

Spec == Init /\ [][Next]_vars
=============================================================================
