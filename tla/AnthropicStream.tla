-------------------------- MODULE AnthropicStream --------------------------
(***************************************************************************)
(* What an Anthropic message stream promises its client (CONTEXT.md,       *)
(* "Ordered Content Block"): message_start first; one content block at a   *)
(* time, each index started once, written only while it is open and        *)
(* stopped once; a stop reason and message_stop when every block is        *)
(* stopped.  An error ends the stream and leaves its block as it is, or    *)
(* stopped.                                                                *)
(***************************************************************************)
EXTENDS Naturals

CONSTANT Indexes    \* the block indexes in use

VARIABLES
    phase,      \* "new", "open", "closing", "stopped", "error" or "cut"
    blocks      \* for each index: how often it was started, written, stopped

vars == <<phase, blocks>>

Init ==
    /\ phase = "new"
    /\ blocks = <<>>

MessageStart ==
    /\ phase = "new"
    /\ phase' = "open"
    /\ UNCHANGED blocks

AllStopped == \A b \in DOMAIN blocks : blocks[b].stopped = 1

BlockStart(b) ==
    /\ phase = "open" /\ AllStopped
    /\ b \notin DOMAIN blocks
    /\ blocks' = [c \in DOMAIN blocks \cup {b} |->
                     IF c = b THEN [started |-> 1, written |-> 0, stopped |-> 0]
                     ELSE blocks[c]]
    /\ UNCHANGED phase

IsOpen(b) == b \in DOMAIN blocks /\ blocks[b].stopped = 0

BlockDelta(b) ==
    /\ phase = "open" /\ IsOpen(b)
    /\ blocks' = [blocks EXCEPT ![b].written = @ + 1]
    /\ UNCHANGED phase

BlockStop(b) ==
    /\ phase \in {"open", "error"} /\ IsOpen(b)
    /\ blocks' = [blocks EXCEPT ![b].stopped = 1]
    /\ UNCHANGED phase

MessageDelta ==
    /\ phase = "open" /\ AllStopped
    /\ phase' = "closing"
    /\ UNCHANGED blocks

MessageStop ==
    /\ phase = "closing"
    /\ phase' = "stopped"
    /\ UNCHANGED blocks

Error ==
    /\ phase \in {"new", "open"}
    /\ phase' = "error"
    /\ UNCHANGED blocks

\* The connection is gone.
Cut ==
    /\ phase # "cut"
    /\ phase' = "cut"
    /\ UNCHANGED blocks

Next ==
    \/ MessageStart \/ MessageDelta \/ MessageStop \/ Error \/ Cut
    \/ \E b \in Indexes : BlockStart(b) \/ BlockDelta(b) \/ BlockStop(b)

Spec == Init /\ [][Next]_vars
=============================================================================
