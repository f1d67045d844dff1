--------------------------- MODULE MCLateSuccess ---------------------------
(* Cooldowns with a history variable: since a request's attempt was sent,   *)
(* has another request's failure sidelined the same upstream?               *)
EXTENDS Cooldowns, TLC

VARIABLE overtaken

\* The requests are interchangeable, and every property treats them so.
Symmetry == Permutations(Requests)

\* r's attempt is in flight while another request's failure moves a deadline.
Overtakes(r) ==
    /\ pc[r] = "sent" /\ pc'[r] = "sent"
    /\ sidelined'[Key(r)] > sidelined[Key(r)]

LateInit == Init /\ overtaken = [r \in Requests |-> FALSE]
LateNext ==
    /\ Next
    /\ overtaken' = [r \in Requests |->
                        pc'[r] = "sent" /\ (overtaken[r] \/ Overtakes(r))]
LateSpec == LateInit /\ [][LateNext]_<<vars, overtaken>>

\* docs/cpa-v8.0.17-forwarding-fixes.md: a late success does not clear the
\* cooldown that another request has established meanwhile.
LateSuccessKeepsCooldown ==
    [][\A r \in Requests, ok \in BOOLEAN :
        Success(r, ok) /\ overtaken[r] /\ ~stale[r]
            => sidelined'[Key(r)] = sidelined[Key(r)]]_<<vars, overtaken>>
=============================================================================
