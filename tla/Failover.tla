------------------------------ MODULE Failover ------------------------------
(***************************************************************************)
(* What forwarding promises a client request: upstreams are tried in       *)
(* priority order, none twice after it has failed; the first final answer  *)
(* of one of them ends the request and every other attempt with it; a      *)
(* failure is reported only when all of them have failed.                  *)
(***************************************************************************)
EXTENDS Naturals

CONSTANTS Upstreams, Rank

VARIABLES
    eligible,   \* the upstreams this request may use
    running,    \* being tried
    failed,     \* tried in vain
    answer      \* "none", "failure", "canceled", or the upstream that answered

vars == <<eligible, running, failed, answer>>

Init ==
    /\ eligible \in SUBSET Upstreams
    /\ running = {}
    /\ failed = {}
    /\ answer = "none"

\* Only when all the upstreams of higher priority have failed.
Try(u) ==
    /\ answer = "none"
    /\ u \in eligible \ (running \cup failed)
    /\ \A v \in eligible : Rank[v] < Rank[u] => v \in failed
    /\ running' = running \cup {u}
    /\ UNCHANGED <<eligible, failed, answer>>

Fail(u) ==
    /\ answer = "none" /\ u \in running
    /\ running' = running \ {u}
    /\ failed' = failed \cup {u}
    /\ UNCHANGED <<eligible, answer>>

Commit(u) ==
    /\ answer = "none" /\ u \in running
    /\ answer' = u
    /\ running' = {}
    /\ UNCHANGED <<eligible, failed>>

ReportFailure ==
    /\ answer = "none" /\ failed = eligible
    /\ answer' = "failure"
    /\ UNCHANGED <<eligible, running, failed>>

Cancel ==
    /\ answer = "none"
    /\ answer' = "canceled"
    /\ running' = {}
    /\ UNCHANGED <<eligible, failed>>

Next ==
    \/ \E u \in Upstreams : Try(u) \/ Fail(u) \/ Commit(u)
    \/ ReportFailure
    \/ Cancel

Spec == Init /\ [][Next]_vars
=============================================================================
