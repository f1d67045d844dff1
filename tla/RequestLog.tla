----------------------------- MODULE RequestLog -----------------------------
(***************************************************************************)
(* What one client request leaves in the request log: a row for every      *)
(* upstream attempt whose result was handled, one for a cancellation that  *)
(* nothing else tells of, one for an answer the proxy made up, and among   *)
(* them the row the request is billed by.  Rows are built by the request   *)
(* and written by tasks of their own, in any order.                        *)
(*                                                                         *)
(* An attempt is one send to an upstream, the resend of a repaired request *)
(* or with a renewed credential included.  Not every send gets a row: see  *)
(* Discard, FailUnlogged and RejectUnlogged.  Which upstream an attempt    *)
(* goes to, and whether another follows, is Forwarding's; here attempts    *)
(* are numbered in the order they are sent.                                *)
(***************************************************************************)
EXTENDS Naturals, Sequences, FiniteSets, Functions

CONSTANTS
    MaxAttempts,    \* bound: sends of one request
    Modes,          \* the dispatch modes explored, of "serial" and "race"
    MaxRoutes       \* bound: routes of a native request's chain

ASSUME LogAssumption ==
    /\ MaxAttempts \in Nat /\ MaxRoutes \in Nat
    /\ Modes \subseteq {"serial", "race"}

Attempts == 1..MaxAttempts

VARIABLES
    mode,
    stream,     \* does the client want a stream?
    phase,      \* "forwarding", "body", "over", or "gone" when the client left
    route,      \* the route of the chain that is tried
    before,     \* the attempts of the routes before it
    att,        \* where each attempt stands
    ledger,     \* the counts of the request and the rows not yet written
    lost,       \* has a write failed?
    rows        \* the rows of request_logs, oldest first

vars == <<mode, stream, phase, route, before, att, ledger, lost, rows>>
static == <<mode, stream>>
chain == <<route, before>>

\* A row is about an attempt, the request, or an answer of the proxy's own.
\* Only the last has no client_request_id.
AboutAttempt(a) == <<"attempt", a>>
AboutRequest == <<"request", 0>>
AboutLocal(r) == <<"local", r>>
OfRequest(row) == row.of[1] # "local"

\* build_log_entry: it counts the rows of the request and numbers them in the
\* order in which they are built.
Build(l, of, status) ==
    [next |-> l.next + 1, logs |-> l.logs + 1,
     pending |-> l.pending \cup {[of |-> of, index |-> l.next, status |-> status]}]
BuildLocal(l, r) ==
    [l EXCEPT !.pending = @ \cup {[of |-> AboutLocal(r), index |-> 0, status |-> "error"]}]

Init ==
    /\ mode \in Modes
    /\ stream \in BOOLEAN
    /\ phase = "forwarding"
    /\ route = 1
    /\ before = {}
    /\ att = [a \in Attempts |-> "idle"]
    /\ ledger = [next |-> 0, logs |-> 0, pending |-> {}]
    /\ lost = FALSE
    /\ rows = <<>>

----------------------------------------------------------------------------
(* Attempts.  "held" is a response that was built and waits for the lock   *)
(* of its account's result; of a stream, its log entry waits in it.        *)

InFlight == {a \in Attempts : att[a] \in {"sent", "held", "failing", "broken"}}
Capacity == IF mode = "serial" THEN 1 ELSE 2
Open == IF stream THEN {a \in Attempts : att[a] \in {"held", "streaming"}} ELSE {}

\* A candidate's first send, a retry, or the resend after a Discard.
Launch(a) ==
    /\ phase = "forwarding" /\ Cardinality(InFlight) < Capacity
    /\ att[a] = "idle" /\ \A b \in Attempts : b < a => att[b] # "idle"
    /\ att' = [att EXCEPT ![a] = "sent"]
    /\ UNCHANGED <<static, phase, chain, ledger, lost, rows>>

\* A good response: its row is built now, or with the end of its stream.
Accept(a) ==
    /\ phase = "forwarding" /\ att[a] = "sent"
    /\ att' = [att EXCEPT ![a] = "held"]
    /\ ledger' = IF stream THEN ledger ELSE Build(ledger, AboutAttempt(a), "ok")
    /\ UNCHANGED <<static, phase, chain, lost, rows>>

\* A response another attempt may follow.
Refuse(a) ==
    /\ phase = "forwarding" /\ att[a] = "sent"
    /\ att' = [att EXCEPT ![a] = "failing"]
    /\ ledger' = Build(ledger, AboutAttempt(a), "error")
    /\ UNCHANGED <<static, phase, chain, lost, rows>>

\* No response: the row is built after the account's cooldown is marked.
Break(a) ==
    /\ phase = "forwarding" /\ att[a] = "sent"
    /\ att' = [att EXCEPT ![a] = "broken"]
    /\ UNCHANGED <<static, phase, chain, ledger, lost, rows>>

Fail(a) ==
    /\ phase = "forwarding" /\ att[a] \in {"failing", "broken"}
    /\ att' = [att EXCEPT ![a] = "failed"]
    /\ ledger' = IF att[a] = "broken" THEN Build(ledger, AboutAttempt(a), "error") ELSE ledger
    /\ UNCHANGED <<static, phase, chain, lost, rows>>

\* The response is dropped without a row, for the request to be sent anew in its
\* place: repaired, with a renewed credential or task, or to Kiro's next endpoint.
\* The resend may find nothing to authenticate with, and the candidate is skipped.
Discard(a) ==
    /\ phase = "forwarding" /\ att[a] = "sent"
    /\ att' = [att EXCEPT ![a] = "discarded"]
    /\ UNCHANGED <<static, phase, chain, ledger, lost, rows>>

\* A failure another attempt may follow, without a row: the body of a 400 that was
\* inspected for repair could not be read, or no resend could be prepared.
FailUnlogged(a) ==
    /\ phase = "forwarding" /\ att[a] = "sent"
    /\ att' = [att EXCEPT ![a] = "failedUnlogged"]
    /\ UNCHANGED <<static, phase, chain, ledger, lost, rows>>

\* Streams that are dropped log that they were, in any order, as canceled if the
\* client left.
DroppedStatus(gone) == IF gone THEN "499" ELSE "dropped"
Drop(l, streams, status) ==
    LET n == Cardinality(streams)
    IN  {[next |-> l.next + n, logs |-> l.logs + n,
          pending |-> l.pending \cup
              {[of |-> AboutAttempt(a), index |-> l.next + place[a],
                status |-> status] : a \in streams}] :
         place \in Injection(streams, 0..(n-1))}

\* What a's response is becomes the answer.  The other attempts are dropped where
\* they stand; at most one is in flight.
Commit(a, stand, l) ==
    /\ phase' = "body"
    /\ att' = [b \in Attempts |->
                  IF b = a THEN stand
                  ELSE IF b \in InFlight THEN "gone" ELSE att[b]]
    /\ ledger' \in Drop(l, Open \ {a}, DroppedStatus(FALSE))
    /\ UNCHANGED <<static, chain, lost, rows>>

Answer(a) ==
    /\ phase = "forwarding" /\ att[a] = "held"
    /\ Commit(a, IF stream THEN "streaming" ELSE "answered", ledger)

\* An error no retry may follow is the answer as soon as it is built.
Reject(a) ==
    /\ phase = "forwarding" /\ att[a] = "sent"
    /\ Commit(a, "rejected", Build(ledger, AboutAttempt(a), "error"))

\* Such an error of the proxy's own while it recovers from the response, without a
\* row: the body of a 401 cannot be read, a task or a Kiro credential cannot be
\* renewed, a repair fails, its credential has changed, or Kiro's endpoints run out.
RejectUnlogged(a) ==
    /\ phase = "forwarding" /\ att[a] = "sent"
    /\ Commit(a, "rejectedUnlogged", ledger)

----------------------------------------------------------------------------
(* The end of a route: the client is told of the failure, in words of the  *)
(* proxy's own if nothing was attempted or all that was said is masked, or *)
(* the next route of a native request is tried.                            *)

Sent == {a \in Attempts : att[a] # "idle"}
Failed == {a \in Attempts \ before : att[a] \in {"failed", "failedUnlogged"}}

Exhausted(local, next) ==
    /\ phase = "forwarding" /\ InFlight = {}
    /\ local => Cardinality(Failed) # 1
    /\ next => route < MaxRoutes
    /\ route' = IF next THEN route + 1 ELSE route
    /\ before' = IF next THEN Sent ELSE before
    /\ phase' = IF next THEN phase ELSE "body"
    /\ ledger' = IF local THEN BuildLocal(ledger, route) ELSE ledger
    /\ UNCHANGED <<static, att, lost, rows>>

----------------------------------------------------------------------------
(* The body, and the client.                                               *)

Streaming == {a \in Attempts : att[a] = "streaming"}
Logged(a, status) ==
    /\ att' = [att EXCEPT ![a] = "answered"]
    /\ ledger' = Build(ledger, AboutAttempt(a), status)

\* A fault in the stream, or its last event, settles what the row says before the
\* client has read of it.
StreamSettles(status) ==
    /\ phase = "body"
    /\ \E a \in Streaming : Logged(a, status)
    /\ UNCHANGED <<static, phase, chain, lost, rows>>

BodyEnds ==
    /\ phase = "body"
    /\ phase' = "over"
    /\ IF Streaming = {} THEN UNCHANGED <<att, ledger>>
       ELSE \E a \in Streaming : Logged(a, "ok")
    /\ UNCHANGED <<static, chain, lost, rows>>

\* finish_cancel: the request's own row, if nothing has logged anything.
FinishCancel(l) == IF l.logs > 0 THEN l ELSE Build(l, AboutRequest, "499")

\* Mutant: what the client waited for is dropped before the cancellation is noted.
LeaveUnseen ==
    /\ phase \in {"forwarding", "body"}
    /\ phase' = "gone"
    /\ att' = [a \in Attempts |-> IF a \in InFlight THEN "gone"
                                  ELSE IF a \in Streaming THEN "answered" ELSE att[a]]
    /\ \E l \in Drop(ledger, Open, DroppedStatus(FALSE)) : ledger' = FinishCancel(l)
    /\ UNCHANGED <<static, chain, lost, rows>>

\* Dropping the request or its body: the client's cancellation is noted, then
\* what it waited for is dropped, then the request's own row is considered.
Leave ==
    /\ phase \in {"forwarding", "body"}
    /\ phase' = "gone"
    /\ att' = [a \in Attempts |-> IF a \in InFlight THEN "gone"
                                  ELSE IF a \in Streaming THEN "answered" ELSE att[a]]
    /\ \E l \in Drop(ledger, Open, DroppedStatus(TRUE)) : ledger' = FinishCancel(l)
    /\ UNCHANGED <<static, chain, lost, rows>>

----------------------------------------------------------------------------
(* insert_log_entry_with_body: the row, and the request's billing anew.    *)

\* Mutant: the row that was written last is billed.
FinalBefore(s, i, j) == i < j

\* Does row i of s come before row j in the order of completion?
Before(s, i, j) == s[i].index < s[j].index \/ (s[i].index = s[j].index /\ i < j)
Final(s, j) == \A i \in DOMAIN s : OfRequest(s[i]) /\ i # j => Before(s, i, j)
Reconciled(s, e) ==
    IF OfRequest(e)
    THEN [j \in DOMAIN s |-> IF OfRequest(s[j]) THEN [s[j] EXCEPT !.billable = Final(s, j)] ELSE s[j]]
    ELSE s

Inserted(e) ==
    Append(rows, [of |-> e.of, index |-> e.index, status |-> e.status, billable |-> TRUE])

Write(e) ==
    /\ e \in ledger.pending
    /\ ledger' = [ledger EXCEPT !.pending = @ \ {e}]
    /\ rows' = Reconciled(Inserted(e), e)
    /\ UNCHANGED <<static, phase, chain, att, lost>>

\* The database refuses: the row is given up.
WriteFails(e) ==
    /\ e \in ledger.pending /\ ~lost
    /\ ledger' = [ledger EXCEPT !.pending = @ \ {e}]
    /\ lost' = TRUE
    /\ UNCHANGED <<static, phase, chain, att, rows>>

----------------------------------------------------------------------------
Next ==
    \/ \E a \in Attempts :
          \/ Launch(a) \/ Accept(a) \/ Refuse(a) \/ Break(a) \/ Fail(a)
          \/ Discard(a) \/ FailUnlogged(a)
          \/ Answer(a) \/ Reject(a) \/ RejectUnlogged(a)
    \/ \E local, next \in BOOLEAN : Exhausted(local, next)
    \/ \E status \in {"ok", "error"} : StreamSettles(status)
    \/ BodyEnds \/ Leave
    \/ \E e \in ledger.pending : Write(e) \/ WriteFails(e)

Spec == Init /\ [][Next]_vars

----------------------------------------------------------------------------
(* Properties.                                                             *)

Settled == phase \in {"over", "gone"} /\ ledger.pending = {} /\ ~lost

RowsOf(of) == {j \in DOMAIN rows : rows[j].of = of}
RequestRows == {j \in DOMAIN rows : OfRequest(rows[j])}
Unlogged == {"discarded", "failedUnlogged", "rejectedUnlogged"}
Billed == {j \in RequestRows : rows[j].billable}

\* In whatever order rows are written, and whichever are lost, one of those that
\* carry the request's id is billed, the one completed last; and when all is
\* written it is the answer's, if the answer is an attempt that was logged.
\* Excepted are a race whose answer was complete before the other attempts ended,
\* and an answer without a row (RejectUnlogged): it leaves the row of an attempt
\* that failed before it billed, or none.  See the README.
BilledByAnswer ==
    /\ \A j \in Billed, i \in RequestRows : rows[i].index <= rows[j].index
    /\ RequestRows # {} => Cardinality(Billed) = 1
    /\ Settled =>
          \A a \in Attempts :
              \/ att[a] = "answered" /\ stream
              \/ att[a] \in {"answered", "rejected"} /\ mode = "serial"
              => Billed = RowsOf(AboutAttempt(a))

\* The log tells what happened to the attempts whose result was handled
\* (handle_upstream_result): each has one row.  The sends that were dropped for a
\* resend or ended while the proxy recovered have none, against CONTEXT.md: see the
\* README.  The request has a row of its own exactly if the client left and nothing
\* else tells of it; an attempt is said to be canceled only if the client left, and
\* an answer the client did not wait for is said to be.
OutcomeRecorded ==
    /\ \A a \in Attempts : Cardinality(RowsOf(AboutAttempt(a))) <= 1
    /\ \A j \in DOMAIN rows : rows[j].status = "499" => phase = "gone"
    /\ Settled =>
          /\ \A a \in Attempts : att[a] \in {"failed", "answered", "rejected"} => RowsOf(AboutAttempt(a)) # {}
          /\ \A a \in Attempts : att[a] \in Unlogged => RowsOf(AboutAttempt(a)) = {}
          /\ RowsOf(AboutRequest) # {}
                <=> phase = "gone" /\ \A a \in Attempts : RowsOf(AboutAttempt(a)) = {}
          /\ \A a \in Attempts, j \in DOMAIN rows :
                att[a] \in {"answered", "rejected"} /\ j \in RowsOf(AboutAttempt(a)) => rows[j].status # "dropped"

\* What CONTEXT.md says of a client request that was answered: however often it
\* was retried, it is counted by one record.
BilledOnce ==
    Settled /\ phase = "over" => Cardinality({j \in DOMAIN rows : rows[j].billable}) <= 1
=============================================================================
