----------------------------- MODULE Forwarding -----------------------------
(***************************************************************************)
(* One client request on its way through the upstreams: the candidates of  *)
(* each priority group are ordered by the upstream selector, launched by   *)
(* the serial, race or hedged scheduler, retried in place, and folded into *)
(* the one answer the client gets.  It covers forward_by_priority,         *)
(* dispatch_candidates, attempt_with_retries and finalize_forward_result.  *)
(*                                                                         *)
(* An upstream stands for one runtime upstream (one credential): the pair  *)
(* (provider, selector_key).  What an attempt does on the wire is the      *)
(* environment: it ends in one of Final or Failures.                       *)
(***************************************************************************)
EXTENDS Integers, FiniteSets, Sequences

CONSTANTS
    Upstreams,      \* the runtime upstreams of the configuration
    Rank,           \* [Upstreams -> 1..LastGroup]: 1 is the highest priority
    Pos,            \* [Upstreams -> Nat]: configured place, unique in a group
    Provider,       \* [Upstreams -> STRING]: the provider of an upstream
    LastGroup,      \* number of priority groups
    AccountProviders,   \* providers whose upstreams pin one account
    Modes,          \* dispatch modes the configuration may select
    RoundRobin,     \* TRUE: the start rotates; FALSE: fill_first
    MaxRetries,     \* same_upstream_retry_count
    Failures,       \* the retryable ways an attempt may end
    Hanging         \* upstreams that may leave an attempt unanswered

ASSUME ConfigAssumption ==
    /\ IsFiniteSet(Upstreams)
    /\ Upstreams \cap {"none", "local", "failure", "canceled"} = {}
    /\ LastGroup \in Nat
    /\ Rank \in [Upstreams -> 1..LastGroup]
    /\ Pos \in [Upstreams -> Nat]
    /\ Modes \subseteq [kind : {"serial", "race", "hedged"}, capacity : Nat \ {0}]
    /\ \A m \in Modes : m.kind = "serial" <=> m.capacity = 1
    /\ MaxRetries \in Nat
    /\ Failures \subseteq {"timeout", "neterr", "busy", "reject", "denied", "held"}
    /\ Hanging \subseteq Upstreams

\* How one attempt can end.  "convert": the local conversion of the body failed
\* before the attempt.  The answers that allow another try, by what may follow:
\* "busy" 408, 429, 5xx or 307; "reject" 400, 402, 404 or 422; "denied" 401 or
\* 403; "held" an answer that ends this upstream by itself (the pinned account
\* is cooling down or unusable, the model is at capacity, 413, Kiro's errors).
Final     == {"success", "fatal", "convert"}
Silent    == {"timeout", "neterr"}
Responded == {"busy", "reject", "denied", "held"}
Retryable == Silent \cup Responded

None == [up |-> "none", kind |-> "none"]
Ends(K) == [up : Upstreams, kind : K]
Local == {"missing_key", "unsupported", "auth_masked", "gateway_timeout",
          "bad_gateway", "no_upstream", "canceled"}
Replies == Ends(Final \cup Responded)
             \cup [up : {"local"}, kind : Local] \cup {None}

Answer(kind) == [up |-> "local", kind |-> kind]

VARIABLES
    pc,         \* "enter", "launch", "wait", "finish", "done"
    mode,       \* the dispatch mode of this configuration
    routable,   \* upstreams the key scope, format and target leave
    listed,     \* of those, the ones whose allowlist has the model
    eligible,   \* of those, the ones the native-search filter leaves
    group,      \* the priority group being tried
    order,      \* its candidates in launch order
    next,       \* how many of order have been launched
    slots,      \* launches left in this turn of the scheduler's loop
    inflight,   \* candidates launched and not completed
    done,       \* candidates that completed without a final response
    used,       \* same-upstream retries each candidate has used
    partial,    \* what each candidate's own attempts have left so far
    body,       \* the body each candidate sends
    repaired,   \* providers with an entry in repaired_bodies
    attempted,  \* attempted_upstream_keys: upstreams really attempted
    summary,    \* the accumulated ForwardAttemptState
    reply       \* what the client receives

static == <<mode, routable, listed, eligible>>
sched  == <<order, next, slots>>
cand   == <<used, partial, body, repaired>>
vars   == <<pc, static, group, sched, inflight, done, cand, attempted,
            summary, reply>>

Nothing == [timeout |-> FALSE, error |-> FALSE, last |-> None]
Partial == [timeout : BOOLEAN, error : BOOLEAN, last : Ends(Responded) \cup {None}]
Summary == [timeout : BOOLEAN, error : BOOLEAN, last : Ends(Responded) \cup {None},
            missing : BOOLEAN, response : Ends(Final) \cup {None}]

TypeOK ==
    /\ pc \in {"enter", "launch", "wait", "finish", "done"}
    /\ mode \in Modes
    /\ routable \subseteq Upstreams
    /\ listed \subseteq routable
    /\ eligible \subseteq listed
    /\ group \in 1..(LastGroup + 1)
    /\ order \in Seq(Upstreams)
    /\ next \in 0..Len(order)
    /\ slots \in Nat
    /\ inflight \subseteq Upstreams
    /\ done \subseteq Upstreams
    /\ used \in [Upstreams -> 0..MaxRetries]
    /\ partial \in [Upstreams -> Partial]
    /\ body \in [Upstreams -> {"original", "inherited", "repaired"}]
    /\ repaired \subseteq {Provider[u] : u \in Upstreams}
    /\ attempted \subseteq Upstreams
    /\ summary \in Summary
    /\ reply \in Replies

Init ==
    /\ pc = "enter"
    /\ mode \in Modes
    /\ routable \in SUBSET Upstreams
    /\ listed \in SUBSET routable
    /\ eligible \in SUBSET listed
    \* Which filter excluded an upstream shows only when none is left.
    /\ eligible # {} => routable = eligible
    /\ group = 1
    /\ order = <<>>
    /\ next = 0
    /\ slots = 0
    /\ inflight = {}
    /\ done = {}
    /\ used = [u \in Upstreams |-> 0]
    /\ partial = [u \in Upstreams |-> Nothing]
    /\ body = [u \in Upstreams |-> "original"]
    /\ repaired = {}
    /\ attempted = {}
    /\ summary = [timeout |-> FALSE, error |-> FALSE, last |-> None,
                  missing |-> FALSE, response |-> None]
    /\ reply = None

-----------------------------------------------------------------------------
(* The order of a group's candidates. *)

Candidates(g) == {u \in eligible : Rank[u] = g}

\* The place of u after rotating the candidates of C by start.
Place(u, C, start) ==
    (Cardinality({v \in C : Pos[v] < Pos[u]}) + Cardinality(C) - start) % Cardinality(C)

\* Ready candidates in base order, then cooling ones by deadline: since a
\* ready one has deadline 0, one lexicographic comparison says both.
Before(u, v, C, start, until) ==
    \/ until[u] < until[v]
    \/ until[u] = until[v] /\ Place(u, C, start) < Place(v, C, start)

Enumerates(p, C) ==
    /\ \A i, j \in DOMAIN p : p[i] = p[j] => i = j
    /\ C = {p[i] : i \in DOMAIN p}

Prioritized(C, start, until) ==
    {p \in [1..Cardinality(C) -> C] :
        /\ Enumerates(p, C)
        /\ \A i, j \in DOMAIN p : i < j => Before(p[i], p[j], C, start, until)}

Starts(C) == IF RoundRobin THEN 0..(Cardinality(C) - 1) ELSE {0}

\* What other requests and the clock have left in the selector's table.
Deadlines(C) == {d \in [Upstreams -> 0..Cardinality(C)] : \A u \in Upstreams \ C : d[u] = 0}

-----------------------------------------------------------------------------
(* The scheduler. *)

\* A group starts with one launch, or with as many as the race allows.
Initial == IF mode.kind = "race" THEN mode.capacity ELSE 1

SkipGroup ==
    /\ pc = "enter" /\ group <= LastGroup
    /\ Candidates(group) = {}
    /\ group' = group + 1
    /\ UNCHANGED <<pc, static, sched, inflight, done, cand, attempted, summary, reply>>

EnterGroup ==
    /\ pc = "enter" /\ group <= LastGroup
    /\ Candidates(group) # {}
    /\ \E start \in Starts(Candidates(group)), d \in Deadlines(Candidates(group)) :
        order' \in Prioritized(Candidates(group), start, d)
    /\ next' = 0
    /\ slots' = Initial
    /\ pc' = "launch"
    /\ UNCHANGED <<static, group, inflight, done, cand, attempted, summary, reply>>

GroupsExhausted ==
    /\ pc = "enter" /\ group > LastGroup
    /\ pc' = "finish"
    /\ UNCHANGED <<static, group, sched, inflight, done, cand, attempted, summary, reply>>

\* Mutant: a body repaired for one provider is sent to every other one.
LaunchSharing ==
    /\ pc = "launch" /\ slots > 0 /\ next < Len(order)
    /\ LET u == order[next + 1] IN
        /\ inflight' = inflight \cup {u}
        /\ body' = [body EXCEPT ![u] = IF repaired # {} THEN "inherited" ELSE @]
    /\ next' = next + 1
    /\ slots' = slots - 1
    /\ UNCHANGED <<pc, static, group, order, done, used, partial, repaired,
                   attempted, summary, reply>>

\* One turn of the launch loop: it runs without a suspension point.
Launch ==
    /\ pc = "launch" /\ slots > 0 /\ next < Len(order)
    /\ LET u == order[next + 1] IN
        /\ inflight' = inflight \cup {u}
        /\ body' = [body EXCEPT ![u] = IF Provider[u] \in repaired THEN "inherited" ELSE @]
    /\ next' = next + 1
    /\ slots' = slots - 1
    /\ UNCHANGED <<pc, static, group, order, done, used, partial, repaired,
                   attempted, summary, reply>>

\* Mutant: the launch loop waits for a free slot that no candidate can take.
LaunchStalled ==
    /\ pc = "launch" /\ slots = 0
    /\ inflight # {}
    /\ pc' = "wait"
    /\ UNCHANGED <<static, group, sched, inflight, done, cand, attempted, summary, reply>>

LaunchDone ==
    /\ pc = "launch" /\ (slots = 0 \/ next = Len(order))
    /\ inflight # {}
    /\ pc' = "wait"
    /\ UNCHANGED <<static, group, sched, inflight, done, cand, attempted, summary, reply>>

\* Mutant: the next group is entered while attempts of this one are in flight.
GroupLeftEarly ==
    /\ pc = "launch" /\ (slots = 0 \/ next = Len(order))
    /\ group' = group + 1
    /\ order' = <<>> /\ next' = 0 /\ slots' = 0
    /\ pc' = "enter"
    /\ UNCHANGED <<static, inflight, done, cand, attempted, summary, reply>>

\* Nothing in flight and nothing left to launch: the next priority group.
GroupExhausted ==
    /\ pc = "launch" /\ (slots = 0 \/ next = Len(order))
    /\ inflight = {}
    /\ group' = group + 1
    /\ order' = <<>> /\ next' = 0 /\ slots' = 0
    /\ pc' = "enter"
    /\ UNCHANGED <<static, inflight, done, cand, attempted, summary, reply>>

\* Mutant: the timer launches without regard to max_parallel.
HedgeUnbounded ==
    /\ pc = "wait" /\ mode.kind = "hedged"
    /\ next < Len(order)
    /\ slots' = 1
    /\ pc' = "launch"
    /\ UNCHANGED <<static, group, order, next, inflight, done, cand,
                   attempted, summary, reply>>

\* Mutant: the timer leaves one of the parallel slots unused.
HedgeOneShort ==
    /\ pc = "wait" /\ mode.kind = "hedged"
    /\ next < Len(order) /\ Cardinality(inflight) + 1 < mode.capacity
    /\ slots' = 1
    /\ pc' = "launch"
    /\ UNCHANGED <<static, group, order, next, inflight, done, cand,
                   attempted, summary, reply>>

HedgeTimer ==
    /\ pc = "wait" /\ mode.kind = "hedged"
    /\ next < Len(order) /\ Cardinality(inflight) < mode.capacity
    /\ slots' = 1
    /\ pc' = "launch"
    /\ UNCHANGED <<static, group, order, next, inflight, done, cand,
                   attempted, summary, reply>>

\* Mutant: only a race replaces a candidate that failed.
RefillRaceOnly(n) == IF mode.kind = "race" THEN mode.capacity - n ELSE 0

\* The launches allowed once a completed candidate has left n in flight.
Refill(n) ==
    IF mode.kind = "race" THEN mode.capacity - n
    ELSE IF n < mode.capacity THEN 1 ELSE 0

-----------------------------------------------------------------------------
(* One attempt of a candidate, and its same-upstream retries. *)

\* RetryScope::NextOnly: the failure ends this upstream for the request.
NextOnly(u, k) ==
    \/ k = "held"
    \/ k \in {"reject", "denied"} /\ Provider[u] \in AccountProviders

\* effective_body travels in the RetryDirective of a response.
Carries(k, resent) == resent /\ k \in Responded

Absorb(p, u, k) ==
    [timeout |-> p.timeout \/ k = "timeout",
     error   |-> p.error \/ k \in Retryable \ {"timeout"},
     last    |-> IF k \in Responded THEN [up |-> u, kind |-> k] ELSE p.last]

\* Mutant: a candidate that got no answer wipes out an earlier one's answer.
MergeLatest(s, p, missing) ==
    [timeout  |-> s.timeout \/ p.timeout,
     error    |-> s.error \/ p.error,
     last     |-> p.last,
     missing  |-> s.missing \/ missing,
     response |-> s.response]

\* merge_group_result for a candidate that ended without a final response.
Merge(s, p, missing) ==
    [timeout  |-> s.timeout \/ p.timeout,
     error    |-> s.error \/ p.error,
     last     |-> IF p.last # None THEN p.last ELSE s.last,
     missing  |-> s.missing \/ missing,
     response |-> s.response]

Repair(u, k, resent) ==
    body' = [body EXCEPT ![u] = IF Carries(k, resent) THEN "repaired" ELSE @]

\* Mutant: one same-upstream retry too many.
MayRetryOnceMore(u, k) == ~NextOnly(u, k) /\ used[u] <= MaxRetries

MayRetry(u, k) == ~NextOnly(u, k) /\ used[u] < MaxRetries

\* A retryable failure answered by another attempt on the same upstream.
RetrySame(u, k, resent) ==
    /\ pc = "wait" /\ u \in inflight
    /\ MayRetry(u, k)
    /\ used' = [used EXCEPT ![u] = @ + 1]
    /\ partial' = [partial EXCEPT ![u] = Absorb(@, u, k)]
    /\ Repair(u, k, resent)
    /\ attempted' = attempted \cup {u}
    /\ UNCHANGED <<pc, static, group, sched, inflight, done, repaired, summary, reply>>

\* A candidate leaves the scheduler without a final response.
Complete(u, p, b, missing) ==
    /\ inflight' = inflight \ {u}
    /\ done' = done \cup {u}
    /\ summary' = Merge(summary, p, missing)
    /\ repaired' = IF b = "repaired" THEN repaired \cup {Provider[u]} ELSE repaired
    /\ slots' = Refill(Cardinality(inflight \ {u}))
    /\ pc' = "launch"

\* A retryable failure that ends the candidate: failover.
GiveUp(u, k, resent) ==
    /\ pc = "wait" /\ u \in inflight
    /\ ~MayRetry(u, k)
    /\ partial' = [partial EXCEPT ![u] = Absorb(@, u, k)]
    /\ Repair(u, k, resent)
    /\ attempted' = attempted \cup {u}
    /\ Complete(u, partial'[u], body'[u], FALSE)
    /\ UNCHANGED <<static, group, order, next, used, reply>>

\* No credential for this upstream: SkippedAuth.
SkipAuth(u) ==
    /\ pc = "wait" /\ u \in inflight
    /\ Complete(u, partial[u], body[u], TRUE)
    /\ UNCHANGED <<static, group, order, next, used, partial, body,
                   attempted, reply>>

\* The futures still in flight are dropped, with the state they hold.
DropFutures ==
    /\ inflight' = {}
    /\ order' = <<>> /\ next' = 0 /\ slots' = 0
    /\ used' = [u \in Upstreams |-> 0]
    /\ partial' = [u \in Upstreams |-> Nothing]
    /\ body' = [u \in Upstreams |-> "original"]

\* Mutant: the other attempts keep running after the final answer.
SettleAlone(u, k) ==
    /\ pc = "wait" /\ u \in inflight
    /\ k = "convert" => used[u] = 0
    /\ summary' = [summary EXCEPT !.response = [up |-> u, kind |-> k]]
    /\ attempted' = IF k = "convert" THEN attempted ELSE attempted \cup {u}
    /\ pc' = "finish"
    /\ inflight' = inflight \ {u}
    /\ UNCHANGED <<static, group, sched, cand, done, reply>>

\* Success, a fatal answer or a failed conversion: the other futures are dropped.
Settle(u, k) ==
    /\ pc = "wait" /\ u \in inflight
    /\ k = "convert" => used[u] = 0
    /\ summary' = [summary EXCEPT !.response = [up |-> u, kind |-> k]]
    /\ attempted' = IF k = "convert" THEN attempted ELSE attempted \cup {u}
    /\ pc' = "finish"
    /\ DropFutures
    /\ UNCHANGED <<static, group, done, repaired, reply>>

-----------------------------------------------------------------------------
(* The answer. *)

Unsupported == routable # {} /\ eligible = {}

\* A 401/403 of an account provider is masked once two of its upstreams failed.
Masked(last) ==
    /\ last.kind = "denied"
    /\ Provider[last.up] \in AccountProviders
    /\ Cardinality({u \in attempted : Provider[u] = Provider[last.up]}) > 1

FinalReply ==
    IF summary.response # None THEN summary.response
    ELSE IF attempted = {} /\ summary.missing THEN Answer("missing_key")
    ELSE IF attempted = {} /\ Unsupported THEN Answer("unsupported")
    ELSE IF summary.last # None THEN
        IF Masked(summary.last) THEN Answer("auth_masked") ELSE summary.last
    ELSE IF summary.timeout THEN Answer("gateway_timeout")
    ELSE IF summary.error THEN Answer("bad_gateway")
    ELSE Answer("no_upstream")

Finalize ==
    /\ pc = "finish"
    /\ reply' = FinalReply
    /\ pc' = "done"
    /\ UNCHANGED <<static, group, sched, inflight, done, cand, attempted, summary>>

\* The client disconnects: the handler's future and every attempt are dropped.
ClientCancels ==
    /\ pc # "done"
    /\ reply' = Answer("canceled")
    /\ pc' = "done"
    /\ DropFutures
    /\ UNCHANGED <<static, group, done, repaired, attempted, summary>>

Finished == pc = "done" /\ UNCHANGED vars

-----------------------------------------------------------------------------
Schedule ==
    \/ SkipGroup \/ EnterGroup \/ GroupsExhausted
    \/ Launch \/ LaunchDone \/ GroupExhausted \/ Finalize

Outcome(u) ==
    \/ \E k \in Final : Settle(u, k)
    \/ \E k \in Failures, resent \in BOOLEAN :
        RetrySame(u, k, resent) \/ GiveUp(u, k, resent)
    \/ SkipAuth(u)

Next ==
    \/ Schedule
    \/ HedgeTimer
    \/ \E u \in Upstreams : Outcome(u)
    \/ ClientCancels
    \/ Finished

\* The executor polls the handler's task and the sleep it armed.  An attempt
\* ends, except on an upstream that hangs: one that may stay silent for longer
\* than anybody waits.
Fairness ==
    /\ WF_vars(Schedule)
    /\ WF_vars(HedgeTimer)
    /\ \A u \in Upstreams \ Hanging : WF_vars(Outcome(u))

Spec == Init /\ [][Next]_vars /\ Fairness

-----------------------------------------------------------------------------
(* Properties. *)

\* Channel priority: a candidate is in flight only once every eligible
\* candidate of every higher priority has failed, whatever provider it
\* belongs to and however the scheduler overlaps the attempts of one group.
PriorityOrder ==
    \A u \in inflight, v \in eligible : Rank[v] < Rank[u] => v \in done

\* max_parallel bounds the attempts a request has in flight, also when the
\* hedge timer and the refill after a failure follow each other.
ConcurrencyBound == Cardinality(inflight) <= mode.capacity

\* The client is told of a failure only after every eligible candidate has
\* been tried: an overlapping attempt is never abandoned for a failure.
ExhaustiveFailover ==
    pc = "done" /\ reply.kind \notin Final \cup {"canceled"} => done = eligible

\* What a failure answer says is what happened: a relayed answer is one a
\* candidate ended with; an account's 401/403 is relayed only if no other
\* upstream of its provider was attempted; 504 and the generic 502 mean that
\* no upstream answered, and a configuration answer that none was attempted.
FailureExplained ==
    pc = "done" =>
        /\ reply.kind \in Responded =>
            /\ reply.up \in done /\ partial[reply.up].last = reply
            /\ reply.kind = "denied" /\ Provider[reply.up] \in AccountProviders =>
                {u \in attempted : Provider[u] = Provider[reply.up]} = {reply.up}
        /\ reply.kind = "auth_masked" => Cardinality(attempted) > 1
        /\ reply.kind \in {"gateway_timeout", "bad_gateway"} =>
            attempted # {} /\ \A u \in done : partial[u].last = None
        /\ reply.kind \in {"missing_key", "unsupported", "no_upstream"} => attempted = {}
        /\ reply.kind = "no_upstream" => done = {}

\* A repaired body is used only for the provider whose upstream asked for it:
\* what a candidate inherits comes from a failed candidate of its provider.
RepairIsolation ==
    \A u \in Upstreams : body[u] = "inherited" =>
        \E v \in done : v # u /\ Provider[v] = Provider[u] /\ body[v] = "repaired"

\* A request that meets no hanging upstream is answered.
EventuallyAnswered == eligible \cap Hanging = {} ~> pc = "done"

\* Race and hedged dispatch: while fewer upstreams hang than may run, a
\* hanging upstream keeps no other candidate of its group from being tried.
HungCandidateOvertaken ==
    \A g \in 1..LastGroup :
        /\ pc = "launch" /\ group = g
        /\ Cardinality(Candidates(g) \cap Hanging) < mode.capacity
        ~> pc = "done" \/ group > g \/ Candidates(g) \subseteq inflight \cup done

\* The failover promised to the client, whatever the scheduler does.
Promise == INSTANCE Failover WITH
    running <- inflight,
    failed <- done,
    answer <- IF summary.response # None THEN summary.response.up
              ELSE IF pc = "done" /\ reply.kind = "canceled" THEN "canceled"
              ELSE IF pc = "done" THEN "failure" ELSE "none"

ImplementsFailover == Promise!Spec
=============================================================================
