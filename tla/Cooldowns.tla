----------------------------- MODULE Cooldowns ------------------------------
(***************************************************************************)
(* The waits the proxy keeps for its accounts, shared by all the requests  *)
(* it forwards: AccountSelectorRuntime (a pinned account that must not be  *)
(* used until a deadline), UpstreamSelectorRuntime (upstreams moved behind *)
(* their peers, and models at capacity), and everything that writes them:  *)
(* results, same-upstream retries, the end of a session's request, logins  *)
(* and configuration reloads.                                              *)
(*                                                                         *)
(* One account stands for the upstream pinned to it and for its one model. *)
(* The order in which a request tries accounts is module Forwarding's.     *)
(***************************************************************************)
EXTENDS Integers

CONSTANTS
    Accounts,       \* accounts, each pinned by one upstream
    Requests,       \* client requests, each with a CooldownScope::Request
    Waits,          \* seconds an upstream may tell the proxy to wait
    Shorts,         \* values retryable_failure_cooldown_secs may be set to
    Hints,          \* whether a 401, 402, 403 or 408 may carry Retry-After
    MaxRetries,     \* same_upstream_retry_count
    MaxTime,        \* bound: how far the clock runs
    MaxLogins,      \* bound: how often an account's credential is replaced
    MaxReloads      \* bound: how often the configuration is reloaded

ASSUME CooldownAssumption ==
    /\ Waits \subseteq Nat
    /\ Shorts \subseteq Nat
    /\ Hints \subseteq BOOLEAN
    /\ MaxRetries \in Nat
    /\ MaxTime \in Nat
    /\ MaxLogins \in Nat
    /\ MaxReloads \in Nat
    /\ Requests \cap {"global", "session"} = {}

\* CooldownScope: Global, one Codex session, or the scope of a single request.
Scopes == {"global", "session"} \cup Requests
Keys == Accounts \X Scopes

VARIABLES
    now,        \* the clock
    until,      \* account cooldowns: each key's deadline, 0 without an entry
    mandatory,  \* the keys whose entry has the mandatory flag
    sidelined,  \* upstream cooldowns of the current proxy state
    modelWait,  \* model_waits: the capacity wait of an upstream's model
    short,      \* retryable_failure_cooldown of the current proxy state
    reloads,    \* how often the configuration was reloaded
    cred,       \* the version of each account's stored credential
    pc,         \* where each request is
    scope,      \* its cooldown scope
    account,    \* the account of its current attempt
    tried,      \* the accounts it has tried
    used,       \* same-upstream retries of the current account
    token,      \* the credential its attempt was sent with
    stale,      \* TRUE: it runs on a proxy state a reload has replaced
    ownShort,   \* retryable_failure_cooldown of the state it runs on
    verdict,    \* what its last failed attempt leaves to the dispatcher
    owed        \* history: the last deadline an upstream asked for, until then

table   == <<until, mandatory>>
config  == <<short, reloads>>
local   == <<scope, account, tried, used, token, stale, ownShort, verdict>>
vars    == <<now, table, sidelined, modelWait, config, cred, pc, local,
             owed>>

PCs == {"idle", "prepare", "checked", "sent", "answered", "failed", "fatal",
        "succeeded", "done", "canceled"}
Verdicts == [cool : BOOLEAN, again : BOOLEAN]
Clean == [cool |-> FALSE, again |-> FALSE]

TypeOK ==
    /\ now \in Nat
    /\ until \in [Keys -> Nat]
    /\ mandatory \subseteq Keys
    /\ sidelined \in [Keys -> Nat]
    /\ modelWait \in [Accounts -> Nat]
    /\ short \in Shorts
    /\ reloads \in 0..MaxReloads
    /\ cred \in [Accounts -> 0..MaxLogins]
    /\ pc \in [Requests -> PCs]
    /\ scope \in [Requests -> Scopes]
    /\ account \in [Requests -> Accounts]
    /\ tried \in [Requests -> SUBSET Accounts]
    /\ used \in [Requests -> 0..MaxRetries]
    /\ token \in [Requests -> 0..MaxLogins]
    /\ stale \in [Requests -> BOOLEAN]
    /\ ownShort \in [Requests -> Shorts]
    /\ verdict \in [Requests -> Verdicts]
    /\ owed \in [Keys -> Nat]

Init ==
    /\ now = 0
    /\ until = [k \in Keys |-> 0]
    /\ mandatory = {}
    /\ sidelined = [k \in Keys |-> 0]
    /\ modelWait = [a \in Accounts |-> 0]
    /\ short \in Shorts
    /\ reloads = 0
    /\ cred = [a \in Accounts |-> 0]
    /\ pc = [r \in Requests |-> "idle"]
    /\ scope = [r \in Requests |-> "global"]
    /\ account \in [Requests -> Accounts]
    /\ tried = [r \in Requests |-> {}]
    /\ used = [r \in Requests |-> 0]
    /\ token = [r \in Requests |-> 0]
    /\ stale = [r \in Requests |-> FALSE]
    /\ ownShort = [r \in Requests |-> short]
    /\ verdict = [r \in Requests |-> Clean]
    /\ owed = [k \in Keys |-> 0]

-----------------------------------------------------------------------------
(* The account selector's table.  Every operation prunes it first. *)

Later(s, t) == IF s >= t THEN s ELSE t

Live == {k \in Keys : until[k] > now}
Pruned == [k \in Keys |-> IF k \in Live THEN until[k] ELSE 0]

\* Mutant: the last failure decides the deadline, a shorter one too.
MarkLatest(k, t, must) ==
    IF t <= now THEN UNCHANGED table
    ELSE /\ until' = [Pruned EXCEPT ![k] = t]
         /\ mandatory' = (mandatory \cap Live) \cup (IF must THEN {k} ELSE {})

\* Mutant: failures of several requests add up.
MarkExtending(k, t, must) ==
    IF t <= now THEN UNCHANGED table
    ELSE /\ until' = [Pruned EXCEPT ![k] = IF k \in Live THEN @ + (t - now) ELSE t]
         /\ mandatory' = (mandatory \cap Live) \cup (IF must THEN {k} ELSE {})

\* An entry's deadline only grows, and an ordinary failure keeps its flag.
Mark(k, t, must) ==
    IF t <= now THEN UNCHANGED table
    ELSE /\ until' = [Pruned EXCEPT ![k] = Later(@, t)]
         /\ mandatory' = (mandatory \cap Live) \cup (IF must THEN {k} ELSE {})

\* Mutant: clearing does not spare what an upstream asked for.
ClearAll(K) ==
    /\ until' = [k \in Keys |-> IF k \in K THEN 0 ELSE Pruned[k]]
    /\ mandatory' = (mandatory \cap Live) \ K

\* clear_cooldown_scoped and clear_provider_scope pass over mandatory entries.
Clear(K) ==
    /\ until' = [k \in Keys |-> IF k \in K \ mandatory THEN 0 ELSE Pruned[k]]
    /\ mandatory' = mandatory \cap Live

Prune == until' = Pruned /\ mandatory' = mandatory \cap Live

Key(r) == <<account[r], scope[r]>>

-----------------------------------------------------------------------------
(* One request. *)

Goto(r, p) == pc' = [pc EXCEPT ![r] = p]

\* The attempt is over, with the credential and the verdict it held.
Drop(r) ==
    /\ token' = [token EXCEPT ![r] = 0]
    /\ verdict' = [verdict EXCEPT ![r] = Clean]

\* The candidate's future is over, and its count of retries with it.
DropCandidate(r) ==
    /\ Drop(r)
    /\ used' = [used EXCEPT ![r] = 0]

\* The request is over.
Leave(r, p) ==
    /\ Goto(r, p)
    /\ DropCandidate(r)
    /\ scope' = [scope EXCEPT ![r] = "global"]
    /\ tried' = [tried EXCEPT ![r] = {}]
    /\ stale' = [stale EXCEPT ![r] = FALSE]

\* A request of a Codex session has its scope, one without a session a scope of
\* its own, and one outside scoped cooldowns the global scope.
Begin(r, s, a) ==
    /\ pc[r] = "idle"
    /\ Goto(r, "prepare")
    /\ scope' = [scope EXCEPT ![r] = s]
    /\ account' = [account EXCEPT ![r] = a]
    /\ tried' = [tried EXCEPT ![r] = {a}]
    /\ ownShort' = [ownShort EXCEPT ![r] = short]
    /\ stale' = [stale EXCEPT ![r] = FALSE]
    /\ UNCHANGED <<now, table, sidelined, modelWait, config, cred, used,
                   token, verdict, owed>>

\* prepare refuses to send: the model is at capacity or the account is cooling.
Refuse(r) ==
    /\ pc[r] = "prepare"
    /\ \/ modelWait[account[r]] > now /\ UNCHANGED table
       \/ modelWait[account[r]] <= now /\ Key(r) \in Live /\ Prune
    /\ Goto(r, "failed")
    /\ DropCandidate(r)
    /\ UNCHANGED <<now, sidelined, modelWait, config, cred, scope, account, tried,
                   stale, ownShort, owed>>

Pass(r) ==
    /\ pc[r] = "prepare"
    /\ modelWait[account[r]] <= now
    /\ Key(r) \notin Live
    /\ Prune
    /\ Goto(r, "checked")
    /\ UNCHANGED <<now, sidelined, modelWait, config, cred, local, owed>>

\* The credential is fetched after the check, across suspension points.
Send(r) ==
    /\ pc[r] = "checked"
    /\ Goto(r, "sent")
    /\ token' = [token EXCEPT ![r] = cred[account[r]]]
    /\ UNCHANGED <<now, table, sidelined, modelWait, config, cred, scope,
                   account, tried, used, stale, ownShort, verdict, owed>>

\* Mutant: the credential is not compared with the stored one.
CurrentAlways(r) == TRUE

\* with_current_account_result: a superseded credential changes no account.
Current(r) == token[r] = cred[account[r]]

Answered(r, cool, again) ==
    /\ Goto(r, "answered")
    /\ verdict' = [verdict EXCEPT ![r] = [cool |-> cool, again |-> again]]
    /\ UNCHANGED <<now, sidelined, config, cred, scope, account, tried,
                   used, token, stale, ownShort>>

\* 429 or 5xx with Retry-After, or a provider's own wait hint, of d seconds.
ToldToWait(r, d) ==
    /\ pc[r] = "sent"
    /\ IF Current(r)
       THEN /\ Mark(Key(r), now + d, TRUE)
            /\ owed' = [owed EXCEPT ![Key(r)] = Later(@, now + d)]
       ELSE UNCHANGED <<table, owed>>
    /\ Answered(r, Current(r), TRUE)
    /\ UNCHANGED modelWait

\* Any other failure that cools the account: 401, 402, 403, 408, 429 and 5xx
\* without Retry-After, a timeout or a broken connection.  A Retry-After on 401,
\* 402, 403 or 408 does not give the deadline, yet makes the entry mandatory.
Failure(r, hinted, again) ==
    /\ pc[r] = "sent"
    /\ IF Current(r)
       THEN Mark(Key(r), now + ownShort[r], hinted)
       ELSE UNCHANGED table
    /\ Answered(r, Current(r), again)
    /\ UNCHANGED <<modelWait, owed>>

\* A model at capacity, for d seconds or (0) for an untold time: the account
\* stays usable.
AtCapacity(r, d) ==
    /\ pc[r] = "sent"
    /\ modelWait' = [modelWait EXCEPT ![account[r]] =
                        IF d = 0 THEN @ ELSE Later(@, now + d)]
    /\ Answered(r, FALSE, d = 0)
    /\ UNCHANGED <<table, owed>>

\* A retryable answer about the request: 400, 404, 422, 413, 307.
Rejected(r, again) ==
    /\ pc[r] = "sent"
    /\ Answered(r, FALSE, again)
    /\ UNCHANGED <<table, modelWait, owed>>

\* A final answer clears the upstream's cooldown, never the account's.
Success(r, ok) ==
    /\ pc[r] = "sent"
    /\ Goto(r, IF ok THEN "succeeded" ELSE "fatal")
    /\ DropCandidate(r)
    /\ sidelined' = IF stale[r] THEN sidelined
                    ELSE [sidelined EXCEPT ![Key(r)] = 0]
    /\ UNCHANGED <<now, table, modelWait, config, cred, scope, account, tried, stale,
                   ownShort, owed>>

Fatal(r) ==
    /\ pc[r] \in {"prepare", "checked", "sent"}
    /\ Goto(r, "fatal")
    /\ DropCandidate(r)
    /\ UNCHANGED <<now, table, sidelined, modelWait, config, cred, scope, account,
                   tried, stale, ownShort, owed>>

\* A rejected credential was refreshed, or a rejected body repaired: the same
\* attempt sends again, through prepare.  How often is bounded by the kinds of
\* repair, which no property depends on.
Resend(r) ==
    /\ pc[r] = "sent"
    /\ Goto(r, "prepare")
    /\ token' = [token EXCEPT ![r] = 0]
    /\ UNCHANGED <<now, table, sidelined, modelWait, config, cred, scope, account,
                   tried, used, stale, ownShort, verdict, owed>>

\* apply_group_attempt_outcome, which runs after the account's lock is released.
Sideline(r) ==
    IF verdict[r].cool /\ ~stale[r] /\ ownShort[r] > 0
    THEN sidelined' = [sidelined EXCEPT ![Key(r)] = Later(@, now + ownShort[r])]
    ELSE UNCHANGED sidelined

\* Mutant: one same-upstream retry too many.
RetrySameOnceMore(r) ==
    /\ pc[r] = "answered"
    /\ verdict[r].again /\ used[r] <= MaxRetries
    /\ Sideline(r)
    /\ used' = [used EXCEPT ![r] = @ + 1]
    /\ Clear({Key(r)})
    /\ Drop(r)
    /\ Goto(r, "prepare")
    /\ UNCHANGED <<now, modelWait, config, cred, scope, account, tried, stale,
                   ownShort, owed>>

\* A retry on the same account first lifts its ordinary cooldown.
RetrySame(r) ==
    /\ pc[r] = "answered"
    /\ verdict[r].again /\ used[r] < MaxRetries
    /\ Sideline(r)
    /\ used' = [used EXCEPT ![r] = @ + 1]
    /\ Clear({Key(r)})
    /\ Drop(r)
    /\ Goto(r, "prepare")
    /\ UNCHANGED <<now, modelWait, config, cred, scope, account, tried, stale,
                   ownShort, owed>>

\* A body repaired with loss stays with its credential: what would be retried
\* is the answer, and no upstream is sidelined.
Abandon(r) ==
    /\ pc[r] = "answered"
    /\ DropCandidate(r)
    /\ Goto(r, "fatal")
    /\ UNCHANGED <<now, table, sidelined, modelWait, config, cred, scope, account,
                   tried, stale, ownShort, owed>>

GiveUp(r) ==
    /\ pc[r] = "answered"
    /\ ~(verdict[r].again /\ used[r] < MaxRetries)
    /\ Sideline(r)
    /\ DropCandidate(r)
    /\ Goto(r, "failed")
    /\ UNCHANGED <<now, table, modelWait, config, cred, scope, account, tried, stale,
                   ownShort, owed>>

Failover(r, a) ==
    /\ pc[r] = "failed" /\ a \notin tried[r]
    /\ account' = [account EXCEPT ![r] = a]
    /\ tried' = [tried EXCEPT ![r] = @ \cup {a}]
    /\ Goto(r, "prepare")
    /\ UNCHANGED <<now, table, sidelined, modelWait, config, cred, scope, used,
                   token, stale, ownShort, verdict, owed>>

\* Mutant: a request's own scope is cleared after a success only.
FinalizeOnSuccess(r) ==
    /\ pc[r] \in {"failed", "fatal", "succeeded"}
    /\ LET K == Accounts \X {scope[r]} IN
        IF scope[r] = "global" \/ pc[r] # "succeeded"
        THEN UNCHANGED <<table, sidelined>>
        ELSE /\ Clear(K)
             /\ sidelined' = IF stale[r] THEN sidelined
                             ELSE [k \in Keys |-> IF k \in K THEN 0 ELSE sidelined[k]]
    /\ Leave(r, "done")
    /\ UNCHANGED <<now, modelWait, config, cred, account, ownShort, owed>>

\* finalize_codex_responses_cooldown: only a successful answer ends a session's
\* cooldowns; a request's own scope ends with any answer.
Finalize(r) ==
    /\ pc[r] \in {"failed", "fatal", "succeeded"}
    /\ LET K == Accounts \X {scope[r]} IN
        IF scope[r] = "global" \/ (pc[r] # "succeeded" /\ scope[r] # r)
        THEN UNCHANGED <<table, sidelined>>
        ELSE /\ Clear(K)
             /\ sidelined' = IF stale[r] THEN sidelined
                             ELSE [k \in Keys |-> IF k \in K THEN 0 ELSE sidelined[k]]
    /\ Leave(r, "done")
    /\ UNCHANGED <<now, modelWait, config, cred, account, ownShort, owed>>

\* The client disconnects and the handler's future is dropped where it waits.
Cancel(r) ==
    /\ pc[r] \in {"prepare", "checked", "sent"}
    /\ Leave(r, "canceled")
    /\ UNCHANGED <<now, table, sidelined, modelWait, config, cred,
                   account, ownShort, owed>>

-----------------------------------------------------------------------------
(* The clock, logins and reloads. *)

Tick ==
    /\ now < MaxTime
    /\ now' = now + 1
    /\ owed' = [k \in Keys |-> IF owed[k] > now' THEN owed[k] ELSE 0]
    /\ UNCHANGED <<table, sidelined, modelWait, config, cred, pc, local>>

\* A new login or a refresh replaces the stored credential.
Login(a) ==
    /\ cred[a] < MaxLogins
    /\ cred' = [cred EXCEPT ![a] = @ + 1]
    /\ UNCHANGED <<now, table, sidelined, modelWait, config, pc, local,
                   owed>>

\* ProxyService::reload: the new state shares the account table, rid of what no
\* upstream asked for, and the model waits; its upstream cooldowns start empty.
Reload(d) ==
    /\ reloads < MaxReloads
    /\ reloads' = reloads + 1
    /\ short' = d
    /\ until' = [k \in Keys |-> IF k \in mandatory \cap Live THEN until[k] ELSE 0]
    /\ mandatory' = mandatory \cap Live
    /\ sidelined' = [k \in Keys |-> 0]
    /\ stale' = [r \in Requests |-> pc[r] \notin {"idle", "done", "canceled"}]
    /\ UNCHANGED <<now, modelWait, cred, pc, scope, account, tried, used, token,
                   ownShort, verdict, owed>>

-----------------------------------------------------------------------------
Attempt(r) ==
    \/ Refuse(r) \/ Pass(r) \/ Send(r)
    \/ \E d \in Waits : ToldToWait(r, d) \/ AtCapacity(r, d)
    \/ \E hinted \in Hints, again \in BOOLEAN : Failure(r, hinted, again)
    \/ \E again \in BOOLEAN : Rejected(r, again)
    \/ \E ok \in BOOLEAN : Success(r, ok)
    \/ Fatal(r) \/ Resend(r)

Step(r) ==
    \/ \E s \in {"global", "session", r}, a \in Accounts : Begin(r, s, a)
    \/ Attempt(r)
    \/ RetrySame(r) \/ GiveUp(r) \/ Abandon(r)
    \/ \E a \in Accounts : Failover(r, a)
    \/ Finalize(r)
    \/ Cancel(r)

Next ==
    \/ \E r \in Requests : Step(r)
    \/ Tick
    \/ \E a \in Accounts : Login(a)
    \/ \E d \in Shorts : Reload(d)

Spec == Init /\ [][Next]_vars

-----------------------------------------------------------------------------
(* Properties. *)

\* A wait an upstream asked for, with the credential then in use, stands until
\* its deadline: no retry, later success, finished session, shorter failure of
\* another request or configuration reload at the same address lifts or shortens
\* it.  A restart of the server does: its tables are new and are not modelled.
WaitHonored ==
    \A k \in Keys : owed[k] > now => until[k] >= owed[k] /\ k \in mandatory

\* So prepare lets no request through into such a wait, the request that was
\* told to wait included: its same-upstream retry is refused.
NoSendIntoWait ==
    [][\A r \in Requests :
        pc[r] = "prepare" /\ pc'[r] = "checked" => owed[Key(r)] <= now]_vars

\* However failures of many requests and credentials pile up, an account is
\* kept back no longer than an upstream asked or the longest short cooldown.
CooldownBounded ==
    \A k \in Live : until[k] <= owed[k] \/ \E d \in Shorts : until[k] <= now + d

\* What a superseded credential met says nothing about its successor: only a
\* request sent with the stored credential can keep its account back longer.
OnlyCurrentCredentialCools ==
    [][\A k \in Keys : until'[k] > until[k] =>
        \E r \in Requests : Key(r) = k /\ pc[r] = "sent" /\ token[r] = cred[k[1]]]_vars

\* The scope of a request without a session dies with it: once it is answered,
\* only waits its upstreams asked for, or hinted at, are left.
RequestScopesCleared ==
    \A r \in Requests, a \in Accounts :
        pc[r] = "done" /\ <<a, r>> \in Live => <<a, r>> \in mandatory
=============================================================================
