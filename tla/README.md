# A verification of token_proxy in TLA+

token_proxy forwards the requests of AI clients (OpenAI, Anthropic and Gemini formats) to a
set of configured upstreams: API keys, and accounts of Codex, xAI and Kiro that it logs in to
and keeps logged in. These modules model the parts of it where concurrency, failure and time
decide whether it works: how one request fails over between upstreams, what the proxy remembers
about accounts it should not use for a while, how an account's credential is renewed while
everything else also reads and writes it, and how changes to accounts, configuration and the
running proxy are made together, how a streamed answer is converted on its way to the client, and
what the request log keeps of it all. Paths below are relative to `src/crates/`.

## The system

| component | state | operations | what makes it correct |
|---|---|---|---|
| request forwarding (`token_proxy_runtime/src/proxy/server`, `upstream`) | per request: priority group, launched and finished candidates, retries, repaired bodies, accumulated failure | enter a group, launch, hedge, retry on the same upstream, fail over, commit an answer, finalize, client cancel | groups in priority order; every candidate tried before a failure is reported; one answer; the failure reported is the one that happened |
| account and upstream cooldowns (`account_selector`, `upstream_selector`, `cooldown_scope.rs`) | deadlines per (account, scope) with a mandatory flag, upstream deadlines, model waits | mark, clear, check, prune, retain over a reload, clear on login | a wait an upstream asked for is never cut short, an ordinary cooldown never outlives its reason, late results touch only what they are about |
| credential store: Codex (`token_proxy_account_codex`) | rows in SQLite, a cache, rejected access and refresh tokens, refresh permits and deferrals, agent task locks | resolve, refresh (on read, on 401, in the background, by hand), usage probe, settings, login, import, delete, snapshot and restore | one exchange of a refresh token at a time; the newest OAuth login wins; deleted stays deleted |
| credential stores: xAI, Kiro | the same with other login flows | the same | the same |
| account lifecycle (`token_proxy_app/src/account_lifecycle`) | configuration file, bindings of accounts to upstreams, credentials, all changed by one serial worker | save configuration, import, bind, delete, poll a login, reconcile | a change that fails half-way leaves the three stores consistent |
| proxy service (`token_proxy_runtime/src/proxy/service`) | stopped or running, listener task, current proxy state | start, stop, restart, reload, apply a saved configuration | at most one listener; a reload swaps the state old requests keep; a failed start leaves it stopped |
| client lifecycle and request log (`client_lifecycle.rs`, `log.rs`, `token_proxy_storage`) | one row per attempt whose result was handled, which of them is billed | build, write, settle the billing, cancel | such an attempt has exactly one row, a cancellation nothing tells of has one, and of the request's rows the one completed last is billed |
| native route chain (`server/fallback.rs`, `execute.rs`) | the routes left for a Codex Responses request | try a route, fall back | the end of a request clears the right scope |
| response streams and protocol conversion (`proxy/response`) | per stream: open items or blocks, what is held back, texts told so far, the log entry | translate an event, end, fail, be dropped | items open before their deltas and close once; nothing is lost or said twice; a fault is never passed off as success |
| Codex turn state (`codex_turn_state.rs`) | the account that minted each session's state | note, guard an echo | a state is never sent to an account that did not mint it |
| configuration (`token_proxy_config`) | config.jsonc | read, migrate, normalize, replace atomically | old or new file after a crash |
| caches, counters, interface (model discovery, catalogue, token rate, request details, pricing, dashboard, CLI, desktop shell) | derived data | refresh, read | a stale entry costs a listing, not a request |

How they interact: a request runs as one task that owns its forwarding state and shares, behind
locks, the selectors' tables and the credential stores. A reload gives later requests a new
proxy state; earlier ones keep theirs, but both share one account table. The lifecycle's worker,
background refreshes and the user's commands reach the stores at any time, and any request task
may be dropped at any point where it waits, because the client left or the proxy stops.

The hard parts are listed line by line under "hazards" in `PROJECT.json`: overlapping attempts
and merged failures, retries against cooldowns, late answers of requests sent with replaced
credentials, reloads under running requests, exchanges of one-time refresh tokens, cancellation
between a database write and its cache, multi-store changes that fail half-way.

## Plan

1. `Failover` (abstract) and `Forwarding`: one request. Done.
2. `Cooldowns`, the tables all requests share, and `CooldownsProofs`. Done.
3. `CodexStore`: one account's credential, and `CodexStoreProofs`. Done, without agent task
   registration.
4. `ForwardingProofs`: every invariant of one request, and that it implements `Failover`. Done.
5. `AccountChanges` (abstract), `ProxyService` and `Lifecycle`: start, stop and reload beside the
   serial worker. Done.
6. `LifecycleProofs`: all that the run of `Lifecycle` checks, the refinement of `AccountChanges`
   included. Done.
7. `ResponsesStream` and `AnthropicStream` (abstract), the four converters between Chat, Responses and
   Anthropic streams, the two that read a Codex stream, and `StreamPipeline`, which chains them. Done.
   `FoldLemmas` and `StreamOutcomeProofs`: a stream's log entry and its end; `StreamViewProofs`: what
   the readers see. Done, but for what the README lists under "TLC alone".
8. `RequestLog`: the rows of one request, the route chain they come from, and which of them is
   billed; `RequestLogProofs`. Done.
9. What the lifecycle leaves out: login sessions and their claims; every change ends (liveness);
   agent tasks in `CodexStore`, where `ensure_agent_identity_task` saves a record it read before a
   network call.
10. The Gemini and Kiro converters, turn state, the atomic replacement of the
   configuration, the xAI and Kiro stores.

## The modules

### Failover and Forwarding

`Failover` is the promise to a client in 60 lines: an upstream is tried only when all of
higher priority have failed, none again after it has failed, one answer ends everything, and a
failure is reported only when all have failed. `Forwarding` is `forward_by_priority`,
`dispatch_candidates`, `attempt_with_retries` and `finalize_forward_result` of one request:

- `SkipGroup`, `EnterGroup`, `GroupsExhausted` are the loop over priority groups. The
  order of a group is `prioritize_candidates` after the rotation of round-robin: the
  deadlines and the start are whatever other requests left, so all of them are possible.
- `Launch`, `LaunchDone`, `HedgeTimer`, `Refill`, `GroupExhausted` are the scheduler of serial,
  race and hedged dispatch; the launch loop does not suspend, the wait between does.
- `RetrySame`, `GiveUp`, `SkipAuth`, `Settle` are the ways an attempt ends: another try on the same
  upstream, failover, no credential, or a final answer that drops every other future. What
  decides is `NextOnly` (`RetryScope`), `MayRetry`, and the merge of what attempts left.
- `Finalize` is `finalize_forward_response`, the cascade that turns accumulated failures into one
  answer, with the masking of account 401/403. `ClientCancels` drops everything.

Upstreams, statuses and bodies are classes: an upstream is a (provider, credential) pair, an
attempt ends in one of three final or six retryable ways, a body is original, repaired or inherited.

### Cooldowns

The tables shared by all requests, with a clock. `Mark` is `mark_cooldown_until` (the later
deadline wins, the flag of an upstream's wait stays), `Clear` the scoped clears that spare
mandatory entries, `Pruned` the expiry every operation begins with. A request (`Begin` to
`Finalize` or `Cancel`) passes `prepare` (`Refuse`, `Pass`), fetches a credential (`Send`),
and ends each attempt by `ToldToWait`, `Failure`, `AtCapacity`, `Rejected`, `Success`, `Fatal` or
`Resend`; then the dispatcher decides (`RetrySame`, `GiveUp`, `Abandon`, `Failover`). `Login`
replaces a credential, `Reload` swaps the proxy state under running requests. The suspension points
between check and credential, and between send and answer, are steps of their own; the
account's result lock makes the comparison of the credential and the update one step, and what
the dispatcher does after releasing it is another. `owed` is a history variable: the last deadline an
upstream asked for.

### CodexStore

One account and the tasks inside `CodexAccountStore`. Writers hold the `provider_mutation` gate over
read, modify and write, and readers see only the cache, so a gated section is one action. Between
actions lie the network and the permit of `refresh_record_guarded`. `Resolve`, `Authorize`, `Unauthorized`
and `Answered` are a request; `Manual` and `Due` the other reasons to refresh; `Queue`, `Exchange`, `Dismiss`
and `Wake` the guard; `ServerRotates`, `Commit`, `ExchangeFails`, `ExchangeRejected` and `Condemn` an exchange; `Probe`,
`ProbeEnds` and `ProbeRefused` the usage probe; `SetAutoRefresh`, `Import`, `Delete` the user; `Cancel`
and `Restart` what a disconnect or a new process leaves. `Cut` is a cancellation inside
`save_record_unlocked`, after the row is written and before the cache is.

A token is a number. Its age, and whether a server has refused it, are kept for the one that is
cached, since the code asks about no other. A request sent again after a 401 is a request
like any other; an import of a token that is already stored changes nothing and is left out. An
Agent Identity is a record that is never renewed: the registration of its tasks and login
sessions are not modelled yet; snapshots and restores are in `Lifecycle`.

`login` is a history variable: the last login or import. It is `raced` if an exchange of OAuth tokens was under
way when it came (`Renewing`). `LatestLoginKept` says that the newest OAuth login wins over any such exchange,
and that an Agent Identity stays in use unless its import was `raced`: `Commit` compares the record it
renewed with the current one by `Refreshed` (`token_record_was_refreshed`), which takes credentials of
different kinds for the same, and saves its tokens over the Agent Identity.

### AccountChanges, ProxyService and Lifecycle

`AccountChanges` is what a user is promised: saving a configuration, granting accounts and giving
every account an upstream happen wholly or not at all, and a change that is cut short touches only
what it was about. `Lifecycle` is how the worker does it, in steps that can each fail:

- `SaveConfig`, `Snapshot`, `Delete`, `Write`, `Apply` are `save_proxy_config_locked`; `Import` and `Login`
  write credentials first and then `Bind`; `StartProxy` binds every account and then `Serve`s.
- `Restore`, `RestoreAll`, `Revert`, `Reapply` undo them, in the order each change has (a save puts
  credentials back before the file, the others after it). `...Fails` are the error paths, `botched`
  that a compensation has failed as well.
- `Exchange`, `Answer` and `Cancel` are `CodexStore`'s renewal as seen from here: the token is spent at
  the server before its answer is saved, and the answer waits for the gate an import holds.
  A credential is usable, spent (its answer is still to come) or lost.
- `Crash` forgets the worker's snapshot, the queue and the proxy, and keeps the two stores.

`ProxyService` has the lock: `Start`, `Stop`, `Restart`, `Reload`, `ApplySavedConfig` and `Look` take it, and
`Open`, `Listen`, `Load`, `Swap`, `Fail` are what its holder does next, one step for each moment at
which the file or the server may have changed. A configuration is what matters here: the settings
that need a restart, and the accounts it names. The accounts are those of one provider; one
that is not in `Renewable` stands for an Agent Identity or a provider without rotation.

### The streams

`StreamEvents` is the vocabulary of a Responses stream: items (a kind, an output index, a call's
number) and events that tell some units of an item or all of it. `ResponsesStream` and
`AnthropicStream` are what such a stream promises its reader: an item is added, written while it
is open and finished once; the final output is those items; an Anthropic message has one open
block at a time. `StreamViews` is what a reader makes of what it is sent.

Each converter is a module with one VARIABLE, the record its Rust struct is, and an operator per
method: `ChatToResponses` (with the local shell bridge), `AnthropicToResponses`, `ResponsesToAnthropic`
(with `ToolEventOrder`, which holds back what would interrupt an open tool call, and the text
recovery, which delivers only the missing end of a text), `ResponsesToChat`, `CodexToResponses`, which
passes events on and sees to the stream's end, and `CodexToChat`, whose struct keeps the same record as
`ResponsesToChat` and differs in how it reads events. `Receive...` are the
arms of `handle_event`, `EndOfUpstream` and `ReadError` those of `step`, `Emit` and `Close` what a
poll returns, `Abandon` the drop of the stream.

`StreamPipeline` joins them as `stream_for_transform` does: nine routes, of which Chat to
Anthropic, Anthropic to Chat and Codex to Anthropic are chains of two. Everything is pulled, so an event is read
only when all that was converted has been delivered. The upstreams are external: a Chat upstream
sends chunks (`Chunk`, `StateFinish`, `ChatEnds`, `ChatFails`), a Responses upstream items of
which any event may be missing that a later snapshot makes up for (`ItemOpens` to `ResponseEnds`), a
Codex upstream the same with every item finished before the response completes, and it may hang
(`NativeHangs`),
an Anthropic upstream blocks one after another, whose start, stop or arguments a relay may send
in other ways (`BlockOpens` to `MessageStops`). The client may leave at any point.

Text, reasoning and arguments are counted in units; arguments are a whole JSON object exactly
when they are `Full` units. A chunk carries one part, since the code takes the parts of a chunk
one after another; a legacy `function_call` is call 0 without an id. Left out: events without
content (empty argument deltas, content parts, sequence numbers), audio after the message it
opens, images, usage, tool names and their restoration, `response.cancelled`, the parser's limits, and texts that come without
item id or beyond the recovery's limits (1 MiB, 128 parts). `MaxPending` stands for
`MAX_PENDING_EVENTS` and `MAX_PENDING_BYTES` both.

### RequestLog

One request from `forward_with_provider_fallbacks` to the last row in the database. `att` is where each attempt
is; an attempt that ends asks for a row (`write_detached` spawns a task for each), and `Write`
stores the pending rows in any order, settling anew which row of the request is billed
(`insert_log_entry_with_body`). The proxy's own row about a request it refuses or whose failures it
masks, the row of a cancellation (`client_lifecycle.rs`), the streams' rows at their end or
drop, and a write the database refuses are steps of their own.

An attempt is one send, and not every send gets a row:

- `Discard`: the response is dropped for another send in its place, which is again a `Launch`. So are a 400
  whose request is repaired (`upstream/attempt.rs:103-170`), a Codex or xAI 401 followed by a
  refresh (`upstream/retry.rs:297-334`), the 401 of an Agent Identity's stale task (`retry.rs:430-454`), and
  Kiro's backoff, refresh and next endpoint (`kiro.rs:93-115`, `kiro_result.rs:32-50`).
- `FailUnlogged`: the body of a 400 inspected for repair cannot be read, and the attempt counts as a
  failure another may follow (`attempt.rs:333-349`).
- `RejectUnlogged`: an error of the proxy's own is the answer. An Agent Identity's 401 cannot be read or its task
  not renewed (`retry.rs:378-390`, `419-429`), a Kiro credential cannot (`retry.rs:615-631`), a repair fails or its
  resend would go with another credential (`attempt.rs:352-381`, `491-501`) or gets no response at all
  (`attempt.rs:190-202`), Kiro's endpoints run out or a 403's body cannot be read (`kiro.rs:73-76`, `142-145`,
  `kiro_result.rs:131-140`).

Left out: the contents of a row other than who wrote it and how it ended.

## The runs

| run | states | what it shows |
|---|---|---|
| `Forwarding` | 413 k | priority order, exhaustive failover, explained failures, repaired bodies that stay with their provider, and that `Forwarding` implements `Failover` |
| `ForwardingLiveness` | 68 k | `max_parallel` is kept; every request that meets no hanging upstream is answered; under race and hedged dispatch a hanging one keeps nobody from being tried |
| `Cooldowns` | 1.9 M | waits are honored, over a reload as well (a restart of the server has new tables and is not modelled), no send into one, only the current credential cools its account |
| `CooldownsScopes` | 1.5 M | cooldowns do not add up; a request's own scope ends with it |
| `CodexStore` | 810 k | the newest OAuth login wins, and an Agent Identity unless an exchange was under way when it came; deleted stays deleted, one exchange at a time, renewal only if needed, settings kept, late failures and renewals change nothing else |
| `Lifecycle` | 1.9 M | a change is whole or undone (`AccountChanges`), a stopped proxy stays stopped, what runs is what the file says, every account is served, an import loses no renewed token |
| `StreamPipeline` | 771 k | what a Responses reader and an Anthropic client are sent implements `ResponsesStream` and `AnthropicStream`; nothing is lost or repeated; no fault or cut is passed off as success, to any of the three kinds of readers, but that a Responses upstream, or a Codex one behind an Anthropic or a Chat client, may just end; a shell action arrives whole or not at all; the log says how the stream ended, with a Chat or an Anthropic upstream or a Codex one behind a Responses client; no converter waits for what cannot come |
| `RequestLog` | 380 k | every attempt whose result was handled has one row, sends dropped for a resend or ended in a recovery have none, a cancellation nothing else tells of has one; of the rows with the request's id the one completed last is billed, which is the answer's if the answer was logged (but for the races below) |
| `CooldownsLateSuccess`, `CodexStoreLateFailure`, `StreamPipelineLateReasoning`, `RequestLogMasked` | | places where the code differs from what it says, below |

Bounds. Forwarding: an account and an API-key upstream share the first of two groups, a second
account of the same provider has the next, so that priorities, overlapping
attempts, masking across groups and inherited bodies all occur; two parallel launches
and one same-upstream retry are the least that overlap and repeat. The liveness run puts all three in one group,
because hedging is about a group. Cooldowns: two requests on one account are the least that
interleave on a key; waits of 2 against shorts of 1 let the clock pass between them; one login
and one reload make stale credentials and stale states. The scopes run has two accounts for
failover and drops login and reload. CodexStore: two tasks are enough for a permit to be
contended, three tokens (the first and two more, from an exchange or a login in any order) for a
renewal to be overtaken. Lifecycle: two changes, so that one starts from what another has left half done; two
accounts, so that a loop can fail between them, of which one is renewable; two addresses, so that a save
may be a restart; one user of the interface. Addresses, requests and tasks are interchangeable, so symmetry is sound there: no
liveness is checked under it. Deadlock is checked where a system may not stop; in Cooldowns every
request ends, the clock and the reloads are bounded, and the model stops. In Lifecycle a crash is always
possible, so its absence of deadlock says nothing.

StreamPipeline: two calls and two items are the least that interleave; four chunks of a Chat
upstream and five events of the others (four behind `AnthropicToResponses` alone) let one item be told in deltas and by a snapshot with
another in between, or a reason be followed by the usage alone; two events held back, of three
units of arguments, reach both limits of the tool order. `LateReasoning` is FALSE, which keeps a
reasoning from being open behind an item that came before it: what happens then is the
finding below. RequestLog: three attempts on two routes.

What a Responses upstream behind a Chat client sends is narrower, because the converter to Chat
drops what comes after: once a call's arguments have come in deltas no snapshot adds to
them, and reasoning is not told by the final output alone after a delta of other reasoning.
A Codex upstream's calls reach a Chat client when their items finish, and one an incomplete response
leaves unfinished does not. Its Responses client gets the upstream's own events, so of that route the
run asks that all are passed on, how it ends and what is logged, not what `ResponsesStream` promises.
An Anthropic upstream is assumed to end a turn that was not cut short with whole arguments; the
converter believes it, where the one from Chat checks.

Fairness, in `Forwarding` only. The executor polls a task that can go on and fires the timer it
armed: weak fairness of `Schedule` and `HedgeTimer`. An attempt ends, because a response or an
error arrives or its timeout fires: weak fairness of `Outcome(u)`, except for the upstreams in
`Hanging`, for which nothing is assumed. The client's cancellation is never assumed.
The streams have no fairness: `NoReadPastEnd` states as safety what would keep a reader waiting.

Each property of a passing run has a mutant: a defect of the kind the property is about (a
dropped guard, an off-by-one, a stale read) under which TLC finds the property violated. The
mutants stand in the modules before the definitions they alter.

## What is proved

`CooldownsProofs` proves, for any accounts, requests, waits and limits that satisfy
`CooldownAssumption`, every statement the passing runs check. `WaitHonored` (an owed
deadline in the future has a mandatory entry that lasts at least as long) is inductive
together with `TypeOK`: each action either leaves a key alone, marks it (which never lowers a
deadline or drops a live flag), clears what is not mandatory, or prunes what has expired. The action
properties follow from it and the guards of their actions. `RequestScopesCleared` needs that nobody
marks a request's own scope but the request, and it only while it has the scope (`ScopeInv`).

`ForwardingProofs` proves, for any configuration that satisfies `ConfigAssumption`, every invariant the
runs check of one request, and that it implements `Failover`. None is inductive. The invariant they
share (`Inv`) has these parts:

- `Scheduling`: something is in flight only inside a group, the launches left in a turn and
  the attempts in flight never exceed the capacity together, and a loop with nothing in flight may
  launch. This gives `ConcurrencyBound`, and that an empty loop has launched everything.
- `Launched`: the group's order enumerates its candidates without repetition, and those launched are
  exactly the ones in flight or done. So no candidate is launched twice.
- `Groups`: the candidates of earlier groups are done, those of later ones untouched. This gives `PriorityOrder`.
- `Settled`: the loop ends with a response or after the last group. This gives `ExhaustiveFailover`.

`FailureExplained` needs more (`Accounted`): what each candidate's attempts have left shows whether it was
attempted, and the summary is what the finished ones have left; then the cascade of the final
answer is a case split. `RepairIsolation` needs that every entry of the repaired bodies is that of a
candidate that is done. The refinement maps each step to `Try`, `Fail`, `Commit`,
`ReportFailure`, `Cancel` or no step of `Failover`, from `Inv`.

`CodexStoreProofs` proves, for any tasks and any number of tokens, all that the run of `CodexStore` checks
except `RenewedOnlyIfNeeded`. None of it is inductive alone. The invariant has a part about the tasks
(`TaskInv`): whoever exchanges holds the permit, works on an OAuth credential, and the response it has
received descends from the same login. The part about the store (`StoreInv`) says that the
cache may lag behind the row in its credential, never in the account's health or existence
(`Alike`), that an Agent Identity's key is no token (`Apart`), and that what the servers have said of the
cached tokens is marked (`Rejections`); `Latest` and `Chosen` are the properties themselves, said of the row too.
An Agent Identity whose import was not `raced` stays because nobody exchanges as long as it is in use (`Calm`).
Most steps take no task on in an exchange (`Steady`), so there is one lemma for each way to write the
store and one for what such steps do to the tasks. `RenewedOnlyIfNeeded` relates a task to the record
it read some steps before, and would need a history of the cached tokens.

`LifecycleProofs` proves all of it for any number of accounts, users and changes.
`StoppedStaysStopped` rests on `Halt`: after a stop nothing runs and no operation that could start the proxy
is under way, since each either was asked for later or found the proxy running under the same
lock. `RuntimeMatchesFile` rests on `Synced`: except between a write of the file and its application, which
waits for the lock, whoever holds the lock has loaded the file as it is or is still to load it.
`RotationsSurvive` rests on `GateInv`: while an import holds the gate, a spent token in its snapshot is one
whose exchange is unanswered, so that putting it back loses nothing. Each frame operator (`Goto`, `End`,
`UndoCredentials`, `Replace`) has a lemma, and the actions follow from theirs.

Its second part is about the changes. The invariant `Whole` says, for a save, a start and a grant (an
import or a login) in each place of the change, how who has credentials (`Now`) and the file compare
with who had them (`Before`) and the file it started from (`old`). A lemma for each way to write
credentials says what it does to the two sets; token exchanges, which run beside the worker, leave both. At the end of a
change, `Whole` gives one of `Undone`, `Saved`, `Granted` and `Reconciled`, and wherever it is cut short
`Partly`: these are the actions of `AccountChanges`, so the refinement follows, and with it that every account is served
(`Named`). The types need `Whole` as well: a configuration is written from `new`, and put back from `old`.

`RequestLogProofs` proves what the log of a request promises, for any number of attempts and routes. The
rows alone show nothing while some wait to be written, so its invariant `LogInv` is about `All`, what was
built and not lost, written or not. `Numbered`: what is built for the request is numbered apart.
`Telling`: an attempt has one entry as soon as it is `Told`, and none while it is `Untold`, which one that ended
without a row is for good. `Last`: a logged answer's number is the highest, except in the races described below. `Resort`: the request's own
row is there only if nothing else was built. `Billing` holds of the rows and is all a write disturbs: it
keeps the last in completion billed, because the new row either comes after it or changes nothing. A
step that builds entries adds a set of them (`Adds`, `Grows`), and each action says which.

`StreamOutcomeProofs` proves, for any values of the bounds that satisfy `StreamAssumption`, `NoReadPastEnd`
on every route and `OutcomeLogged` on those in `Heard`: a Chat or an Anthropic upstream, and a Codex upstream behind
a Responses client. On the others a read error is logged as success, below. Neither is inductive: what an upstream does
wrong is recorded in `up`, and has to travel through one or two converters, each with a queue, before
it is in the log. The invariant `OutcomeInv` says so for each converter (`ChatPart`, `ClaudePart`,
`CodexPart`, `AnthPart`, `TalkPart`):

- Until it has sent its end, a first converter has an empty log entry, knows the finish reason the
  upstream stated, and the upstream has not failed. Its entry is "ok" only if the upstream stated its end,
  and after a fault it is "error" or "dropped". `CodexToResponses` may have an override in place of the entry.
- A second converter has not heard more than the first has sent; after a fault it has logged an error, or
  the failure still lies ahead in the queue between the two (`FailureAhead`), not behind a `[DONE]`
  that would end it first. This needs that the first converter's queue is free of both until it ends (`Clean`).
- Whoever is gone has delivered everything, ended and logged.

The converters call each other's helpers several levels deep, and walk over outputs, open items and
held-back events. So what one call may do to the marks, the entry and the queue is a relation that is
reflexive and transitive (`Goes`, `ChatOn`, `ClaudeOn`, `Talks`, `UpOn`), and each helper has a lemma
that says it is one such step. What a walk does is the rule `FoldReaches` of `FoldLemmas`: what holds
before the first element and is kept by every step holds at the end. A fold is a recursive function on
sets of indices, and induction takes an operator as a parameter, so the rule is proved from the
least-number principle instead, in a module whose constants are the operation and what holds; each walk
is an instance of it. `ListFolds` defines `FoldOver` and `Without`, which `SequencesExt` has too,
because every instance of a converter would bring the whole of that module into each proof step.

`StreamViewProofs` proves that the Responses stream which a Chat or an Anthropic upstream's converter makes
implements `ResponsesStream` (`ImplementsResponsesStream`), alone and in front of a second converter. What
the reader has seen says too little, since any number of events may still be queued, so the
invariant `StreamInv` speaks of what it will have seen:

- `Reads(r, out, t)`: read from `r`, each queued event has its place (`Fits`), and the reader ends in `t`.
- `ChatGood` and `ClaudeGood`: what the converter knows agrees with `t`. Its open reasoning, message, calls or
  blocks are those `t` has been told of and not yet told the end of, their output indices are apart and
  below the next one, and `t` knows of nothing the converter has forgotten.
- `Concluded`: the queue ends with a last event that names exactly the items of `t`, all finished, and `[DONE]`.

On each route one of these holds, or the converter is gone. Every helper of a converter has a lemma that
says which it keeps: one that opens an item, says something, finishes one, or leaves the items alone
(`Opens`, `Begins`, `Shows`, `Alike`, `Ensured`, `SameBlocks`). The end of a response is one argument for both
converters (`Closing`): its items are walked in the order of their indices, each is ended unless it was before,
and a sorted list of a finite set names every element once (`RankLists`). Then a step of the reader takes the first
queued event, which has its place, and that is a step of `ResponsesStream`. `StreamAssumption` says what
the parts of a Chat chunk are made of, and that item numbers go as far as a run's chunks and items do
(`MaxChunks <= MaxBlocks`, `MaxItems <= MaxBlocks`: bounds of the model, not of the code).

Its second part proves what that reader may believe: `NoFalseResponse`, the part of `NoFalseSuccess` about a
Responses reader, and `OnlyWholeActions`. Both compare what was read with what the upstream has told, and between
the two lie the converter's own books and its queue. So `WholeInv` adds to `StreamInv`, for each kind of upstream:

- `TrueQueue` and `TrueReading`: every queued event, and what was read, agrees with the upstream's account
  (`TrueEvent`): a success only if the upstream has stated its end, without a fault or a cut, and all
  arguments are whole; of a shell action no piece, and the whole only when it is whole.
- `CallsTold` and `BlocksWhole`, while the response is under way: the converter knows each call's first name and its
  arguments exactly as the upstream told them, whether at the start of a block, in deltas or both. Without
  this the converter's test of the arguments would say nothing of the upstream's.
- Before its end no success is queued, so what the upstream still adds cannot make one false; after it the upstream
  is not read again (`OutcomeInv`).

The account holds the first name each call was given (`named`), not whether a call was ever named "shell": a
later name changes nothing in the converter, so a property about any name would be wrong, and a run whose
parts give a call only one name cannot tell. The passing on of a Codex stream (`OtherWhole`) has neither names
nor a check of the arguments, hence `Made` in the property: what a Codex upstream calls complete is passed on as it is.

TLC alone: liveness (the prover has no ENABLED), `RenewedOnlyIfNeeded`, and of the streams `TypeOK`,
`NothingLost`, the parts of `NoFalseSuccess` about an Anthropic and a Chat reader, and the refinement of
`AnthropicStream`. They need an invariant of the second converters' queues and held-back events, unit by unit.

## Where the code and its words differ

Shown by a run:

- `CooldownsLateSuccess`: a success sent before another request's failure lifts the cooldown that
  failure set on the upstream; the document on forwarding fixes excludes that.
- `CodexStoreLateFailure`: a late failure of an OAuth credential disables the Agent Identity
  imported over it, although a comment says it cannot.
- `StreamPipelineLateReasoning`: a thinking block that another block's start has closed is stopped
  again when its own item ends; `CONTEXT.md` says each block is stopped once.
- `RequestLogMasked`: the proxy's own row about masked failures has no request id, so it stays
  billable beside the last attempt's; `CONTEXT.md` says a request is billed once.

Seen while modelling:

- A web-search request no eligible upstream can serve is answered "model not supported" though an
  allowlist has the model; `CONTEXT.md` defines that answer by allowlists only.
- The README says a repaired body is kept for later attempts; if the repaired attempt ends
  without a response, it is not.
- An ordinary failure that outlasts an upstream's wait shares its entry and its flag, so a reload
  keeps what it should drop.
- When a saved configuration needs a restart and the start fails, the proxy is stopped; the
  rollback's `apply_saved_config` does nothing for a stopped proxy and succeeds, and the log says
  the previous runtime was re-applied.
- A Responses upstream that ends without a terminal event ends as success for an Anthropic or a
  Chat client (a test expects it; `docs/upstream-update-plan-2026-10-23.md` wants a failure), and a
  read error there is logged without an error.
- A Codex upstream that is cut off the same way gives a Responses client status "incomplete" with the
  reason "error" and is logged as an error. Behind an Anthropic client that reason becomes `end_turn`
  (`compat_reason.rs` maps unknown reasons to "stop") and the first converter's log entry goes nowhere;
  a Chat client gets "stop". Hence the exceptions in `NoFalseSuccess` and `OutcomeLogged`.
- After an error a Codex stream's Chat client is sent a finish reason and `[DONE]` as well; the model's
  reader stops at the error.
- `pause_turn` of an Anthropic upstream reaches a Chat client as the finish reason "length", although
  `compat_reason.rs` says that a token limit must not be made up for it.
- A client that leaves after the last event but before the poll that ends the stream is logged as
  having dropped it.
- Of two redacted reasonings in one answer, a Chat client gets the first.
- `CONTEXT.md:112` defines an upstream attempt as one send, each of which keeps its usage, account and status,
  and `CONTEXT.md:40` says that a later retry does not erase an earlier error. The sends of `Discard`,
  `FailUnlogged` and `RejectUnlogged` above leave no row. So a 400 that a repaired request
  made good, or a 401 that a refreshed token did, is not to be found; and if the answer is one of
  `RejectUnlogged`, the row of an attempt that failed before it stays the billed one, or there is none.
- An OAuth renewal whose response arrives after an Agent Identity was imported over the account overwrites the
  Agent Identity (`token_proxy_account_codex/src/store.rs:1174-1186`): `token_record_was_refreshed` is false for
  credentials of different kinds. It is the comparison of `CodexStoreLateFailure`;
  the tests of superseded renewals have OAuth credentials on both sides.
- With racing attempts the billed row need not be the answer's: a buffered answer's row is built
  before the attempts it beats are dropped, and their streams log later. `RequestLog` excludes these
  cases from `BilledByAnswer`. A client that leaves when only the proxy's own row was written
  leaves a second row, with 499.
- Turn states are kept per session: of two parallel requests of a session on two accounts, or
  after a cancelled one, the state one account minted may be sent to the other.

## Not modelled

Whatever is a pure conversion of text (protocol formats, configuration, prices), what only shows
things (interface, dashboard, CLI), and I/O below the level of one SQLite statement or one HTTP
exchange. The database is atomic storage: each store operation is one statement or one
transaction.

In the lifecycle, a save takes its snapshot and deletes in two gated sections, and a login restores what
it replaced without the gate: a token renewed in between is lost when the change is undone. The
model has it (a restored credential may be `lost`); no property excludes it, because the code
does not promise it for these two. Components the plan will reach are listed with their reasons in `PROJECT.json`.
