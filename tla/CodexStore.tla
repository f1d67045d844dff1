----------------------------- MODULE CodexStore -----------------------------
(***************************************************************************)
(* The credential of one Codex account and everything that reads, renews   *)
(* or replaces it at the same time: requests that need an access token,    *)
(* 401 answers, the background refresh, a refresh by hand, the usage       *)
(* probe, settings, logins, imports and deletion (CodexAccountStore).      *)
(*                                                                         *)
(* Writers hold the provider_mutation gate over their read-modify-write,   *)
(* and readers see only the cache: such a section is one action.  Between  *)
(* actions lie the points where a task waits for the network or a permit.  *)
(***************************************************************************)
EXTENDS Integers

CONSTANTS
    Tasks,          \* the tasks that may be inside the store at once
    ImportKinds,    \* kinds of credential a login or import may bring
    Settings,       \* bound: what automatic refresh may be set to
    MaxTokens       \* bound: how many tokens are issued

ASSUME StoreAssumption ==
    /\ ImportKinds \subseteq {"oauth", "agent"}
    /\ Settings \subseteq BOOLEAN
    /\ MaxTokens \in Nat \ {0}
    /\ "free" \notin Tasks

\* An Agent Identity has no renewable tokens: both fields hold its key.
Tokens == 1..MaxTokens
NoRecord == [kind |-> "none", access |-> 0, renewal |-> 0, status |-> "invalid", auto |-> FALSE]
Records == [kind : {"oauth", "agent"}, access : Tokens, renewal : Tokens,
            status : {"active", "invalid"}, auto : BOOLEAN]

VARIABLES
    db,         \* the account's row in SQLite
    cache,      \* its entry in the cache
    age,        \* of the cached access token: "fresh", "due" for renewal, "expired"
    rejA,       \* rejected_access_tokens: 0 or the rejected access token
    rejR,       \* rejected_refresh_tokens: 0 or the rejected refresh token
    permit,     \* the holder of the account's entry in token_refreshing
    cool,       \* token_refresh_cooldowns: "none", or after "ok" or "error"
    pc,         \* where each task is
    why,        \* what it refreshes for
    base,       \* the record it started from
    sent,       \* the access token its request or probe carries
    got,        \* the refresh token of the response it has received
    issued,     \* the tokens issued so far, by the server or by a login
    login,      \* history: what the newest login, import or deletion has left, and
                \* whether an exchange of OAuth tokens was under way when it came
    origin,     \* history: the login each token descends from
    wanted,     \* history: the automatic-refresh setting last chosen
    refused,    \* history: the store was told that the access token is rejected
    dead        \* history: the server has rejected the refresh token for good

stored  == <<db, cache, age, refused, dead>>
marks   == <<rejA, rejR>>
flight  == <<permit, cool>>
local   == <<pc, why, base, sent, got>>
history == <<login, origin, wanted>>
vars    == <<stored, marks, flight, local, issued, history>>

PCs == {"idle", "resolved", "sent", "guard", "waiting", "exchanging",
        "rotated", "condemn", "probing"}
Reasons == {"read", "renew", "manual"}

TypeOK ==
    /\ db \in Records \cup {NoRecord}
    /\ cache \in Records \cup {NoRecord}
    /\ age \in {"fresh", "due", "expired"}
    /\ rejA \in 0..MaxTokens
    /\ rejR \in 0..MaxTokens
    /\ permit \in Tasks \cup {"free"}
    /\ cool \in {"none", "ok", "error"}
    /\ pc \in [Tasks -> PCs]
    /\ why \in [Tasks -> Reasons]
    /\ base \in [Tasks -> Records \cup {NoRecord}]
    /\ sent \in [Tasks -> 0..MaxTokens]
    /\ got \in [Tasks -> [access : 0..MaxTokens, renewal : 0..MaxTokens]]
    /\ issued \in Tokens
    /\ login \in [kind : {"oauth", "agent", "none"}, token : 0..MaxTokens, raced : BOOLEAN]
    /\ origin \in [Tokens -> 0..MaxTokens]
    /\ wanted \in {"on", "off", "any"}
    /\ refused \in BOOLEAN
    /\ dead \in BOOLEAN

First == [kind |-> "oauth", access |-> 1, renewal |-> 1, status |-> "active", auto |-> TRUE]

Init ==
    /\ db = First
    /\ cache = First
    /\ age = "fresh"
    /\ rejA = 0
    /\ rejR = 0
    /\ permit = "free"
    /\ cool = "none"
    /\ pc = [t \in Tasks |-> "idle"]
    /\ why = [t \in Tasks |-> "read"]
    /\ base = [t \in Tasks |-> NoRecord]
    /\ sent = [t \in Tasks |-> 0]
    /\ got = [t \in Tasks |-> [access |-> 0, renewal |-> 0]]
    /\ issued = 1
    /\ login = [kind |-> "oauth", token |-> 1, raced |-> FALSE]
    /\ origin = [k \in Tokens |-> IF k = 1 THEN 1 ELSE 0]
    /\ wanted = "on"
    /\ refused = FALSE
    /\ dead = FALSE

-----------------------------------------------------------------------------
(* Records. *)

IsOauth(r) == r.kind = "oauth"

\* A token_record_was_refreshed: FALSE unless both are OAuth credentials.
Refreshed(old, new) ==
    /\ IsOauth(old) /\ IsOauth(new)
    /\ old.access # new.access \/ old.renewal # new.renewal

NeedsRefresh(r) == IsOauth(r) /\ age # "fresh"
Usable(r) == r.status = "active" /\ (IsOauth(r) => age # "expired")
CanAutoRefresh(r) == IsOauth(r) /\ r.status = "active" /\ r.auto
AccessRejected(r) == IsOauth(r) /\ rejA = r.access

\* Mutant: that a refresh token was rejected for good is forgotten.
RenewalForgotten(r) == FALSE

RenewalRejected(r) == IsOauth(r) /\ rejR = r.renewal

\* The cached record is replaced.  A token that enters the cache is more than
\* 24 hours from its expiry, and nothing bad is known of it.
Cache(r, told) ==
    /\ cache' = r
    /\ age' = IF r.access = cache.access THEN age ELSE "fresh"
    /\ refused' = (told \/ (refused /\ r.access = cache.access))
    /\ dead' = (dead /\ r.renewal = cache.renewal)

\* save_record_unlocked: the row, then the marks it outdates, then the cache.
Save(r) ==
    /\ db' = r
    /\ Cache(r, FALSE)
    /\ rejA' = IF IsOauth(r) /\ rejA = r.access THEN rejA ELSE 0
    /\ rejR' = IF IsOauth(r) /\ rejR = r.renewal THEN rejR ELSE 0

-----------------------------------------------------------------------------
(* Tasks. *)

\* The task ends: its permit is dropped with it, whatever it has achieved.
Forget(t) ==
    /\ why' = [why EXCEPT ![t] = "read"]
    /\ base' = [base EXCEPT ![t] = NoRecord]
    /\ sent' = [sent EXCEPT ![t] = 0]
    /\ got' = [got EXCEPT ![t] = [access |-> 0, renewal |-> 0]]

End(t) == pc' = [pc EXCEPT ![t] = "idle"] /\ Forget(t)

Release == permit' = "free"

\* What becomes of a task when refresh_record_guarded returns, r being the
\* account's record and mark its rejected token.  A read goes on with the record
\* if it is good, renewed or not.  The others end: a request sent again after a
\* 401 is a request like any other.
Return(t, r, mark) ==
    /\ pc' = [pc EXCEPT ![t] =
                IF why[t] = "read" /\ Usable(r) /\ ~(IsOauth(r) /\ mark = r.access)
                THEN "resolved" ELSE "idle"]
    /\ Forget(t)

\* The task takes the cached record to refresh_record_guarded.
Refresh(t, reason) ==
    /\ pc' = [pc EXCEPT ![t] = "guard"]
    /\ why' = [why EXCEPT ![t] = reason]
    /\ base' = [base EXCEPT ![t] = cache']
    /\ UNCHANGED got

\* A request resolves its account: refresh_if_needed, then the checks of
\* resolve_pinned_account_record.
Resolve(t) ==
    /\ pc[t] = "idle"
    /\ UNCHANGED stored
    /\ IF cache.status = "active" /\ (NeedsRefresh(cache) \/ AccessRejected(cache)) /\ cache.auto
       THEN Refresh(t, "read") /\ UNCHANGED sent
       ELSE /\ Usable(cache) /\ ~AccessRejected(cache)
            /\ pc' = [pc EXCEPT ![t] = "resolved"]
            /\ Forget(t)
    /\ UNCHANGED <<marks, flight, issued, history>>

\* Mutant: the header is built from the record without another check.
AuthorizeUnchecked(t) ==
    /\ pc[t] = "resolved"
    /\ IF cache = NoRecord
       THEN End(t)
       ELSE /\ pc' = [pc EXCEPT ![t] = "sent"]
            /\ sent' = [sent EXCEPT ![t] = cache.access]
            /\ UNCHANGED <<why, base, got>>
    /\ UNCHANGED <<stored, marks, flight, issued, history>>

\* authorization_header reads the account again.
Authorize(t) ==
    /\ pc[t] = "resolved"
    /\ IF cache = NoRecord \/ AccessRejected(cache)
       THEN End(t)
       ELSE /\ pc' = [pc EXCEPT ![t] = "sent"]
            /\ sent' = [sent EXCEPT ![t] = cache.access]
            /\ UNCHANGED <<why, base, got>>
    /\ UNCHANGED <<stored, marks, flight, issued, history>>

Answered(t) ==
    /\ pc[t] = "sent"
    /\ End(t)
    /\ UNCHANGED <<stored, marks, flight, issued, history>>

\* The 401 concerns the credential the account still has, and it may be renewed.
Current401(t) == IsOauth(db) /\ db.status = "active" /\ db.access = sent[t]

\* A 401: the account is reloaded, and the token that failed is marked unless
\* it has been replaced; refresh_account_after_unauthorized then renews it.
Unauthorized(t) ==
    /\ pc[t] = "sent"
    /\ Cache(db, Current401(t))
    /\ rejA' = IF Current401(t) THEN sent[t] ELSE rejA
    /\ IF Current401(t) /\ db.auto
       THEN Refresh(t, "renew") /\ sent' = [sent EXCEPT ![t] = 0]
       ELSE End(t)
    /\ UNCHANGED <<db, rejR, flight, issued, history>>

\* refresh_account.
Manual(t) ==
    /\ pc[t] = "idle" /\ IsOauth(cache)
    /\ UNCHANGED stored
    /\ Refresh(t, "manual")
    /\ UNCHANGED <<sent, marks, flight, issued, history>>

\* refresh_due_accounts reloads the cache, then looks for what to renew; a
\* record the reload brings is fresh, and the reload alone is Reload.
Due(t) ==
    /\ pc[t] = "idle" /\ cache = db
    /\ CanAutoRefresh(db) /\ NeedsRefresh(db) /\ ~RenewalRejected(db) /\ cool = "none"
    /\ UNCHANGED stored
    /\ Refresh(t, "renew")
    /\ UNCHANGED <<sent, marks, flight, issued, history>>

-----------------------------------------------------------------------------
(* refresh_record_guarded: one exchange at a time. *)

\* From here on it does not matter who asked, except that a read goes on.
Underway(t) == why' = [why EXCEPT ![t] = IF @ = "read" THEN "read" ELSE "renew"]

\* Who waits compares the stored record with its own in the end, but goes on
\* with the stored one either way.
Queue(t) ==
    /\ pc[t] = "guard" /\ permit # "free"
    /\ pc' = [pc EXCEPT ![t] = "waiting"]
    /\ base' = [base EXCEPT ![t] = NoRecord]
    /\ Underway(t)
    /\ UNCHANGED <<stored, marks, flight, sent, got, issued, history>>

\* Mutant: with the permit, the account is not compared again.
RenewableAgain(t) ==
    /\ cache # NoRecord
    /\ cache.status = "active" /\ ~RenewalRejected(cache) /\ cool # "error"
    /\ why[t] # "manual" =>
        /\ cool = "ok" => AccessRejected(cache)
        /\ CanAutoRefresh(cache)

\* With the permit, before anything is sent: is there still anything to renew,
\* and may it be?  Another task may have renewed it, a login replaced it.
Renewable(t) ==
    /\ cache # NoRecord /\ ~Refreshed(base[t], cache)
    /\ cache.status = "active" /\ ~RenewalRejected(cache) /\ cool # "error"
    /\ why[t] # "manual" =>
        /\ cool = "ok" => AccessRejected(cache)
        /\ CanAutoRefresh(cache)

Exchange(t) ==
    /\ pc[t] = "guard" /\ permit = "free"
    /\ Renewable(t) /\ IsOauth(cache)
    /\ permit' = t
    /\ base' = [base EXCEPT ![t] = cache]
    /\ pc' = [pc EXCEPT ![t] = "exchanging"]
    /\ Underway(t)
    /\ UNCHANGED <<stored, marks, cool, sent, got, issued, history>>

\* Nothing is exchanged.  That the credential is none to be renewed is found by
\* refresh_record only, whose errors defer the next refresh.
Dismiss(t) ==
    /\ pc[t] = "guard" /\ permit = "free"
    /\ ~(Renewable(t) /\ IsOauth(cache))
    /\ cool' = IF Renewable(t) THEN "error" ELSE cool
    /\ Return(t, cache, rejA)
    /\ UNCHANGED <<stored, marks, permit, issued, history>>

\* wait_for_token_refresh ends: the holder is through, or 35 seconds are over.
Wake(t) ==
    /\ pc[t] = "waiting"
    /\ Return(t, cache, rejA)
    /\ UNCHANGED <<stored, marks, flight, issued, history>>

-----------------------------------------------------------------------------
(* The exchange of a refresh token. *)

\* Mutant: only a deletion is noticed, not a newer credential.
SupersededByDeletion(t) == cache = NoRecord

\* Mutant: only a newer credential is noticed, not a deletion.
SupersededByLogin(t) == Refreshed(base[t], cache)

\* The credential the task works for is no longer the account's.
Superseded(t) == cache = NoRecord \/ Refreshed(base[t], cache)

\* Mutant: the setting is that of the record that was exchanged.
SettingStale(t) == base[t].auto

Setting(t) == IF IsOauth(cache) THEN cache.auto ELSE base[t].auto

\* Mutant: a response without a refresh token is taken as it is.
RenewalBlank(t, rotate, new) == IF rotate THEN new ELSE 0

\* A response may leave the refresh token as it was.
RenewalOf(t, rotate, new) == IF rotate THEN new ELSE base[t].renewal

\* Mutant: a renewal makes the account valid.
MergedActive(t) ==
    [kind |-> "oauth", access |-> got[t].access, renewal |-> got[t].renewal,
     status |-> "active",
     auto |-> Setting(t)]

\* The record with the response's credential: settings and health are those of
\* the record as it is now.
Merged(t) ==
    [kind |-> "oauth", access |-> got[t].access, renewal |-> got[t].renewal,
     status |-> cache.status,
     auto |-> Setting(t)]

\* The server accepts the refresh token, and replaces it or not.
ServerRotates(t, rotate) ==
    /\ pc[t] = "exchanging"
    /\ issued < MaxTokens
    /\ issued' = issued + 1
    /\ got' = [got EXCEPT ![t] = [access  |-> issued',
                                  renewal |-> RenewalOf(t, rotate, issued')]]
    /\ origin' = [origin EXCEPT ![issued'] = origin[base[t].access]]
    /\ pc' = [pc EXCEPT ![t] = "rotated"]
    /\ UNCHANGED <<stored, marks, flight, why, base, sent, login, wanted>>

\* The response is stored, unless the credential was replaced meanwhile.
Commit(t) ==
    /\ pc[t] = "rotated"
    /\ IF Superseded(t)
       THEN /\ cool' = IF cache = NoRecord THEN "error" ELSE "ok"
            /\ Return(t, cache, rejA)
            /\ UNCHANGED <<stored, marks>>
       ELSE /\ Save(Merged(t))
            /\ cool' = "ok"
            /\ Return(t, Merged(t), rejA')
    /\ Release
    /\ UNCHANGED <<issued, history>>

\* Cancelled while SQLite commits: the row is written, the cache is not.
Cut(t) ==
    /\ pc[t] = "rotated"
    /\ ~Superseded(t)
    /\ db' = Merged(t)
    /\ End(t)
    /\ Release
    /\ UNCHANGED <<cache, age, refused, dead, marks, cool, issued, history>>

\* No answer, or an error that says nothing of the credential; the server may
\* have replaced the token all the same.
ExchangeFails(t) ==
    /\ pc[t] \in {"exchanging", "rotated"}
    /\ cool' = IF Refreshed(base[t], cache) THEN "ok" ELSE "error"
    /\ Return(t, cache, rejA)
    /\ Release
    /\ UNCHANGED <<stored, marks, issued, history>>

\* The server rejects the refresh token for good: it is not sent again, and the
\* account is disabled if its access token is of no use either.
ExchangeRejected(t) ==
    /\ pc[t] = "exchanging"
    /\ IF Superseded(t)
       THEN /\ cool' = IF cache = NoRecord THEN "error" ELSE "ok"
            /\ Return(t, cache, rejA)
            /\ Release
            /\ UNCHANGED <<rejR, dead>>
       ELSE /\ rejR' = base[t].renewal
            /\ dead' = (dead \/ cache.renewal = base[t].renewal)
            /\ IF ~Usable(cache) \/ AccessRejected(cache)
               THEN /\ pc' = [pc EXCEPT ![t] = "condemn"]
                    /\ UNCHANGED <<why, base, sent, got, permit>>
               ELSE Return(t, cache, rejA) /\ Release
            /\ UNCHANGED cool
    /\ UNCHANGED <<db, cache, age, refused, rejA, issued, history>>

\* Mutant: the stored record is not compared with the one that failed.
DisabledAlways(t) == [cache EXCEPT !.status = "invalid"]

\* mark_invalid_if_credential_matches: the record the task disables, or not.
Disabled(t) ==
    IF Refreshed(base[t], cache) THEN cache ELSE [cache EXCEPT !.status = "invalid"]

Condemn(t) ==
    /\ pc[t] = "condemn"
    /\ IF Superseded(t)
       THEN UNCHANGED <<stored, marks>>
       ELSE Save(Disabled(t))
    /\ Return(t, cache', rejA')
    /\ Release
    /\ UNCHANGED <<cool, issued, history>>

-----------------------------------------------------------------------------
(* The usage probe: one at a time, and it never renews a token. *)

Probe(t) ==
    /\ pc[t] = "idle" /\ Usable(cache)
    /\ \A o \in Tasks : pc[o] # "probing"
    /\ pc' = [pc EXCEPT ![t] = "probing"]
    /\ base' = [base EXCEPT ![t] = cache]
    /\ sent' = [sent EXCEPT ![t] = IF AccessRejected(cache) THEN 0 ELSE cache.access]
    /\ UNCHANGED <<stored, marks, flight, why, got, issued, history>>

\* persist_quota_cache merges the usage, or the error, into the cached record.
ProbeEnds(t) ==
    /\ pc[t] = "probing"
    /\ IF cache = NoRecord THEN UNCHANGED <<stored, marks>> ELSE Save(cache)
    /\ End(t)
    /\ UNCHANGED <<flight, issued, history>>

\* The credential was found invalid: the account is disabled, the error kept.
ProbeRefused(t) ==
    /\ pc[t] = "probing" /\ IsOauth(base[t]) /\ sent[t] # 0
    /\ IF cache = NoRecord THEN UNCHANGED <<stored, marks>> ELSE Save(Disabled(t))
    /\ End(t)
    /\ UNCHANGED <<flight, issued, history>>

-----------------------------------------------------------------------------
(* The user, the clock and the process. *)

SetAutoRefresh(b) ==
    /\ IsOauth(cache)
    /\ Save([cache EXCEPT !.auto = b])
    /\ wanted' = IF b THEN "on" ELSE "off"
    /\ UNCHANGED <<flight, local, issued, login, origin>>

\* Is an exchange of OAuth tokens under way?
Renewing == \E t \in Tasks : pc[t] \in {"exchanging", "rotated"}

\* save_new_account_unlocked, of a login or an import: local settings survive,
\* and new OAuth tokens for an OAuth account also make it valid again.
Import(kind) ==
    /\ issued < MaxTokens
    /\ issued' = issued + 1
    /\ LET again == IsOauth(db) /\ kind = "oauth" IN
        /\ Save([kind |-> kind, access |-> issued', renewal |-> issued',
                 status |-> IF again \/ db = NoRecord THEN "active" ELSE db.status,
                 auto |-> kind = "oauth" /\ (again => db.auto)])
        /\ cool' = IF again THEN "none" ELSE cool
        /\ wanted' = IF kind = "agent" THEN "any" ELSE IF again THEN wanted ELSE "on"
    /\ login' = [kind |-> kind, token |-> issued', raced |-> Renewing]
    /\ origin' = [origin EXCEPT ![issued'] = issued']
    /\ UNCHANGED <<permit, local>>

Delete ==
    /\ db' = NoRecord /\ Cache(NoRecord, FALSE)
    /\ rejA' = 0 /\ rejR' = 0
    /\ login' = [kind |-> "none", token |-> 0, raced |-> FALSE]
    /\ UNCHANGED <<flight, local, issued, origin, wanted>>

\* list_accounts and snapshots read SQLite again.
Reload ==
    /\ cache # db
    /\ Cache(db, FALSE)
    /\ UNCHANGED <<db, marks, flight, local, issued, history>>

\* A token comes within 24 hours of its expiry, and expires.
Ages ==
    /\ IsOauth(cache) /\ age # "expired"
    /\ age' = IF age = "fresh" THEN "due" ELSE "expired"
    /\ UNCHANGED <<db, cache, refused, dead, marks, flight, local, issued, history>>

CooldownEnds ==
    /\ cool # "none"
    /\ cool' = "none"
    /\ UNCHANGED <<stored, marks, permit, local, issued, history>>

\* A client disconnects, or the proxy that runs the task is stopped.
Cancel(t) ==
    /\ pc[t] # "idle"
    /\ End(t)
    /\ permit' = IF permit = t THEN "free" ELSE permit
    /\ UNCHANGED <<stored, marks, cool, issued, history>>

\* The process starts anew from SQLite; the stored refresh token is tried again.
Restart ==
    /\ cache' = db
    /\ age' = IF db.access = cache.access THEN age ELSE "fresh"
    /\ refused' = FALSE /\ dead' = FALSE
    /\ rejA' = 0 /\ rejR' = 0
    /\ permit' = "free" /\ cool' = "none"
    /\ pc' = [t \in Tasks |-> "idle"]
    /\ why' = [t \in Tasks |-> "read"]
    /\ base' = [t \in Tasks |-> NoRecord]
    /\ sent' = [t \in Tasks |-> 0]
    /\ got' = [t \in Tasks |-> [access |-> 0, renewal |-> 0]]
    /\ UNCHANGED <<db, issued, history>>

-----------------------------------------------------------------------------
Step(t) ==
    \/ Resolve(t) \/ Authorize(t) \/ Answered(t) \/ Unauthorized(t)
    \/ Manual(t) \/ Due(t)
    \/ Queue(t) \/ Exchange(t) \/ Dismiss(t) \/ Wake(t)
    \/ \E rotate \in BOOLEAN : ServerRotates(t, rotate)
    \/ Commit(t) \/ Cut(t) \/ ExchangeFails(t) \/ ExchangeRejected(t) \/ Condemn(t)
    \/ Probe(t) \/ ProbeEnds(t) \/ ProbeRefused(t)
    \/ Cancel(t)

Next ==
    \/ \E t \in Tasks : Step(t)
    \/ \E b \in Settings : SetAutoRefresh(b)
    \/ \E kind \in ImportKinds : Import(kind)
    \/ Delete \/ Reload \/ Ages \/ CooldownEnds \/ Restart

Spec == Init /\ [][Next]_vars

-----------------------------------------------------------------------------
(* Properties. *)

\* The newest OAuth login wins: whatever renewals were under way when it came, the
\* credential in use is the one it brought or was renewed from it.  An Agent
\* Identity that was imported stays in use as well, unless an exchange of OAuth
\* tokens was under way when it came: such an exchange is not seen to be superseded
\* (Refreshed is FALSE for credentials of different kinds), and its tokens overwrite
\* the Agent Identity.
LatestLoginKept ==
    /\ login.kind = "oauth" => IsOauth(cache) /\ origin[cache.access] = login.token
    /\ login.kind = "agent" /\ ~login.raced =>
          cache.kind = "agent" /\ cache.access = login.token

\* A deleted account stays deleted: no renewal, probe or mark brings it back.
DeletedStaysDeleted == login.kind = "none" => cache = NoRecord /\ db = NoRecord

\* A refresh token is in one exchange at a time and, once the server has
\* rejected it for good, in no other, whoever waited for whom: servers take the
\* reuse of a refresh token for theft.
RefreshTokenUsedOnce ==
    \A t \in Tasks : pc[t] = "exchanging" =>
        /\ dead => base[t].renewal # cache.renewal
        /\ \A o \in Tasks \ {t} : pc[o] \in {"exchanging", "rotated", "condemn"} =>
            base[o].renewal # base[t].renewal

\* store.rs: a late 401 must not rotate credentials already replaced by another
\* request.  Nothing is renewed unasked but what is about to expire or rejected.
RenewedOnlyIfNeeded ==
    [][\A t \in Tasks : pc[t] = "guard" /\ pc'[t] = "exchanging" /\ why[t] # "manual" =>
        age # "fresh" \/ refused]_vars

\* An access token that a request found rejected is not sent by a later one,
\* however late the 401 of another request arrives.
RejectedNotReused ==
    [][\A t \in Tasks :
        pc[t] = "resolved" /\ pc'[t] = "sent" => ~refused]_vars

\* What the user chose for automatic refresh survives every renewal, probe and
\* login that was under way.
SettingKept == IsOauth(cache) /\ wanted # "any" => cache.auto = (wanted = "on")

\* The failure of a task disables the credential it was about, never one that
\* was imported, logged in or renewed meanwhile.
Accused(r) ==
    \E t \in Tasks : pc[t] \in {"condemn", "probing"} /\ base[t].access = r.access

OnlyFailedDisabled ==
    [][IsOauth(cache) /\ cache.status = "active"
         /\ cache' # NoRecord /\ cache'.status = "invalid" => Accused(cache)]_vars

\* An account found invalid is revived by a login only, not by the renewal that
\* was under way when it was found out.
RevivedByLoginOnly ==
    [][cache # NoRecord /\ cache.status = "invalid" /\ cache'.status = "active"
            => login' # login]_vars

\* store.rs: an old in-flight response cannot disable newly imported or rotated
\* credentials, an imported Agent Identity included.
ImportedNotDisabled ==
    [][cache # NoRecord /\ cache.status = "active"
         /\ cache' # NoRecord /\ cache'.status = "invalid" => Accused(cache)]_vars
=============================================================================
