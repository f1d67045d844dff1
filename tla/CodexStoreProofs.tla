-------------------------- MODULE CodexStoreProofs --------------------------
(***************************************************************************)
(* Proofs about the credential of a Codex account, for every set of tasks  *)
(* and every number of tokens.                                             *)
(***************************************************************************)
EXTENDS CodexStore, TLAPS

(***************************************************************************)
(* The invariant.                                                          *)
(***************************************************************************)

\* A task in one of these holds the permit.
Busy == {"exchanging", "rotated", "condemn"}

\* Every token in use was issued, so a new one is none of them.
KnownHeld ==
    \A t \in Tasks :
        /\ base[t].access <= issued /\ base[t].renewal <= issued
        /\ got[t].access <= issued /\ got[t].renewal <= issued

KnownStored ==
    /\ \A r \in {cache, db} : r.access <= issued /\ r.renewal <= issued
    /\ login.token <= issued

\* The holder of the permit renews an OAuth credential, and the response it has
\* received descends from the same login.
Working ==
    \A t \in Tasks :
        /\ pc[t] \in Busy => permit = t /\ IsOauth(base[t])
        /\ pc[t] = "rotated" =>
              /\ got[t].access > 0 /\ got[t].renewal > 0
              /\ origin[got[t].access] = origin[base[t].access]

\* An Agent Identity that met no exchange when it came meets none: it starts none.
Calm == login.kind = "agent" /\ ~login.raced => ~Renewing

\* An Agent Identity's key is no OAuth token, stored or on its way.
Apart ==
    \A r \in {cache, db} : r.kind = "agent" =>
        /\ r.access = r.renewal
        /\ \A s \in {cache, db} : IsOauth(s) => r.access # s.access /\ r.renewal # s.renewal
        /\ \A t \in Tasks :
              /\ pc[t] \in Busy => r.renewal # base[t].renewal /\ r.access # base[t].access
              /\ pc[t] = "rotated" => r.renewal # got[t].renewal /\ r.access # got[t].access

\* What the cache may miss of the row (a renewal that was cut short) is the
\* credential, never the account's health or existence.
Alike ==
    /\ db.status = cache.status
    /\ (cache = NoRecord) <=> (db = NoRecord)
    /\ db.kind = "agent" => cache.kind = "agent"
    /\ cache.kind = "agent" => wanted = "any"

Latest ==
    /\ login.kind = "none" => cache = NoRecord /\ db = NoRecord
    /\ login.kind = "oauth" => \A r \in {cache, db} :
            IsOauth(r) /\ origin[r.access] = login.token
    /\ login.kind = "agent" /\ ~login.raced => \A r \in {cache, db} :
            r.kind = "agent" /\ r.access = login.token

Chosen == \A r \in {cache, db} : IsOauth(r) /\ wanted # "any" => r.auto = (wanted = "on")

\* The marks know whatever the account's servers have said of its tokens.
Rejections ==
    /\ dead => IsOauth(cache) /\ rejR = cache.renewal
    /\ refused => IsOauth(cache) /\ rejA = cache.access
    /\ \A t \in Tasks : pc[t] = "exchanging" /\ dead => base[t].renewal # cache.renewal

StoreInv == KnownStored /\ Apart /\ Alike /\ Latest /\ Chosen /\ Rejections
TaskInv == KnownHeld /\ Working /\ Calm
IInv == TypeOK /\ TaskInv /\ StoreInv

-----------------------------------------------------------------------------
(* Types, in three parts. *)

StoreTyped ==
    /\ db \in Records \cup {NoRecord}
    /\ cache \in Records \cup {NoRecord}
    /\ age \in {"fresh", "due", "expired"}
    /\ rejA \in 0..MaxTokens
    /\ rejR \in 0..MaxTokens
    /\ refused \in BOOLEAN
    /\ dead \in BOOLEAN

LocalTyped ==
    /\ pc \in [Tasks -> PCs]
    /\ why \in [Tasks -> Reasons]
    /\ base \in [Tasks -> Records \cup {NoRecord}]
    /\ sent \in [Tasks -> 0..MaxTokens]
    /\ got \in [Tasks -> [access : 0..MaxTokens, renewal : 0..MaxTokens]]

RestTyped ==
    /\ permit \in Tasks \cup {"free"}
    /\ cool \in {"none", "ok", "error"}
    /\ issued \in Tokens
    /\ login \in [kind : {"oauth", "agent", "none"}, token : 0..MaxTokens, raced : BOOLEAN]
    /\ origin \in [Tokens -> 0..MaxTokens]
    /\ wanted \in {"on", "off", "any"}

LEMMA Parts == TypeOK <=> StoreTyped /\ LocalTyped /\ RestTyped
  BY DEF TypeOK, StoreTyped, LocalTyped, RestTyped

LEMMA PartsNext == TypeOK' <=> StoreTyped' /\ LocalTyped' /\ RestTyped'
  BY DEF TypeOK, StoreTyped, LocalTyped, RestTyped

LEMMA TokensOf ==
  ASSUME NEW r \in Records \cup {NoRecord}
  PROVE  /\ r.access \in 0..MaxTokens /\ r.renewal \in 0..MaxTokens
         /\ r.status \in {"active", "invalid"} /\ r.auto \in BOOLEAN
         /\ r # NoRecord => r \in Records /\ r.access \in Tokens /\ r.renewal \in Tokens
         /\ (r = NoRecord) <=> (r.kind = "none")
         /\ r.kind \in {"oauth", "agent", "none"}
  <1>1. CASE r \in Records
    <2>1. r.access \in Tokens /\ r.renewal \in Tokens /\ r.kind \in {"oauth", "agent"}
      BY <1>1 DEF Records
    <2>2. r.status \in {"active", "invalid"} /\ r.auto \in BOOLEAN
      BY <1>1 DEF Records
    <2>3. r # NoRecord
      BY <2>1 DEF NoRecord
    <2> QED BY <1>1, <2>1, <2>2, <2>3, StoreAssumption DEF Tokens
  <1>2. CASE r = NoRecord
    BY <1>2, StoreAssumption DEF NoRecord
  <1> QED BY <1>1, <1>2

LEMMA InitTyped == Init => TypeOK
  <1> SUFFICES ASSUME Init
               PROVE  TypeOK
    OBVIOUS
  <1>1. First \in Records /\ 1 \in Tokens
    BY StoreAssumption DEF First, Records, Tokens
  <1>2. origin \in [Tokens -> 0..MaxTokens]
    BY StoreAssumption DEF Init, Tokens
  <1>3. [access |-> 0, renewal |-> 0] \in [access : 0..MaxTokens, renewal : 0..MaxTokens]
    BY StoreAssumption
  <1>4. LocalTyped
    BY <1>3, StoreAssumption DEF Init, LocalTyped, PCs, Reasons
  <1>5. login \in [kind : {"oauth", "agent", "none"}, token : 0..MaxTokens, raced : BOOLEAN]
    BY StoreAssumption DEF Init
  <1>6. refused \in BOOLEAN /\ dead \in BOOLEAN
    BY DEF Init
  <1>7. StoreTyped
    BY <1>1, <1>6, StoreAssumption DEF Init, StoreTyped
  <1>8. RestTyped
    BY <1>1, <1>2, <1>5, StoreAssumption DEF Init, RestTyped
  <1> QED BY <1>4, <1>7, <1>8, Parts

\* What a task that ends, or goes on, leaves behind.
LEMMA ForgetTyped ==
  ASSUME LocalTyped, NEW t \in Tasks, Forget(t), pc' \in [Tasks -> PCs]
  PROVE  LocalTyped'
  <1>1. [access |-> 0, renewal |-> 0] \in [access : 0..MaxTokens, renewal : 0..MaxTokens]
    BY StoreAssumption
  <1> QED BY <1>1, StoreAssumption DEF Forget, LocalTyped, Reasons

LEMMA EndTyped ==
  ASSUME LocalTyped, NEW t \in Tasks, End(t)
  PROVE  LocalTyped'
  <1>1. pc' \in [Tasks -> PCs]
    BY DEF End, LocalTyped, PCs
  <1> QED BY <1>1, ForgetTyped DEF End

LEMMA ReturnTyped ==
  ASSUME LocalTyped, NEW t \in Tasks, NEW r, NEW mark, Return(t, r, mark)
  PROVE  LocalTyped'
  <1>1. pc' \in [Tasks -> PCs]
    BY DEF Return, LocalTyped, PCs
  <1> QED BY <1>1, ForgetTyped DEF Return

LEMMA RefreshTyped ==
  ASSUME LocalTyped, NEW t \in Tasks, NEW reason \in Reasons, Refresh(t, reason),
         cache' \in Records \cup {NoRecord}, sent' \in [Tasks -> 0..MaxTokens]
  PROVE  LocalTyped'
  BY DEF Refresh, LocalTyped, PCs, Reasons

LEMMA CacheTyped ==
  ASSUME StoreTyped, NEW r \in Records \cup {NoRecord}, NEW told \in BOOLEAN, Cache(r, told)
  PROVE  /\ cache' \in Records \cup {NoRecord}
         /\ age' \in {"fresh", "due", "expired"}
         /\ refused' \in BOOLEAN
         /\ dead' \in BOOLEAN
  BY DEF Cache, StoreTyped

LEMMA SaveTyped ==
  ASSUME StoreTyped, NEW r \in Records \cup {NoRecord}, Save(r)
  PROVE  StoreTyped'
  <1>1. Cache(r, FALSE) /\ db' = r
    BY DEF Save
  <1>2. rejA' \in 0..MaxTokens /\ rejR' \in 0..MaxTokens
    BY StoreAssumption DEF Save, StoreTyped
  <1> QED BY <1>1, <1>2, CacheTyped DEF StoreTyped

\* The records a task writes.
LEMMA MergedTyped ==
  ASSUME StoreTyped, LocalTyped, Working, NEW t \in Tasks, pc[t] = "rotated", cache # NoRecord
  PROVE  Merged(t) \in Records
  <1>1. got[t].access \in Tokens /\ got[t].renewal \in Tokens
    <2>1. got[t].access > 0 /\ got[t].renewal > 0
      BY DEF Working
    <2> QED BY <2>1, StoreAssumption DEF LocalTyped, Tokens
  <1>2. Setting(t) \in BOOLEAN
    BY TokensOf DEF Setting, StoreTyped, LocalTyped
  <1>3. cache.status \in {"active", "invalid"}
    BY TokensOf DEF StoreTyped
  <1> QED BY <1>1, <1>2, <1>3 DEF Merged, Records

LEMMA DisabledTyped ==
  ASSUME StoreTyped, NEW t \in Tasks, cache # NoRecord
  PROVE  Disabled(t) \in Records
  <1>1. cache \in Records
    BY DEF StoreTyped
  <1>2. [cache EXCEPT !.status = "invalid"] \in Records
    BY <1>1 DEF Records
  <1> QED BY <1>1, <1>2 DEF Disabled

\* Actions that leave the stored credential alone.
LEMMA QuietTyped ==
  ASSUME TypeOK, NEW t \in Tasks,
         \/ Resolve(t) \/ Authorize(t) \/ Answered(t) \/ Manual(t) \/ Due(t)
         \/ Queue(t) \/ Exchange(t) \/ Dismiss(t) \/ Wake(t) \/ ExchangeFails(t)
         \/ Probe(t) \/ Cancel(t)
  PROVE  TypeOK'
  <1> USE Parts
  <1>1. StoreTyped'
    BY DEF Resolve, Authorize, Answered, Manual, Due, Queue, Exchange, Dismiss, Wake,
           ExchangeFails, Probe, Cancel, StoreTyped, stored, marks
  <1>2. RestTyped'
    BY DEF Resolve, Authorize, Answered, Manual, Due, Queue, Exchange, Dismiss, Wake,
           ExchangeFails, Probe, Cancel, Release, RestTyped, flight, history
  <1>3. LocalTyped'
    <2>1. cache' \in Records \cup {NoRecord}
      BY <1>1 DEF StoreTyped
    <2>2. cache.access \in 0..MaxTokens
      BY TokensOf DEF StoreTyped
    <2>3. CASE Resolve(t)
      <3>1. CASE Refresh(t, "read") /\ UNCHANGED sent
        BY <2>1, <3>1, RefreshTyped DEF LocalTyped, Reasons
      <3>2. CASE pc' = [pc EXCEPT ![t] = "resolved"] /\ Forget(t)
        BY <3>2, ForgetTyped DEF LocalTyped, PCs
      <3> QED BY <2>3, <3>1, <3>2 DEF Resolve
    <2>4. CASE Authorize(t)
      <3>1. CASE End(t)
        BY <3>1, EndTyped
      <3>2. CASE ~End(t)
        BY <2>4, <2>2, <3>2 DEF Authorize, LocalTyped, PCs
      <3> QED BY <3>1, <3>2
    <2>5. CASE Answered(t) \/ Cancel(t)
      BY <2>5, EndTyped DEF Answered, Cancel
    <2>6. CASE Manual(t) \/ Due(t)
      BY <2>1, <2>6, RefreshTyped DEF Manual, Due, LocalTyped, Reasons
    <2>7. CASE Queue(t) \/ Exchange(t)
      <3>1. why' \in [Tasks -> Reasons]
        BY <2>7 DEF Queue, Exchange, Underway, LocalTyped, Reasons
      <3>2. pc' \in [Tasks -> PCs]
        BY <2>7 DEF Queue, Exchange, LocalTyped, PCs
      <3>3. base' \in [Tasks -> Records \cup {NoRecord}]
        BY <2>7 DEF Queue, Exchange, LocalTyped, StoreTyped
      <3> QED BY <2>7, <3>1, <3>2, <3>3 DEF Queue, Exchange, LocalTyped
    <2>8. CASE Dismiss(t) \/ Wake(t) \/ ExchangeFails(t)
      BY <2>8, ReturnTyped DEF Dismiss, Wake, ExchangeFails
    <2>9. CASE Probe(t)
      BY <2>2, <2>9, StoreAssumption DEF Probe, LocalTyped, StoreTyped, PCs
    <2> QED BY <2>3, <2>4, <2>5, <2>6, <2>7, <2>8, <2>9
  <1> QED BY <1>1, <1>2, <1>3, PartsNext

\* Actions that may write it.
LEMMA WritingTyped ==
  ASSUME TypeOK, Working, NEW t \in Tasks,
         \/ Unauthorized(t) \/ Commit(t) \/ Cut(t) \/ ExchangeRejected(t)
         \/ Condemn(t) \/ ProbeEnds(t) \/ ProbeRefused(t)
  PROVE  TypeOK'
  <1> USE Parts
  <1>1. RestTyped'
    BY DEF Unauthorized, Commit, Cut, ExchangeRejected, Condemn, ProbeEnds, ProbeRefused,
           Release, RestTyped, flight, history
  <1>2. ASSUME UNCHANGED <<stored, marks>>
        PROVE  StoreTyped'
    BY <1>2 DEF StoreTyped, stored, marks
  <1>3. CASE Unauthorized(t)
    <2>1. StoreTyped'
      <3>1. Current401(t) \in BOOLEAN
        BY DEF Current401
      <3>2. rejA' \in 0..MaxTokens
        BY <1>3 DEF Unauthorized, StoreTyped, LocalTyped
      <3>3. Cache(db, Current401(t))
        BY <1>3 DEF Unauthorized
      <3>4. /\ cache' \in Records \cup {NoRecord}
            /\ age' \in {"fresh", "due", "expired"}
            /\ refused' \in BOOLEAN
            /\ dead' \in BOOLEAN
        BY <3>1, <3>3, CacheTyped DEF StoreTyped
      <3> QED BY <1>3, <3>2, <3>4 DEF Unauthorized, StoreTyped
    <2>2. CASE End(t)
      BY <1>1, <2>1, <2>2, EndTyped, PartsNext
    <2>3. CASE Refresh(t, "renew") /\ sent' = [sent EXCEPT ![t] = 0]
      <3>1. sent' \in [Tasks -> 0..MaxTokens]
        BY <2>3, StoreAssumption DEF LocalTyped
      <3>2. LocalTyped'
        BY <2>1, <2>3, <3>1, RefreshTyped DEF StoreTyped, Reasons
      <3> QED BY <1>1, <2>1, <3>2, PartsNext
    <2> QED BY <1>3, <2>2, <2>3 DEF Unauthorized
  <1>4. CASE Commit(t)
    <2>1. LocalTyped'
      BY <1>4, ReturnTyped DEF Commit
    <2>2. StoreTyped'
      <3>1. CASE Superseded(t)
        BY <1>2, <1>4, <3>1 DEF Commit
      <3>2. CASE ~Superseded(t)
        <4>1. Merged(t) \in Records
          BY <1>4, <3>2, MergedTyped DEF Commit, Superseded
        <4> QED BY <1>4, <3>2, <4>1, SaveTyped DEF Commit
      <3> QED BY <3>1, <3>2
    <2> QED BY <1>1, <2>1, <2>2, PartsNext
  <1>5. CASE Cut(t)
    <2>1. Merged(t) \in Records
      BY <1>5, MergedTyped DEF Cut, Superseded
    <2>2. StoreTyped'
      BY <1>5, <2>1 DEF Cut, StoreTyped, marks
    <2> QED BY <1>1, <1>5, <2>2, EndTyped, PartsNext DEF Cut
  <1>6. CASE ExchangeRejected(t)
    <2>1. base[t].renewal \in 0..MaxTokens
      BY TokensOf DEF LocalTyped
    <2>2. dead' \in BOOLEAN
      BY <1>6 DEF ExchangeRejected, StoreTyped
    <2>3. StoreTyped'
      BY <1>6, <2>1, <2>2 DEF ExchangeRejected, StoreTyped
    <2>4. LocalTyped'
      <3>1. CASE Return(t, cache, rejA)
        BY <3>1, ReturnTyped
      <3>2. CASE ~Return(t, cache, rejA)
        BY <1>6, <3>2 DEF ExchangeRejected, LocalTyped, PCs
      <3> QED BY <3>1, <3>2
    <2> QED BY <1>1, <2>3, <2>4, PartsNext
  <1>7. CASE Condemn(t)
    <2>1. LocalTyped'
      BY <1>7, ReturnTyped DEF Condemn
    <2>2. StoreTyped'
      <3>1. CASE Superseded(t)
        BY <1>2, <1>7, <3>1 DEF Condemn
      <3>2. CASE ~Superseded(t)
        BY <1>7, <3>2, DisabledTyped, SaveTyped DEF Condemn, Superseded
      <3> QED BY <3>1, <3>2
    <2> QED BY <1>1, <2>1, <2>2, PartsNext
  <1>8. CASE ProbeEnds(t) \/ ProbeRefused(t)
    <2>1. LocalTyped'
      BY <1>8, EndTyped DEF ProbeEnds, ProbeRefused
    <2>2. StoreTyped'
      <3>1. CASE cache = NoRecord
        BY <1>2, <1>8, <3>1 DEF ProbeEnds, ProbeRefused
      <3>2. CASE cache # NoRecord
        <4>1. Save(cache) \/ Save(Disabled(t))
          BY <1>8, <3>2 DEF ProbeEnds, ProbeRefused
        <4>2. cache \in Records \cup {NoRecord} /\ Disabled(t) \in Records
          BY <3>2, DisabledTyped DEF StoreTyped
        <4> QED BY <4>1, <4>2, SaveTyped
      <3> QED BY <3>1, <3>2
    <2> QED BY <1>1, <2>1, <2>2, PartsNext
  <1> QED BY <1>3, <1>4, <1>5, <1>6, <1>7, <1>8

LEMMA ServerTyped ==
  ASSUME TypeOK, Working, NEW t \in Tasks, NEW rotate \in BOOLEAN, ServerRotates(t, rotate)
  PROVE  TypeOK'
  <1> USE Parts
  <1>1. StoreTyped'
    BY DEF ServerRotates, StoreTyped, stored, marks
  <1>2. issued' \in Tokens /\ issued' \in 0..MaxTokens
    BY StoreAssumption DEF ServerRotates, RestTyped, Tokens
  <1>3. base[t].access \in Tokens /\ base[t].renewal \in Tokens
    <2>1. IsOauth(base[t])
      BY DEF ServerRotates, Working, Busy
    <2> QED BY <2>1, TokensOf DEF LocalTyped, IsOauth
  <1>4. LocalTyped'
    <2>1. RenewalOf(t, rotate, issued') \in 0..MaxTokens
      BY <1>2, <1>3 DEF RenewalOf, Tokens
    <2> QED BY <1>2, <2>1 DEF ServerRotates, LocalTyped, PCs
  <1>5. RestTyped'
    <2>1. origin[base[t].access] \in 0..MaxTokens
      BY <1>3 DEF RestTyped
    <2>2. origin' \in [Tokens -> 0..MaxTokens]
      BY <2>1 DEF ServerRotates, RestTyped
    <2> QED BY <1>2, <2>2 DEF ServerRotates, RestTyped, flight
  <1> QED BY <1>1, <1>4, <1>5, PartsNext

LEMMA TaskTyped ==
  ASSUME TypeOK, Working, NEW t \in Tasks, Step(t)
  PROVE  TypeOK'
  BY QuietTyped, WritingTyped, ServerTyped DEF Step

\* What a login or an import writes.
Imported(kind) ==
    [kind |-> kind, access |-> issued', renewal |-> issued',
     status |-> IF (IsOauth(db) /\ kind = "oauth") \/ db = NoRecord
                THEN "active" ELSE db.status,
     auto |-> kind = "oauth" /\ ((IsOauth(db) /\ kind = "oauth") => db.auto)]

LEMMA ImportedTyped ==
  ASSUME TypeOK, NEW kind \in ImportKinds, Import(kind)
  PROVE  Imported(kind) \in Records /\ Save(Imported(kind)) /\ issued' \in Tokens
  <1>1. issued' \in Tokens
    BY StoreAssumption DEF Import, TypeOK, Tokens
  <1>2. db.status \in {"active", "invalid"} /\ db.auto \in BOOLEAN
    BY TokensOf DEF TypeOK
  <1>3. kind \in {"oauth", "agent"}
    BY StoreAssumption
  <1>4. (kind = "oauth" /\ ((IsOauth(db) /\ kind = "oauth") => db.auto)) \in BOOLEAN
    OBVIOUS
  <1>5. Imported(kind) \in Records
    BY <1>1, <1>2, <1>3, <1>4 DEF Imported, Records
  <1>6. Save(Imported(kind))
    BY DEF Import, Imported
  <1> QED BY <1>1, <1>5, <1>6

LEMMA UserTyped ==
  ASSUME TypeOK,
         \/ \E b \in Settings : SetAutoRefresh(b)
         \/ \E kind \in ImportKinds : Import(kind)
         \/ Delete \/ Reload \/ Ages \/ CooldownEnds \/ Restart
  PROVE  TypeOK'
  <1> USE Parts
  <1>1. ASSUME NEW b \in Settings, SetAutoRefresh(b)
        PROVE  TypeOK'
    <2>1. cache \in Records
      BY <1>1 DEF SetAutoRefresh, IsOauth, StoreTyped, NoRecord
    <2>2. b \in BOOLEAN
      BY StoreAssumption
    <2>3. [cache EXCEPT !.auto = b] \in Records
      BY <2>1, <2>2 DEF Records
    <2>4. StoreTyped'
      BY <1>1, <2>3, SaveTyped DEF SetAutoRefresh
    <2> QED BY <1>1, <2>4, PartsNext DEF SetAutoRefresh, LocalTyped, RestTyped, local, flight
  <1>2. ASSUME NEW kind \in ImportKinds, Import(kind)
        PROVE  TypeOK'
    <2>1. StoreTyped' /\ issued' \in Tokens
      BY <1>2, ImportedTyped, SaveTyped
    <2>2. login' \in [kind : {"oauth", "agent", "none"}, token : 0..MaxTokens, raced : BOOLEAN]
      BY <1>2, <2>1, StoreAssumption DEF Import, Tokens, Renewing
    <2>3. origin' \in [Tokens -> 0..MaxTokens]
      BY <1>2, <2>1 DEF Import, RestTyped, Tokens
    <2>4. RestTyped'
      BY <1>2, <2>1, <2>2, <2>3 DEF Import, RestTyped
    <2> QED BY <1>2, <2>1, <2>4, PartsNext DEF Import, LocalTyped, local
  <1>3. CASE Delete
    <2>1. StoreTyped'
      <3>1. NoRecord \in Records \cup {NoRecord} /\ Cache(NoRecord, FALSE)
        BY <1>3 DEF Delete
      <3>2. /\ cache' \in Records \cup {NoRecord}
            /\ age' \in {"fresh", "due", "expired"}
            /\ refused' \in BOOLEAN
            /\ dead' \in BOOLEAN
        BY <3>1, CacheTyped
      <3> QED BY <1>3, <3>2, StoreAssumption DEF Delete, StoreTyped
    <2>2. login' \in [kind : {"oauth", "agent", "none"}, token : 0..MaxTokens, raced : BOOLEAN]
      BY <1>3, StoreAssumption DEF Delete
    <2> QED BY <1>3, <2>1, <2>2, PartsNext DEF Delete, LocalTyped, RestTyped, local, flight
  <1>4. CASE Reload
    <2>1. StoreTyped'
      BY <1>4, CacheTyped DEF Reload, StoreTyped, marks
    <2> QED BY <1>4, <2>1, PartsNext DEF Reload, LocalTyped, RestTyped, local, flight, history
  <1>5. CASE Ages
    <2>1. StoreTyped'
      BY <1>5 DEF Ages, StoreTyped, marks
    <2> QED BY <1>5, <2>1, PartsNext DEF Ages, LocalTyped, RestTyped, local, flight, history
  <1>6. CASE CooldownEnds
    BY <1>6, PartsNext
    DEF CooldownEnds, StoreTyped, LocalTyped, RestTyped, stored, marks, local, history
  <1>7. CASE Restart
    <2>1. refused' \in BOOLEAN /\ dead' \in BOOLEAN
      BY <1>7 DEF Restart
    <2>2. StoreTyped'
      BY <1>7, <2>1, StoreAssumption DEF Restart, StoreTyped
    <2>3. [access |-> 0, renewal |-> 0] \in [access : 0..MaxTokens, renewal : 0..MaxTokens]
      BY StoreAssumption
    <2>4. LocalTyped'
      BY <1>7, <2>3, StoreAssumption DEF Restart, LocalTyped, PCs, Reasons
    <2>5. RestTyped'
      BY <1>7 DEF Restart, RestTyped, history
    <2> QED BY <2>2, <2>4, <2>5, PartsNext
  <1> QED BY <1>1, <1>2, <1>3, <1>4, <1>5, <1>6, <1>7

LEMMA TypeKept ==
  ASSUME TypeOK, Working, [Next]_vars
  PROVE  TypeOK'
  <1>1. CASE UNCHANGED vars
    BY <1>1 DEF TypeOK, vars, stored, marks, flight, local, history
  <1>2. CASE Next
    BY <1>2, TaskTyped, UserTyped DEF Next
  <1> QED BY <1>1, <1>2

(***************************************************************************)
(* The tasks.  Most steps take no task into an exchange or on in one.      *)
(***************************************************************************)
Steady ==
    \A o \in Tasks : pc'[o] \in Busy =>
        /\ pc[o] \in Busy /\ permit' = o
        /\ pc'[o] # "condemn" => pc'[o] = pc[o]
        /\ base'[o] = base[o] /\ got'[o] = got[o]

LEMMA InitTask == Init => TaskInv
  BY StoreAssumption DEF Init, TaskInv, KnownHeld, Working, Calm, Busy, NoRecord

\* The fields of the stored records, once and for all.
LEMMA StoredFields ==
  ASSUME TypeOK
  PROVE  \A r \in {cache, db} :
            /\ r.access \in 0..MaxTokens /\ r.renewal \in 0..MaxTokens
            /\ (r = NoRecord) <=> (r.kind = "none")
            /\ r.kind \in {"oauth", "agent", "none"}
            /\ r.kind # "none" => r.access \in Tokens /\ r.renewal \in Tokens
  BY TokensOf DEF TypeOK

\* What an ending, returning or refreshing task holds was issued.
LEMMA HeldAfter ==
  ASSUME TypeOK, KnownHeld, NEW t \in Tasks, issued' = issued,
         base'[t] \in {base[t], NoRecord, cache, cache'},
         got'[t] \in {got[t], [access |-> 0, renewal |-> 0]},
         \A o \in Tasks \ {t} : base'[o] = base[o] /\ got'[o] = got[o],
         cache.access <= issued, cache.renewal <= issued,
         cache'.access <= issued, cache'.renewal <= issued
  PROVE  KnownHeld'
  <1>1. issued >= 0
    BY StoreAssumption DEF TypeOK, Tokens
  <1> QED BY <1>1 DEF KnownHeld, NoRecord

LEMMA SteadyTask ==
  ASSUME IInv, NEW t \in Tasks, Step(t), ~Exchange(t),
         \A rotate \in BOOLEAN : ~ServerRotates(t, rotate)
  PROVE  Steady
  <1>1. pc \in [Tasks -> PCs] /\ base \in [Tasks -> Records \cup {NoRecord}]
        /\ got \in [Tasks -> [access : 0..MaxTokens, renewal : 0..MaxTokens]]
    BY DEF IInv, TypeOK
  <1>2. \A o \in Tasks : pc[o] \in Busy => permit = o
    BY DEF IInv, TaskInv, Working
  <1>3. CASE Resolve(t) \/ Manual(t) \/ Due(t) \/ Unauthorized(t)
    BY <1>1, <1>2, <1>3
    DEF Resolve, Manual, Due, Unauthorized, Refresh, Forget, End, Steady, Busy, flight, PCs
  <1>4. CASE Authorize(t) \/ Answered(t) \/ Queue(t) \/ Probe(t) \/ ProbeEnds(t) \/ ProbeRefused(t)
    BY <1>1, <1>2, <1>4
    DEF Authorize, Answered, Queue, Probe, ProbeEnds, ProbeRefused, Forget, End, Steady, Busy, flight
  <1>5. CASE Dismiss(t) \/ Wake(t)
    BY <1>1, <1>2, <1>5 DEF Dismiss, Wake, Return, Forget, Steady, Busy, flight
  <1>6. CASE Commit(t) \/ ExchangeFails(t) \/ Condemn(t) \/ Cut(t)
    <2>1. pc[t] \in Busy
      BY <1>6 DEF Commit, ExchangeFails, Condemn, Cut, Busy
    <2>2. \A o \in Tasks \ {t} : pc[o] \notin Busy
      BY <1>2, <2>1
    <2>3. pc'[t] \notin Busy /\ \A o \in Tasks \ {t} : pc'[o] = pc[o]
      BY <1>1, <1>6 DEF Commit, ExchangeFails, Condemn, Cut, Return, End, Busy
    <2> QED BY <2>2, <2>3 DEF Steady
  <1>7. CASE ExchangeRejected(t)
    <2>1. pc[t] \in Busy
      BY <1>7 DEF ExchangeRejected, Busy
    <2>2. \A o \in Tasks \ {t} : pc[o] \notin Busy
      BY <1>2, <2>1
    <2>3. \A o \in Tasks \ {t} : pc'[o] = pc[o]
      BY <1>1, <1>7 DEF ExchangeRejected, Return
    <2>4. pc'[t] \in Busy => pc'[t] = "condemn" /\ UNCHANGED <<base, got, permit>>
      BY <1>1, <1>7 DEF ExchangeRejected, Return, Busy
    <2> QED BY <1>2, <2>1, <2>2, <2>3, <2>4 DEF Steady
  <1>8. CASE Cancel(t)
    <2>1. pc'[t] \notin Busy /\ \A o \in Tasks \ {t} : pc'[o] = pc[o]
          /\ base'[o] = base[o] /\ got'[o] = got[o]
      BY <1>1, <1>8 DEF Cancel, End, Forget, Busy
    <2> QED BY <1>2, <1>8, <2>1 DEF Steady, Cancel
  <1> QED BY <1>3, <1>4, <1>5, <1>6, <1>7, <1>8 DEF Step

LEMMA SteadyWorking ==
  ASSUME IInv, Steady, \A k \in Tokens : k <= issued => origin'[k] = origin[k]
  PROVE  Working'
  <1> SUFFICES ASSUME NEW o \in Tasks, pc'[o] \in Busy
               PROVE  /\ permit' = o /\ IsOauth(base'[o])
                      /\ pc'[o] = "rotated" =>
                            /\ got'[o].access > 0 /\ got'[o].renewal > 0
                            /\ origin'[got'[o].access] = origin'[base'[o].access]
    BY DEF Working, IsOauth, Busy
  <1>1. pc[o] \in Busy /\ permit' = o /\ base'[o] = base[o] /\ got'[o] = got[o]
    BY DEF Steady
  <1>2. IsOauth(base[o])
    BY <1>1 DEF IInv, TaskInv, Working
  <1>3. ASSUME pc'[o] = "rotated"
        PROVE  /\ got[o].access > 0 /\ got[o].renewal > 0
               /\ origin'[got[o].access] = origin'[base[o].access]
    <2>1. pc[o] = "rotated"
      BY <1>3 DEF Steady, Busy
    <2>2. /\ got[o].access > 0 /\ got[o].renewal > 0
          /\ origin[got[o].access] = origin[base[o].access]
      BY <2>1 DEF IInv, TaskInv, Working
    <2>3. got[o].access \in Tokens /\ base[o].access \in Tokens
      BY <1>2, <2>2, TokensOf, StoreAssumption DEF IInv, TypeOK, Tokens, IsOauth
    <2>4. got[o].access <= issued /\ base[o].access <= issued
      BY DEF IInv, TaskInv, KnownHeld
    <2> QED BY <2>2, <2>3, <2>4
  <1> QED BY <1>1, <1>2, <1>3 DEF IsOauth

(***************************************************************************)
(* The stored credential: one lemma for each way to write it.              *)
(***************************************************************************)
LEMMA InitStore == Init => StoreInv
  <1> SUFFICES ASSUME Init
               PROVE  StoreInv
    OBVIOUS
  <1>1. cache = First /\ db = First /\ origin[1] = 1 /\ login = [kind |-> "oauth", token |-> 1, raced |-> FALSE]
        /\ issued = 1 /\ wanted = "on"
    BY StoreAssumption DEF Init, Tokens
  <1>2. First.kind = "oauth" /\ First.access = 1 /\ First.renewal = 1 /\ First.auto = TRUE
        /\ First # NoRecord
    BY DEF First, NoRecord
  <1>3. KnownStored /\ Apart /\ Latest
    BY <1>1, <1>2 DEF KnownStored, Apart, Latest, IsOauth
  <1>4. Alike
    BY <1>1, <1>2 DEF Alike
  <1>5. Chosen
    <2>1. First.auto = (wanted = "on")
      BY <1>1, <1>2
    <2> QED BY <1>1, <2>1 DEF Chosen
  <1>6. Rejections
    BY DEF Init, Rejections
  <1> QED BY <1>3, <1>4, <1>5, <1>6 DEF StoreInv

\* Nothing is written.
LEMMA StoreSame ==
  ASSUME IInv, Steady, UNCHANGED <<db, cache, rejA, rejR, refused, dead, issued, login, origin, wanted>>
  PROVE  StoreInv'
  <1>1. StoreInv
    BY DEF IInv
  <1>2. KnownStored' /\ Alike' /\ Latest' /\ Chosen'
    BY <1>1 DEF StoreInv, KnownStored, Alike, Latest, Chosen, IsOauth
  <1>3. Apart'
    BY <1>1 DEF StoreInv, Apart, Steady, IsOauth, Busy
  <1>4. Rejections'
    BY <1>1 DEF StoreInv, Rejections, Steady, IsOauth, Busy
  <1> QED BY <1>2, <1>3, <1>4 DEF StoreInv

\* The row is read again.
LEMMA StoreReloaded ==
  ASSUME IInv, Steady, db' = db, cache' = db, UNCHANGED <<issued, login, origin, wanted>>,
         dead' => dead /\ db.renewal = cache.renewal /\ rejR' = rejR,
         refused' => \/ refused /\ db.access = cache.access /\ rejA' = rejA
                     \/ IsOauth(db) /\ rejA' = db.access
  PROVE  StoreInv'
  <1>1. StoreInv
    BY DEF IInv
  <1>2. KnownStored'
    BY <1>1 DEF StoreInv, KnownStored
  <1>3. Alike'
    BY <1>1 DEF StoreInv, Alike
  <1>4. Latest' /\ Chosen'
    BY <1>1 DEF StoreInv, Latest, Chosen, IsOauth
  <1>5. Apart'
    BY <1>1 DEF StoreInv, Apart, Steady, IsOauth, Busy
  <1>6. IsOauth(cache) => IsOauth(db)
    BY <1>1, StoredFields DEF IInv, StoreInv, Alike, IsOauth
  <1>7. Rejections'
    BY <1>1, <1>6 DEF StoreInv, Rejections, Steady, IsOauth, Busy
  <1> QED BY <1>2, <1>3, <1>4, <1>5, <1>7 DEF StoreInv

\* The cached credential is written again, with another status or setting.
LEMMA StoreTouched ==
  ASSUME IInv, Steady, NEW r \in Records, Save(r), UNCHANGED <<issued, login, origin>>,
         cache # NoRecord, r.kind = cache.kind, r.access = cache.access, r.renewal = cache.renewal,
         IsOauth(r) /\ wanted' # "any" => r.auto = (wanted' = "on"),
         r.kind = "agent" => wanted' = "any"
  PROVE  StoreInv'
  <1>1. StoreInv
    BY DEF IInv
  <1>2. db' = r /\ cache' = r
    BY DEF Save, Cache
  <1>3. KnownStored'
    BY <1>1, <1>2 DEF StoreInv, KnownStored
  <1>4. Alike'
    BY <1>2 DEF Alike
  <1>5. Chosen'
    BY <1>2 DEF Chosen, IsOauth
  <1>6. Latest'
    BY <1>1, <1>2 DEF StoreInv, Latest, IsOauth
  <1>7. Apart'
    BY <1>1, <1>2 DEF StoreInv, Apart, Steady, IsOauth, Busy
  <1>8. dead' = dead /\ refused' = refused
    BY DEF Save, Cache, IInv, TypeOK
  <1>9. dead => rejR' = rejR
    BY <1>1 DEF Save, StoreInv, Rejections, IsOauth
  <1>10. refused => rejA' = rejA
    BY <1>1 DEF Save, StoreInv, Rejections, IsOauth
  <1>11. Rejections'
    BY <1>1, <1>2, <1>8, <1>9, <1>10 DEF StoreInv, Rejections, Steady, IsOauth, Busy
  <1> QED BY <1>3, <1>4, <1>5, <1>6, <1>7, <1>11 DEF StoreInv

\* What the renewed credential is, whoever has replaced its predecessor.
LEMMA MergedFields ==
  ASSUME IInv, NEW t \in Tasks, pc[t] = "rotated", ~Superseded(t)
  PROVE  /\ Merged(t) \in Records /\ IsOauth(Merged(t))
         /\ Merged(t).access = got[t].access /\ Merged(t).renewal = got[t].renewal
         /\ got[t].access <= issued /\ got[t].renewal <= issued
         /\ Merged(t).status = cache.status
         /\ login.kind # "none" /\ (login.kind = "agent" => login.raced)
         /\ login.kind = "oauth" => origin[got[t].access] = login.token
         /\ wanted # "any" => Merged(t).auto = (wanted = "on")
  <1>1. Merged(t) \in Records
    BY MergedTyped, Parts DEF IInv, TaskInv, Superseded
  <1>2. IsOauth(base[t]) /\ origin[got[t].access] = origin[base[t].access]
    BY DEF IInv, TaskInv, Working, Busy
  <1>3. IsOauth(cache) => cache.access = base[t].access
    BY <1>2 DEF Superseded, Refreshed
  <1>4. login.kind # "none" /\ (login.kind = "agent" => login.raced)
    BY DEF IInv, StoreInv, Latest, Superseded, TaskInv, Calm, Renewing
  <1>5. login.kind = "oauth" => origin[got[t].access] = login.token
    BY <1>2, <1>3 DEF IInv, StoreInv, Latest
  <1>6. wanted # "any" => IsOauth(cache)
    BY StoredFields DEF IInv, StoreInv, Alike, IsOauth, Superseded
  <1>7. wanted # "any" => Merged(t).auto = (wanted = "on")
    BY <1>6 DEF IInv, StoreInv, Chosen, Merged, Setting
  <1>8. got[t].access <= issued /\ got[t].renewal <= issued
    BY DEF IInv, TaskInv, KnownHeld
  <1> QED BY <1>1, <1>4, <1>5, <1>7, <1>8 DEF Merged, IsOauth

\* A renewal is stored.
LEMMA StoreMerged ==
  ASSUME IInv, Steady, NEW t \in Tasks, pc[t] = "rotated", ~Superseded(t),
         Save(Merged(t)), UNCHANGED <<issued, login, origin, wanted>>
  PROVE  StoreInv'
  <1>1. StoreInv
    BY DEF IInv
  <1>2. db' = Merged(t) /\ cache' = Merged(t)
    BY DEF Save, Cache
  <1>3. KnownStored'
    BY <1>1, <1>2, MergedFields DEF StoreInv, KnownStored
  <1>4. Alike' /\ Chosen'
    BY <1>2, MergedFields DEF Alike, Chosen, IsOauth
  <1>5. Latest'
    BY <1>2, MergedFields DEF Latest, IsOauth
  <1>6. Apart'
    BY <1>2, MergedFields DEF Apart, IsOauth
  <1>7. dead' => dead /\ got[t].renewal = cache.renewal /\ rejR' = rejR
    BY <1>1, MergedFields DEF Save, Cache, StoreInv, Rejections
  <1>8. refused' => refused /\ got[t].access = cache.access /\ rejA' = rejA
    BY <1>1, MergedFields DEF Save, Cache, StoreInv, Rejections
  <1>9. Rejections'
    BY <1>1, <1>2, <1>7, <1>8, MergedFields DEF StoreInv, Rejections, Steady, IsOauth, Busy
  <1> QED BY <1>3, <1>4, <1>5, <1>6, <1>9 DEF StoreInv

\* A renewal is cut short: the row is ahead of the cache.
LEMMA StoreCut ==
  ASSUME IInv, Steady, NEW t \in Tasks, Cut(t)
  PROVE  StoreInv'
  <1>1. StoreInv /\ pc[t] = "rotated" /\ ~Superseded(t)
    BY DEF IInv, Cut
  <1>2. /\ db' = Merged(t)
        /\ UNCHANGED <<cache, refused, dead, rejA, rejR, issued, login, origin, wanted>>
    BY DEF Cut, marks, history
  <1>3. KnownStored'
    BY <1>1, <1>2, MergedFields DEF StoreInv, KnownStored
  <1>4. Alike'
    BY <1>1, <1>2, MergedFields DEF StoreInv, Alike, IsOauth, Superseded, NoRecord
  <1>5. Chosen'
    BY <1>1, <1>2, MergedFields DEF StoreInv, Chosen, IsOauth
  <1>6. Latest'
    BY <1>1, <1>2, MergedFields DEF StoreInv, Latest, IsOauth
  <1>7. Apart'
    <2>1. cache.kind = "agent" => cache.renewal # got[t].renewal /\ cache.access # got[t].access
      BY <1>1 DEF StoreInv, Apart
    <2> QED BY <1>1, <1>2, <2>1, MergedFields DEF StoreInv, Apart, Steady, IsOauth, Busy
  <1>8. Rejections'
    BY <1>1, <1>2 DEF StoreInv, Rejections, Steady, IsOauth, Busy
  <1> QED BY <1>3, <1>4, <1>5, <1>6, <1>7, <1>8 DEF StoreInv

\* The server rejects a refresh token.
LEMMA StoreRejected ==
  ASSUME IInv, Steady, NEW t \in Tasks, ExchangeRejected(t)
  PROVE  StoreInv'
  <1>1. CASE Superseded(t)
    BY <1>1, StoreSame DEF ExchangeRejected, history
  <1>2. CASE ~Superseded(t)
    <2>1. StoreInv
      BY DEF IInv
    <2>2. /\ UNCHANGED <<db, cache, refused, rejA, issued, login, origin, wanted>>
          /\ rejR' = base[t].renewal
          /\ dead' = (dead \/ cache.renewal = base[t].renewal)
      BY <1>2 DEF ExchangeRejected, history
    <2>3. KnownStored' /\ Alike' /\ Latest' /\ Chosen'
      BY <2>1, <2>2 DEF StoreInv, KnownStored, Alike, Latest, Chosen, IsOauth
    <2>4. Apart'
      BY <2>1, <2>2 DEF StoreInv, Apart, Steady, IsOauth, Busy
    <2>5. IsOauth(base[t]) /\ pc[t] = "exchanging"
      BY DEF ExchangeRejected, IInv, TaskInv, Working, Busy
    <2>6. ~dead
      BY <1>2, <2>1, <2>5 DEF StoreInv, Rejections, Superseded, Refreshed
    <2>7. cache.renewal = base[t].renewal => IsOauth(cache)
      BY <1>2, <2>1, <2>5, StoredFields
      DEF IInv, StoreInv, Apart, Busy, IsOauth, Superseded
    <2>8. \A o \in Tasks : pc'[o] # "exchanging"
      <3>1. \A o \in Tasks \ {t} : pc[o] \notin Busy
        BY <2>5 DEF IInv, TaskInv, Working, Busy
      <3>2. pc'[t] # "exchanging"
        BY <1>2 DEF ExchangeRejected, Return, IInv, TypeOK
      <3> QED BY <3>1, <3>2 DEF Steady, Busy
    <2>9. Rejections'
      BY <2>1, <2>2, <2>6, <2>7, <2>8 DEF StoreInv, Rejections, IsOauth
    <2> QED BY <2>3, <2>4, <2>9 DEF StoreInv
  <1> QED BY <1>1, <1>2

\* A login or an import: its tokens are none that is known.
LEMMA StoreImported ==
  ASSUME IInv, Steady, NEW kind \in ImportKinds, Import(kind)
  PROVE  StoreInv'
  <1>1. StoreInv /\ KnownHeld
    BY DEF IInv, TaskInv
  <1>2. /\ Save(Imported(kind)) /\ Imported(kind) \in Records /\ issued' = issued + 1
        /\ issued' \in Tokens
        /\ login' = [kind |-> kind, token |-> issued', raced |-> Renewing]
        /\ origin' = [origin EXCEPT ![issued'] = issued']
        /\ wanted' = IF kind = "agent" THEN "any"
                     ELSE IF IsOauth(db) /\ kind = "oauth" THEN wanted ELSE "on"
    BY ImportedTyped DEF IInv, Import
  <1>3. kind \in {"oauth", "agent"}
    BY StoreAssumption
  <1>4. /\ Imported(kind).kind = kind
        /\ Imported(kind).access = issued' /\ Imported(kind).renewal = issued'
        /\ Imported(kind).auto = (kind = "oauth" /\ ((IsOauth(db) /\ kind = "oauth") => db.auto))
    BY DEF Imported
  <1>5. db' = Imported(kind) /\ cache' = Imported(kind)
    BY <1>2 DEF Save, Cache
  <1>6. issued \in Nat /\ issued' \in Nat /\ issued < issued'
    BY <1>2 DEF IInv, TypeOK, Tokens
  <1>7. KnownStored'
    BY <1>2, <1>4, <1>5, <1>6 DEF KnownStored
  <1>8. Alike'
    BY <1>2, <1>4, <1>5 DEF Alike
  <1>9. Latest'
    <2>1. origin'[issued'] = issued'
      BY <1>2 DEF IInv, TypeOK
    <2> QED BY <1>2, <1>3, <1>4, <1>5, <2>1 DEF Latest, IsOauth
  <1>10. Chosen'
    <2>1. CASE kind = "agent"
      BY <1>2, <2>1 DEF Chosen
    <2>2. CASE kind = "oauth" /\ ~IsOauth(db)
      BY <1>2, <1>4, <1>5, <2>2 DEF Chosen
    <2>3. CASE kind = "oauth" /\ IsOauth(db)
      <3>1. wanted # "any" => db.auto = (wanted = "on")
        BY <1>1, <2>3 DEF StoreInv, Chosen
      <3>2. db.auto \in BOOLEAN
        BY TokensOf DEF IInv, TypeOK
      <3>3. Imported(kind).auto = db.auto
        BY <1>4, <2>3, <3>2
      <3> QED BY <1>2, <1>5, <2>3, <3>1, <3>3 DEF Chosen
    <2> QED BY <1>3, <2>1, <2>2, <2>3
  <1>11. Apart'
    <2>1. ASSUME NEW o \in Tasks, pc'[o] \in Busy
          PROVE  /\ issued' # base'[o].renewal /\ issued' # base'[o].access
                 /\ issued' # got'[o].renewal /\ issued' # got'[o].access
      <3>1. base'[o] = base[o] /\ got'[o] = got[o]
        BY <2>1 DEF Steady
      <3>2. /\ base[o].access \in 0..MaxTokens /\ base[o].renewal \in 0..MaxTokens
            /\ got[o].access \in 0..MaxTokens /\ got[o].renewal \in 0..MaxTokens
        BY TokensOf DEF IInv, TypeOK
      <3> QED BY <1>1, <1>6, <3>1, <3>2 DEF KnownHeld
    <2> QED BY <1>4, <1>5, <2>1 DEF Apart, IsOauth, Busy
  <1>12. ~dead' /\ ~refused'
    <2>1. cache.access # issued' /\ cache.renewal # issued'
      BY <1>1, <1>6, StoredFields DEF IInv, StoreInv, KnownStored
    <2> QED BY <1>2, <1>4, <2>1 DEF Save, Cache
  <1>13. Rejections'
    BY <1>12 DEF Rejections
  <1> QED BY <1>7, <1>8, <1>9, <1>10, <1>11, <1>13 DEF StoreInv

LEMMA StoreDeleted ==
  ASSUME IInv, Delete
  PROVE  StoreInv'
  <1>1. db' = NoRecord /\ cache' = NoRecord /\ login' = [kind |-> "none", token |-> 0, raced |-> FALSE]
        /\ issued' = issued
    BY DEF Delete, Cache
  <1>2. issued \in Nat
    BY DEF IInv, TypeOK, Tokens
  <1>3. KnownStored'
    BY <1>1, <1>2 DEF KnownStored, NoRecord
  <1>4. Alike' /\ Latest' /\ Chosen' /\ Apart'
    BY <1>1 DEF Alike, Latest, Chosen, Apart, NoRecord, IsOauth
  <1>5. ~dead' /\ ~refused'
    <2>1. dead => cache.renewal # 0
      BY StoredFields DEF IInv, StoreInv, Rejections, IsOauth, Tokens
    <2>2. refused => cache.access # 0
      BY StoredFields DEF IInv, StoreInv, Rejections, IsOauth, Tokens
    <2> QED BY <2>1, <2>2 DEF Delete, Cache, NoRecord
  <1>6. Rejections'
    BY <1>5 DEF Rejections
  <1> QED BY <1>3, <1>4, <1>6 DEF StoreInv

(***************************************************************************)
(* Every step keeps the invariant.                                         *)
(***************************************************************************)
LEMMA SteadyCalm ==
  ASSUME IInv, Steady, login' = login \/ login'.kind # "agent"
  PROVE  Calm'
  <1>1. Renewing' => Renewing
    BY DEF Renewing, Steady, Busy
  <1> QED BY <1>1 DEF Calm, IInv, TaskInv

LEMMA StepKept ==
  ASSUME IInv, TypeOK', Steady, KnownHeld', StoreInv', UNCHANGED origin,
         login' = login \/ login'.kind # "agent"
  PROVE  IInv'
  BY SteadyWorking, SteadyCalm DEF IInv, TaskInv

LEMMA QuietKept ==
  ASSUME IInv, NEW t \in Tasks,
         \/ Resolve(t) \/ Authorize(t) \/ Answered(t) \/ Manual(t) \/ Due(t)
         \/ Queue(t) \/ Dismiss(t) \/ Wake(t) \/ ExchangeFails(t)
         \/ Probe(t) \/ Cancel(t)
  PROVE  IInv'
  <1>1. pc \in [Tasks -> PCs] /\ base \in [Tasks -> Records \cup {NoRecord}]
        /\ got \in [Tasks -> [access : 0..MaxTokens, renewal : 0..MaxTokens]]
    BY DEF IInv, TypeOK
  <1>2. TypeOK'
    BY QuietTyped DEF IInv
  <1>3. UNCHANGED <<db, cache, rejA, rejR, refused, dead, issued, login, origin, wanted>>
    BY DEF Resolve, Authorize, Answered, Manual, Due, Queue, Dismiss, Wake, ExchangeFails,
           Probe, Cancel, stored, marks, history
  <1>4. Steady
    <2>1. ~Exchange(t) /\ \A rotate \in BOOLEAN : ~ServerRotates(t, rotate)
      BY <1>1, <1>3 DEF Resolve, Authorize, Answered, Manual, Due, Queue, Dismiss, Wake,
                        ExchangeFails, Probe, Cancel, Return, End, Exchange, ServerRotates, Refresh,
                        IInv, TypeOK, Tokens
    <2> QED BY <2>1, SteadyTask DEF Step
  <1>5. /\ base'[t] \in {base[t], NoRecord, cache, cache'}
        /\ got'[t] \in {got[t], [access |-> 0, renewal |-> 0]}
        /\ \A o \in Tasks \ {t} : base'[o] = base[o] /\ got'[o] = got[o]
    BY <1>1 DEF Resolve, Authorize, Answered, Manual, Due, Queue, Dismiss, Wake, ExchangeFails,
                Probe, Cancel, Refresh, Return, End, Forget
  <1>6. KnownHeld'
    BY <1>3, <1>5, HeldAfter DEF IInv, TaskInv, StoreInv, KnownStored
  <1> QED BY <1>2, <1>3, <1>4, <1>6, StoreSame, StepKept

LEMMA WritingKept ==
  ASSUME IInv, NEW t \in Tasks,
         \/ Unauthorized(t) \/ Commit(t) \/ Cut(t) \/ ExchangeRejected(t)
         \/ Condemn(t) \/ ProbeEnds(t) \/ ProbeRefused(t)
  PROVE  IInv'
  <1>1. pc \in [Tasks -> PCs] /\ base \in [Tasks -> Records \cup {NoRecord}]
        /\ got \in [Tasks -> [access : 0..MaxTokens, renewal : 0..MaxTokens]]
    BY DEF IInv, TypeOK
  <1>2. TypeOK'
    BY WritingTyped DEF IInv, TaskInv
  <1>3. UNCHANGED <<issued, login, origin, wanted>>
    BY DEF Unauthorized, Commit, Cut, ExchangeRejected, Condemn, ProbeEnds, ProbeRefused, history
  <1>4. Steady
    <2>1. ~Exchange(t) /\ \A rotate \in BOOLEAN : ~ServerRotates(t, rotate)
      BY <1>1, <1>3 DEF Unauthorized, Commit, Cut, ExchangeRejected, Condemn, ProbeEnds,
                        ProbeRefused, Exchange, ServerRotates, IInv, TypeOK, Tokens
    <2> QED BY <2>1, SteadyTask DEF Step
  <1>5. StoreInv'
    <2>1. CASE Unauthorized(t)
      <3>1. /\ db' = db /\ cache' = db /\ rejR' = rejR
            /\ dead' = (dead /\ db.renewal = cache.renewal)
            /\ refused' = (Current401(t) \/ (refused /\ db.access = cache.access))
            /\ rejA' = IF Current401(t) THEN sent[t] ELSE rejA
        BY <2>1 DEF Unauthorized, Cache
      <3> QED BY <1>3, <1>4, <3>1, StoreReloaded DEF Current401
    <2>2. CASE Commit(t)
      <3>1. CASE Superseded(t)
        BY <1>3, <1>4, <2>2, <3>1, StoreSame DEF Commit, stored, marks
      <3>2. CASE ~Superseded(t)
        BY <1>3, <1>4, <2>2, <3>2, StoreMerged DEF Commit
      <3> QED BY <3>1, <3>2
    <2>3. CASE Cut(t)
      BY <1>4, <2>3, StoreCut
    <2>4. CASE ExchangeRejected(t)
      BY <1>4, <2>4, StoreRejected
    <2>5. CASE Condemn(t) \/ ProbeEnds(t) \/ ProbeRefused(t)
      <3>1. CASE UNCHANGED <<stored, marks>>
        BY <1>3, <1>4, <3>1, StoreSame DEF stored, marks
      <3>2. ASSUME NEW r \in {cache, Disabled(t)}, Save(r), cache # NoRecord
            PROVE  StoreInv'
        <4>1. cache \in Records /\ Disabled(t) \in Records
          BY <3>2, DisabledTyped, Parts DEF IInv, StoreTyped
        <4>2. r.kind = cache.kind /\ r.access = cache.access /\ r.renewal = cache.renewal
              /\ r.auto = cache.auto
          BY <4>1 DEF Disabled, Records
        <4>3. IsOauth(cache) /\ wanted # "any" => cache.auto = (wanted = "on")
          BY DEF IInv, StoreInv, Chosen
        <4>4. cache.kind = "agent" => wanted = "any"
          BY DEF IInv, StoreInv, Alike
        <4> QED BY <1>3, <1>4, <3>2, <4>1, <4>2, <4>3, <4>4, StoreTouched DEF IsOauth
      <3> QED BY <2>5, <3>1, <3>2 DEF Condemn, ProbeEnds, ProbeRefused, Superseded
    <2> QED BY <2>1, <2>2, <2>3, <2>4, <2>5
  <1>6. /\ base'[t] \in {base[t], NoRecord, cache, cache'}
        /\ got'[t] \in {got[t], [access |-> 0, renewal |-> 0]}
        /\ \A o \in Tasks \ {t} : base'[o] = base[o] /\ got'[o] = got[o]
    BY <1>1 DEF Unauthorized, Commit, Cut, ExchangeRejected, Condemn, ProbeEnds, ProbeRefused,
                Refresh, Return, End, Forget
  <1>7. KnownHeld'
    BY <1>3, <1>5, <1>6, HeldAfter DEF IInv, TaskInv, StoreInv, KnownStored
  <1> QED BY <1>2, <1>3, <1>4, <1>5, <1>7, StepKept

\* A refresh token is sent: nobody else works, and it is not known to be dead.
LEMMA ExchangeKept ==
  ASSUME IInv, NEW t \in Tasks, Exchange(t)
  PROVE  IInv'
  <1>1. TypeOK'
    BY QuietTyped DEF IInv
  <1>2. /\ UNCHANGED <<db, cache, rejA, rejR, refused, dead, issued, login, origin, wanted, got>>
        /\ pc' = [pc EXCEPT ![t] = "exchanging"]
        /\ base' = [base EXCEPT ![t] = cache]
        /\ permit' = t /\ IsOauth(cache) /\ ~RenewalRejected(cache)
    BY DEF Exchange, Renewable, stored, marks, history
  <1>3. \A o \in Tasks : pc[o] \notin Busy
    BY StoreAssumption DEF Exchange, IInv, TaskInv, Working
  <1>4. pc'[t] = "exchanging" /\ base'[t] = cache
        /\ \A o \in Tasks \ {t} : pc'[o] \notin Busy /\ base'[o] = base[o]
    BY <1>2, <1>3 DEF IInv, TypeOK
  <1>5. Working'
    BY <1>2, <1>4 DEF Working, IsOauth, Busy
  <1>6. KnownHeld' /\ Calm'
    <2>1. login.kind = "agent" => login.raced
      BY <1>2 DEF IInv, StoreInv, Latest, IsOauth
    <2> QED BY <1>2, <1>4, <2>1, HeldAfter DEF IInv, TaskInv, StoreInv, KnownStored, Calm
  <1>7. StoreInv
    BY DEF IInv
  <1>8. KnownStored' /\ Alike' /\ Latest' /\ Chosen'
    BY <1>2, <1>7 DEF StoreInv, KnownStored, Alike, Latest, Chosen, IsOauth
  <1>9. Apart'
    BY <1>2, <1>4, <1>7 DEF StoreInv, Apart, IsOauth, Busy
  <1>10. ~dead
    BY <1>2, <1>7 DEF StoreInv, Rejections, RenewalRejected
  <1>11. Rejections'
    BY <1>2, <1>7, <1>10 DEF StoreInv, Rejections, IsOauth
  <1> QED BY <1>1, <1>5, <1>6, <1>8, <1>9, <1>11 DEF IInv, TaskInv, StoreInv

\* The server issues a token that nobody knows.
LEMMA ServerKept ==
  ASSUME IInv, NEW t \in Tasks, NEW rotate \in BOOLEAN, ServerRotates(t, rotate)
  PROVE  IInv'
  <1>1. TypeOK'
    BY ServerTyped DEF IInv, TaskInv
  <1>2. /\ UNCHANGED <<db, cache, rejA, rejR, refused, dead, login, wanted, base, permit>>
        /\ pc' = [pc EXCEPT ![t] = "rotated"]
        /\ got' = [got EXCEPT ![t] = [access |-> issued', renewal |-> RenewalOf(t, rotate, issued')]]
        /\ origin' = [origin EXCEPT ![issued'] = origin[base[t].access]]
        /\ issued' = issued + 1
    BY DEF ServerRotates, stored, marks, flight
  <1>3. pc[t] \in Busy /\ permit = t /\ IsOauth(base[t])
    BY DEF ServerRotates, IInv, TaskInv, Working, Busy
  <1>4. \A o \in Tasks \ {t} : pc[o] \notin Busy
    BY <1>3 DEF IInv, TaskInv, Working
  <1>5. issued \in Nat /\ issued' \in Tokens
    BY <1>1 DEF IInv, TypeOK, Tokens
  <1>6. base[t].access \in Tokens /\ base[t].renewal \in Tokens
        /\ base[t].access <= issued /\ base[t].renewal <= issued
    BY <1>3, TokensOf DEF IInv, TypeOK, TaskInv, KnownHeld, IsOauth
  <1>7. /\ got'[t].access = issued'
        /\ got'[t].renewal \in {issued', base[t].renewal}
        /\ pc'[t] = "rotated"
        /\ \A o \in Tasks \ {t} : pc'[o] = pc[o] /\ got'[o] = got[o]
    BY <1>2 DEF RenewalOf, IInv, TypeOK
  <1>8. Working'
    <2>1. origin'[issued'] = origin[base[t].access] /\ origin'[base[t].access] = origin[base[t].access]
      BY <1>2, <1>5, <1>6 DEF IInv, TypeOK, Tokens
    <2> QED BY <1>2, <1>3, <1>4, <1>5, <1>6, <1>7, <2>1 DEF Working, IsOauth, Busy, Tokens
  <1>8a. Calm'
    BY <1>2 DEF ServerRotates, IInv, TaskInv, Calm, Renewing
  <1>9. KnownHeld'
    <2>1. \A o \in Tasks : /\ base[o].access \in Int /\ base[o].renewal \in Int
                           /\ got[o].access \in Int /\ got[o].renewal \in Int
      BY TokensOf DEF IInv, TypeOK
    <2> QED BY <1>2, <1>5, <1>6, <1>7, <2>1 DEF IInv, TaskInv, KnownHeld, Tokens
  <1>10. StoreInv
    BY DEF IInv
  <1>11. KnownStored'
    <2>1. login.token \in Int
      BY DEF IInv, TypeOK
    <2> QED BY <1>2, <1>5, <1>10, <2>1, StoredFields DEF IInv, StoreInv, KnownStored
  <1>12. Alike' /\ Chosen'
    BY <1>2, <1>10 DEF StoreInv, Alike, Chosen, IsOauth
  <1>13. Latest'
    <2>1. \A r \in {cache, db} : IsOauth(r) => origin'[r.access] = origin[r.access]
      BY <1>2, <1>5, <1>10, StoredFields DEF IInv, TypeOK, StoreInv, KnownStored, IsOauth, Tokens
    <2> QED BY <1>2, <1>10, <2>1 DEF StoreInv, Latest, IsOauth
  <1>14. Apart'
    <2>1. ASSUME NEW r \in {cache, db}, r.kind = "agent"
          PROVE  r.renewal # got'[t].renewal /\ r.access # got'[t].access
      BY <1>3, <1>5, <1>2, <1>7, <1>10, <2>1, StoredFields DEF IInv, StoreInv, KnownStored, Apart
    <2> QED BY <1>2, <1>3, <1>4, <1>7, <1>10, <2>1 DEF StoreInv, Apart, IsOauth, Busy
  <1>15. Rejections'
    <2>1. \A o \in Tasks : pc'[o] # "exchanging"
      BY <1>4, <1>7 DEF Busy
    <2> QED BY <1>2, <1>10, <2>1 DEF StoreInv, Rejections, IsOauth
  <1> QED BY <1>1, <1>8, <1>9, <1>11, <1>12, <1>13, <1>14, <1>15, <1>8a DEF IInv, TaskInv, StoreInv

LEMMA TaskKept ==
  ASSUME IInv, NEW t \in Tasks, Step(t)
  PROVE  IInv'
  BY QuietKept, WritingKept, ExchangeKept, ServerKept DEF Step

\* The user, the clock and a reload take no task on.
LEMMA SteadyUser ==
  ASSUME IInv, UNCHANGED <<pc, base, got, permit>>
  PROVE  Steady
  BY DEF Steady, IInv, TaskInv, Working

LEMMA UserKept ==
  ASSUME IInv,
         \/ \E b \in Settings : SetAutoRefresh(b)
         \/ \E kind \in ImportKinds : Import(kind)
         \/ Delete \/ Reload \/ Ages \/ CooldownEnds \/ Restart
  PROVE  IInv'
  <1>1. TypeOK'
    BY UserTyped DEF IInv
  <1>2. ASSUME UNCHANGED <<base, got, issued>>
        PROVE  KnownHeld'
    BY <1>2 DEF IInv, TaskInv, KnownHeld
  <1>3. ASSUME NEW b \in Settings, SetAutoRefresh(b)
        PROVE  IInv'
    <2>1. cache \in Records /\ IsOauth(cache) /\ b \in BOOLEAN
      BY <1>3, StoreAssumption DEF SetAutoRefresh, IsOauth, NoRecord, IInv, TypeOK
    <2> DEFINE r == [cache EXCEPT !.auto = b]
    <2>2. r \in Records /\ r.kind = "oauth" /\ r.kind = cache.kind
          /\ r.access = cache.access /\ r.renewal = cache.renewal /\ r.auto = b
      BY <2>1 DEF Records, IsOauth
    <2>3. Save(r) /\ wanted' = (IF b THEN "on" ELSE "off")
          /\ UNCHANGED <<permit, pc, base, got, issued, login, origin>>
      BY <1>3 DEF SetAutoRefresh, local, flight
    <2>4. r.auto = (wanted' = "on")
      BY <2>1, <2>2, <2>3
    <2>5. cache # NoRecord
      BY <2>1 DEF IsOauth, NoRecord
    <2>6. Steady
      BY <2>3, SteadyUser
    <2> HIDE DEF r
    <2>7. StoreInv'
      BY <2>2, <2>3, <2>4, <2>5, <2>6, StoreTouched
    <2> QED BY <1>1, <1>2, <2>3, <2>6, <2>7, StepKept
  <1>4. ASSUME NEW kind \in ImportKinds, Import(kind)
        PROVE  IInv'
    <2>1. UNCHANGED <<permit, pc, base, got>> /\ issued' = issued + 1
          /\ origin' = [origin EXCEPT ![issued'] = issued']
      BY <1>4 DEF Import, local
    <2>2. Steady
      BY <2>1, SteadyUser
    <2>3. KnownHeld'
      <3>1. \A o \in Tasks : /\ base[o].access \in Int /\ base[o].renewal \in Int
                             /\ got[o].access \in Int /\ got[o].renewal \in Int
        BY TokensOf DEF IInv, TypeOK
      <3> QED BY <2>1, <3>1 DEF IInv, TypeOK, Tokens, TaskInv, KnownHeld
    <2>4. \A k \in Tokens : k <= issued => origin'[k] = origin[k]
      BY <2>1 DEF IInv, TypeOK, Tokens
    <2>5. Working'
      BY <2>2, <2>4, SteadyWorking
    <2>6. Calm'
      BY <1>4, <2>1 DEF Import, Calm, Renewing
    <2> QED BY <1>1, <1>4, <2>2, <2>3, <2>5, <2>6, StoreImported DEF IInv, TaskInv
  <1>5. CASE Delete
    <2>1. UNCHANGED <<permit, pc, base, got, issued, origin>>
      BY <1>5 DEF Delete, flight, local
    <2>2. login'.kind # "agent"
      BY <1>5 DEF Delete
    <2> QED BY <1>1, <1>2, <1>5, <2>1, <2>2, SteadyUser, StoreDeleted, StepKept
  <1>6. CASE Reload
    <2>1. UNCHANGED <<permit, pc, base, got, issued, login, origin, wanted, db, rejA, rejR>>
      BY <1>6 DEF Reload, flight, local, history, marks
    <2>2. Steady
      BY <2>1, SteadyUser
    <2>3. /\ cache' = db /\ dead' = (dead /\ db.renewal = cache.renewal)
          /\ refused' = (FALSE \/ (refused /\ db.access = cache.access))
      BY <1>6 DEF Reload, Cache
    <2> QED BY <1>1, <1>2, <2>1, <2>2, <2>3, StoreReloaded, StepKept
  <1>7. CASE Ages \/ CooldownEnds
    <2>1. /\ UNCHANGED <<permit, pc, base, got, issued, login, origin, wanted>>
          /\ UNCHANGED <<db, cache, rejA, rejR, refused, dead>>
      BY <1>7 DEF Ages, CooldownEnds, flight, local, history, stored, marks
    <2> QED BY <1>1, <1>2, <2>1, SteadyUser, StoreSame, StepKept
  <1>8. CASE Restart
    <2>1. /\ UNCHANGED <<db, issued, login, origin, wanted>> /\ cache' = db
          /\ ~dead' /\ ~refused'
      BY <1>8 DEF Restart, history
    <2>2. \A o \in Tasks : pc'[o] = "idle" /\ base'[o] = NoRecord
                           /\ got'[o] = [access |-> 0, renewal |-> 0]
      BY <1>8 DEF Restart
    <2>3. Steady
      BY <2>2 DEF Steady, Busy
    <2>4. KnownHeld'
      BY <2>1, <2>2 DEF KnownHeld, NoRecord, IInv, TypeOK, Tokens
    <2> QED BY <1>1, <2>1, <2>3, <2>4, StoreReloaded, StepKept
  <1> QED BY <1>3, <1>4, <1>5, <1>6, <1>7, <1>8

LEMMA IInvInitially == Init => IInv
  BY InitTyped, InitTask, InitStore DEF IInv

LEMMA IInvKept == IInv /\ [Next]_vars => IInv'
  <1> SUFFICES ASSUME IInv, [Next]_vars
               PROVE  IInv'
    OBVIOUS
  <1>1. CASE UNCHANGED vars
    BY <1>1
    DEF vars, stored, marks, flight, local, history, IInv, TypeOK, TaskInv, StoreInv, KnownHeld,
        KnownStored, Working, Calm, Renewing, Apart, Alike, Latest, Chosen, Rejections, IsOauth
  <1>2. CASE Next
    BY <1>2, TaskKept, UserKept DEF Next
  <1> QED BY <1>1, <1>2

(***************************************************************************)
(* What the invariant gives.                                               *)
(***************************************************************************)
LEMMA Invariance == Spec => []IInv
  BY IInvInitially, IInvKept, PTL DEF Spec

\* Every reachable state of the store is one its types allow: a task that
\* exchanges a token always has a credential to exchange.
THEOREM StoreTypes == Spec => []TypeOK
  BY Invariance, PTL DEF IInv

\* The newest OAuth login's credential is the one in use, however renewals, reloads
\* and restarts interleave with it (commit_refreshed_record), and so is the newest
\* Agent Identity's, unless an exchange of OAuth tokens was under way when it came.
THEOREM NewestLoginKept == Spec => []LatestLoginKept
  <1>1. IInv => LatestLoginKept
    BY DEF IInv, StoreInv, Latest, LatestLoginKept
  <1> QED BY Invariance, <1>1, PTL

\* Nothing that was under way brings a deleted account back (delete_account).
THEOREM DeletedForGood == Spec => []DeletedStaysDeleted
  <1>1. IInv => DeletedStaysDeleted
    BY DEF IInv, StoreInv, Latest, DeletedStaysDeleted
  <1> QED BY Invariance, <1>1, PTL

\* A refresh token is in one exchange, and in none once it is known to be dead
\* (refresh_record_guarded).
THEOREM TokensUsedOnce == Spec => []RefreshTokenUsedOnce
  <1>1. IInv => RefreshTokenUsedOnce
    <2> SUFFICES ASSUME IInv, NEW t \in Tasks, pc[t] = "exchanging"
                 PROVE  /\ dead => base[t].renewal # cache.renewal
                        /\ \A o \in Tasks \ {t} : pc[o] \notin Busy
      BY DEF RefreshTokenUsedOnce, Busy
    <2>1. \A o \in Tasks : pc[o] \in Busy => permit = o
      BY DEF IInv, TaskInv, Working
    <2>2. pc[t] \in Busy
      BY DEF Busy
    <2> QED BY <2>1, <2>2 DEF IInv, StoreInv, Rejections
  <1> QED BY Invariance, <1>1, PTL

\* A renewal takes the setting of the stored record, not that of the record it
\* started from (commit_refreshed_record).
THEOREM UserSettingKept == Spec => []SettingKept
  <1>1. IInv => SettingKept
    BY DEF IInv, StoreInv, Chosen, SettingKept
  <1> QED BY Invariance, <1>1, PTL

\* What a request found rejected is not sent by a later one
\* (authorization_header).
THEOREM RejectedTokenNotSent == Spec => RejectedNotReused
  <1> DEFINE A == \A t \in Tasks : pc[t] = "resolved" /\ pc'[t] = "sent" => ~refused
  <1>1. IInv /\ [Next]_vars => A
    <2> SUFFICES ASSUME IInv, [Next]_vars,
                        NEW t \in Tasks, pc[t] = "resolved", pc'[t] = "sent"
                 PROVE  ~refused
      OBVIOUS
    <2>1. pc \in [Tasks -> PCs]
      BY DEF IInv, TypeOK
    <2>2. PICK o \in Tasks : Step(o)
      <3>1. CASE UNCHANGED vars
        BY <3>1 DEF vars, local
      <3>2. CASE \/ \E b \in Settings : SetAutoRefresh(b)
                 \/ \E kind \in ImportKinds : Import(kind)
                 \/ Delete \/ Reload \/ Ages \/ CooldownEnds \/ Restart
        BY <3>2 DEF SetAutoRefresh, Import, Delete, Reload, Ages, CooldownEnds, Restart, local
      <3> QED BY <3>1, <3>2 DEF Next
    <2>3. Authorize(o) /\ o = t
      BY <2>1, <2>2
      DEF Step, Resolve, Authorize, Answered, Unauthorized, Manual, Due, Queue, Exchange, Dismiss,
          Wake, ServerRotates, Commit, Cut, ExchangeFails, ExchangeRejected, Condemn, Probe,
          ProbeEnds, ProbeRefused, Cancel, Refresh, Return, End
    <2>4. ~AccessRejected(cache)
      BY <2>1, <2>3 DEF Authorize, End
    <2> QED BY <2>4 DEF IInv, StoreInv, Rejections, AccessRejected
  <1>2. [][A]_vars => RejectedNotReused
    BY PTL DEF RejectedNotReused
  <1>3. []IInv /\ [][Next]_vars => [][A]_vars
    BY <1>1, PTL
  <1> QED BY Invariance, <1>2, <1>3, PTL DEF Spec

\* How a step changes the health of the account that is in the cache.
LEMMA HealthChanges ==
  ASSUME IInv, [Next]_vars, cache # NoRecord, cache' # NoRecord, cache'.status # cache.status
  PROVE  \/ \E kind \in ImportKinds : Import(kind)
         \/ \E t \in Tasks :
               /\ pc[t] \in {"condemn", "probing"}
               /\ cache' = Disabled(t)
               /\ IsOauth(base[t])
  <1>1. cache' # cache
    OBVIOUS
  <1>2. db.status = cache.status
    BY DEF IInv, StoreInv, Alike
  <1>3. cache' # db
    BY <1>2
  <1>4. CASE \E t \in Tasks : Step(t)
    <2>1. PICK t \in Tasks : Step(t)
      BY <1>4
    <2>2. CASE Commit(t)
      <3>1. ~Superseded(t) /\ cache' = Merged(t)
        BY <1>1, <2>2 DEF Commit, Save, Cache, stored
      <3> QED BY <3>1 DEF Merged
    <2>3. CASE Condemn(t)
      <3>1. cache' = Disabled(t)
        BY <1>1, <2>3 DEF Condemn, Save, Cache, stored
      <3>2. IsOauth(base[t])
        BY <2>3 DEF Condemn, IInv, TaskInv, Working, Busy
      <3> QED BY <2>3, <3>1, <3>2 DEF Condemn
    <2>4. CASE ProbeEnds(t)
      BY <1>1, <2>4 DEF ProbeEnds, Save, Cache, stored
    <2>5. CASE ProbeRefused(t)
      <3>1. cache' = Disabled(t)
        BY <1>1, <2>5 DEF ProbeRefused, Save, Cache, stored
      <3> QED BY <2>5, <3>1 DEF ProbeRefused
    <2>6. CASE Unauthorized(t)
      BY <1>3, <2>6 DEF Unauthorized, Cache
    <2>7. CASE ~(Commit(t) \/ Condemn(t) \/ ProbeEnds(t) \/ ProbeRefused(t) \/ Unauthorized(t))
      <3>1. cache' = cache
        BY <2>1, <2>7
        DEF Step, Resolve, Authorize, Answered, Manual, Due, Queue, Exchange, Dismiss, Wake,
            ServerRotates, Cut, ExchangeFails, ExchangeRejected, Probe, Cancel, stored
      <3> QED BY <1>1, <3>1
    <2> QED BY <2>2, <2>3, <2>4, <2>5, <2>6, <2>7
  <1>5. ASSUME NEW b \in Settings, SetAutoRefresh(b)
        PROVE  FALSE
    <2>1. cache' = [cache EXCEPT !.auto = b] /\ IsOauth(cache)
      BY <1>5 DEF SetAutoRefresh, Save, Cache
    <2>2. cache \in Records
      BY DEF IInv, TypeOK
    <2> QED BY <2>1, <2>2 DEF Records
  <1>6. CASE Delete \/ Reload \/ Restart \/ Ages \/ CooldownEnds \/ UNCHANGED vars
    BY <1>1, <1>3, <1>6 DEF Delete, Reload, Restart, Ages, CooldownEnds, Cache, vars, stored
  <1> QED BY <1>4, <1>5, <1>6 DEF Next

LEMMA ImportIsLogin ==
  ASSUME IInv, NEW kind \in ImportKinds, Import(kind)
  PROVE  login' # login /\ (cache.status = "active" => cache'.status = "active")
  <1>1. login' # login
    BY DEF Import, IInv, TypeOK, StoreInv, KnownStored, Tokens
  <1>2. cache' = Imported(kind)
    BY ImportedTyped DEF IInv, Save, Cache
  <1>3. db.status = cache.status
    BY DEF IInv, StoreInv, Alike
  <1> QED BY <1>1, <1>2, <1>3 DEF Imported

\* A disabled account has the credential that the task has found to fail.
LEMMA DisabledIsAccused ==
  ASSUME NEW t \in Tasks, IsOauth(cache), IsOauth(base[t]), Disabled(t) # cache
  PROVE  base[t].access = cache.access
  BY DEF Disabled, Refreshed

\* A failure disables the credential it was about (mark_invalid_if_credential_matches),
\* never a newer one.
THEOREM FailedOnlyDisabled == Spec => OnlyFailedDisabled
  <1> DEFINE A == IsOauth(cache) /\ cache.status = "active"
                    /\ cache' # NoRecord /\ cache'.status = "invalid" => Accused(cache)
  <1>1. IInv /\ [Next]_vars => A
    <2> SUFFICES ASSUME IInv, [Next]_vars, IsOauth(cache), cache.status = "active",
                        cache' # NoRecord, cache'.status = "invalid"
                 PROVE  Accused(cache)
      OBVIOUS
    <2>1. cache # NoRecord /\ cache'.status # cache.status
      BY DEF IsOauth, NoRecord
    <2>2. ASSUME NEW kind \in ImportKinds, Import(kind)
          PROVE  FALSE
      BY <2>1, <2>2, ImportIsLogin
    <2>3. ASSUME NEW t \in Tasks, pc[t] \in {"condemn", "probing"}, cache' = Disabled(t),
                 IsOauth(base[t])
          PROVE  Accused(cache)
      BY <2>1, <2>3, DisabledIsAccused DEF Accused
    <2> QED BY <2>1, <2>2, <2>3, HealthChanges
  <1>2. [][A]_vars => OnlyFailedDisabled
    BY PTL DEF OnlyFailedDisabled
  <1>3. []IInv /\ [][Next]_vars => [][A]_vars
    BY <1>1, PTL
  <1> QED BY Invariance, <1>2, <1>3, PTL DEF Spec

\* A renewal takes over the health of the stored record: what was found invalid
\* stays so until the user logs in again.
THEOREM LoginOnlyRevives == Spec => RevivedByLoginOnly
  <1> DEFINE A == cache # NoRecord /\ cache.status = "invalid" /\ cache'.status = "active"
                    => login' # login
  <1>1. IInv /\ [Next]_vars => A
    <2> SUFFICES ASSUME IInv, [Next]_vars, cache # NoRecord, cache.status = "invalid",
                        cache'.status = "active"
                 PROVE  login' # login
      OBVIOUS
    <2>1. cache' # NoRecord
      BY DEF NoRecord
    <2>2. \A t \in Tasks : cache' # Disabled(t)
      <3>1. cache \in Records
        BY DEF IInv, TypeOK
      <3> QED BY <3>1 DEF Disabled, Records
    <2> QED BY <2>1, <2>2, HealthChanges, ImportIsLogin
  <1>2. [][A]_vars => RevivedByLoginOnly
    BY PTL DEF RevivedByLoginOnly
  <1>3. []IInv /\ [][Next]_vars => [][A]_vars
    BY <1>1, PTL
  <1> QED BY Invariance, <1>2, <1>3, PTL DEF Spec
=============================================================================
