--------------------------- MODULE CooldownsProofs --------------------------
(***************************************************************************)
(* Proofs about Cooldowns, for any set of accounts, requests, waits and    *)
(* short cooldowns and any value of the bounds.                            *)
(***************************************************************************)
EXTENDS Cooldowns, TLAPS

USE CooldownAssumption

\* The key of a request's current attempt is a key of the table.
LEMMA KeyType == ASSUME TypeOK, NEW r \in Requests PROVE Key(r) \in Keys
  BY DEF TypeOK, Key, Keys

LEMMA LaterType == ASSUME NEW s \in Nat, NEW t \in Nat PROVE Later(s, t) \in Nat
  BY DEF Later

\* The deadline an ordinary failure asks for.
LEMMA ShortType == ASSUME TypeOK, NEW r \in Requests PROVE now + ownShort[r] \in Nat
  <1>1. ownShort[r] \in Nat /\ now \in Nat
    BY DEF TypeOK
  <1> QED BY <1>1

\* What the table's operations do to it: they keep its type.
LEMMA TableType ==
  ASSUME TypeOK,
         \/ Prune
         \/ \E k \in Keys, t \in Nat, must \in BOOLEAN : Mark(k, t, must)
         \/ \E K \in SUBSET Keys : Clear(K)
  PROVE  until' \in [Keys -> Nat] /\ mandatory' \subseteq Keys
  <1>1. Pruned \in [Keys -> Nat]
    BY DEF TypeOK, Pruned
  <1>2. CASE Prune
    BY <1>1, <1>2 DEF TypeOK, Prune
  <1>3. ASSUME NEW k \in Keys, NEW t \in Nat, NEW must \in BOOLEAN, Mark(k, t, must)
        PROVE  until' \in [Keys -> Nat] /\ mandatory' \subseteq Keys
    BY <1>1, <1>3 DEF TypeOK, Mark, Later, table
  <1>4. ASSUME NEW K \in SUBSET Keys, Clear(K)
        PROVE  until' \in [Keys -> Nat] /\ mandatory' \subseteq Keys
    BY <1>1, <1>4 DEF TypeOK, Clear
  <1> QED BY <1>2, <1>3, <1>4

LEMMA InitType == Init => TypeOK
  BY DEF Init, TypeOK, Scopes, PCs, Verdicts, Clean

LEMMA NextType == TypeOK /\ [Next]_vars => TypeOK'
  <1> SUFFICES ASSUME TypeOK, [Next]_vars PROVE TypeOK'
    OBVIOUS
  <1> USE DEF TypeOK, PCs, Verdicts, Clean, local, config, Goto, Drop, DropCandidate, Leave
  <1>1. ASSUME NEW r \in Requests, NEW s \in {"global", "session", r},
               NEW a \in Accounts, Begin(r, s, a)
        PROVE  TypeOK'
    BY <1>1 DEF Begin, table, Scopes
  <1>2. ASSUME NEW r \in Requests, Refuse(r) PROVE TypeOK'
    <2>1. until' \in [Keys -> Nat] /\ mandatory' \subseteq Keys
      BY <1>2, TableType DEF Refuse, table
    <2> QED BY <1>2, <2>1 DEF Refuse
  <1>3. ASSUME NEW r \in Requests, Pass(r) PROVE TypeOK'
    BY <1>3, TableType DEF Pass
  <1>4. ASSUME NEW r \in Requests, Send(r) PROVE TypeOK'
    BY <1>4 DEF Send, table
  <1>5. ASSUME NEW r \in Requests, NEW d \in Waits, ToldToWait(r, d) PROVE TypeOK'
    <2>1. until' \in [Keys -> Nat] /\ mandatory' \subseteq Keys
      BY <1>5, TableType, KeyType, now + d \in Nat DEF ToldToWait, table
    <2>2. owed' \in [Keys -> Nat]
      <3>1. now + d \in Nat
        OBVIOUS
      <3>2. owed[Key(r)] \in Nat
        BY KeyType
      <3>3. Later(owed[Key(r)], now + d) \in Nat
        BY <3>1, <3>2, LaterType
      <3> QED BY <1>5, <3>3 DEF ToldToWait
    <2>3. verdict' \in [Requests -> Verdicts]
      BY <1>5, Current(r) \in BOOLEAN DEF ToldToWait, Answered, Current
    <2> QED BY <1>5, <2>1, <2>2, <2>3 DEF ToldToWait, Answered
  <1>6. ASSUME NEW r \in Requests, NEW hinted \in Hints, NEW again \in BOOLEAN,
               Failure(r, hinted, again)
        PROVE  TypeOK'
    <2>1. until' \in [Keys -> Nat] /\ mandatory' \subseteq Keys
      BY <1>6, TableType, KeyType, ShortType DEF Failure, table
    <2>2. verdict' \in [Requests -> Verdicts]
      BY <1>6, Current(r) \in BOOLEAN DEF Failure, Answered, Current
    <2> QED BY <1>6, <2>1, <2>2 DEF Failure, Answered
  <1>7. ASSUME NEW r \in Requests, NEW d \in Waits, AtCapacity(r, d) PROVE TypeOK'
    BY <1>7 DEF AtCapacity, Answered, Later, table
  <1>8. ASSUME NEW r \in Requests, NEW again \in BOOLEAN, Rejected(r, again)
        PROVE  TypeOK'
    BY <1>8 DEF Rejected, Answered, table
  <1>9. ASSUME NEW r \in Requests, NEW ok \in BOOLEAN, Success(r, ok) PROVE TypeOK'
    BY <1>9, KeyType DEF Success, table
  <1>10. ASSUME NEW r \in Requests, Fatal(r) PROVE TypeOK'
    BY <1>10 DEF Fatal, table
  <1>21. ASSUME NEW r \in Requests, Resend(r) PROVE TypeOK'
    BY <1>21 DEF Resend, table
  <1>22. ASSUME NEW r \in Requests, Abandon(r) PROVE TypeOK'
    BY <1>22 DEF Abandon, table
  <1>11. ASSUME NEW r \in Requests, Sideline(r) PROVE sidelined' \in [Keys -> Nat]
    <2>1. Later(sidelined[Key(r)], now + ownShort[r]) \in Nat
      BY KeyType, ShortType, LaterType
    <2> QED BY <1>11, <2>1 DEF Sideline
  <1>12. ASSUME NEW r \in Requests, RetrySame(r) PROVE TypeOK'
    <2>1. until' \in [Keys -> Nat] /\ mandatory' \subseteq Keys
      BY <1>12, TableType, KeyType, {Key(r)} \in SUBSET Keys DEF RetrySame
    <2> QED BY <1>11, <1>12, <2>1 DEF RetrySame
  <1>13. ASSUME NEW r \in Requests, GiveUp(r) PROVE TypeOK'
    BY <1>11, <1>13 DEF GiveUp, table
  <1>14. ASSUME NEW r \in Requests, NEW a \in Accounts, Failover(r, a) PROVE TypeOK'
    BY <1>14 DEF Failover, table
  <1>15. ASSUME NEW r \in Requests, Finalize(r) PROVE TypeOK'
    <2>1. Accounts \X {scope[r]} \in SUBSET Keys
      BY DEF Keys
    <2>2. until' \in [Keys -> Nat] /\ mandatory' \subseteq Keys
      BY <1>15, <2>1, TableType DEF Finalize, table
    <2>3. sidelined' \in [Keys -> Nat]
      BY <1>15 DEF Finalize
    <2> QED BY <1>15, <2>2, <2>3 DEF Finalize, Scopes
  <1>16. ASSUME NEW r \in Requests, Cancel(r) PROVE TypeOK'
    BY <1>16 DEF Cancel, table, Scopes
  <1>17. ASSUME Tick PROVE TypeOK'
    BY <1>17 DEF Tick, table
  <1>18. ASSUME NEW a \in Accounts, Login(a) PROVE TypeOK'
    BY <1>18 DEF Login, table
  <1>19. ASSUME NEW d \in Shorts, Reload(d) PROVE TypeOK'
    BY <1>19 DEF Reload
  <1>20. CASE UNCHANGED vars
    BY <1>20 DEF vars, table
  <1> HIDE DEF TypeOK, PCs, Verdicts, Clean, local, config, Goto, Drop, DropCandidate, Leave
  <1> QED
    BY <1>1, <1>2, <1>3, <1>4, <1>5, <1>6, <1>7, <1>8, <1>9, <1>10, <1>12, <1>13,
       <1>14, <1>15, <1>16, <1>17, <1>18, <1>19, <1>20, <1>21, <1>22
       DEF Next, Step, Attempt

\* Type correctness of the shared cooldown state.
THEOREM TypeCorrect == Spec => []TypeOK
  BY InitType, NextType, PTL DEF Spec

-----------------------------------------------------------------------------
(* What an operation of the table leaves of the waits that are owed. *)

LEMMA WaitKept ==
  ASSUME TypeOK, WaitHonored,
         \/ Prune
         \/ \E k \in Keys, t \in Nat, must \in BOOLEAN : Mark(k, t, must)
         \/ \E K \in SUBSET Keys : Clear(K)
         \/ UNCHANGED table
  PROVE  \A k \in Keys : owed[k] > now => until'[k] >= owed[k] /\ k \in mandatory'
  <1> TAKE k \in Keys
  <1> HAVE owed[k] > now
  <1>1. /\ until[k] \in Nat /\ owed[k] \in Nat /\ now \in Nat
        /\ until[k] >= owed[k] /\ k \in mandatory
    BY DEF TypeOK, WaitHonored
  <1>2. k \in Live /\ Pruned[k] = until[k]
    BY <1>1 DEF Live, Pruned
  <1>3. CASE Prune
    BY <1>1, <1>2, <1>3 DEF Prune
  <1>4. ASSUME NEW j \in Keys, NEW t \in Nat, NEW must \in BOOLEAN, Mark(j, t, must)
        PROVE  until'[k] >= owed[k] /\ k \in mandatory'
    <2>1. CASE t <= now
      BY <1>1, <1>4, <2>1 DEF Mark, table
    <2>2. CASE ~(t <= now)
      <3>1. k \in mandatory'
        BY <1>1, <1>2, <1>4, <2>2 DEF Mark
      <3>2. until' = [Pruned EXCEPT ![j] = Later(@, t)]
        BY <1>4, <2>2 DEF Mark
      <3>3. until'[k] = IF k = j THEN Later(until[k], t) ELSE until[k]
        BY <1>2, <3>2 DEF Pruned
      <3> QED BY <1>1, <3>1, <3>3 DEF Later
    <2> QED BY <2>1, <2>2
  <1>5. ASSUME NEW K \in SUBSET Keys, Clear(K)
        PROVE  until'[k] >= owed[k] /\ k \in mandatory'
    BY <1>1, <1>2, <1>5 DEF Clear
  <1>6. CASE UNCHANGED table
    BY <1>1, <1>6 DEF table
  <1> QED BY <1>3, <1>4, <1>5, <1>6

LEMMA WaitInductive == TypeOK /\ WaitHonored /\ [Next]_vars => WaitHonored'
  <1> SUFFICES ASSUME TypeOK, WaitHonored, [Next]_vars PROVE WaitHonored'
    OBVIOUS
  <1>1. ASSUME UNCHANGED <<owed, now>>,
               \/ Prune
               \/ \E k \in Keys, t \in Nat, must \in BOOLEAN : Mark(k, t, must)
               \/ \E K \in SUBSET Keys : Clear(K)
               \/ UNCHANGED table
        PROVE  WaitHonored'
    BY <1>1, WaitKept DEF WaitHonored
  <1>2. ASSUME NEW r \in Requests,
               \/ \E s \in {"global", "session", r}, a \in Accounts : Begin(r, s, a)
               \/ Refuse(r) \/ Pass(r) \/ Send(r) \/ Fatal(r) \/ Cancel(r) \/ GiveUp(r)
               \/ Resend(r) \/ Abandon(r)
               \/ \E d \in Waits : AtCapacity(r, d)
               \/ \E again \in BOOLEAN : Rejected(r, again)
               \/ \E ok \in BOOLEAN : Success(r, ok)
               \/ \E a \in Accounts : Failover(r, a)
        PROVE  WaitHonored'
    BY <1>1, <1>2 DEF Begin, Refuse, Pass, Send, Fatal, Cancel, GiveUp, Resend, Abandon, AtCapacity,
       Rejected, Success, Failover, Answered
  <1>3. ASSUME NEW r \in Requests, NEW d \in Waits, ToldToWait(r, d)
        PROVE  WaitHonored'
    <2>1. now' = now
      BY <1>3 DEF ToldToWait, Answered
    <2>2. CASE ~Current(r)
      BY <1>1, <1>3, <2>1, <2>2 DEF ToldToWait
    <2>3. CASE Current(r)
      <3>1. now + d \in Nat /\ now \in Nat /\ Key(r) \in Keys
        BY KeyType, CooldownAssumption DEF TypeOK
      <3>2. /\ Mark(Key(r), now + d, TRUE)
            /\ owed' = [owed EXCEPT ![Key(r)] = Later(@, now + d)]
        BY <1>3, <2>3 DEF ToldToWait
      <3> SUFFICES ASSUME NEW k \in Keys, owed'[k] > now
                   PROVE  until'[k] >= owed'[k] /\ k \in mandatory'
        BY <2>1 DEF WaitHonored
      <3>3. owed[k] > now => until'[k] >= owed[k] /\ k \in mandatory'
        BY <3>1, <3>2, WaitKept
      <3>4. CASE k # Key(r)
        BY <3>2, <3>3, <3>4 DEF TypeOK
      <3>5. CASE k = Key(r)
        <4>1. /\ owed'[k] = Later(owed[k], now + d)
              /\ owed[k] \in Nat /\ until[k] \in Nat
          BY <3>1, <3>2, <3>5 DEF TypeOK
        <4>2. CASE now + d <= now
          <5>1. owed'[k] = owed[k] \/ owed'[k] = now + d
            BY <4>1 DEF Later
          <5>2. owed'[k] = owed[k]
            BY <3>1, <4>1, <4>2, <5>1
          <5> QED BY <3>3, <5>2
        <4>3. CASE ~(now + d <= now)
          <5>1. /\ until' = [Pruned EXCEPT ![k] = Later(@, now + d)]
                /\ k \in mandatory'
            BY <3>2, <3>5, <4>3 DEF Mark
          <5>2. until'[k] >= now + d
            BY <3>1, <4>1, <5>1 DEF Pruned, Later
          <5>3. CASE owed[k] > now
            BY <3>1, <3>3, <4>1, <5>1, <5>2, <5>3 DEF Later
          <5>4. CASE ~(owed[k] > now)
            BY <3>1, <4>1, <5>1, <5>2, <5>4 DEF Later
          <5> QED BY <5>3, <5>4
        <4> QED BY <4>2, <4>3
      <3> QED BY <3>4, <3>5
    <2> QED BY <2>2, <2>3
  <1>4. ASSUME NEW r \in Requests, NEW hinted \in Hints, NEW again \in BOOLEAN,
               Failure(r, hinted, again)
        PROVE  WaitHonored'
    BY <1>1, <1>4, KeyType, ShortType, CooldownAssumption DEF Failure, Answered
  <1>5. ASSUME NEW r \in Requests, RetrySame(r) PROVE WaitHonored'
    BY <1>1, <1>5, KeyType, {Key(r)} \in SUBSET Keys DEF RetrySame
  <1>6. ASSUME NEW r \in Requests, Finalize(r) PROVE WaitHonored'
    <2>1. Accounts \X {scope[r]} \in SUBSET Keys
      BY DEF Keys, TypeOK
    <2> QED BY <1>1, <1>6, <2>1 DEF Finalize
  <1>7. CASE Tick
    <2> SUFFICES ASSUME NEW k \in Keys, owed'[k] > now'
                 PROVE  until'[k] >= owed'[k] /\ k \in mandatory'
      BY DEF WaitHonored
    <2>1. owed'[k] = owed[k] /\ owed[k] > now
      BY <1>7 DEF Tick, TypeOK
    <2> QED BY <1>7, <2>1 DEF Tick, WaitHonored, table
  <1>8. ASSUME NEW a \in Accounts, Login(a) PROVE WaitHonored'
    BY <1>1, <1>8 DEF Login
  <1>9. ASSUME NEW d \in Shorts, Reload(d) PROVE WaitHonored'
    <2> SUFFICES ASSUME NEW k \in Keys, owed[k] > now
                 PROVE  until'[k] >= owed[k] /\ k \in mandatory'
      BY <1>9 DEF WaitHonored, Reload
    <2>1. until[k] >= owed[k] /\ k \in mandatory /\ until[k] > now
      BY DEF WaitHonored, TypeOK
    <2> QED BY <1>9, <2>1 DEF Reload, Live
  <1>10. CASE UNCHANGED vars
    BY <1>1, <1>10 DEF vars
  <1> QED
    BY <1>2, <1>3, <1>4, <1>5, <1>6, <1>7, <1>8, <1>9, <1>10 DEF Next, Step, Attempt

\* A wait an upstream asked for stands until its deadline, as long as the server is
\* not started anew.
THEOREM WaitsHonored == Spec => []WaitHonored
  <1>1. Init => WaitHonored
    BY DEF Init, WaitHonored
  <1> QED BY <1>1, TypeCorrect, WaitInductive, PTL DEF Spec

\* No action but Pass takes a request past the checks of prepare.
LEMMA OnlyPassChecks ==
  ASSUME TypeOK, [Next]_vars, NEW r \in Requests, pc[r] = "prepare", pc'[r] = "checked"
  PROVE  Pass(r)
  <1>1. ASSUME UNCHANGED pc PROVE FALSE
    BY <1>1
  <1>2. ASSUME NEW q \in Requests, NEW p, Goto(q, p) PROVE q = r /\ p = "checked"
    BY <1>2 DEF Goto, TypeOK
  <1>3. ASSUME NEW q \in Requests, Step(q) PROVE Pass(r)
    <2>1. ASSUME \/ \E s \in {"global", "session", q}, a \in Accounts : Begin(q, s, a)
                 \/ Refuse(q) \/ Send(q) \/ Fatal(q) \/ Resend(q)
                 \/ RetrySame(q) \/ GiveUp(q) \/ Abandon(q)
                 \/ \E a \in Accounts : Failover(q, a)
          PROVE  FALSE
      BY <1>2, <2>1 DEF Begin, Refuse, Send, Fatal, Resend, RetrySame, GiveUp, Abandon,
         Failover
    <2>2. ASSUME \/ \E d \in Waits : ToldToWait(q, d) \/ AtCapacity(q, d)
                 \/ \E hinted \in Hints, again \in BOOLEAN : Failure(q, hinted, again)
                 \/ \E again \in BOOLEAN : Rejected(q, again)
          PROVE  FALSE
      BY <1>2, <2>2 DEF ToldToWait, AtCapacity, Failure, Rejected, Answered
    <2>3. ASSUME (\E ok \in BOOLEAN : Success(q, ok)) \/ Finalize(q) \/ Cancel(q)
          PROVE  FALSE
      BY <1>2, <2>3 DEF Success, Finalize, Cancel, Leave
    <2>4. ASSUME Pass(q) PROVE Pass(r)
      BY <1>2, <2>4 DEF Pass
    <2> QED BY <1>3, <2>1, <2>2, <2>3, <2>4 DEF Step, Attempt
  <1>4. ASSUME Tick \/ (\E a \in Accounts : Login(a)) \/ (\E d \in Shorts : Reload(d))
        PROVE  FALSE
    BY <1>1, <1>4 DEF Tick, Login, Reload
  <1> QED BY <1>1, <1>3, <1>4 DEF Next, vars

\* prepare lets no request through into a wait that is owed.
THEOREM NoSendsIntoWaits == Spec => NoSendIntoWait
  <1> DEFINE Admits == \A r \in Requests :
                 pc[r] = "prepare" /\ pc'[r] = "checked" => owed[Key(r)] <= now
  <1>1. TypeOK /\ WaitHonored /\ [Next]_vars => Admits
    <2> SUFFICES ASSUME TypeOK, WaitHonored, [Next]_vars, NEW r \in Requests,
                        pc[r] = "prepare", pc'[r] = "checked"
                 PROVE  owed[Key(r)] <= now
      OBVIOUS
    <2>1. Pass(r)
      BY OnlyPassChecks
    <2>2. Key(r) \in Keys /\ until[Key(r)] \in Nat /\ owed[Key(r)] \in Nat /\ now \in Nat
      BY KeyType DEF TypeOK
    <2> QED BY <2>1, <2>2 DEF Pass, Live, WaitHonored
  <1>2. Admits => [Admits]_vars
    OBVIOUS
  <1> QED BY <1>1, TypeCorrect, WaitsHonored, PTL DEF Spec, NoSendIntoWait

-----------------------------------------------------------------------------
(* Only two actions lengthen a cooldown. *)

\* r's attempt, sent with the stored credential, moves its key's deadline.
Lengthens(r) ==
    /\ pc[r] = "sent" /\ token[r] = cred[account[r]] /\ now' = now
    /\ \E t \in Nat, must \in BOOLEAN :
        /\ Mark(Key(r), t, must)
        /\ \/ t = now + ownShort[r] /\ owed' = owed
           \/ owed' = [owed EXCEPT ![Key(r)] = Later(@, t)]

Shrinks == \A k \in Keys : until'[k] <= until[k]

\* A mark moves the deadline of its own key, to the time it asks for.
LEMMA MarkMoves ==
  ASSUME TypeOK, NEW j \in Keys, NEW t \in Nat, NEW must \in BOOLEAN,
         Mark(j, t, must), NEW k \in Keys
  PROVE  until'[k] <= until[k] \/ (k = j /\ until'[k] = t)
  <1>1. until[k] \in Nat /\ now \in Nat
    BY DEF TypeOK
  <1>2. CASE t <= now
    BY <1>1, <1>2 DEF Mark, table
  <1>3. CASE ~(t <= now)
    <2>1. until' = [Pruned EXCEPT ![j] = Later(@, t)]
      BY <1>3 DEF Mark
    <2>2. Pruned[k] <= until[k] /\ Pruned[k] \in Nat
      BY <1>1 DEF Pruned
    <2>3. until'[k] = IF k = j THEN Later(Pruned[k], t) ELSE Pruned[k]
      BY <2>1 DEF Pruned
    <2> QED BY <1>1, <2>2, <2>3 DEF Later
  <1> QED BY <1>2, <1>3

LEMMA StepLengthens ==
  ASSUME TypeOK, [Next]_vars
  PROVE  Shrinks \/ \E r \in Requests : Lengthens(r)
  <1>1. ASSUME UNCHANGED until PROVE Shrinks
    BY <1>1 DEF Shrinks, TypeOK
  <1>2. ASSUME Prune \/ \E K \in SUBSET Keys : Clear(K) PROVE Shrinks
    BY <1>2 DEF Shrinks, Prune, Clear, Pruned, TypeOK
  <1>3. ASSUME NEW r \in Requests,
               \/ \E s \in {"global", "session", r}, a \in Accounts : Begin(r, s, a)
               \/ Refuse(r) \/ Pass(r) \/ Send(r) \/ Fatal(r) \/ Cancel(r) \/ GiveUp(r)
               \/ Resend(r) \/ Abandon(r)
               \/ \E d \in Waits : AtCapacity(r, d)
               \/ \E again \in BOOLEAN : Rejected(r, again)
               \/ \E ok \in BOOLEAN : Success(r, ok)
               \/ \E a \in Accounts : Failover(r, a)
        PROVE  Shrinks
    BY <1>1, <1>2, <1>3 DEF Begin, Refuse, Pass, Send, Fatal, Cancel, GiveUp, Resend, Abandon,
       AtCapacity, Rejected, Success, Failover, Answered, table
  <1>4. ASSUME NEW r \in Requests, NEW d \in Waits, ToldToWait(r, d)
        PROVE  Shrinks \/ Lengthens(r)
    <2>1. CASE ~Current(r)
      BY <1>1, <1>4, <2>1 DEF ToldToWait, table
    <2>2. CASE Current(r)
      <3>1. now + d \in Nat
        BY CooldownAssumption DEF TypeOK
      <3> QED BY <1>4, <2>2, <3>1 DEF ToldToWait, Answered, Current, Lengthens
    <2> QED BY <2>1, <2>2
  <1>5. ASSUME NEW r \in Requests, NEW hinted \in Hints, NEW again \in BOOLEAN,
               Failure(r, hinted, again)
        PROVE  Shrinks \/ Lengthens(r)
    <2>1. CASE ~Current(r)
      BY <1>1, <1>5, <2>1 DEF Failure, table
    <2>2. CASE Current(r)
      <3>1. hinted \in BOOLEAN
        BY CooldownAssumption
      <3> QED BY <1>5, <2>2, <3>1, ShortType DEF Failure, Answered, Current, Lengthens
    <2> QED BY <2>1, <2>2
  <1>6. ASSUME NEW r \in Requests, RetrySame(r) \/ Finalize(r) PROVE Shrinks
    <2>1. {Key(r)} \in SUBSET Keys /\ Accounts \X {scope[r]} \in SUBSET Keys
      BY KeyType DEF Keys, TypeOK
    <2> QED BY <1>1, <1>2, <1>6, <2>1 DEF RetrySame, Finalize, table
  <1>7. ASSUME Tick \/ (\E a \in Accounts : Login(a)) PROVE Shrinks
    BY <1>1, <1>7 DEF Tick, Login, table
  <1>8. ASSUME NEW d \in Shorts, Reload(d) PROVE Shrinks
    BY <1>8 DEF Reload, Shrinks, TypeOK
  <1>9. CASE UNCHANGED vars
    BY <1>1, <1>9 DEF vars, table
  <1>10. ASSUME NEW r \in Requests, Step(r) PROVE Shrinks \/ Lengthens(r)
    BY <1>3, <1>4, <1>5, <1>6, <1>10 DEF Step, Attempt
  <1> QED BY <1>7, <1>8, <1>9, <1>10 DEF Next

\* Only a request sent with the stored credential keeps its account back longer.
THEOREM CurrentCredentialCools == Spec => OnlyCurrentCredentialCools
  <1> DEFINE Blames == \A k \in Keys : until'[k] > until[k] =>
                 \E r \in Requests : Key(r) = k /\ pc[r] = "sent" /\ token[r] = cred[k[1]]
  <1>1. TypeOK /\ [Next]_vars => Blames
    <2> SUFFICES ASSUME TypeOK, [Next]_vars, NEW k \in Keys, until'[k] > until[k]
                 PROVE  \E r \in Requests :
                            Key(r) = k /\ pc[r] = "sent" /\ token[r] = cred[k[1]]
      OBVIOUS
    <2>1. TypeOK'
      BY NextType
    <2>2. until[k] \in Nat /\ until'[k] \in Nat
      BY <2>1 DEF TypeOK
    <2>3. ~Shrinks
      BY <2>2 DEF Shrinks
    <2>4. PICK r \in Requests :
             /\ pc[r] = "sent" /\ token[r] = cred[account[r]]
             /\ \E t \in Nat, must \in BOOLEAN : Mark(Key(r), t, must)
      BY <2>3, StepLengthens DEF Lengthens
    <2>5. k = Key(r)
      BY <2>2, <2>4, KeyType, MarkMoves
    <2> QED BY <2>4, <2>5 DEF Key
  <1>2. Blames => [Blames]_vars
    OBVIOUS
  <1> QED BY <1>1, TypeCorrect, PTL DEF Spec, OnlyCurrentCredentialCools

\* Time does not run back, and what is owed is not forgotten before its time.
LEMMA OwedKept ==
  ASSUME TypeOK, [Next]_vars, NEW k \in Keys
  PROVE  now' >= now /\ (owed'[k] >= owed[k] \/ owed[k] <= now')
  <1>1. now \in Nat /\ owed[k] \in Nat
    BY DEF TypeOK
  <1>2. ASSUME UNCHANGED <<now, owed>>
        PROVE  now' >= now /\ (owed'[k] >= owed[k] \/ owed[k] <= now')
    BY <1>1, <1>2
  <1>3. ASSUME NEW r \in Requests, NEW d \in Waits, ToldToWait(r, d)
        PROVE  now' >= now /\ (owed'[k] >= owed[k] \/ owed[k] <= now')
    <2>1. CASE ~Current(r)
      BY <1>2, <1>3, <2>1 DEF ToldToWait, Answered
    <2>2. CASE Current(r)
      <3>1. owed'[k] = owed[k] \/ owed'[k] = Later(owed[k], now + d)
        BY <1>3, <2>2 DEF ToldToWait, TypeOK
      <3>2. d \in Nat /\ now' = now
        BY <1>3, CooldownAssumption DEF ToldToWait, Answered
      <3> QED BY <1>1, <3>1, <3>2 DEF Later
    <2> QED BY <2>1, <2>2
  <1>4. CASE Tick
    <2>1. now' = now + 1 /\ owed'[k] = IF owed[k] > now' THEN owed[k] ELSE 0
      BY <1>4 DEF Tick
    <2> QED BY <1>1, <2>1
  <1> QED
    BY <1>2, <1>3, <1>4 DEF Next, Step, Attempt, vars, Begin, Refuse, Pass, Send, Failure,
       AtCapacity, Rejected, Success, Fatal, Resend, RetrySame, GiveUp, Abandon, Failover,
         Finalize,
       Cancel, Login, Reload, Answered

\* An account is kept back no longer than an upstream asked or a short cooldown.
THEOREM CooldownsBounded == Spec => []CooldownBounded
  <1>1. Init => CooldownBounded
    BY DEF Init, CooldownBounded, Live
  <1>2. TypeOK /\ CooldownBounded /\ [Next]_vars => CooldownBounded'
    <2> SUFFICES ASSUME TypeOK, CooldownBounded, [Next]_vars, NEW k \in Keys, until'[k] > now'
                 PROVE  \/ until'[k] <= owed'[k]
                        \/ \E d \in Shorts : until'[k] <= now' + d
      BY DEF CooldownBounded, Live
    <2> DEFINE Bounded == until[k] <= owed[k] \/ \E d \in Shorts : until[k] <= now + d
    <2>1. TypeOK'
      BY NextType
    <2>2. /\ until[k] \in Nat /\ until'[k] \in Nat /\ owed[k] \in Nat
          /\ owed'[k] \in Nat /\ now \in Nat /\ now' \in Nat /\ Shorts \subseteq Nat
      BY <2>1, CooldownAssumption DEF TypeOK
    <2>3. now' >= now /\ (owed'[k] >= owed[k] \/ owed[k] <= now')
      BY OwedKept
    <2>5. CASE until'[k] <= until[k]
      <3>1. k \in Live
        BY <2>2, <2>3, <2>5 DEF Live
      <3>2. Bounded
        BY <3>1 DEF CooldownBounded
      <3> QED BY <2>2, <2>3, <2>5, <3>2
    <2>6. CASE until'[k] > until[k]
      <3>1. ~Shrinks
        BY <2>2, <2>6 DEF Shrinks
      <3>2. PICK r \in Requests, t \in Nat, must \in BOOLEAN :
              /\ now' = now
              /\ Mark(Key(r), t, must)
              /\ \/ t = now + ownShort[r] /\ owed' = owed
                 \/ owed' = [owed EXCEPT ![Key(r)] = Later(@, t)]
        BY <3>1, StepLengthens DEF Lengthens
      <3>3. k = Key(r) /\ until'[k] = t
        BY <2>2, <2>6, <3>2, KeyType, MarkMoves
      <3>4. CASE t = now + ownShort[r]
        <4>1. ownShort[r] \in Shorts
          BY DEF TypeOK
        <4>2. until'[k] <= now' + ownShort[r]
          BY <2>2, <3>2, <3>3, <3>4
        <4> QED BY <4>1, <4>2
      <3>5. CASE owed' = [owed EXCEPT ![Key(r)] = Later(@, t)]
        <4>1. owed'[k] = Later(owed[k], t)
          BY <3>3, <3>5 DEF TypeOK
        <4>2. Later(owed[k], t) >= t
          BY <2>2 DEF Later
        <4>3. until'[k] = t
          BY <3>3
        <4>4. until'[k] <= owed'[k]
          <5> HIDE <3>2, <3>3, <3>5
          <5> QED BY <2>2, <4>1, <4>2, <4>3
        <4> QED BY <4>4
      <3> QED BY <3>2, <3>4, <3>5
    <2> QED BY <2>2, <2>5, <2>6
  <1> QED BY <1>1, <1>2, TypeCorrect, PTL DEF Spec

-----------------------------------------------------------------------------
(* The scope of a request without a session. *)

Excused(k) == k \in Live => k \in mandatory

\* Nobody but the request marks its own scope, and only while it has it: before
\* it has taken its scope and after it has been answered, what is left there is
\* what an upstream asked for.
ScopeInv ==
    \A r \in Requests :
        /\ scope[r] \in {"global", "session", r}
        /\ pc[r] \in {"idle", "done"} => scope[r] = "global"
        /\ scope[r] # r /\ pc[r] # "canceled" => \A a \in Accounts : Excused(<<a, r>>)

LEMMA ExcusedKept ==
  ASSUME TypeOK, NEW k \in Keys, Excused(k), now' = now,
         \/ Prune
         \/ \E j \in Keys \ {k}, t \in Nat, must \in BOOLEAN : Mark(j, t, must)
         \/ \E K \in SUBSET Keys : Clear(K)
         \/ UNCHANGED table
  PROVE  Excused(k)'
  <1>1. until[k] \in Nat /\ now \in Nat
    BY DEF TypeOK
  <1>2. CASE Prune
    BY <1>1, <1>2 DEF Prune, Pruned, Live, Excused
  <1>3. ASSUME NEW j \in Keys \ {k}, NEW t \in Nat, NEW must \in BOOLEAN, Mark(j, t, must)
        PROVE  Excused(k)'
    <2>1. CASE t <= now
      BY <1>3, <2>1 DEF Mark, table, Live, Excused
    <2>2. CASE ~(t <= now)
      <3>1. until'[k] = Pruned[k] /\ (k \in mandatory /\ k \in Live => k \in mandatory')
        BY <1>3, <2>2 DEF Mark, Pruned
      <3> QED BY <1>1, <3>1 DEF Pruned, Live, Excused
    <2> QED BY <2>1, <2>2
  <1>4. ASSUME NEW K \in SUBSET Keys, Clear(K) PROVE Excused(k)'
    BY <1>1, <1>4 DEF Clear, Pruned, Live, Excused
  <1>5. CASE UNCHANGED table
    BY <1>5 DEF table, Live, Excused
  <1> QED BY <1>2, <1>3, <1>4, <1>5

\* A step of a request that has its scope and keeps it.
LEMMA ScopeUnderway ==
  ASSUME TypeOK, ScopeInv, NEW q \in Requests, NEW p \in PCs \ {"idle", "done"},
         pc[q] \notin {"idle", "done", "canceled"}, Goto(q, p), UNCHANGED <<scope, now>>,
         \/ Prune
         \/ \E t \in Nat, must \in BOOLEAN : Mark(Key(q), t, must)
         \/ \E K \in SUBSET Keys : Clear(K)
         \/ UNCHANGED table
  PROVE  ScopeInv'
  <1> SUFFICES ASSUME NEW r \in Requests
               PROVE  /\ scope'[r] \in {"global", "session", r}
                      /\ pc'[r] \in {"idle", "done"} => scope'[r] = "global"
                      /\ scope'[r] # r /\ pc'[r] # "canceled" => \A a \in Accounts : Excused(<<a, r>>)'
    BY DEF ScopeInv
  <1>1. scope'[r] = scope[r] /\ scope[r] \in {"global", "session", r}
    BY DEF ScopeInv
  <1>2. pc'[r] = pc[r] \/ (r = q /\ pc'[r] = p)
    BY DEF Goto, TypeOK
  <1>3. ASSUME scope'[r] # r, pc'[r] # "canceled", NEW a \in Accounts
        PROVE  Excused(<<a, r>>)'
    <2>1. Excused(<<a, r>>)
      BY <1>1, <1>2, <1>3 DEF ScopeInv
    <2>2. Key(q) # <<a, r>>
      <3>1. scope[q] # r
        BY <1>1, <1>3, CooldownAssumption DEF ScopeInv
      <3> QED BY <3>1 DEF Key
    <2>3. <<a, r>> \in Keys
      BY DEF Keys, Scopes
    <2> QED BY <2>1, <2>2, <2>3, KeyType, ExcusedKept
  <1> QED BY <1>1, <1>2, <1>3 DEF ScopeInv

LEMMA ScopeTask ==
  ASSUME TypeOK, ScopeInv, NEW q \in Requests, Step(q)
  PROVE  ScopeInv'
  <1>1. pc \in [Requests -> PCs] /\ scope \in [Requests -> Scopes]
    BY DEF TypeOK
  <1>2. CASE Attempt(q) \/ RetrySame(q) \/ GiveUp(q) \/ Abandon(q)
             \/ \E a \in Accounts : Failover(q, a)
    <2>1. pc[q] \notin {"idle", "done", "canceled"} /\ UNCHANGED <<scope, now>>
      BY <1>2 DEF Attempt, RetrySame, GiveUp, Abandon, Failover, Refuse, Pass, Send, ToldToWait,
                  AtCapacity, Failure, Rejected, Success, Fatal, Resend, Answered, local
    <2>2. \E p \in PCs \ {"idle", "done"} : Goto(q, p)
      <3>1. \/ Goto(q, "prepare") \/ Goto(q, "checked") \/ Goto(q, "sent") \/ Goto(q, "answered")
            \/ Goto(q, "failed") \/ Goto(q, "fatal") \/ Goto(q, "succeeded")
        BY <1>2 DEF Attempt, RetrySame, GiveUp, Abandon, Failover, Refuse, Pass, Send, ToldToWait,
                    AtCapacity, Failure, Rejected, Success, Fatal, Resend, Answered
      <3> QED BY <3>1 DEF PCs
    <2>3. \/ Prune
          \/ \E t \in Nat, must \in BOOLEAN : Mark(Key(q), t, must)
          \/ \E K \in SUBSET Keys : Clear(K)
          \/ UNCHANGED table
      <3>1. CASE Attempt(q)
        <4>1. ASSUME NEW d \in Waits, ToldToWait(q, d) \/ AtCapacity(q, d)
              PROVE  UNCHANGED table \/ Mark(Key(q), now + d, TRUE)
          BY <4>1 DEF ToldToWait, AtCapacity
        <4>2. \A d \in Waits : now + d \in Nat
          BY CooldownAssumption DEF TypeOK
        <4>3. ASSUME NEW hinted \in Hints, NEW again \in BOOLEAN, Failure(q, hinted, again)
              PROVE  UNCHANGED table \/ Mark(Key(q), now + ownShort[q], hinted)
          BY <4>3 DEF Failure
        <4>4. now + ownShort[q] \in Nat /\ Hints \subseteq BOOLEAN
          BY ShortType, CooldownAssumption
        <4>5. ASSUME \/ Refuse(q) \/ Pass(q) \/ Send(q)
                     \/ \E again \in BOOLEAN : Rejected(q, again)
                     \/ \E ok \in BOOLEAN : Success(q, ok)
                     \/ Fatal(q) \/ Resend(q)
              PROVE  UNCHANGED table \/ Prune
          BY <4>5 DEF Refuse, Pass, Send, Rejected, Success, Fatal, Resend
        <4> QED BY <3>1, <4>1, <4>2, <4>3, <4>4, <4>5 DEF Attempt
      <3>2. CASE RetrySame(q)
        BY <3>2, KeyType, {Key(q)} \in SUBSET Keys DEF RetrySame
      <3>3. CASE GiveUp(q) \/ Abandon(q) \/ \E a \in Accounts : Failover(q, a)
        BY <3>3 DEF GiveUp, Abandon, Failover
      <3> QED BY <1>2, <3>1, <3>2, <3>3
    <2> QED BY <2>1, <2>2, <2>3, ScopeUnderway
  <1>3. ASSUME NEW s \in {"global", "session", q}, NEW a \in Accounts, Begin(q, s, a)
        PROVE  ScopeInv'
    <2>1. /\ pc[q] = "idle" /\ pc' = [pc EXCEPT ![q] = "prepare"]
          /\ scope' = [scope EXCEPT ![q] = s] /\ UNCHANGED <<until, mandatory, now>>
      BY <1>3 DEF Begin, Goto, table
    <2>2. scope[q] # q
      BY <2>1, CooldownAssumption DEF ScopeInv
    <2>3. \A k : Excused(k)' = Excused(k)
      BY <2>1 DEF Excused, Live
    <2> QED BY <1>1, <2>1, <2>2, <2>3 DEF ScopeInv
  <1>4. CASE Cancel(q)
    <2>1. /\ pc' = [pc EXCEPT ![q] = "canceled"]
          /\ scope' = [scope EXCEPT ![q] = "global"] /\ UNCHANGED <<until, mandatory, now>>
      BY <1>4 DEF Cancel, Leave, Goto, table
    <2>2. \A k : Excused(k)' = Excused(k)
      BY <2>1 DEF Excused, Live
    <2> QED BY <1>1, <2>1, <2>2 DEF ScopeInv
  <1>5. CASE Finalize(q)
    <2>1. /\ pc[q] \in {"failed", "fatal", "succeeded"}
          /\ pc' = [pc EXCEPT ![q] = "done"]
          /\ scope' = [scope EXCEPT ![q] = "global"] /\ now' = now
      BY <1>5 DEF Finalize, Leave, Goto
    <2> DEFINE K == Accounts \X {scope[q]}
    <2>2. K \in SUBSET Keys
      BY DEF Keys, TypeOK
    <2>3. UNCHANGED table \/ Clear(K)
      BY <1>5 DEF Finalize
    <2>4. scope[q] = q => Clear(K)
      BY <1>5, CooldownAssumption DEF Finalize
    <2> HIDE DEF K
    <2>5. ASSUME NEW r \in Requests, NEW a \in Accounts, Excused(<<a, r>>)
          PROVE  Excused(<<a, r>>)'
      <3>1. <<a, r>> \in Keys
        BY DEF Keys, Scopes
      <3> QED BY <2>1, <2>2, <2>3, <2>5, <3>1, ExcusedKept
    <2>6. ASSUME NEW a \in Accounts PROVE Excused(<<a, q>>)'
      <3>1. CASE scope[q] # q
        BY <2>1, <2>5, <3>1 DEF ScopeInv
      <3>2. CASE scope[q] = q
        <4>1. <<a, q>> \in K /\ <<a, q>> \in Keys
          BY <3>2 DEF K, Keys, Scopes
        <4>2. Clear(K) /\ until[<<a, q>>] \in Nat /\ now \in Nat
          BY <2>4, <3>2, <4>1 DEF TypeOK
        <4> QED BY <2>1, <4>1, <4>2 DEF Clear, Pruned, Live, Excused
      <3> QED BY <3>1, <3>2
    <2> QED BY <1>1, <2>1, <2>5, <2>6 DEF ScopeInv
  <1> QED BY <1>2, <1>3, <1>4, <1>5 DEF Step

LEMMA ScopeInductive == TypeOK /\ ScopeInv /\ [Next]_vars => ScopeInv'
  <1> SUFFICES ASSUME TypeOK, ScopeInv, [Next]_vars PROVE ScopeInv'
    OBVIOUS
  <1>1. ASSUME UNCHANGED <<pc, scope>>,
               \A k \in Keys : Excused(k) => Excused(k)'
        PROVE  ScopeInv'
    <2>1. \A a \in Accounts, r \in Requests : <<a, r>> \in Keys
      BY DEF Keys, Scopes
    <2> QED BY <1>1, <2>1 DEF ScopeInv
  <1>2. CASE Tick
    <2>1. UNCHANGED <<pc, scope, until, mandatory>> /\ now' = now + 1
      BY <1>2 DEF Tick, local, table
    <2>2. ASSUME NEW k \in Keys, Excused(k) PROVE Excused(k)'
      <3>1. until[k] \in Nat /\ now \in Nat
        BY DEF TypeOK
      <3> QED BY <2>1, <2>2, <3>1 DEF Excused, Live
    <2> QED BY <1>1, <2>1, <2>2
  <1>3. ASSUME NEW d \in Shorts, Reload(d) PROVE ScopeInv'
    <2>1. UNCHANGED <<pc, scope, now>>
      BY <1>3 DEF Reload
    <2>2. ASSUME NEW k \in Keys PROVE Excused(k)'
      <3>1. until[k] \in Nat /\ now \in Nat
        BY DEF TypeOK
      <3> QED BY <1>3, <2>1, <3>1 DEF Reload, Excused, Live
    <2> QED BY <1>1, <2>1, <2>2
  <1>4. CASE (\E a \in Accounts : Login(a)) \/ UNCHANGED vars
    <2>1. UNCHANGED <<pc, scope, until, mandatory, now>>
      BY <1>4 DEF Login, vars, local, table
    <2>2. \A k : Excused(k)' = Excused(k)
      BY <2>1 DEF Excused, Live
    <2> QED BY <1>1, <2>1, <2>2
  <1> QED BY <1>2, <1>3, <1>4, ScopeTask DEF Next

\* An answered request leaves nothing in the scope it had to itself but what its
\* upstreams asked for (finalize_codex_responses_cooldown).
THEOREM RequestScopesEnd == Spec => []RequestScopesCleared
  <1>1. Init => ScopeInv
    BY DEF Init, ScopeInv, Excused, Live, Keys, Scopes
  <1>2. ScopeInv => RequestScopesCleared
    BY CooldownAssumption DEF ScopeInv, RequestScopesCleared, Excused
  <1> QED BY <1>1, <1>2, TypeCorrect, ScopeInductive, PTL DEF Spec
=============================================================================
