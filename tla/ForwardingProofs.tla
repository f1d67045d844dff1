-------------------------- MODULE ForwardingProofs --------------------------
(***************************************************************************)
(* Proofs about Forwarding, for any configuration: the invariant that ties *)
(* the scheduler's loop to the priority groups, and what follows from it.  *)
(***************************************************************************)
EXTENDS Forwarding, FiniteSetTheorems, TLAPS

USE ConfigAssumption

\* What the scheduler's loop keeps: something is in flight only inside a group,
\* the launches still allowed and the attempts in flight share the capacity, and
\* a loop with nothing in flight may launch.
Scheduling ==
    /\ pc \in {"launch", "wait"} => group <= LastGroup
    /\ pc \notin {"launch", "wait"} => inflight = {}
    /\ slots + Cardinality(inflight) <= mode.capacity
    /\ pc = "launch" /\ inflight = {} => slots > 0

\* Inside a group, its candidates have an order without repetition, and those
\* launched are in flight or done.
Launched ==
    pc \in {"launch", "wait"} =>
        /\ Enumerates(order, Candidates(group))
        /\ \A i \in DOMAIN order :
            i <= next <=> order[i] \in inflight \cup done

\* The groups before the current one are done, and no later one has begun.
Groups ==
    /\ \A v \in eligible : Rank[v] < group => v \in done
    /\ done \subseteq eligible
    /\ \A v \in done : Rank[v] <= group
    /\ pc = "enter" => \A v \in done : Rank[v] < group
    /\ inflight \subseteq Candidates(group)
    /\ inflight \cap done = {}

\* Why the loop over the groups has ended.
Settled ==
    /\ pc \in {"enter", "launch", "wait"} => summary.response = None
    /\ pc = "finish" => group > LastGroup \/ summary.response # None

Inv == TypeOK /\ Scheduling /\ Launched /\ Groups /\ Settled /\ ExhaustiveFailover

-----------------------------------------------------------------------------
(* Facts about the pieces. *)

LEMMA ModeType == ASSUME TypeOK PROVE mode.capacity \in Nat \ {0}
  BY DEF TypeOK

\* What is in flight can be counted.
LEMMA InflightFinite ==
  ASSUME TypeOK
  PROVE  /\ IsFiniteSet(inflight) /\ Cardinality(inflight) \in Nat
         /\ \A u \in inflight :
                /\ IsFiniteSet(inflight \ {u})
                /\ Cardinality(inflight \ {u}) = Cardinality(inflight) - 1
         /\ \A u \in Upstreams :
                /\ Cardinality(inflight \cup {u}) \in Nat
                /\ Cardinality(inflight \cup {u}) <= Cardinality(inflight) + 1
  <1>1. IsFiniteSet(inflight)
    BY FS_Subset DEF TypeOK
  <1>2. Cardinality(inflight) \in Nat
    BY <1>1, FS_CardinalityType
  <1>3. ASSUME NEW u \in inflight
        PROVE  /\ IsFiniteSet(inflight \ {u})
               /\ Cardinality(inflight \ {u}) = Cardinality(inflight) - 1
    BY <1>1, FS_RemoveElement
  <1>4. ASSUME NEW u \in Upstreams
        PROVE  /\ Cardinality(inflight \cup {u}) \in Nat
               /\ Cardinality(inflight \cup {u}) <= Cardinality(inflight) + 1
    <2>1. Cardinality(inflight \cup {u}) =
            IF u \in inflight THEN Cardinality(inflight) ELSE Cardinality(inflight) + 1
      BY <1>1, FS_AddElement
    <2> QED BY <1>2, <2>1
  <1> QED BY <1>1, <1>2, <1>3, <1>4

\* An order is a sequence that enumerates its candidates.
LEMMA OrderType ==
  ASSUME NEW C \in SUBSET Upstreams, NEW start, NEW until,
         NEW p \in Prioritized(C, start, until)
  PROVE  p \in Seq(Upstreams) /\ DOMAIN p = 1..Len(p) /\ Enumerates(p, C)
  <1>1. Cardinality(C) \in Nat
    BY FS_Subset, FS_CardinalityType
  <1>2. p \in [1..Cardinality(C) -> C] /\ Enumerates(p, C)
    BY DEF Prioritized
  <1>3. p \in Seq(Upstreams)
    BY <1>1, <1>2
  <1> QED BY <1>2, <1>3

LEMMA AbsorbType ==
  ASSUME NEW p \in Partial, NEW u \in Upstreams, NEW k \in Failures
  PROVE  Absorb(p, u, k) \in Partial
  <1>1. k \in Responded => [up |-> u, kind |-> k] \in Ends(Responded)
    BY DEF Ends
  <1>2. p.last \in Ends(Responded) \cup {None} /\ p.timeout \in BOOLEAN /\ p.error \in BOOLEAN
    BY DEF Partial
  <1> HIDE DEF Ends, None, Responded
  <1> QED BY <1>1, <1>2 DEF Absorb, Partial

LEMMA MergeType ==
  ASSUME NEW s \in Summary, NEW p \in Partial, NEW missing \in BOOLEAN
  PROVE  Merge(s, p, missing) \in Summary
  <1>1. p.last \in Ends(Responded) \cup {None} /\ p.timeout \in BOOLEAN /\ p.error \in BOOLEAN
    BY DEF Partial
  <1>2. /\ s.last \in Ends(Responded) \cup {None} /\ s.response \in Ends(Final) \cup {None}
        /\ s.timeout \in BOOLEAN /\ s.error \in BOOLEAN /\ s.missing \in BOOLEAN
    BY DEF Summary
  <1> QED BY <1>1, <1>2 DEF Merge, Summary

LEMMA FinalReplyType == ASSUME TypeOK PROVE FinalReply \in Replies
  <1>1. /\ summary.last \in Ends(Responded) \cup {None}
        /\ summary.response \in Ends(Final) \cup {None}
    BY DEF TypeOK, Summary
  <1>2. Ends(Responded) \subseteq Replies /\ Ends(Final) \subseteq Replies
    BY DEF Replies, Ends
  <1>3. \A kind \in Local : Answer(kind) \in Replies
    BY DEF Replies, Answer
  <1> QED BY <1>1, <1>2, <1>3 DEF FinalReply, Local

LEMMA NothingType == Nothing \in Partial
  BY DEF Nothing, Partial

LEMMA InitInv == Init => Inv
  <1> SUFFICES ASSUME Init PROVE Inv
    OBVIOUS
  <1>1. TypeOK
    <2>1. partial \in [Upstreams -> Partial]
      BY NothingType DEF Init
    <2>2. summary \in Summary
      BY DEF Init, Summary
    <2>3. used \in [Upstreams -> 0..MaxRetries]
      BY DEF Init
    <2>4. order \in Seq(Upstreams) /\ next \in 0..Len(order) /\ slots \in Nat
      BY DEF Init
    <2>5. reply \in Replies
      BY DEF Init, Replies
    <2> QED BY <2>1, <2>2, <2>3, <2>4, <2>5 DEF Init, TypeOK
  <1>2. Scheduling
    BY <1>1, ModeType, FS_EmptySet DEF Init, Scheduling
  <1> QED BY <1>1, <1>2 DEF Init, Inv, Launched, Groups, Settled, ExhaustiveFailover

-----------------------------------------------------------------------------
(* The type invariant. *)

\* The body of a candidate, whether it was repaired or not, has a body's type.
LEMMA RepairType ==
  ASSUME TypeOK, NEW u \in Upstreams, NEW k, NEW resent, Repair(u, k, resent)
  PROVE  body' \in [Upstreams -> {"original", "inherited", "repaired"}]
  BY DEF TypeOK, Repair

LEMMA CompleteType ==
  ASSUME TypeOK, Scheduling, NEW u \in inflight, NEW p \in Partial, NEW b,
         NEW missing \in BOOLEAN, Complete(u, p, b, missing)
  PROVE  /\ inflight' \subseteq Upstreams /\ done' \subseteq Upstreams
         /\ summary' \in Summary
         /\ repaired' \subseteq {Provider[v] : v \in Upstreams}
         /\ slots' \in Nat
         /\ pc' = "launch"
  <1>1. u \in Upstreams
    BY DEF TypeOK
  <1>2. summary' \in Summary
    BY MergeType DEF TypeOK, Complete
  <1>3. slots' \in Nat
    <2>1. /\ Cardinality(inflight \ {u}) = Cardinality(inflight) - 1
          /\ Cardinality(inflight) \in Nat
      BY InflightFinite
    <2>2. Cardinality(inflight \ {u}) <= mode.capacity
      BY <2>1, ModeType DEF Scheduling, TypeOK
    <2>3. Cardinality(inflight \ {u}) \in Int
      BY <2>1
    <2> QED BY <2>2, <2>3, ModeType DEF Complete, Refill
  <1> QED BY <1>1, <1>2, <1>3 DEF TypeOK, Complete

LEMMA DropType ==
  ASSUME TypeOK, DropFutures
  PROVE  /\ inflight' \subseteq Upstreams
         /\ order' \in Seq(Upstreams) /\ next' \in 0..Len(order') /\ slots' \in Nat
         /\ used' \in [Upstreams -> 0..MaxRetries]
         /\ partial' \in [Upstreams -> Partial]
         /\ body' \in [Upstreams -> {"original", "inherited", "repaired"}]
  <1>1. partial' \in [Upstreams -> Partial]
    BY NothingType DEF DropFutures
  <1>2. used' \in [Upstreams -> 0..MaxRetries]
    BY DEF DropFutures
  <1>3. order' \in Seq(Upstreams) /\ next' \in 0..Len(order') /\ slots' \in Nat
    BY DEF DropFutures
  <1> QED BY <1>1, <1>2, <1>3 DEF DropFutures

\* A final answer is a response of the upstream it came from.
LEMMA SettleType ==
  ASSUME TypeOK, NEW u \in Upstreams, NEW k \in Final
  PROVE  [summary EXCEPT !.response = [up |-> u, kind |-> k]] \in Summary
  <1>1. [up |-> u, kind |-> k] \in Ends(Final)
    BY DEF Ends
  <1> QED BY <1>1 DEF TypeOK, Summary

\* The steps of the scheduler and of the client keep the types.
LEMMA ScheduleType ==
  ASSUME Inv, Schedule \/ HedgeTimer \/ ClientCancels \/ Finished
  PROVE  TypeOK'
  <1> USE DEF Inv, static
  <1>1. CASE SkipGroup
    BY <1>1 DEF SkipGroup, TypeOK, sched, cand
  <1>2. CASE EnterGroup
    <2>1. order' \in Seq(Upstreams)
      <3>1. Candidates(group) \in SUBSET Upstreams
        BY DEF TypeOK, Candidates
      <3> QED BY <1>2, <3>1, OrderType DEF EnterGroup
    <2>2. Initial \in Nat
      BY ModeType DEF Initial
    <2>3. next' \in 0..Len(order')
      BY <1>2, <2>1 DEF EnterGroup
    <2> QED BY <1>2, <2>1, <2>2, <2>3 DEF EnterGroup, TypeOK, cand
  <1>3. CASE GroupsExhausted
    BY <1>3 DEF GroupsExhausted, TypeOK, sched, cand
  <1>4. CASE Launch
    <2>1. order[next + 1] \in Upstreams
      BY <1>4 DEF Launch, TypeOK
    <2>2. next' \in 0..Len(order') /\ slots' \in Nat
      BY <1>4 DEF Launch, TypeOK
    <2>3. /\ inflight' \subseteq Upstreams
          /\ body' \in [Upstreams -> {"original", "inherited", "repaired"}]
      BY <1>4, <2>1 DEF Launch, TypeOK
    <2> QED BY <1>4, <2>2, <2>3 DEF Launch, TypeOK
  <1>5. CASE LaunchDone
    BY <1>5 DEF LaunchDone, TypeOK, sched, cand
  <1>6. CASE GroupExhausted
    <2>1. group' \in 1..(LastGroup + 1)
      BY <1>6 DEF GroupExhausted, TypeOK, Scheduling
    <2>2. order' \in Seq(Upstreams) /\ next' \in 0..Len(order') /\ slots' \in Nat
      BY <1>6 DEF GroupExhausted
    <2> QED BY <1>6, <2>1, <2>2 DEF GroupExhausted, TypeOK, cand
  <1>7. CASE Finalize
    <2>1. reply' \in Replies
      BY <1>7, FinalReplyType DEF Finalize
    <2> QED BY <1>7, <2>1 DEF Finalize, TypeOK, sched, cand
  <1>8. CASE HedgeTimer
    BY <1>8 DEF HedgeTimer, TypeOK, cand
  <1>9. CASE ClientCancels
    <2>1. reply' \in Replies
      BY <1>9 DEF ClientCancels, Replies, Answer, Local
    <2> QED BY <1>9, <2>1, DropType DEF ClientCancels, TypeOK
  <1>10. CASE Finished
    BY <1>10 DEF Finished, vars, TypeOK, sched, cand
  <1> QED
    BY <1>1, <1>2, <1>3, <1>4, <1>5, <1>6, <1>7, <1>8, <1>9, <1>10 DEF Schedule

\* So do the ways an attempt ends.
LEMMA OutcomeType ==
  ASSUME Inv, NEW u \in Upstreams, Outcome(u)
  PROVE  TypeOK'
  <1> USE DEF Inv, static
  <1>1. ASSUME NEW k \in Final, Settle(u, k) PROVE TypeOK'
    BY <1>1, SettleType, DropType DEF Settle, TypeOK
  <1>2. ASSUME NEW k \in Failures, NEW resent \in BOOLEAN, RetrySame(u, k, resent)
        PROVE  TypeOK'
    <2>1. used' \in [Upstreams -> 0..MaxRetries]
      BY <1>2 DEF RetrySame, MayRetry, TypeOK
    <2>2. partial' \in [Upstreams -> Partial]
      BY <1>2, AbsorbType DEF RetrySame, TypeOK
    <2> QED BY <1>2, <2>1, <2>2, RepairType DEF RetrySame, TypeOK, sched
  <1>3. ASSUME NEW k \in Failures, NEW resent \in BOOLEAN, GiveUp(u, k, resent)
        PROVE  TypeOK'
    <2>1. partial' \in [Upstreams -> Partial]
      BY <1>3, AbsorbType DEF GiveUp, TypeOK
    <2>2. partial'[u] \in Partial
      BY <2>1
    <2>3. Complete(u, partial'[u], body'[u], FALSE) /\ u \in inflight
      BY <1>3 DEF GiveUp
    <2> QED BY <1>3, <2>1, <2>2, <2>3, CompleteType, RepairType DEF GiveUp, TypeOK
  <1>4. CASE SkipAuth(u)
    <2>1. partial[u] \in Partial
      BY DEF TypeOK
    <2> QED BY <1>4, <2>1, CompleteType DEF SkipAuth, TypeOK
  <1> QED BY <1>1, <1>2, <1>3, <1>4 DEF Outcome

-----------------------------------------------------------------------------
(* The scheduler's loop and the capacity. *)

LEMMA InitialBound == ASSUME TypeOK PROVE Initial \in 1..mode.capacity
  BY ModeType DEF Initial

\* The refill leaves room for those in flight, and something to do if none is.
LEMMA RefillBound ==
  ASSUME TypeOK, NEW n \in Nat, n < mode.capacity
  PROVE  /\ Refill(n) + n <= mode.capacity
         /\ n = 0 => Refill(n) > 0
  BY ModeType DEF Refill

\* A completed candidate makes room for what the refill launches.
LEMMA CompleteScheduling ==
  ASSUME Inv, pc = "wait", NEW u \in inflight, NEW p, NEW b, NEW missing,
         Complete(u, p, b, missing), UNCHANGED <<static, group>>
  PROVE  Scheduling'
  <1> DEFINE n == Cardinality(inflight \ {u})
  <1>1. n = Cardinality(inflight) - 1 /\ n \in Nat
    <2>1. IsFiniteSet(inflight \ {u})
      BY InflightFinite DEF Inv
    <2> QED BY <2>1, InflightFinite, FS_CardinalityType DEF Inv
  <1>2. n < mode.capacity
    BY <1>1, InflightFinite, ModeType DEF Inv, Scheduling, TypeOK
  <1>3. /\ Refill(n) + n <= mode.capacity
        /\ n = 0 => Refill(n) > 0
    BY <1>1, <1>2, RefillBound DEF Inv
  <1>4. inflight \ {u} = {} => n = 0
    BY FS_EmptySet
  <1>5. slots' = Refill(n) /\ inflight' = inflight \ {u} /\ pc' = "launch"
    BY DEF Complete
  <1>6. mode' = mode /\ group' = group /\ group <= LastGroup
    BY DEF static, Inv, Scheduling
  <1> HIDE DEF n
  <1>7. Cardinality(inflight') = n
    BY <1>5 DEF n
  <1> QED BY <1>3, <1>4, <1>5, <1>6, <1>7 DEF Scheduling

LEMMA DropScheduling ==
  ASSUME TypeOK, DropFutures, mode' = mode, pc' \in {"finish", "done"}
  PROVE  Scheduling'
  BY FS_EmptySet, ModeType DEF DropFutures, Scheduling

LEMMA SchedulingStep == Inv /\ [Next]_vars => Scheduling'
  <1> SUFFICES ASSUME Inv, [Next]_vars PROVE Scheduling'
    OBVIOUS
  <1> USE DEF Inv, static
  <1>1. CASE SkipGroup
    BY <1>1 DEF SkipGroup, Scheduling, sched
  <1>2. CASE EnterGroup
    <2>1. Cardinality(inflight) = 0 /\ inflight = {}
      BY <1>2, FS_EmptySet DEF EnterGroup, Scheduling
    <2>2. inflight' = inflight /\ slots' = Initial /\ pc' = "launch"
          /\ mode' = mode /\ group' = group /\ group <= LastGroup
      BY <1>2 DEF EnterGroup
    <2> QED BY <2>1, <2>2, InitialBound, ModeType DEF Scheduling
  <1>3. CASE GroupsExhausted
    BY <1>3 DEF GroupsExhausted, Scheduling, sched
  <1>4. CASE Launch
    <2>1. order[next + 1] \in Upstreams
      BY <1>4 DEF Launch, TypeOK
    <2>2. Cardinality(inflight') <= Cardinality(inflight) + 1 /\ Cardinality(inflight') \in Nat
      BY <1>4, <2>1, InflightFinite DEF Launch
    <2>3. slots' = slots - 1 /\ slots \in Nat /\ inflight' # {}
      BY <1>4 DEF Launch, TypeOK
    <2>4. slots' + Cardinality(inflight') <= mode.capacity
      BY <2>2, <2>3, InflightFinite, ModeType DEF Scheduling
    <2> QED BY <1>4, <2>3, <2>4 DEF Launch, Scheduling
  <1>5. CASE LaunchDone
    BY <1>5 DEF LaunchDone, Scheduling, sched
  <1>6. CASE GroupExhausted
    BY <1>6, FS_EmptySet, ModeType DEF GroupExhausted, Scheduling
  <1>7. CASE Finalize
    BY <1>7 DEF Finalize, Scheduling, sched
  <1>8. CASE HedgeTimer
    <2>1. slots' = 1 /\ inflight' = inflight /\ mode' = mode /\ group' = group
          /\ pc' = "launch" /\ pc = "wait"
      BY <1>8 DEF HedgeTimer
    <2>2. Cardinality(inflight) < mode.capacity
      BY <1>8 DEF HedgeTimer
    <2> QED BY <2>1, <2>2, InflightFinite, ModeType DEF Scheduling
  <1>9. CASE ClientCancels
    BY <1>9, DropScheduling DEF ClientCancels
  <1>10. ASSUME NEW u \in Upstreams, NEW k \in Final, Settle(u, k) PROVE Scheduling'
    BY <1>10, DropScheduling DEF Settle
  <1>11. ASSUME NEW u \in Upstreams, NEW k \in Failures, NEW resent \in BOOLEAN,
                RetrySame(u, k, resent)
         PROVE  Scheduling'
    BY <1>11 DEF RetrySame, Scheduling, sched
  <1>12. ASSUME NEW u \in Upstreams, NEW k \in Failures, NEW resent \in BOOLEAN,
                GiveUp(u, k, resent)
         PROVE  Scheduling'
    BY <1>12, CompleteScheduling DEF GiveUp
  <1>13. ASSUME NEW u \in Upstreams, SkipAuth(u) PROVE Scheduling'
    BY <1>13, CompleteScheduling DEF SkipAuth
  <1>14. CASE UNCHANGED vars
    BY <1>14 DEF vars, sched, Scheduling
  <1> QED
    BY <1>1, <1>2, <1>3, <1>4, <1>5, <1>6, <1>7, <1>8, <1>9, <1>10, <1>11, <1>12,
       <1>13, <1>14 DEF Next, Schedule, Outcome, Finished

-----------------------------------------------------------------------------
(* The order of a group and what has been launched of it. *)

\* What is launched next is a candidate of the group that was not tried before.
LEMMA NextLaunch ==
  ASSUME Inv, Launch
  PROVE  /\ next + 1 \in DOMAIN order
         /\ order[next + 1] \in Candidates(group)
         /\ order[next + 1] \notin inflight \cup done
  <1>1. next + 1 \in DOMAIN order
    BY DEF Inv, TypeOK, Launch
  <1>2. Enumerates(order, Candidates(group))
    BY DEF Inv, Launched, Launch
  <1>3. ~(next + 1 <= next)
    BY DEF Inv, TypeOK
  <1> QED BY <1>1, <1>2, <1>3 DEF Inv, Launched, Launch, Enumerates

LEMMA CandidatesSame ==
  ASSUME group' = group, eligible' = eligible
  PROVE  Candidates(group)' = Candidates(group)
  BY DEF Candidates

\* Who completes goes from those in flight to those done.
LEMMA CompleteLaunched ==
  ASSUME Inv, pc = "wait", NEW u \in inflight, NEW p, NEW b, NEW missing,
         Complete(u, p, b, missing), UNCHANGED <<static, group, order, next>>
  PROVE  Launched' /\ Groups'
  <1>1. inflight' \cup done' = inflight \cup done
    BY DEF Complete
  <1>2. Candidates(group)' = Candidates(group)
    BY CandidatesSame DEF static
  <1>3. Launched'
    BY <1>1, <1>2 DEF Inv, Launched, Enumerates
  <1>4. u \in eligible /\ Rank[u] = group
    BY DEF Inv, Groups, Candidates
  <1>5. \A v \in done : Rank[v] <= group
    BY DEF Inv, Groups
  <1>6. group' = group /\ eligible' = eligible /\ pc' = "launch"
        /\ done' = done \cup {u} /\ inflight' = inflight \ {u}
    BY DEF Complete, static
  <1>7. group \in Int
    BY DEF Inv, TypeOK
  <1>8. Groups'
    BY <1>2, <1>4, <1>5, <1>6, <1>7 DEF Inv, Groups
  <1> QED BY <1>3, <1>8

LEMMA LaunchedStep == Inv /\ [Next]_vars => Launched'
  <1> SUFFICES ASSUME Inv, [Next]_vars PROVE Launched'
    OBVIOUS
  <1> USE DEF Inv, static
  <1>1. CASE EnterGroup
    <2>1. PICK start \in Starts(Candidates(group)), d \in Deadlines(Candidates(group)) :
            order' \in Prioritized(Candidates(group), start, d)
      BY <1>1 DEF EnterGroup
    <2>2. /\ Enumerates(order', Candidates(group))
          /\ DOMAIN order' = 1..Len(order')
      <3>1. Candidates(group) \in SUBSET Upstreams
        BY DEF TypeOK, Candidates
      <3> QED BY <2>1, <3>1, OrderType
    <2>3. Candidates(group)' = Candidates(group)
      BY <1>1, CandidatesSame DEF EnterGroup
    <2>4. ASSUME NEW i \in DOMAIN order'
          PROVE  order'[i] \notin inflight' \cup done' /\ ~(i <= next')
      <3>1. order'[i] \in Candidates(group)
        BY <2>2 DEF Enumerates
      <3>2. Rank[order'[i]] = group
        BY <3>1 DEF Candidates
      <3>3. inflight' = {} /\ done' = done /\ next' = 0
        BY <1>1 DEF EnterGroup, Scheduling
      <3>4. \A v \in done : Rank[v] < group
        BY <1>1 DEF EnterGroup, Groups
      <3>5. i \in Int /\ ~(i <= 0)
        BY <2>2
      <3>6. ~(group < group)
        BY DEF TypeOK
      <3> QED BY <3>2, <3>3, <3>4, <3>5, <3>6
    <2> QED BY <2>2, <2>3, <2>4 DEF Launched
  <1>2. CASE Launch
    <2>1. Candidates(group)' = Candidates(group) /\ order' = order
          /\ done' = done /\ pc \in {"launch", "wait"}
      BY <1>2, CandidatesSame DEF Launch
    <2>2. inflight' = inflight \cup {order[next + 1]} /\ next' = next + 1
      BY <1>2 DEF Launch
    <2>3. Enumerates(order, Candidates(group))
      BY <2>1 DEF Launched
    <2>4. ASSUME NEW i \in DOMAIN order
          PROVE  i <= next + 1 <=> order[i] \in inflight' \cup done
      <3>1. i <= next <=> order[i] \in inflight \cup done
        BY <2>1 DEF Launched
      <3>2. order[i] = order[next + 1] <=> i = next + 1
        BY <1>2, <2>3, NextLaunch DEF Enumerates
      <3>3. i \in Int /\ next \in Int
        BY DEF TypeOK
      <3> QED BY <2>2, <3>1, <3>2, <3>3
    <2> QED BY <2>1, <2>2, <2>3, <2>4 DEF Launched
  <1>3. CASE LaunchDone \/ HedgeTimer
    BY <1>3, CandidatesSame DEF LaunchDone, HedgeTimer, Launched, sched, Enumerates
  <1>4. CASE SkipGroup \/ GroupsExhausted \/ GroupExhausted \/ Finalize \/ ClientCancels
    BY <1>4 DEF SkipGroup, GroupsExhausted, GroupExhausted, Finalize, ClientCancels, Launched
  <1>5. ASSUME NEW u \in Upstreams, NEW k \in Final, Settle(u, k) PROVE Launched'
    BY <1>5 DEF Settle, Launched
  <1>6. ASSUME NEW u \in Upstreams, NEW k \in Failures, NEW resent \in BOOLEAN,
               RetrySame(u, k, resent)
        PROVE  Launched'
    BY <1>6, CandidatesSame DEF RetrySame, Launched, sched, Enumerates
  <1>7. ASSUME NEW u \in Upstreams, NEW k \in Failures, NEW resent \in BOOLEAN,
               GiveUp(u, k, resent)
        PROVE  Launched'
    BY <1>7, CompleteLaunched DEF GiveUp
  <1>8. ASSUME NEW u \in Upstreams, SkipAuth(u) PROVE Launched'
    BY <1>8, CompleteLaunched DEF SkipAuth
  <1>9. CASE UNCHANGED vars
    BY <1>9, CandidatesSame DEF vars, sched, Launched, Enumerates
  <1> QED
    BY <1>1, <1>2, <1>3, <1>4, <1>5, <1>6, <1>7, <1>8, <1>9
    DEF Next, Schedule, Outcome, Finished

LEMMA GroupsStep == Inv /\ [Next]_vars => Groups'
  <1> SUFFICES ASSUME Inv, [Next]_vars PROVE Groups'
    OBVIOUS
  <1> USE DEF Inv, static
  <1>0. group \in Int /\ \A v \in eligible : Rank[v] \in Int
    BY DEF TypeOK
  <1>1. CASE SkipGroup
    <2>1. ASSUME NEW v \in eligible, Rank[v] < group + 1 PROVE v \in done
      <3>1. Rank[v] # group
        BY <1>1 DEF SkipGroup, Candidates
      <3> QED BY <1>0, <2>1, <3>1 DEF Groups
    <2>2. inflight' = {} /\ group' = group + 1 /\ done' = done /\ eligible' = eligible
      BY <1>1 DEF SkipGroup, Scheduling
    <2>3. \A v \in done : Rank[v] < group + 1 /\ Rank[v] <= group + 1
      BY <1>0 DEF Groups
    <2> QED BY <2>1, <2>2, <2>3 DEF Groups
  <1>2. CASE EnterGroup \/ GroupsExhausted \/ LaunchDone \/ HedgeTimer \/ Finalize
    BY <1>2, CandidatesSame
    DEF EnterGroup, GroupsExhausted, LaunchDone, HedgeTimer, Finalize, Groups
  <1>3. CASE Launch
    BY <1>3, CandidatesSame, NextLaunch DEF Launch, Groups
  <1>4. CASE GroupExhausted
    <2>1. inflight = {} /\ next = Len(order)
      BY <1>4 DEF GroupExhausted, Scheduling, TypeOK
    <2>2. ASSUME NEW v \in Candidates(group) PROVE v \in done
      <3>1. PICK i \in DOMAIN order : v = order[i]
        BY <1>4 DEF GroupExhausted, Launched, Enumerates
      <3>2. i <= next
        BY <2>1 DEF TypeOK
      <3> QED BY <1>4, <2>1, <3>1, <3>2 DEF GroupExhausted, Launched
    <2>3. ASSUME NEW v \in eligible, Rank[v] < group + 1 PROVE v \in done
      <3>1. CASE Rank[v] = group
        BY <2>2, <3>1 DEF Candidates
      <3>2. CASE Rank[v] # group
        BY <1>0, <2>3, <3>2 DEF Groups
      <3> QED BY <3>1, <3>2
    <2>4. group' = group + 1 /\ done' = done /\ eligible' = eligible /\ inflight' = {}
      BY <1>4, <2>1 DEF GroupExhausted
    <2>5. \A v \in done : Rank[v] < group + 1 /\ Rank[v] <= group + 1
      BY <1>0 DEF Groups
    <2> QED BY <2>3, <2>4, <2>5 DEF Groups
  <1>5. CASE ClientCancels
    BY <1>5 DEF ClientCancels, DropFutures, Groups
  <1>6. ASSUME NEW u \in Upstreams, NEW k \in Final, Settle(u, k) PROVE Groups'
    BY <1>6 DEF Settle, DropFutures, Groups
  <1>7. ASSUME NEW u \in Upstreams, NEW k \in Failures, NEW resent \in BOOLEAN,
               RetrySame(u, k, resent)
        PROVE  Groups'
    BY <1>7, CandidatesSame DEF RetrySame, Groups
  <1>8. ASSUME NEW u \in Upstreams, NEW k \in Failures, NEW resent \in BOOLEAN,
               GiveUp(u, k, resent)
        PROVE  Groups'
    BY <1>8, CompleteLaunched DEF GiveUp
  <1>9. ASSUME NEW u \in Upstreams, SkipAuth(u) PROVE Groups'
    BY <1>9, CompleteLaunched DEF SkipAuth
  <1>10. CASE UNCHANGED vars
    BY <1>10, CandidatesSame DEF vars, Groups
  <1> QED
    BY <1>1, <1>2, <1>3, <1>4, <1>5, <1>6, <1>7, <1>8, <1>9, <1>10
    DEF Next, Schedule, Outcome, Finished

-----------------------------------------------------------------------------
(* The end of the loop, and the invariant. *)

LEMMA SettledStep == Inv /\ [Next]_vars => Settled'
  <1> SUFFICES ASSUME Inv, [Next]_vars PROVE Settled'
    OBVIOUS
  <1> USE DEF Inv, Settled
  <1>1. CASE SkipGroup \/ EnterGroup \/ GroupsExhausted
    BY <1>1 DEF SkipGroup, EnterGroup, GroupsExhausted
  <1>2. CASE Launch \/ LaunchDone \/ GroupExhausted \/ HedgeTimer
    BY <1>2 DEF Launch, LaunchDone, GroupExhausted, HedgeTimer
  <1>3. CASE Finalize \/ ClientCancels
    BY <1>3 DEF Finalize, ClientCancels
  <1>4. ASSUME NEW u \in Upstreams, NEW k \in Final, Settle(u, k) PROVE Settled'
    <2>1. summary'.response = [up |-> u, kind |-> k]
      BY <1>4 DEF Settle, TypeOK, Summary
    <2>2. summary'.response # None
      BY <2>1 DEF None
    <2> QED BY <1>4, <2>2 DEF Settle
  <1>5. ASSUME NEW u \in Upstreams, NEW k \in Failures, NEW resent \in BOOLEAN,
               RetrySame(u, k, resent)
        PROVE  Settled'
    BY <1>5 DEF RetrySame
  <1>6. ASSUME NEW u, NEW p, NEW b, NEW missing, pc = "wait", Complete(u, p, b, missing)
        PROVE  Settled'
    BY <1>6 DEF Complete, Merge
  <1>7. ASSUME NEW u \in Upstreams, NEW k \in Failures, NEW resent \in BOOLEAN,
               GiveUp(u, k, resent)
        PROVE  Settled'
    BY <1>6, <1>7 DEF GiveUp
  <1>8. ASSUME NEW u \in Upstreams, SkipAuth(u) PROVE Settled'
    BY <1>6, <1>8 DEF SkipAuth
  <1>9. CASE UNCHANGED vars
    BY <1>9 DEF vars
  <1> QED
    BY <1>1, <1>2, <1>3, <1>4, <1>5, <1>7, <1>8, <1>9 DEF Next, Schedule, Outcome, Finished

\* A failure is reported when the groups are exhausted, so that all are done.
LEMMA ExhaustiveStep == Inv /\ [Next]_vars => ExhaustiveFailover'
  <1> SUFFICES ASSUME Inv, [Next]_vars PROVE ExhaustiveFailover'
    OBVIOUS
  <1> USE DEF Inv, ExhaustiveFailover
  <1>1. CASE Finalize
    <2>1. CASE summary.response # None
      <3>1. summary.response.kind \in Final
        BY <2>1 DEF TypeOK, Summary, Ends
      <3>2. reply' = summary.response
        BY <1>1, <2>1 DEF Finalize, FinalReply
      <3> QED BY <3>1, <3>2
    <2>2. CASE summary.response = None
      <3>1. group > LastGroup
        BY <1>1, <2>2 DEF Finalize, Settled
      <3>2. \A v \in eligible : Rank[v] < group
        BY <3>1 DEF TypeOK
      <3>3. done = eligible
        BY <3>2 DEF Groups
      <3> QED BY <1>1, <3>3 DEF Finalize, static
    <2> QED BY <2>1, <2>2
  <1>2. CASE ClientCancels
    BY <1>2 DEF ClientCancels, Answer
  <1>3. CASE SkipGroup \/ EnterGroup \/ GroupsExhausted
    BY <1>3 DEF SkipGroup, EnterGroup, GroupsExhausted
  <1>4. CASE Launch \/ LaunchDone \/ GroupExhausted \/ HedgeTimer
    BY <1>4 DEF Launch, LaunchDone, GroupExhausted, HedgeTimer
  <1>5. ASSUME NEW u \in Upstreams, Outcome(u) PROVE ExhaustiveFailover'
    BY <1>5 DEF Outcome, Settle, RetrySame, GiveUp, SkipAuth, Complete
  <1>6. CASE UNCHANGED vars
    BY <1>6 DEF vars, static
  <1> QED BY <1>1, <1>2, <1>3, <1>4, <1>5, <1>6 DEF Next, Schedule, Finished

LEMMA NextInv == Inv /\ [Next]_vars => Inv'
  <1> SUFFICES ASSUME Inv, [Next]_vars PROVE Inv'
    OBVIOUS
  <1>1. TypeOK'
    <2>1. CASE UNCHANGED vars
      BY <2>1, ScheduleType DEF Finished, Inv, TypeOK, vars, static, sched, cand
    <2>2. CASE Next
      BY <2>2, ScheduleType, OutcomeType DEF Next
    <2> QED BY <2>1, <2>2
  <1> QED
    BY <1>1, SchedulingStep, LaunchedStep, GroupsStep, SettledStep, ExhaustiveStep DEF Inv

LEMMA Invariance == Spec => []Inv
  <1>1. Spec => Init /\ [][Next]_vars
    BY DEF Spec
  <1> QED BY <1>1, InitInv, NextInv, PTL

-----------------------------------------------------------------------------
(* What a reader should know of. *)

\* The state of a request keeps its type, the answer and the bodies included.
THEOREM TypeCorrect == Spec => []TypeOK
  BY Invariance, PTL DEF Inv

\* A candidate runs only once every eligible one of higher priority has failed.
THEOREM PriorityKept == Spec => []PriorityOrder
  <1>1. Inv => PriorityOrder
    BY DEF Inv, Groups, Candidates, PriorityOrder
  <1> QED BY <1>1, Invariance, PTL

\* No mode has more attempts in flight than its capacity.
THEOREM CapacityKept == Spec => []ConcurrencyBound
  <1>1. Inv => ConcurrencyBound
    <2> SUFFICES ASSUME Inv PROVE ConcurrencyBound
      OBVIOUS
    <2>1. slots \in Nat /\ slots + Cardinality(inflight) <= mode.capacity
      BY DEF Inv, TypeOK, Scheduling
    <2> QED BY <2>1, InflightFinite, ModeType DEF Inv, ConcurrencyBound
  <1> QED BY <1>1, Invariance, PTL

\* A client is told of a failure only after every eligible candidate was tried.
THEOREM FailoverExhaustive == Spec => []ExhaustiveFailover
  BY Invariance, PTL DEF Inv

-----------------------------------------------------------------------------
(* Repaired bodies. *)

\* While upstreams are tried, an entry of repaired_bodies is the body of a
\* candidate that has failed.
RepairsKnown ==
    pc \in {"enter", "launch", "wait"} =>
        \A q \in repaired : \E v \in done : Provider[v] = q /\ body[v] = "repaired"

Repairs == RepairsKnown /\ RepairIsolation

LEMMA InitRepairs == Init => Repairs
  BY DEF Init, Repairs, RepairsKnown, RepairIsolation

\* An attempt that repairs its body is in flight: it disturbs no finished one.
LEMMA RepairKeeps ==
  ASSUME Inv, Repairs, NEW u \in inflight, NEW k, NEW resent, Repair(u, k, resent),
         done \subseteq done', repaired' = repaired,
         pc' \in {"enter", "launch", "wait"} => pc \in {"enter", "launch", "wait"}
  PROVE  Repairs'
  <1>1. \A v \in Upstreams : v # u => body'[v] = body[v]
    BY DEF Repair, Inv, TypeOK
  <1>2. u \in Upstreams /\ u \notin done /\ done \subseteq Upstreams
    BY DEF Inv, TypeOK, Groups
  <1>3. RepairsKnown'
    BY <1>1, <1>2 DEF Repairs, RepairsKnown
  <1>4. body'[u] \in {"repaired", body[u]}
    BY <1>2 DEF Repair, Inv, TypeOK
  <1>5. RepairIsolation'
    BY <1>1, <1>2, <1>4 DEF Repairs, RepairIsolation
  <1> QED BY <1>3, <1>5 DEF Repairs

LEMMA RepairsStep == Inv /\ Repairs /\ [Next]_vars => Repairs'
  <1> SUFFICES ASSUME Inv, Repairs, [Next]_vars PROVE Repairs'
    OBVIOUS
  <1> USE DEF Repairs, RepairsKnown, RepairIsolation
  <1>1. CASE SkipGroup \/ EnterGroup \/ GroupsExhausted \/ Finalize
    BY <1>1 DEF SkipGroup, EnterGroup, GroupsExhausted, Finalize, cand
  <1>2. CASE LaunchDone \/ GroupExhausted \/ HedgeTimer
    BY <1>2 DEF LaunchDone, GroupExhausted, HedgeTimer, cand
  <1>3. CASE Launch
    <2> DEFINE u == order[next + 1]
    <2>1. u \in Upstreams /\ u \notin done
      BY <1>3, NextLaunch DEF Candidates, Inv, TypeOK
    <2>2. /\ \A v \in Upstreams : v # u => body'[v] = body[v]
          /\ body'[u] = IF Provider[u] \in repaired THEN "inherited" ELSE body[u]
      BY <1>3, <2>1 DEF Launch, Inv, TypeOK
    <2>3. done' = done /\ repaired' = repaired /\ pc' = pc /\ pc = "launch" /\ done \subseteq Upstreams
      BY <1>3 DEF Launch, Inv, TypeOK
    <2> HIDE DEF u
    <2>4. RepairsKnown'
      BY <2>1, <2>2, <2>3
    <2>5. RepairIsolation'
      BY <2>1, <2>2, <2>3
    <2> QED BY <2>4, <2>5
  <1>4. CASE ClientCancels
    BY <1>4 DEF ClientCancels, DropFutures
  <1>5. ASSUME NEW u \in Upstreams, NEW k \in Final, Settle(u, k) PROVE Repairs'
    BY <1>5 DEF Settle, DropFutures
  <1>6. ASSUME NEW u \in Upstreams, NEW k \in Failures, NEW resent \in BOOLEAN,
               RetrySame(u, k, resent)
        PROVE  Repairs'
    BY <1>6, RepairKeeps DEF RetrySame
  <1>7. ASSUME NEW u \in Upstreams, NEW k \in Failures, NEW resent \in BOOLEAN,
               GiveUp(u, k, resent)
        PROVE  Repairs'
    <2>1. \A v \in Upstreams : v # u => body'[v] = body[v]
      BY <1>7 DEF GiveUp, Repair, Inv, TypeOK
    <2>2. u \in inflight /\ u \notin done /\ done \subseteq Upstreams
      BY <1>7 DEF GiveUp, Inv, TypeOK, Groups
    <2>3. body'[u] \in {"repaired", body[u]}
      BY <1>7 DEF GiveUp, Repair, Inv, TypeOK
    <2>4. /\ done' = done \cup {u} /\ pc = "wait"
          /\ repaired' = IF body'[u] = "repaired" THEN repaired \cup {Provider[u]} ELSE repaired
      BY <1>7 DEF GiveUp, Complete
    <2>5. RepairsKnown'
      BY <2>1, <2>2, <2>4
    <2>6. RepairIsolation'
      BY <2>1, <2>2, <2>3, <2>4
    <2> QED BY <2>5, <2>6
  <1>8. ASSUME NEW u \in Upstreams, SkipAuth(u) PROVE Repairs'
    <2>1. /\ done' = done \cup {u} /\ body' = body /\ pc = "wait"
          /\ repaired' = IF body[u] = "repaired" THEN repaired \cup {Provider[u]} ELSE repaired
      BY <1>8 DEF SkipAuth, Complete
    <2> QED BY <2>1
  <1>9. CASE UNCHANGED vars
    BY <1>9 DEF vars, cand
  <1> QED
    BY <1>1, <1>2, <1>3, <1>4, <1>5, <1>6, <1>7, <1>8, <1>9
    DEF Next, Schedule, Outcome, Finished

\* A repaired body reaches no upstream of another provider.
THEOREM RepairsIsolated == Spec => []RepairIsolation
  <1>1. Spec => Init /\ [][Next]_vars
    BY DEF Spec
  <1>2. Repairs => RepairIsolation
    BY DEF Repairs
  <1> QED BY <1>1, <1>2, Invariance, InitRepairs, RepairsStep, PTL

-----------------------------------------------------------------------------
(* What a failure answer says. *)

Failed(p) == p.timeout \/ p.error

\* What a candidate's own attempts have left shows that it was attempted.
Traces ==
    /\ \A u \in Upstreams : u \in attempted <=> Failed(partial[u])
    /\ \A u \in Upstreams :
        partial[u].last # None => u \in attempted /\ partial[u].last.up = u
    /\ attempted \subseteq inflight \cup done

\* The summary is what the candidates that are done have left.
Summarized ==
    /\ \A u \in done : /\ partial[u].timeout => summary.timeout
                       /\ partial[u].error => summary.error
                       /\ partial[u].last # None => summary.last # None
                       /\ Failed(partial[u]) \/ summary.missing
    /\ summary.last # None =>
        summary.last.up \in done /\ partial[summary.last.up].last = summary.last
    /\ summary.timeout \/ summary.error => attempted # {}

Accounted ==
    /\ pc # "done" /\ summary.response = None => Traces /\ Summarized
    /\ FailureExplained

LEMMA InitAccounted == Init => Accounted
  <1> SUFFICES ASSUME Init PROVE Accounted
    OBVIOUS
  <1>1. Traces
    BY DEF Init, Traces, Failed, Nothing
  <1>2. Summarized
    BY DEF Init, Summarized
  <1> QED BY <1>1, <1>2 DEF Init, Accounted, FailureExplained

\* An attempt is recorded with the candidate that made it.
LEMMA AbsorbTraces ==
  ASSUME Inv, Traces, NEW u \in inflight, NEW k \in Failures,
         partial' = [partial EXCEPT ![u] = Absorb(@, u, k)],
         attempted' = attempted \cup {u},
         inflight' \cup done' = inflight \cup done
  PROVE  /\ Traces'
         /\ \A v \in Upstreams : v # u => partial'[v] = partial[v]
         /\ Failed(partial'[u])
  <1>1. u \in Upstreams
    BY DEF Inv, TypeOK
  <1>2. /\ partial'[u] = Absorb(partial[u], u, k)
        /\ \A v \in Upstreams : v # u => partial'[v] = partial[v]
    BY <1>1 DEF Inv, TypeOK
  <1>3. Failed(partial'[u])
    <2>1. k = "timeout" \/ k \in Retryable \ {"timeout"}
      BY DEF Retryable, Silent, Responded
    <2>2. /\ partial'[u].timeout = (partial[u].timeout \/ k = "timeout")
          /\ partial'[u].error = (partial[u].error \/ k \in Retryable \ {"timeout"})
      BY <1>2 DEF Absorb
    <2> QED BY <2>1, <2>2, Zenon DEF Failed
  <1>4. partial'[u].last # None => partial'[u].last.up = u
    BY <1>1, <1>2 DEF Absorb, Traces
  <1>5. Traces'
    BY <1>1, <1>2, <1>3, <1>4 DEF Traces
  <1> QED BY <1>2, <1>3, <1>5

\* merge_group_result adds what the candidate has left.
LEMMA MergeSummarized ==
  ASSUME Inv, Summarized, Traces', pc = "wait", NEW u \in inflight, NEW b,
         NEW missing \in BOOLEAN, Complete(u, partial'[u], b, missing),
         \A v \in Upstreams : v # u => partial'[v] = partial[v],
         attempted \subseteq attempted', Failed(partial'[u]) \/ missing
  PROVE  Summarized'
  <1>1. u \in Upstreams /\ u \notin done /\ done \subseteq Upstreams
    BY DEF Inv, TypeOK, Groups
  <1>2. done' = done \cup {u} /\ summary' = Merge(summary, partial'[u], missing)
    BY DEF Complete
  <1>3. /\ summary'.timeout = (summary.timeout \/ partial'[u].timeout)
        /\ summary'.error = (summary.error \/ partial'[u].error)
        /\ summary'.missing = (summary.missing \/ missing)
        /\ summary'.last = IF partial'[u].last # None THEN partial'[u].last ELSE summary.last
    BY <1>2 DEF Merge
  <1>4. \A v \in done : partial'[v] = partial[v]
    BY <1>1
  <1>5. partial'[u].last # None => partial'[u].last.up = u
    BY <1>1 DEF Traces
  <1>6. Failed(partial'[u]) => attempted' # {}
    BY <1>1 DEF Traces
  <1>7. \A v \in done' : /\ partial'[v].timeout => summary'.timeout
                         /\ partial'[v].error => summary'.error
                         /\ partial'[v].last # None => summary'.last # None
                         /\ Failed(partial'[v]) \/ summary'.missing
    BY <1>2, <1>3, <1>4 DEF Summarized
  <1>8. summary'.last # None =>
            summary'.last.up \in done' /\ partial'[summary'.last.up].last = summary'.last
    BY <1>2, <1>3, <1>4, <1>5 DEF Summarized
  <1>9. summary'.timeout \/ summary'.error => attempted' # {}
    BY <1>3, <1>6 DEF Summarized, Failed
  <1> QED BY <1>7, <1>8, <1>9 DEF Summarized

\* The upstreams of one provider that were attempted.
Peers(q) == {v \in attempted : Provider[v] = q}

LEMMA PeersFinite ==
  ASSUME Inv, attempted \subseteq Upstreams, NEW q
  PROVE  /\ IsFiniteSet(Peers(q)) /\ Cardinality(Peers(q)) \in Nat
         /\ Cardinality(attempted) \in Nat
         /\ Cardinality(Peers(q)) <= Cardinality(attempted)
         /\ \A u \in Peers(q) : Cardinality(Peers(q)) <= 1 => Peers(q) = {u}
  <1>1. IsFiniteSet(attempted) /\ Peers(q) \in SUBSET attempted
    BY FS_Subset DEF Peers
  <1>2. /\ IsFiniteSet(Peers(q)) /\ Cardinality(Peers(q)) \in Nat
        /\ Cardinality(attempted) \in Nat
        /\ Cardinality(Peers(q)) <= Cardinality(attempted)
    BY <1>1, FS_Subset, FS_CardinalityType
  <1>3. ASSUME NEW u \in Peers(q), Cardinality(Peers(q)) <= 1 PROVE Peers(q) = {u}
    <2>1. /\ IsFiniteSet(Peers(q) \ {u})
          /\ Cardinality(Peers(q) \ {u}) = Cardinality(Peers(q)) - 1
      BY <1>2, FS_RemoveElement
    <2>2. Cardinality(Peers(q) \ {u}) \in Nat
      BY <2>1, FS_CardinalityType
    <2>3. Cardinality(Peers(q) \ {u}) = 0
      BY <1>2, <1>3, <2>1, <2>2
    <2>4. Peers(q) \ {u} = {}
      BY <2>1, <2>3, FS_EmptySet
    <2> QED BY <2>4
  <1> QED BY <1>2, <1>3

\* The cascade of finalize_forward_response, on a request without a response.
LEMMA FinalExplained ==
  ASSUME Inv, Finalize, summary.response = None, Traces, Summarized
  PROVE  FailureExplained'
  <1>1. inflight = {} /\ reply' = FinalReply
        /\ done' = done /\ attempted' = attempted /\ partial' = partial
    BY DEF Finalize, Inv, Scheduling, cand
  <1>2. attempted \subseteq done /\ done \subseteq Upstreams
    BY <1>1 DEF Traces, Inv, TypeOK
  <1>3. summary.last \in Ends(Responded) \cup {None}
    BY DEF Inv, TypeOK, Summary
  <1> DEFINE q == Provider[summary.last.up]
  <1>4. /\ Cardinality(Peers(q)) \in Nat /\ Cardinality(attempted) \in Nat
        /\ Cardinality(Peers(q)) <= Cardinality(attempted)
        /\ \A u \in Peers(q) : Cardinality(Peers(q)) <= 1 => Peers(q) = {u}
    BY <1>2, PeersFinite
  <1>5. CASE attempted = {} /\ (summary.missing \/ Unsupported)
    BY <1>1, <1>5 DEF FinalReply, Answer, FailureExplained, Responded
  <1> DEFINE Tried == ~(attempted = {} /\ (summary.missing \/ Unsupported))
  <1>6. CASE Tried /\ summary.last # None /\ Masked(summary.last)
    <2>1. reply' = Answer("auth_masked")
      BY <1>1, <1>6 DEF FinalReply
    <2>2. Cardinality(Peers(q)) > 1
      BY <1>6 DEF Masked, Peers
    <2>3. Cardinality(attempted) > 1
      BY <1>4, <2>2
    <2> QED BY <1>1, <2>1, <2>3 DEF Answer, FailureExplained, Responded
  <1>7. CASE Tried /\ summary.last # None /\ ~Masked(summary.last)
    <2> DEFINE u == summary.last.up
    <2>1. reply' = summary.last
      BY <1>1, <1>7 DEF FinalReply
    <2>2. u \in done /\ partial[u].last = summary.last
      BY <1>7 DEF Summarized
    <2>3. summary.last.kind \in Responded
      BY <1>3, <1>7 DEF Ends
    <2>4. u \in Peers(q)
      BY <1>2, <1>7, <2>2 DEF Traces, Peers
    <2>5. ASSUME summary.last.kind = "denied", q \in AccountProviders
          PROVE  Peers(q) = {u}
      <3>1. ~(Cardinality(Peers(q)) > 1)
        BY <1>7, <2>5 DEF Masked, Peers
      <3>2. Cardinality(Peers(q)) <= 1
        BY <1>4, <3>1
      <3> QED BY <1>4, <2>4, <3>2
    <2> QED BY <1>1, <2>1, <2>2, <2>3, <2>5 DEF FailureExplained, Responded, Peers
  <1>8. CASE Tried /\ summary.last = None /\ (summary.timeout \/ summary.error)
    <2>1. reply' = Answer("gateway_timeout") \/ reply' = Answer("bad_gateway")
      BY <1>1, <1>8 DEF FinalReply
    <2>2. attempted # {} /\ \A u \in done : partial[u].last = None
      BY <1>8 DEF Summarized
    <2> QED BY <1>1, <2>1, <2>2 DEF Answer, FailureExplained, Responded
  <1>9. CASE Tried /\ summary.last = None /\ ~summary.timeout /\ ~summary.error
    <2>1. reply' = Answer("no_upstream")
      BY <1>1, <1>9 DEF FinalReply
    <2>2. \A u \in done : ~Failed(partial[u])
      BY <1>9 DEF Summarized, Failed
    <2>3. attempted = {}
      BY <1>2, <2>2 DEF Traces
    <2>4. done = {}
      BY <1>9, <2>2, <2>3 DEF Summarized
    <2> QED BY <1>1, <2>1, <2>3, <2>4 DEF Answer, FailureExplained, Responded
  <1> QED BY <1>5, <1>6, <1>7, <1>8, <1>9

LEMMA AccountedStep == Inv /\ Accounted /\ [Next]_vars => Accounted'
  <1> SUFFICES ASSUME Inv, Accounted, [Next]_vars PROVE Accounted'
    OBVIOUS
  <1> USE DEF Accounted
  <1>1. CASE SkipGroup \/ EnterGroup \/ GroupsExhausted \/ LaunchDone \/ GroupExhausted \/ HedgeTimer
    <2>1. UNCHANGED <<inflight, done, partial, attempted, summary>> /\ pc # "done" /\ pc' # "done"
      BY <1>1
      DEF SkipGroup, EnterGroup, GroupsExhausted, LaunchDone, GroupExhausted, HedgeTimer, cand
    <2> QED BY <2>1 DEF Traces, Summarized, FailureExplained
  <1>2. CASE Launch
    <2>1. UNCHANGED <<done, partial, attempted, summary>> /\ pc # "done" /\ pc' # "done"
          /\ inflight \subseteq inflight'
      BY <1>2 DEF Launch
    <2> QED BY <2>1 DEF Traces, Summarized, FailureExplained
  <1>3. CASE Finalize
    <2>1. CASE summary.response = None
      BY <1>3, <2>1, FinalExplained DEF Finalize
    <2>2. CASE summary.response # None
      <3>1. reply' = summary.response /\ summary.response.kind \in Final /\ pc' = "done"
        BY <1>3, <2>2 DEF Finalize, FinalReply, Inv, TypeOK, Summary, Ends
      <3> QED BY <3>1 DEF FailureExplained, Final, Responded
    <2> QED BY <2>1, <2>2
  <1>4. CASE ClientCancels
    BY <1>4 DEF ClientCancels, Answer, FailureExplained, Responded
  <1>5. ASSUME NEW u \in Upstreams, NEW k \in Final, Settle(u, k) PROVE Accounted'
    <2>1. summary'.response = [up |-> u, kind |-> k] /\ pc' = "finish"
      BY <1>5 DEF Settle, Inv, TypeOK, Summary
    <2>2. summary'.response # None
      BY <2>1 DEF None
    <2> QED BY <2>1, <2>2 DEF FailureExplained
  <1>6. pc = "wait" => Traces /\ Summarized
    BY DEF Inv, Settled
  <1>7. ASSUME NEW u \in Upstreams, NEW k \in Failures, NEW resent \in BOOLEAN,
               RetrySame(u, k, resent)
        PROVE  Accounted'
    <2>1. /\ u \in inflight /\ pc = "wait" /\ pc' = pc
          /\ UNCHANGED <<inflight, done, summary>>
          /\ partial' = [partial EXCEPT ![u] = Absorb(@, u, k)]
          /\ attempted' = attempted \cup {u}
      BY <1>7 DEF RetrySame
    <2>2. Traces' /\ \A v \in Upstreams : v # u => partial'[v] = partial[v]
      BY <1>6, <2>1, AbsorbTraces
    <2>3. u \notin done /\ done \subseteq Upstreams
      BY <2>1 DEF Inv, TypeOK, Groups
    <2>4. \A v \in done : partial'[v] = partial[v]
      BY <2>2, <2>3
    <2>5. Summarized'
      BY <1>6, <2>1, <2>4 DEF Summarized
    <2> QED BY <2>1, <2>2, <2>5 DEF FailureExplained
  <1>8. ASSUME NEW u \in Upstreams, NEW k \in Failures, NEW resent \in BOOLEAN,
               GiveUp(u, k, resent)
        PROVE  Accounted'
    <2>1. /\ u \in inflight /\ pc = "wait"
          /\ Complete(u, partial'[u], body'[u], FALSE)
          /\ partial' = [partial EXCEPT ![u] = Absorb(@, u, k)]
          /\ attempted' = attempted \cup {u}
      BY <1>8 DEF GiveUp
    <2>2. inflight' \cup done' = inflight \cup done /\ pc' = "launch"
      BY <2>1 DEF Complete
    <2>3. /\ Traces' /\ Failed(partial'[u])
          /\ \A v \in Upstreams : v # u => partial'[v] = partial[v]
      BY <1>6, <2>1, <2>2, AbsorbTraces
    <2>4. Summarized'
      BY <1>6, <2>1, <2>3, MergeSummarized
    <2> QED BY <2>2, <2>3, <2>4 DEF FailureExplained
  <1>9. ASSUME NEW u \in Upstreams, SkipAuth(u) PROVE Accounted'
    <2>1. /\ u \in inflight /\ pc = "wait" /\ partial' = partial /\ attempted' = attempted
          /\ Complete(u, partial'[u], body[u], TRUE)
      BY <1>9 DEF SkipAuth
    <2>2. inflight' \cup done' = inflight \cup done /\ pc' = "launch"
      BY <2>1 DEF Complete
    <2>3. Traces'
      BY <1>6, <2>1, <2>2 DEF Traces
    <2>4. Summarized'
      BY <1>6, <2>1, <2>3, MergeSummarized
    <2> QED BY <2>2, <2>3, <2>4 DEF FailureExplained
  <1>10. CASE UNCHANGED vars
    BY <1>10 DEF vars, cand, Traces, Summarized, FailureExplained
  <1> QED
    BY <1>1, <1>2, <1>3, <1>4, <1>5, <1>7, <1>8, <1>9, <1>10
    DEF Next, Schedule, Outcome, Finished

\* The failure a client is told of is the one that happened.
THEOREM FailuresExplained == Spec => []FailureExplained
  <1>1. Spec => Init /\ [][Next]_vars
    BY DEF Spec
  <1>2. Accounted => FailureExplained
    BY DEF Accounted
  <1> QED BY <1>1, <1>2, Invariance, InitAccounted, AccountedStep, PTL

-----------------------------------------------------------------------------
(* Forwarding implements Failover. *)

\* The answer of the refinement mapping.
Answered ==
    IF summary.response # None THEN summary.response.up
    ELSE IF pc = "done" /\ reply.kind = "canceled" THEN "canceled"
    ELSE IF pc = "done" THEN "failure" ELSE "none"

\* While the loop runs nothing has been answered.
LEMMA Unanswered ==
  ASSUME Inv, pc \in {"enter", "launch", "wait"}
  PROVE  Answered = "none"
  BY DEF Inv, Settled, Answered

LEMMA AnswerKept ==
  ASSUME Inv, pc' = pc \/ {pc, pc'} \subseteq {"enter", "launch", "wait", "finish"},
         summary'.response = summary.response, reply' = reply
  PROVE  Answered' = Answered
  BY DEF Answered

\* The initial states of a request are those of the promise.
LEMMA PromiseInit == Init => Promise!Init
  BY DEF Init, Promise!Init

\* A step of the scheduler is a Try, the report of a failure, or none.
LEMMA PromiseSchedule ==
  ASSUME Inv, Schedule \/ HedgeTimer
  PROVE  [Promise!Next]_Promise!vars
  <1> USE DEF Inv, static
  <1>1. CASE SkipGroup \/ EnterGroup \/ GroupsExhausted \/ LaunchDone \/ GroupExhausted \/ HedgeTimer
    <2>1. Answered' = Answered
      BY <1>1, AnswerKept
      DEF SkipGroup, EnterGroup, GroupsExhausted, LaunchDone, GroupExhausted, HedgeTimer
    <2> QED
      BY <1>1, <2>1
      DEF SkipGroup, EnterGroup, GroupsExhausted, LaunchDone, GroupExhausted, HedgeTimer,
          Promise!vars, Answered
  <1>2. CASE Launch
    <2> DEFINE u == order[next + 1]
    <2>1. u \in Candidates(group) /\ u \notin inflight \cup done
      BY <1>2, NextLaunch
    <2>2. u \in eligible /\ u \in Upstreams /\ Rank[u] = group
      BY <2>1 DEF Candidates, TypeOK
    <2>3. \A v \in eligible : Rank[v] < Rank[u] => v \in done
      BY <2>2 DEF Groups
    <2>4. Answered = "none" /\ Answered' = "none"
      BY <1>2, Unanswered, AnswerKept DEF Launch
    <2>5. Promise!Try(u)
      BY <1>2, <2>1, <2>2, <2>3, <2>4 DEF Launch, Promise!Try, Answered
    <2> QED BY <2>2, <2>5 DEF Promise!Next
  <1>3. CASE Finalize
    <2>1. CASE summary.response # None
      <3>1. Answered' = Answered
        BY <1>3, <2>1 DEF Finalize, Answered
      <3> QED BY <1>3, <3>1 DEF Finalize, Promise!vars, Answered
    <2>2. CASE summary.response = None
      <3>1. group > LastGroup
        BY <1>3, <2>2 DEF Finalize, Settled
      <3>2. \A v \in eligible : Rank[v] < group
        BY <3>1 DEF TypeOK
      <3>3. done = eligible /\ Answered = "none"
        BY <1>3, <2>2, <3>2 DEF Groups, Finalize, Answered
      <3>4. reply'.kind # "canceled"
        <4>1. summary.last \in Ends(Responded) \cup {None}
          BY DEF TypeOK, Summary
        <4>2. summary.last.kind # "canceled"
          BY <4>1 DEF Ends, Responded, None
        <4> QED BY <1>3, <2>2, <4>2 DEF Finalize, FinalReply, Answer
      <3>5. Answered' = "failure"
        BY <1>3, <2>2, <3>4 DEF Finalize, Answered
      <3>6. Promise!ReportFailure
        BY <1>3, <3>3, <3>5 DEF Finalize, Promise!ReportFailure, Answered
      <3> QED BY <3>6 DEF Promise!Next
    <2> QED BY <2>1, <2>2
  <1> QED BY <1>1, <1>2, <1>3 DEF Schedule

\* A disconnect cancels a request that has no answer, and otherwise changes
\* nothing the promise is about.
LEMMA PromiseCancel ==
  ASSUME Inv, ClientCancels
  PROVE  [Promise!Next]_Promise!vars
  <1>1. inflight' = {} /\ done' = done /\ eligible' = eligible /\ summary' = summary
        /\ pc' = "done" /\ reply'.kind = "canceled" /\ pc # "done"
    BY DEF ClientCancels, DropFutures, static, Answer
  <1>2. CASE summary.response # None
    <2>1. inflight = {}
      BY <1>1, <1>2 DEF Inv, Settled, Scheduling, TypeOK
    <2> QED BY <1>1, <1>2, <2>1 DEF Promise!vars
  <1>3. CASE summary.response = None
    <2>1. Promise!Cancel
      BY <1>1, <1>3 DEF Promise!Cancel
    <2> QED BY <2>1 DEF Promise!Next
  <1> QED BY <1>2, <1>3

\* Who completes without a final answer has failed.
LEMMA PromiseFail ==
  ASSUME Inv, pc = "wait", NEW u \in inflight, NEW p, NEW b, NEW missing,
         Complete(u, p, b, missing), UNCHANGED <<static, reply>>
  PROVE  Promise!Next
  <1>1. summary.response = None /\ u \in Upstreams
    BY DEF Inv, Settled, TypeOK
  <1>2. summary'.response = None /\ pc' = "launch"
    BY <1>1 DEF Complete, Merge
  <1>3. Promise!Fail(u)
    BY <1>1, <1>2 DEF Complete, static, Promise!Fail
  <1> QED BY <1>1, <1>3 DEF Promise!Next

LEMMA PromiseOutcome ==
  ASSUME Inv, NEW u \in Upstreams, Outcome(u)
  PROVE  [Promise!Next]_Promise!vars
  <1>1. ASSUME NEW k \in Final, Settle(u, k) PROVE Promise!Next
    <2>1. summary.response = None /\ pc = "wait" /\ pc' = "finish" /\ u \in inflight
      BY <1>1 DEF Inv, Settled, Settle
    <2>2. summary'.response = [up |-> u, kind |-> k]
      BY <1>1 DEF Inv, Settle, TypeOK, Summary
    <2>3. summary'.response # None /\ summary'.response.up = u
      BY <2>2 DEF None
    <2>4. inflight' = {} /\ done' = done /\ eligible' = eligible
      BY <1>1 DEF Settle, DropFutures, static
    <2>5. Promise!Commit(u)
      BY <2>1, <2>3, <2>4 DEF Promise!Commit
    <2> QED BY <2>5 DEF Promise!Next
  <1>2. ASSUME NEW k \in Failures, NEW resent \in BOOLEAN, RetrySame(u, k, resent)
        PROVE  UNCHANGED Promise!vars
    BY <1>2 DEF RetrySame, Promise!vars, static
  <1>3. ASSUME NEW k \in Failures, NEW resent \in BOOLEAN, GiveUp(u, k, resent)
        PROVE  Promise!Next
    BY <1>3, PromiseFail DEF GiveUp
  <1>4. CASE SkipAuth(u)
    BY <1>4, PromiseFail DEF SkipAuth
  <1> QED BY <1>1, <1>2, <1>3, <1>4 DEF Outcome

\* Every step of a request is a step of the promise, or none.
LEMMA PromiseStep == Inv /\ [Next]_vars => [Promise!Next]_Promise!vars
  <1>1. ASSUME UNCHANGED vars PROVE UNCHANGED Promise!vars
    BY <1>1 DEF vars, static, Promise!vars
  <1> QED
    BY <1>1, PromiseSchedule, PromiseCancel, PromiseOutcome DEF Next, Finished

\* Whatever the scheduler overlaps, retries and drops, the client gets the
\* failover it was promised.
THEOREM FailoverImplemented == Spec => ImplementsFailover
  <1>1. Spec => Init /\ [][Next]_vars
    BY DEF Spec
  <1> QED
    BY <1>1, Invariance, PromiseInit, PromiseStep, PTL DEF ImplementsFailover, Promise!Spec
=============================================================================
