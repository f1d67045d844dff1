-------------------------- MODULE RequestLogProofs --------------------------
(***************************************************************************)
(* Proofs about the log of one request, for any number of attempts and     *)
(* routes, and any order in which the rows are written.                    *)
(***************************************************************************)
EXTENDS RequestLog, FiniteSetTheorems, TLAPS

Statuses == {"ok", "error", "dropped", "499"}
Subjects == {AboutAttempt(a) : a \in Attempts} \cup {AboutRequest}
Locals == {AboutLocal(r) : r \in Nat}
Entries == [of : Subjects \cup Locals, index : Nat, status : Statuses]
Rows == [of : Subjects \cup Locals, index : Nat, status : Statuses, billable : BOOLEAN]
Ledgers == [next : Nat, logs : Nat, pending : SUBSET Entries]
Stands == {"idle", "sent", "held", "failing", "broken", "failed", "gone",
           "streaming", "answered", "rejected", "discarded", "failedUnlogged", "rejectedUnlogged"}

Typed ==
    /\ mode \in {"serial", "race"}
    /\ stream \in BOOLEAN
    /\ lost \in BOOLEAN
    /\ phase \in {"forwarding", "body", "over", "gone"}
    /\ route \in Nat
    /\ att \in [Attempts -> Stands]
    /\ ledger \in Ledgers
    /\ rows \in Seq(Rows)

\* What was built and not lost, whether it is written or not.
Entry(r) == [of |-> r.of, index |-> r.index, status |-> r.status]
Kept == {Entry(rows[j]) : j \in DOMAIN rows}
All == ledger.pending \cup Kept
About(a) == {e \in All : e.of = AboutAttempt(a)}

\* What is built for the request has a number of its own.
Numbered ==
    /\ \A e \in All : OfRequest(e) => e.index < ledger.next
    /\ \A e, f \in All : OfRequest(e) /\ OfRequest(f) /\ e.index = f.index => e = f
    /\ \A i, j \in RequestRows : rows[i].index = rows[j].index => i = j
    /\ \A e \in ledger.pending, j \in RequestRows :
           OfRequest(e) => e.index # rows[j].index

\* Of the rows written, the last one in completion is the billed one.
Billing ==
    /\ \A j \in RequestRows : rows[j].billable = Final(rows, j)
    /\ RequestRows # {} => \E j \in RequestRows : Final(rows, j)

\* The attempts nothing has been built for, and those something has.
Untold == {a \in Attempts :
    \/ att[a] \in {"idle", "sent", "broken", "streaming",
                   "discarded", "failedUnlogged", "rejectedUnlogged"}
    \/ att[a] = "held" /\ stream}
Told == {a \in Attempts :
    \/ att[a] \in {"failing", "failed", "answered", "rejected"}
    \/ att[a] = "held" /\ ~stream}

\* The attempt that is the answer.
Chosen == {a \in Attempts :
    att[a] \in {"streaming", "answered", "rejected", "rejectedUnlogged"}}

Progress ==
    /\ phase = "forwarding" => Chosen = {}
    /\ phase # "forwarding" => InFlight = {}
    /\ phase \in {"over", "gone"} => Streaming = {}
    /\ \A a, b \in Chosen : a = b
    /\ Streaming # {} => stream
    /\ mode = "serial" => \A a, b \in InFlight : a = b

Telling ==
    /\ \A a \in Untold : About(a) = {}
    /\ ~lost => \A a \in Told : About(a) # {}
    /\ \A a \in Attempts : \A e, f \in About(a) : e = f
    /\ \A a \in Attempts : \A e \in About(a) : e.status = "dropped" => att[a] = "gone"

\* The request's own entry is the last resort.
Resort ==
    /\ phase # "gone" => \A e \in All : e.status # "499" /\ e.of # AboutRequest
    /\ ledger.logs = 0 => \A a \in Attempts : About(a) = {}
    /\ ~lost /\ ledger.logs > 0 => \E e \in All : OfRequest(e)
    /\ (\E e \in All : e.of = AboutRequest) => \A a \in Attempts : About(a) = {}
    /\ phase = "gone" => ledger.logs > 0

\* The answer is completed last, but in a race for a buffered one.
Tops(a) == \A e \in About(a), f \in All : OfRequest(f) => f.index <= e.index
Concluding ==
    {a \in Told : \/ stream /\ att[a] = "answered"
                  \/ mode = "serial" /\ att[a] \in {"held", "answered", "rejected"}}
Last == \A a \in Concluding : Tops(a)

LogInv == Typed /\ Numbered /\ Billing /\ Progress /\ Telling /\ Resort /\ Last

-----------------------------------------------------------------------------
(* Subjects. *)

LEMMA SubjectsDiffer ==
  /\ \A a \in Attempts : AboutAttempt(a) \in Subjects /\ AboutAttempt(a) # AboutRequest
  /\ \A a, b \in Attempts : AboutAttempt(a) = AboutAttempt(b) => a = b
  /\ AboutRequest \in Subjects
  /\ Subjects \cap Locals = {}
  <1>1. \A s \in Subjects : s[1] # "local"
    BY DEF Subjects, AboutAttempt, AboutRequest
  <1>2. \A s \in Locals : s[1] = "local"
    BY DEF Locals, AboutLocal
  <1>3. \A a \in Attempts : AboutAttempt(a) # AboutRequest
    <2>1. \A a : AboutAttempt(a)[1] = "attempt"
      BY DEF AboutAttempt
    <2>2. AboutRequest[1] = "request"
      BY DEF AboutRequest
    <2> QED BY <2>1, <2>2
  <1>4. \A a, b \in Attempts : AboutAttempt(a) = AboutAttempt(b) => a = b
    BY DEF AboutAttempt
  <1> QED BY <1>1, <1>2, <1>3, <1>4 DEF Subjects

\* An entry is the request's or of the proxy's own.
LEMMA OfRequestIs ==
  ASSUME NEW e, e.of \in Subjects \cup Locals
  PROVE  OfRequest(e) <=> e.of \in Subjects
  <1>1. \A s \in Subjects : s[1] # "local"
    BY DEF Subjects, AboutAttempt, AboutRequest
  <1>2. \A s \in Locals : s[1] = "local"
    BY DEF Locals, AboutLocal
  <1> QED BY <1>1, <1>2 DEF OfRequest

LEMMA AttemptsFinite == ASSUME NEW S \in SUBSET Attempts
                        PROVE  /\ IsFiniteSet(S) /\ Cardinality(S) \in Nat
                               /\ Cardinality(S) = 0 <=> S = {}
  <1>1. IsFiniteSet(Attempts)
    BY LogAssumption, FS_Interval DEF Attempts
  <1> QED BY <1>1, FS_Subset, FS_CardinalityType, FS_EmptySet

LEMMA AllTyped ==
  ASSUME Typed
  PROVE  All \in SUBSET Entries /\ Kept \in SUBSET Entries
  <1>1. \A j \in DOMAIN rows : rows[j] \in Rows
    BY DEF Typed
  <1>2. \A r \in Rows : Entry(r) \in Entries
    BY DEF Entry, Rows, Entries
  <1> QED BY <1>1, <1>2 DEF Typed, Ledgers, All, Kept

-----------------------------------------------------------------------------
(* Building entries. *)

\* Ledger m is l with the entries of N, all for the request, numbered on.
Adds(l, m, N) ==
    /\ m \in Ledgers
    /\ m.pending = l.pending \cup N
    /\ l.next <= m.next
    /\ \A e \in N : e \in Entries /\ e.of \in Subjects /\ l.next <= e.index /\ e.index < m.next
    /\ \A e, f \in N : e.index = f.index => e = f
    /\ l.logs <= m.logs
    /\ N = {} => m.logs = l.logs
    /\ N # {} => m.logs > 0

LEMMA AddsNothing == ASSUME NEW l \in Ledgers PROVE Adds(l, l, {})
  BY DEF Adds, Ledgers

LEMMA AddsMore ==
  ASSUME NEW l \in Ledgers, NEW m, NEW k, NEW M, NEW N, Adds(l, m, M), Adds(m, k, N)
  PROVE  Adds(l, k, M \cup N)
  <1>1. /\ l.next \in Nat /\ m.next \in Nat /\ k.next \in Nat
        /\ l.logs \in Nat /\ m.logs \in Nat /\ k.logs \in Nat /\ k \in Ledgers
    BY DEF Adds, Ledgers
  <1>2. k.pending = l.pending \cup (M \cup N)
    BY DEF Adds
  <1>3. \A e \in M \cup N : e \in Entries /\ e.of \in Subjects /\ e.index \in Nat
    BY DEF Adds, Entries
  <1>4. \A e \in M \cup N : l.next <= e.index /\ e.index < k.next
    BY <1>1, <1>3 DEF Adds
  <1>5. \A e, f \in M \cup N : e.index = f.index => e = f
    BY <1>1, <1>3 DEF Adds
  <1>6. /\ l.next <= k.next /\ l.logs <= k.logs
        /\ M \cup N = {} => k.logs = l.logs
        /\ M \cup N # {} => k.logs > 0
    BY <1>1 DEF Adds
  <1> QED BY <1>1, <1>2, <1>3, <1>4, <1>5, <1>6 DEF Adds

LEMMA BuildAdds ==
  ASSUME NEW l \in Ledgers, NEW of \in Subjects, NEW status \in Statuses
  PROVE  Adds(l, Build(l, of, status), {[of |-> of, index |-> l.next, status |-> status]})
  <1> DEFINE e == [of |-> of, index |-> l.next, status |-> status]
  <1>1. e \in Entries
    BY DEF Entries, Ledgers
  <1>2. Build(l, of, status) \in Ledgers
    BY <1>1 DEF Build, Ledgers
  <1> QED BY <1>1, <1>2 DEF Adds, Build, Ledgers

LEMMA DropAdds ==
  ASSUME NEW l \in Ledgers, NEW S \in SUBSET Attempts, NEW status \in Statuses,
         NEW m \in Drop(l, S, status)
  PROVE  \E N : /\ Adds(l, m, N)
                /\ \A e \in N : e.status = status
                                /\ \E a \in S : e.of = AboutAttempt(a)
                /\ \A a \in S : \E e \in N : e.of = AboutAttempt(a)
                /\ \A e, f \in N : e.of = f.of => e = f
  <1> DEFINE n == Cardinality(S)
  <1>1. n \in Nat /\ (n = 0 <=> S = {})
    BY AttemptsFinite
  <1>2. PICK place \in Injection(S, 0..(n-1)) :
          m = [next |-> l.next + n, logs |-> l.logs + n,
               pending |-> l.pending \cup
                   {[of |-> AboutAttempt(a), index |-> l.next + place[a],
                     status |-> status] : a \in S}]
    BY DEF Drop
  <1> DEFINE new(a) == [of |-> AboutAttempt(a), index |-> l.next + place[a],
                        status |-> status]
             N == {new(a) : a \in S}
  <1>3. \A a \in S : place[a] \in Nat /\ place[a] < n
    BY <1>1, <1>2 DEF Injection
  <1>4. \A a, b \in S : place[a] = place[b] => a = b
    BY <1>2 DEF Injection, IsInjective
  <1>5. l.next \in Nat /\ l.logs \in Nat /\ l.pending \in SUBSET Entries
    BY DEF Ledgers
  <1>6. ASSUME NEW a \in S
        PROVE  /\ new(a) \in Entries /\ new(a).of = AboutAttempt(a)
               /\ new(a).of \in Subjects
               /\ new(a).index = l.next + place[a]
               /\ l.next <= new(a).index /\ new(a).index < l.next + n
               /\ new(a).status = status
    <2>1. AboutAttempt(a) \in Subjects
      BY SubjectsDiffer
    <2> QED BY <1>1, <1>3, <1>5, <2>1 DEF Entries
  <1> HIDE DEF new
  <1>7. m.pending = l.pending \cup N /\ m.next = l.next + n /\ m.logs = l.logs + n
    BY <1>2 DEF new
  <1>8. m \in Ledgers
    <2>1. l.pending \cup N \in SUBSET Entries
      BY <1>5, <1>6
    <2> QED BY <1>1, <1>2, <1>5, <2>1 DEF Ledgers, new
  <1>9. \A e, f \in N : e.index = f.index => e = f
    BY <1>3, <1>4, <1>5, <1>6
  <1>10. \A e, f \in N : e.of = f.of => e = f
    BY <1>6, SubjectsDiffer
  <1>11. Adds(l, m, N)
    BY <1>1, <1>5, <1>6, <1>7, <1>8, <1>9 DEF Adds
  <1> QED BY <1>6, <1>10, <1>11

-----------------------------------------------------------------------------
(* Steps that build. *)

LEMMA AllSubjects ==
  ASSUME Typed
  PROVE  \A e \in All : OfRequest(e) <=> e.of \in Subjects
  BY AllTyped, OfRequestIs DEF Entries

LEMMA NumberedMore ==
  ASSUME Typed, Numbered, NEW N, Adds(ledger, ledger', N), rows' = rows
  PROVE  All' = All \cup N /\ Numbered'
  <1>1. Kept' = Kept /\ All' = All \cup N
    BY DEF Kept, All, Entry, Adds
  <1>2. \A e \in N : OfRequest(e) /\ e.index \in Nat
    BY OfRequestIs DEF Adds, Entries
  <1>3. /\ ledger.next \in Nat /\ ledger'.next \in Nat /\ ledger.next <= ledger'.next
        /\ \A e \in All : e.index \in Nat
    BY AllTyped DEF Adds, Ledgers, Typed, Entries
  <1>4. \A e \in All' : OfRequest(e) => e.index < ledger'.next
    BY <1>1, <1>2, <1>3 DEF Numbered, Adds
  <1>5. \A e, f \in All' : OfRequest(e) /\ OfRequest(f) /\ e.index = f.index => e = f
    BY <1>1, <1>2, <1>3 DEF Numbered, Adds
  <1>6. RequestRows' = RequestRows
    BY DEF RequestRows
  <1>7. \A j \in RequestRows : /\ Entry(rows[j]) \in All
                              /\ OfRequest(Entry(rows[j]))
                              /\ Entry(rows[j]).index = rows[j].index
    BY DEF RequestRows, All, Kept, Entry, OfRequest
  <1>8. \A e \in ledger'.pending, j \in RequestRows : OfRequest(e) => e.index # rows[j].index
    <2>1. \A e \in N, j \in RequestRows : e.index # rows[j].index
      BY <1>2, <1>3, <1>7 DEF Numbered, Adds
    <2> QED BY <2>1 DEF Numbered, Adds
  <1> QED BY <1>1, <1>4, <1>5, <1>6, <1>8 DEF Numbered

LEMMA BillingStays ==
  ASSUME Billing, rows' = rows
  PROVE  Billing'
  BY DEF Billing, RequestRows, Final, Before

\* A step that builds the entries of N, one for each attempt it ends.
Grows(N) ==
    /\ UNCHANGED <<static, lost, rows>>
    /\ Adds(ledger, ledger', N)
    /\ \A e \in N :
          \/ e.of = AboutRequest
          \/ \E a \in Untold : /\ e.of = AboutAttempt(a) /\ a \notin Untold'
                               /\ e.status = "dropped" => att'[a] = "gone"
    /\ \A e, f \in N : e.of = f.of => e = f
    /\ Untold' \subseteq Untold
    /\ \A a \in Told' \ Told : \E e \in N : e.of = AboutAttempt(a)
    /\ \A a \in Attempts : att[a] = "gone" => att'[a] = "gone"
    /\ \A a \in Concluding' :
          \/ a \in Concluding /\ N = {}
          \/ \E e \in N : e.of = AboutAttempt(a) /\ \A f \in N : f.index <= e.index
          \/ About(a) = {} /\ \A e \in N : e.of # AboutAttempt(a)

LEMMA TellingGrows ==
  ASSUME LogInv, NEW N, Grows(N)
  PROVE  Telling'
  <1>1. All' = All \cup N
    BY NumberedMore DEF LogInv, Grows
  <1>2. \A a \in Attempts : About(a)' = About(a) \cup {e \in N : e.of = AboutAttempt(a)}
    BY <1>1 DEF About
  <1>3. ASSUME NEW e \in N, NEW a \in Attempts, e.of = AboutAttempt(a)
        PROVE  /\ a \in Untold /\ a \notin Untold' /\ About(a) = {}
               /\ e.status = "dropped" => att'[a] = "gone"
    BY <1>3, SubjectsDiffer DEF Grows, LogInv, Telling, Untold
  <1>4. \A a \in Untold' : About(a)' = {}
    <2>1. Untold' \subseteq Untold /\ Untold \subseteq Attempts
      BY DEF Grows, Untold
    <2> QED BY <1>2, <1>3, <2>1 DEF LogInv, Telling
  <1>5. ~lost' => \A a \in Told' : About(a)' # {}
    <2> SUFFICES ASSUME ~lost', NEW a \in Told'
                 PROVE  About(a)' # {}
      OBVIOUS
    <2>1. ~lost /\ a \in Attempts
      BY DEF Grows, Told
    <2>2. CASE a \in Told
      BY <1>2, <2>1, <2>2 DEF LogInv, Telling
    <2>3. CASE a \notin Told
      BY <1>2, <2>1, <2>3 DEF Grows
    <2> QED BY <2>2, <2>3
  <1>6. \A a \in Attempts : \A e, f \in About(a)' : e = f
    <2>1. \A e, f \in N : e.of = f.of => e = f
      BY DEF Grows
    <2> QED BY <1>2, <1>3, <2>1 DEF LogInv, Telling
  <1>7. \A a \in Attempts : \A e \in About(a)' : e.status = "dropped" => att'[a] = "gone"
    BY <1>2, <1>3 DEF LogInv, Telling, Grows
  <1> QED BY <1>4, <1>5, <1>6, <1>7 DEF Telling

LEMMA LastGrows ==
  ASSUME LogInv, NEW N, Grows(N)
  PROVE  Last'
  <1>1. All' = All \cup N
    BY NumberedMore DEF LogInv, Grows
  <1>2. ASSUME NEW a \in Concluding'
        PROVE  Tops(a)'
    <2>1. a \in Attempts /\ About(a)' = About(a) \cup {e \in N : e.of = AboutAttempt(a)}
      BY <1>1 DEF About, Concluding, Told
    <2>2. CASE a \in Concluding /\ N = {}
      BY <1>1, <2>1, <2>2 DEF LogInv, Last, Tops
    <2>3. CASE \E e \in N : e.of = AboutAttempt(a) /\ \A f \in N : f.index <= e.index
      <3>1. PICK e \in N : e.of = AboutAttempt(a) /\ \A f \in N : f.index <= e.index
        BY <2>3
      <3>2. a \in Untold
        BY <3>1, SubjectsDiffer, <2>1 DEF Grows, Untold
      <3>3. About(a) = {}
        BY <3>2 DEF LogInv, Telling
      <3>4. \A f \in About(a)' : f = e
        BY <2>1, <3>1, <3>3 DEF Grows
      <3>5. \A f \in All : OfRequest(f) => f.index <= e.index
        <4>1. ledger.next <= e.index /\ e.index \in Nat /\ ledger.next \in Nat
          BY DEF Grows, Adds, Entries, LogInv, Typed, Ledgers
        <4>2. \A f \in All : f.index \in Nat /\ (OfRequest(f) => f.index < ledger.next)
          BY AllTyped DEF LogInv, Numbered, Entries
        <4> QED BY <4>1, <4>2
      <3> QED BY <1>1, <3>1, <3>4, <3>5 DEF Tops
    <2>4. CASE About(a) = {} /\ \A e \in N : e.of # AboutAttempt(a)
      BY <2>1, <2>4 DEF Tops
    <2> QED BY <2>2, <2>3, <2>4 DEF Grows
  <1> QED BY <1>2 DEF Last

LEMMA ResortGrows ==
  ASSUME LogInv, NEW N, Grows(N), phase # "gone", phase' # "gone",
         \A e \in N : e.status # "499" /\ e.of # AboutRequest
  PROVE  Resort'
  <1>1. All' = All \cup N
    BY NumberedMore DEF LogInv, Grows
  <1>2. \A e \in All' : e.status # "499" /\ e.of # AboutRequest
    BY <1>1 DEF LogInv, Resort
  <1>3. /\ ledger.logs \in Nat /\ ledger'.logs \in Nat /\ ledger.logs <= ledger'.logs
        /\ N = {} => ledger'.logs = ledger.logs
        /\ N # {} => ledger'.logs > 0
    BY DEF Grows, Adds, LogInv, Typed, Ledgers
  <1>4. ledger'.logs = 0 => All' = All /\ ledger.logs = 0
    BY <1>1, <1>3
  <1>5. \A e \in N : OfRequest(e)
    BY OfRequestIs DEF Grows, Adds
  <1>6. ~lost' /\ ledger'.logs > 0 => \E e \in All' : OfRequest(e)
    BY <1>1, <1>3, <1>5 DEF LogInv, Resort, Grows
  <1>7. ledger'.logs = 0 => \A a \in Attempts : About(a)' = {}
    BY <1>4 DEF LogInv, Resort, About
  <1> QED BY <1>2, <1>6, <1>7 DEF Resort

\* What is left to show of a step before the client has left.
LEMMA GrowsKeeps ==
  ASSUME LogInv, NEW N, Grows(N), phase # "gone", phase' # "gone",
         \A e \in N : e.status # "499" /\ e.of # AboutRequest,
         Typed', Progress'
  PROVE  LogInv'
  <1>1. Numbered'
    BY NumberedMore DEF LogInv, Grows
  <1>2. Billing'
    BY BillingStays DEF LogInv, Grows
  <1> QED BY <1>1, <1>2, TellingGrows, LastGrows, ResortGrows DEF LogInv

-----------------------------------------------------------------------------
(* Attempts. *)

\* Attempts beside a move as one alone moves.
LEMMA OneMoves ==
  ASSUME Typed, NEW a \in Attempts, NEW x \in Stands, att' = [att EXCEPT ![a] = x],
         UNCHANGED static
  PROVE  /\ att' \in [Attempts -> Stands] /\ att'[a] = x
         /\ \A b \in Attempts : b # a =>
               /\ b \in Untold' <=> b \in Untold
               /\ b \in Told' <=> b \in Told
               /\ b \in Concluding' <=> b \in Concluding
               /\ b \in InFlight' <=> b \in InFlight
               /\ b \in Chosen' <=> b \in Chosen
               /\ b \in Streaming' <=> b \in Streaming
               /\ att'[b] = att[b]
  <1>1. att' \in [Attempts -> Stands] /\ att'[a] = x
    BY DEF Typed
  <1>2. \A b \in Attempts : b # a => att'[b] = att[b]
    BY DEF Typed
  <1> QED BY <1>1, <1>2 DEF Untold, Told, Concluding, InFlight, Chosen, Streaming, static

\* While no answer is chosen, serial dispatch has one attempt in flight.
LEMMA NoneConcludes ==
  ASSUME LogInv, phase = "forwarding", NEW a \in InFlight, NEW b \in Concluding
  PROVE  b = a
  <1>1. b \notin Chosen
    BY DEF LogInv, Progress
  <1>2. att[b] = "held" /\ mode = "serial" /\ b \in Attempts
    BY <1>1 DEF Chosen, Concluding, Told
  <1>3. b \in InFlight
    BY <1>2 DEF InFlight
  <1> QED BY <1>2, <1>3 DEF LogInv, Progress

LEMMA LaunchKeeps ==
  ASSUME LogInv, NEW a \in Attempts, Launch(a)
  PROVE  LogInv'
  <1>1. /\ phase = "forwarding" /\ att[a] = "idle" /\ att' = [att EXCEPT ![a] = "sent"]
        /\ UNCHANGED <<static, phase, chain, ledger, lost, rows>>
        /\ Cardinality(InFlight) < Capacity
    BY DEF Launch
  <1>2. Typed
    BY DEF LogInv
  <1>3. Adds(ledger, ledger', {})
    BY <1>1, <1>2, AddsNothing DEF Typed
  <1>4. Typed'
    BY <1>1, <1>2, OneMoves DEF Typed, Stands, static, chain
  <1>5. mode = "serial" => InFlight = {}
    BY <1>1, AttemptsFinite DEF Capacity, InFlight
  <1>6. Progress'
    <2>1. \A b \in Attempts : b # a =>
             /\ b \in InFlight' <=> b \in InFlight
             /\ b \in Chosen' <=> b \in Chosen
             /\ b \in Streaming' <=> b \in Streaming
      BY <1>1, <1>2, OneMoves DEF Stands
    <2>2. att'[a] = "sent"
      BY <1>1, <1>2, OneMoves DEF Stands
    <2>3. a \notin Chosen' /\ a \notin Streaming'
      BY <2>2 DEF Chosen, Streaming
    <2>4. Chosen' = Chosen /\ Streaming' = Streaming
      BY <1>1, <2>1, <2>3 DEF Chosen, Streaming
    <2>5. mode' = "serial" => \A b, c \in InFlight' : b = c
      BY <1>1, <1>5, <2>1 DEF InFlight, static
    <2> QED BY <1>1, <2>4, <2>5 DEF LogInv, Progress, static
  <1>7. Grows({})
    <2>1. a \in Untold /\ a \notin Told' /\ a \notin Concluding' /\ att[a] # "gone"
      BY <1>1, <1>2, OneMoves DEF Untold, Told, Concluding, Stands
    <2> QED BY <1>1, <1>2, <1>3, <2>1, OneMoves DEF Grows, Stands, Untold, Told, Concluding
  <1> QED BY <1>1, <1>4, <1>6, <1>7, GrowsKeeps

\* One attempt in flight comes to its next stand, and may have its entry built.
LEMMA MoveKeeps ==
  ASSUME LogInv, NEW a \in InFlight, NEW x \in {"held", "failing", "broken", "failed",
                                         "discarded", "failedUnlogged"},
         phase = "forwarding", att' = [att EXCEPT ![a] = x],
         UNCHANGED <<static, phase, chain, lost, rows>>,
         \/ ledger' = ledger /\ (a \in Told' => a \in Told) /\ a \notin Concluding'
         \/ \E status \in {"ok", "error"} :
               /\ ledger' = Build(ledger, AboutAttempt(a), status)
               /\ a \in Untold /\ a \notin Untold',
         a \in Untold' => a \in Untold
  PROVE  LogInv'
  <1>1. Typed /\ a \in Attempts /\ x \in Stands
    BY DEF LogInv, InFlight, Stands
  <1>2. PICK N :
          /\ Adds(ledger, ledger', N)
          /\ \/ N = {} /\ (a \in Told' => a \in Told) /\ a \notin Concluding'
             \/ \E status \in {"ok", "error"} :
                   N = {[of |-> AboutAttempt(a), index |-> ledger.next, status |-> status]}
                   /\ a \in Untold /\ a \notin Untold'
    <2>1. CASE ledger' = ledger /\ (a \in Told' => a \in Told) /\ a \notin Concluding'
      BY <1>1, <2>1, AddsNothing DEF Typed
    <2>2. CASE \E status \in {"ok", "error"} :
                 /\ ledger' = Build(ledger, AboutAttempt(a), status)
                 /\ a \in Untold /\ a \notin Untold'
      <3>1. PICK status \in {"ok", "error"} :
              ledger' = Build(ledger, AboutAttempt(a), status) /\ a \in Untold /\ a \notin Untold'
        BY <2>2
      <3>2. AboutAttempt(a) \in Subjects /\ status \in Statuses /\ ledger \in Ledgers
        BY <1>1, SubjectsDiffer DEF Typed, Statuses
      <3>3. Adds(ledger, ledger',
                 {[of |-> AboutAttempt(a), index |-> ledger.next, status |-> status]})
        BY <3>1, <3>2, BuildAdds
      <3> QED BY <3>1, <3>3
    <2> QED BY <2>1, <2>2
  <1>3. Typed'
    BY <1>1, <1>2, OneMoves DEF Typed, static, chain, Adds
  <1>4. \A b \in Attempts : b # a =>
           /\ b \in Untold' <=> b \in Untold
           /\ b \in Told' <=> b \in Told
           /\ b \in Concluding' <=> b \in Concluding
           /\ b \in InFlight' <=> b \in InFlight
           /\ b \in Chosen' <=> b \in Chosen
           /\ b \in Streaming' <=> b \in Streaming
           /\ att'[b] = att[b]
    BY <1>1, OneMoves
  <1>5. att'[a] = x
    BY <1>1, OneMoves
  <1>6. Progress'
    <2>1. a \notin Chosen' /\ a \notin Streaming'
      BY <1>5 DEF Chosen, Streaming
    <2>2. Chosen' \subseteq Chosen /\ Streaming' \subseteq Streaming
      BY <1>4, <2>1 DEF Chosen, Streaming
    <2>3. InFlight' \subseteq InFlight
      BY <1>4 DEF InFlight
    <2> QED BY <2>2, <2>3 DEF LogInv, Progress, static
  <1>7. Grows(N)
    <2>1. \A e \in N : e.of = AboutAttempt(a) /\ a \in Untold /\ a \notin Untold'
                       /\ e.status # "dropped"
      BY <1>2
    <2>2. \A e, f \in N : e = f
      BY <1>2
    <2>3. Untold' \subseteq Untold
      BY <1>4 DEF Untold
    <2>4. ASSUME NEW b \in Told' \ Told
          PROVE  \E e \in N : e.of = AboutAttempt(b)
      <3>1. b = a
        BY <1>4 DEF Told
      <3>2. N # {}
        BY <1>2, <3>1
      <3>3. \A e \in N : e.of = AboutAttempt(a)
        BY <2>1
      <3> QED BY <3>1, <3>2, <3>3
    <2>5. \A b \in Attempts : att[b] = "gone" => att'[b] = "gone"
      BY <1>4 DEF InFlight
    <2>6. ASSUME NEW b \in Concluding'
          PROVE  \/ b \in Concluding /\ N = {}
                 \/ \E e \in N : e.of = AboutAttempt(b) /\ \A f \in N : f.index <= e.index
      <3>1. b \in Attempts
        BY DEF Concluding, Told
      <3>2. CASE b # a
        <4>1. b \in Concluding
          BY <1>4, <3>1, <3>2
        <4> QED BY <3>2, <4>1, NoneConcludes
      <3>3. CASE b = a
        <4>1. PICK e \in N : e.of = AboutAttempt(a) /\ \A f \in N : f = e
          BY <1>2, <3>3
        <4>2. e.index \in Nat
          BY <1>2 DEF Adds, Entries
        <4> QED BY <3>3, <4>1, <4>2
      <3> QED BY <3>2, <3>3
    <2> QED BY <1>2, <2>1, <2>2, <2>3, <2>4, <2>5, <2>6 DEF Grows
  <1>8. \A e \in N : e.status # "499" /\ e.of # AboutRequest
    BY <1>1, <1>2, SubjectsDiffer
  <1> QED BY <1>3, <1>6, <1>7, <1>8, GrowsKeeps

LEMMA AttemptKeeps ==
  ASSUME LogInv, NEW a \in Attempts,
         Accept(a) \/ Refuse(a) \/ Break(a) \/ Fail(a) \/ Discard(a) \/ FailUnlogged(a)
  PROVE  LogInv'
  <1>1. Typed /\ a \in InFlight /\ phase = "forwarding"
    BY DEF LogInv, Accept, Refuse, Break, Fail, Discard, FailUnlogged, InFlight
  <1>2. ASSUME NEW x \in Stands, att' = [att EXCEPT ![a] = x], UNCHANGED static
        PROVE  att'[a] = x /\ UNCHANGED <<mode, stream>>
    BY <1>1, <1>2 DEF Typed, static
  <1>3. CASE Accept(a)
    <2>1. att[a] = "sent" /\ att' = [att EXCEPT ![a] = "held"] /\ UNCHANGED static
          /\ UNCHANGED <<phase, chain, lost, rows>>
      BY <1>3 DEF Accept
    <2>2. att'[a] = "held" /\ UNCHANGED <<mode, stream>>
      BY <1>2, <2>1 DEF Stands
    <2>3. CASE stream
      <3>1. ledger' = ledger
        BY <1>3, <2>3 DEF Accept
      <3>2. a \notin Told' /\ a \notin Concluding' /\ a \in Untold
        BY <2>1, <2>2, <2>3 DEF Told, Concluding, Untold
      <3> QED BY <1>1, <2>1, <3>1, <3>2, MoveKeeps
    <2>4. CASE ~stream
      <3>1. ledger' = Build(ledger, AboutAttempt(a), "ok")
        BY <1>3, <2>4 DEF Accept
      <3>2. a \in Untold /\ a \notin Untold'
        BY <2>1, <2>2, <2>4 DEF Untold
      <3> QED BY <1>1, <2>1, <3>1, <3>2, MoveKeeps
    <2> QED BY <2>3, <2>4
  <1>4. CASE Refuse(a)
    <2>1. /\ att[a] = "sent" /\ att' = [att EXCEPT ![a] = "failing"] /\ UNCHANGED static
          /\ UNCHANGED <<phase, chain, lost, rows>>
          /\ ledger' = Build(ledger, AboutAttempt(a), "error")
      BY <1>4 DEF Refuse
    <2>2. a \in Untold /\ a \notin Untold'
      BY <1>2, <2>1 DEF Untold, Stands
    <2> QED BY <1>1, <2>1, <2>2, MoveKeeps
  <1>5. CASE Break(a)
    <2>1. /\ att[a] = "sent" /\ att' = [att EXCEPT ![a] = "broken"] /\ UNCHANGED static
          /\ UNCHANGED <<phase, chain, lost, rows, ledger>>
      BY <1>5 DEF Break
    <2>2. a \in Untold /\ a \notin Told' /\ a \notin Concluding'
      BY <1>2, <2>1 DEF Untold, Told, Concluding, Stands
    <2> QED BY <1>1, <2>1, <2>2, MoveKeeps
  <1>6. CASE Fail(a)
    <2>1. /\ att' = [att EXCEPT ![a] = "failed"] /\ UNCHANGED static
          /\ UNCHANGED <<phase, chain, lost, rows>>
          /\ \/ att[a] = "broken" /\ ledger' = Build(ledger, AboutAttempt(a), "error")
             \/ att[a] = "failing" /\ ledger' = ledger
      BY <1>6 DEF Fail
    <2>2. att'[a] = "failed" /\ UNCHANGED <<mode, stream>>
      BY <1>2, <2>1 DEF Stands
    <2>3. a \notin Untold' /\ a \notin Concluding' /\ (att[a] = "broken" => a \in Untold)
          /\ (att[a] = "failing" => a \in Told)
      BY <1>1, <2>2 DEF Untold, Told, Concluding, InFlight
    <2> QED BY <1>1, <2>1, <2>3, MoveKeeps
  <1>7. CASE Discard(a) \/ FailUnlogged(a)
    <2>1. PICK x \in {"discarded", "failedUnlogged"} : att' = [att EXCEPT ![a] = x]
      BY <1>7 DEF Discard, FailUnlogged
    <2>2. att[a] = "sent" /\ UNCHANGED <<static, phase, chain, lost, rows, ledger>>
      BY <1>7 DEF Discard, FailUnlogged
    <2>3. att'[a] = x
      BY <1>2, <2>1, <2>2 DEF Stands
    <2>4. a \in Untold /\ a \notin Told' /\ a \notin Concluding'
      BY <2>2, <2>3 DEF Untold, Told, Concluding
    <2> QED BY <1>1, <2>1, <2>2, <2>4, MoveKeeps
  <1> QED BY <1>3, <1>4, <1>5, <1>6, <1>7

-----------------------------------------------------------------------------
(* The answer. *)

LEMMA CommitKeeps ==
  ASSUME LogInv, NEW a \in InFlight, phase = "forwarding", NEW l, NEW M, NEW stand,
         Adds(ledger, l, M), Commit(a, stand, l),
         \/ /\ att[a] = "held" /\ M = {}
            /\ stand = IF stream THEN "streaming" ELSE "answered"
         \/ /\ att[a] = "sent" /\ stand = "rejected"
            /\ \E e : M = {e} /\ e.of = AboutAttempt(a) /\ e.status = "error"
         \/ att[a] = "sent" /\ stand = "rejectedUnlogged" /\ M = {}
  PROVE  LogInv'
  <1>1. /\ Typed /\ a \in Attempts /\ l \in Ledgers /\ ledger \in Ledgers
        /\ Chosen = {} /\ (mode = "serial" => \A b, c \in InFlight : b = c)
    BY DEF LogInv, Progress, Typed, InFlight, Adds
  <1>2. /\ phase' = "body" /\ UNCHANGED <<static, chain, lost, rows>>
        /\ UNCHANGED <<mode, stream, route>>
        /\ ledger' \in Drop(l, Open \ {a}, DroppedStatus(FALSE))
    BY DEF Commit, static, chain
  <1>3. att' \in [Attempts -> Stands]
    BY <1>1 DEF Commit, Typed, Stands
  <1>4. /\ att'[a] = stand
        /\ att[a] = "sent" => att'[a] = IF M = {} THEN "rejectedUnlogged" ELSE "rejected"
        /\ att[a] = "held" => att'[a] = IF stream THEN "streaming" ELSE "answered"
        /\ \A b \in Attempts : b # a =>
              att'[b] = IF b \in InFlight THEN "gone" ELSE att[b]
    BY <1>1 DEF Commit
  <1>5. \A b \in Open \ {a} : b \in Attempts /\ att[b] = "held" /\ stream
    BY <1>1 DEF Open, Chosen
  <1>6. PICK N : /\ Adds(l, ledger', N)
                 /\ \A e \in N : /\ e.status = "dropped"
                                 /\ \E b \in Open \ {a} : e.of = AboutAttempt(b)
                 /\ \A e, f \in N : e.of = f.of => e = f
    <2>1. Open \ {a} \in SUBSET Attempts
      BY <1>5
    <2>2. DroppedStatus(FALSE) = "dropped" /\ "dropped" \in Statuses
      BY DEF DroppedStatus, Statuses
    <2>3. ledger' \in Drop(l, Open \ {a}, "dropped")
      BY <1>2, <2>2
    <2> QED BY <1>1, <2>1, <2>2, <2>3, DropAdds
  <1>7. Adds(ledger, ledger', M \cup N)
    BY <1>1, <1>6, AddsMore
  <1>8. \A b \in Attempts : b # a => att'[b] \notin {"sent", "held", "failing", "broken",
                                                   "streaming", "answered", "rejected",
                                                   "rejectedUnlogged"}
    BY <1>1, <1>4 DEF InFlight, Chosen
  <1>9. Typed'
    BY <1>1, <1>2, <1>3, <1>7 DEF Typed, Adds
  <1>10. Progress'
    <2>1. InFlight' = {}
      BY <1>4, <1>8 DEF InFlight
    <2>2. \A b \in Chosen' : b = a
      BY <1>8 DEF Chosen
    <2>3. Streaming' # {} => stream'
      BY <1>2, <1>4, <1>8 DEF Streaming
    <2> QED BY <1>2, <2>1, <2>2, <2>3 DEF Progress
  <1>11. \A e \in M : e.of = AboutAttempt(a) /\ e.status = "error" /\ att[a] = "sent"
    OBVIOUS
  <1>12. \A e, f \in M : e = f
    OBVIOUS
  <1>13. Grows(M \cup N)
    <2>1. \A e \in M : a \in Untold /\ a \notin Untold'
      BY <1>1, <1>4, <1>11 DEF Untold
    <2>2. \A b \in Open \ {a} : b \in Untold /\ b \notin Untold' /\ att'[b] = "gone"
      BY <1>4, <1>5 DEF Untold, InFlight
    <2>3. ASSUME NEW e \in M \cup N
          PROVE  \E b \in Untold : /\ e.of = AboutAttempt(b) /\ b \notin Untold'
                                   /\ e.status = "dropped" => att'[b] = "gone"
      <3>1. CASE e \in M
        BY <1>11, <2>1, <3>1
      <3>2. CASE e \in N
        BY <1>6, <2>2, <3>2
      <3> QED BY <3>1, <3>2
    <2>4. \A e, f \in M \cup N : e.of = f.of => e = f
      <3>1. \A e \in M, f \in N : e.of # f.of
        BY <1>1, <1>5, <1>6, <1>11, SubjectsDiffer
      <3> QED BY <1>6, <1>12, <3>1
    <2>5. Untold' \subseteq Untold
      BY <1>1, <1>2, <1>4, <1>8 DEF Untold
    <2>6. ASSUME NEW b \in Told' \ Told
          PROVE  \E e \in M \cup N : e.of = AboutAttempt(b)
      <3>1. b = a
        <4>1. b \in Attempts /\ att'[b] \in {"failing", "failed", "answered", "rejected", "held"}
          BY DEF Told
        <4>2. CASE b # a
          <5>1. att'[b] = "failed" /\ att[b] = "failed"
            BY <1>4, <1>8, <4>1, <4>2
          <5> QED BY <5>1, <4>1 DEF Told
        <4> QED BY <4>2
      <3>2. att[a] = "sent" /\ stand = "rejected"
        BY <1>2, <1>4, <3>1 DEF Told
      <3> QED BY <3>1, <3>2
    <2>7. \A b \in Attempts : att[b] = "gone" => att'[b] = "gone"
      BY <1>4 DEF InFlight
    <2>8. ASSUME NEW b \in Concluding'
          PROVE  \/ b \in Concluding /\ M \cup N = {}
                 \/ \E e \in M \cup N : /\ e.of = AboutAttempt(b)
                                        /\ \A f \in M \cup N : f.index <= e.index
      <3>1. b \in Attempts /\ att'[b] \in {"held", "answered", "rejected"}
        BY DEF Concluding, Told
      <3>2. b = a /\ mode = "serial"
        BY <1>2, <1>4, <1>8, <3>1 DEF Concluding
      <3>3. N = {}
        <4>1. Open \ {a} = {}
          BY <1>1, <1>5, <3>2 DEF InFlight
        <4> QED BY <1>6, <4>1
      <3>4. CASE att[a] = "held"
        <4>1. ~stream
          BY <1>4, <3>1, <3>2, <3>4
        <4>2. a \in Concluding
          BY <1>1, <3>2, <3>4, <4>1 DEF Concluding, Told
        <4> QED BY <3>2, <3>3, <3>4, <4>2
      <3>5. CASE att[a] # "held"
        <4>1. PICK e \in M : e.of = AboutAttempt(a) /\ M = {e}
          BY <1>4, <3>1, <3>2, <3>5
        <4>2. e.index \in Nat
          BY <1>7 DEF Adds, Entries
        <4> QED BY <3>2, <3>3, <4>1, <4>2
      <3> QED BY <3>4, <3>5
    <2> QED BY <1>2, <1>7, <2>3, <2>4, <2>5, <2>6, <2>7, <2>8 DEF Grows
  <1>14. \A e \in M \cup N : e.status # "499" /\ e.of # AboutRequest
    BY <1>1, <1>5, <1>6, <1>11, SubjectsDiffer
  <1> QED BY <1>2, <1>9, <1>10, <1>13, <1>14, GrowsKeeps

LEMMA AnswerKeeps ==
  ASSUME LogInv, NEW a \in Attempts, Answer(a) \/ Reject(a) \/ RejectUnlogged(a)
  PROVE  LogInv'
  <1>1. ledger \in Ledgers
    BY DEF LogInv, Typed
  <1>2. CASE Answer(a)
    <2>1. /\ phase = "forwarding" /\ att[a] = "held" /\ a \in InFlight
          /\ Commit(a, IF stream THEN "streaming" ELSE "answered", ledger)
      BY <1>2 DEF Answer, InFlight
    <2> QED BY <1>1, <2>1, AddsNothing, CommitKeeps
  <1>3. CASE Reject(a)
    <2> DEFINE e == [of |-> AboutAttempt(a), index |-> ledger.next, status |-> "error"]
               l == Build(ledger, AboutAttempt(a), "error")
    <2>1. phase = "forwarding" /\ att[a] = "sent" /\ a \in InFlight /\ Commit(a, "rejected", l)
      BY <1>3 DEF Reject, InFlight
    <2>2. Adds(ledger, l, {e})
      BY <1>1, BuildAdds, SubjectsDiffer DEF Statuses
    <2>3. e.of = AboutAttempt(a) /\ e.status = "error"
      OBVIOUS
    <2> HIDE DEF e, l
    <2> QED BY <2>1, <2>2, <2>3, CommitKeeps
  <1>4. CASE RejectUnlogged(a)
    <2>1. /\ phase = "forwarding" /\ att[a] = "sent" /\ a \in InFlight
          /\ Commit(a, "rejectedUnlogged", ledger)
      BY <1>4 DEF RejectUnlogged, InFlight
    <2> QED BY <1>1, <2>1, AddsNothing, CommitKeeps
  <1> QED BY <1>2, <1>3, <1>4

\* The end of a route may leave an answer of the proxy's own, which is not the
\* request's.
LEMMA LocalKeeps ==
  ASSUME LogInv, UNCHANGED <<static, att, lost, rows>>, ledger' = BuildLocal(ledger, route),
         Typed', phase # "gone", phase' # "gone", Progress'
  PROVE  LogInv'
  <1> DEFINE e == [of |-> AboutLocal(route), index |-> 0, status |-> "error"]
  <1>1. Typed /\ route \in Nat /\ ledger \in Ledgers
    BY DEF LogInv, Typed
  <1>2. e.of \in Locals /\ e.of \notin Subjects /\ ~OfRequest(e) /\ e.status = "error"
    <2>1. e.of \in Locals
      BY <1>1 DEF Locals
    <2> QED BY <2>1, SubjectsDiffer, OfRequestIs
  <1>3. /\ ledger'.pending = ledger.pending \cup {e}
        /\ ledger'.next = ledger.next /\ ledger'.logs = ledger.logs
    BY <1>1 DEF BuildLocal, Ledgers
  <1> HIDE DEF e
  <1>4. All' = All \cup {e} /\ RequestRows' = RequestRows
    BY <1>3 DEF All, Kept, RequestRows
  <1>5. \A a \in Attempts : About(a)' = About(a)
    BY <1>2, <1>4, SubjectsDiffer DEF About
  <1>6. Numbered'
    BY <1>2, <1>3, <1>4 DEF LogInv, Numbered
  <1>7. Billing'
    BY BillingStays DEF LogInv
  <1>8. Untold' = Untold /\ Told' = Told /\ Concluding' = Concluding
    BY DEF Untold, Told, Concluding, static
  <1>9. Telling'
    <2>1. /\ \A a \in Untold : About(a) = {}
          /\ ~lost => \A a \in Told : About(a) # {}
          /\ \A a \in Attempts : \A f, g \in About(a) : f = g
          /\ \A a \in Attempts : \A f \in About(a) : f.status = "dropped" => att[a] = "gone"
      BY DEF LogInv, Telling
    <2>2. Untold \subseteq Attempts /\ Told \subseteq Attempts
      BY DEF Untold, Told
    <2>3. lost' = lost /\ att' = att
      OBVIOUS
    <2>4. \A a \in Untold' : About(a)' = {}
      BY <1>5, <1>8, <2>1, <2>2
    <2>5. ~lost' => \A a \in Told' : About(a)' # {}
      BY <1>5, <1>8, <2>1, <2>2, <2>3
    <2>6. \A a \in Attempts : \A f, g \in About(a)' : f = g
      BY <1>5, <2>1
    <2>7. \A a \in Attempts : \A f \in About(a)' : f.status = "dropped" => att'[a] = "gone"
      BY <1>5, <2>1, <2>3
    <2> QED BY <2>4, <2>5, <2>6, <2>7 DEF Telling
  <1>10. Resort'
    <2>1. \A f \in All' : f.status # "499" /\ f.of # AboutRequest
      BY <1>2, <1>4, SubjectsDiffer DEF LogInv, Resort
    <2> QED BY <1>3, <1>4, <1>5, <2>1 DEF LogInv, Resort
  <1>11. Last'
    <2>1. \A a \in Concluding : a \in Attempts
      BY DEF Concluding, Told
    <2> QED BY <1>2, <1>4, <1>5, <1>8, <2>1 DEF LogInv, Last, Tops
  <1> QED BY <1>6, <1>7, <1>9, <1>10, <1>11 DEF LogInv

LEMMA ExhaustedKeeps ==
  ASSUME LogInv, NEW local \in BOOLEAN, NEW next \in BOOLEAN, Exhausted(local, next)
  PROVE  LogInv'
  <1>1. /\ Typed /\ Progress /\ ledger \in Ledgers /\ route \in Nat /\ Chosen = {}
        /\ phase = "forwarding" /\ InFlight = {} /\ phase' \in {"forwarding", "body"}
        /\ UNCHANGED <<static, att, lost, rows>> /\ UNCHANGED <<mode, stream>>
        /\ route' \in Nat
    BY DEF LogInv, Typed, Progress, Exhausted, static
  <1>2. /\ Untold' = Untold /\ Told' = Told /\ Concluding' = Concluding
        /\ Chosen' = Chosen /\ InFlight' = InFlight /\ Streaming' = Streaming
    BY <1>1 DEF Untold, Told, Concluding, Chosen, InFlight, Streaming
  <1>3. Progress'
    BY <1>1, <1>2 DEF Progress, Chosen, Streaming
  <1>4. CASE local
    <2>1. ledger' = BuildLocal(ledger, route)
      BY <1>4 DEF Exhausted
    <2>2. ledger' \in Ledgers
      <3>1. [of |-> AboutLocal(route), index |-> 0, status |-> "error"] \in Entries
        BY <1>1 DEF Entries, Locals, Statuses
      <3> QED BY <1>1, <2>1, <3>1 DEF BuildLocal, Ledgers
    <2>3. Typed'
      BY <1>1, <2>2 DEF Typed
    <2> QED BY <1>1, <1>3, <2>1, <2>3, LocalKeeps
  <1>5. CASE ~local
    <2>1. ledger' = ledger
      BY <1>5 DEF Exhausted
    <2>2. Typed'
      BY <1>1, <2>1 DEF Typed
    <2>3. Grows({})
      BY <1>1, <1>2, <2>1, AddsNothing DEF Grows
    <2> QED BY <1>1, <1>3, <2>2, <2>3, GrowsKeeps
  <1> QED BY <1>4, <1>5

-----------------------------------------------------------------------------
(* The body, and the client. *)

LEMMA LoggedKeeps ==
  ASSUME LogInv, NEW a \in Streaming, NEW status \in {"ok", "error"}, Logged(a, status),
         phase = "body", phase' \in {"body", "over"},
         UNCHANGED <<static, chain, lost, rows>>
  PROVE  LogInv'
  <1> DEFINE e == [of |-> AboutAttempt(a), index |-> ledger.next, status |-> status]
  <1>1. /\ Typed /\ a \in Attempts /\ a \in Chosen /\ att[a] = "streaming" /\ stream
        /\ InFlight = {} /\ (\A b \in Chosen : b = a) /\ ledger \in Ledgers
        /\ UNCHANGED <<mode, stream, route>>
    BY DEF LogInv, Typed, Progress, Streaming, Chosen, static, chain
  <1>2. att' = [att EXCEPT ![a] = "answered"] /\ ledger' = Build(ledger, AboutAttempt(a), status)
    BY DEF Logged
  <1>3. /\ att' \in [Attempts -> Stands] /\ att'[a] = "answered"
        /\ \A b \in Attempts : b # a =>
               /\ b \in Untold' <=> b \in Untold
               /\ b \in Told' <=> b \in Told
               /\ b \in Concluding' <=> b \in Concluding
               /\ b \in InFlight' <=> b \in InFlight
               /\ b \in Chosen' <=> b \in Chosen
               /\ b \in Streaming' <=> b \in Streaming
               /\ att'[b] = att[b]
    BY <1>1, <1>2, OneMoves DEF Stands
  <1>4. Adds(ledger, ledger', {e})
    BY <1>1, <1>2, SubjectsDiffer, BuildAdds DEF Statuses
  <1>5. e.of = AboutAttempt(a) /\ e.status \in {"ok", "error"} /\ e.index \in Nat
    BY <1>1 DEF Ledgers
  <1> HIDE DEF e
  <1>6. Typed'
    BY <1>1, <1>3, <1>4 DEF Typed, Adds
  <1>7. Progress'
    <2>1. \A b \in Streaming : b = a
      BY <1>1 DEF Streaming, Chosen
    <2>2. Streaming' = {}
      BY <1>3, <2>1 DEF Streaming
    <2>3. \A b \in Chosen' : b = a
      BY <1>1, <1>3 DEF Chosen
    <2>4. InFlight' = {}
      BY <1>1, <1>3 DEF InFlight
    <2> QED BY <2>2, <2>3, <2>4 DEF Progress
  <1>8. Grows({e})
    <2>1. a \in Untold /\ a \notin Untold'
      BY <1>1, <1>3 DEF Untold
    <2>2. Untold' \subseteq Untold
      BY <1>3, <2>1 DEF Untold
    <2>3. \A b \in Told' \ Told : b = a
      BY <1>3 DEF Told
    <2>4. \A b \in Attempts : att[b] = "gone" => att'[b] = "gone"
      BY <1>1, <1>3
    <2>5. \A b \in Concluding' : b = a
      <3> SUFFICES ASSUME NEW b \in Concluding', b # a
                   PROVE  FALSE
        OBVIOUS
      <3>1. b \in Attempts
        BY DEF Concluding, Told
      <3>2. b \in Concluding
        BY <1>3, <3>1
      <3>3. att[b] \in {"held", "answered", "rejected"}
        BY <3>2 DEF Concluding
      <3>4. b \in InFlight \/ b \in Chosen
        BY <3>1, <3>3 DEF InFlight, Chosen
      <3> QED BY <1>1, <3>4
    <2> QED BY <1>4, <1>5, <2>1, <2>2, <2>3, <2>4, <2>5 DEF Grows
  <1>9. \A f \in {e} : f.status # "499" /\ f.of # AboutRequest
    BY <1>1, <1>5, SubjectsDiffer
  <1> QED BY <1>6, <1>7, <1>8, <1>9, GrowsKeeps

LEMMA BodyKeeps ==
  ASSUME LogInv, BodyEnds \/ \E status \in {"ok", "error"} : StreamSettles(status)
  PROVE  LogInv'
  <1>1. CASE \E status \in {"ok", "error"} : StreamSettles(status)
    BY <1>1, LoggedKeeps DEF StreamSettles
  <1>2. CASE BodyEnds /\ Streaming # {}
    BY <1>2, LoggedKeeps DEF BodyEnds
  <1>3. CASE BodyEnds /\ Streaming = {}
    <2>1. /\ UNCHANGED <<static, chain, lost, rows, att, ledger>>
          /\ UNCHANGED <<mode, stream, route>>
          /\ phase = "body" /\ phase' = "over"
      BY <1>3 DEF BodyEnds, static, chain
    <2>2. Typed' /\ ledger \in Ledgers
      BY <2>1 DEF LogInv, Typed
    <2>3. /\ Untold' = Untold /\ Told' = Told /\ Concluding' = Concluding
          /\ Chosen' = Chosen /\ InFlight' = InFlight /\ Streaming' = Streaming
      BY <2>1 DEF Untold, Told, Concluding, Chosen, InFlight, Streaming
    <2>4. Progress'
      BY <1>3, <2>1, <2>3 DEF LogInv, Progress
    <2>5. Grows({})
      BY <2>1, <2>2, <2>3, AddsNothing DEF Grows
    <2> QED BY <2>1, <2>2, <2>4, <2>5, GrowsKeeps
  <1> QED BY <1>1, <1>2, <1>3

\* What the client's leaving builds: the entries of the streams dropped, or the
\* request's own.
LEMMA LeaveBuilds ==
  ASSUME LogInv, Leave
  PROVE  \E N : /\ Adds(ledger, ledger', N)
                /\ \A e, f \in N : e.of = f.of => e = f
                /\ \A e \in N : e.status = "499"
                /\ ledger'.logs > 0
                /\ \/ /\ \A e \in N : \E a \in Open : e.of = AboutAttempt(a)
                      /\ \A a \in Open : \E e \in N : e.of = AboutAttempt(a)
                   \/ /\ \A e \in N : e.of = AboutRequest
                      /\ ledger.logs = 0 /\ Open = {}
  <1>1. Typed /\ ledger \in Ledgers /\ Open \in SUBSET Attempts
    BY DEF LogInv, Typed, Open
  <1>2. PICK l \in Drop(ledger, Open, DroppedStatus(TRUE)) : ledger' = FinishCancel(l)
    BY DEF Leave
  <1>3. DroppedStatus(TRUE) = "499" /\ "499" \in Statuses
    BY DEF DroppedStatus, Statuses
  <1>4. l \in Drop(ledger, Open, "499")
    BY <1>2, <1>3
  <1>5. PICK N : /\ Adds(ledger, l, N)
                 /\ \A e \in N : e.status = "499" /\ \E a \in Open : e.of = AboutAttempt(a)
                 /\ \A a \in Open : \E e \in N : e.of = AboutAttempt(a)
                 /\ \A e, f \in N : e.of = f.of => e = f
    BY <1>1, <1>3, <1>4, DropAdds
  <1>6. l \in Ledgers /\ l.logs \in Nat /\ ledger.logs \in Nat /\ ledger.logs <= l.logs
    BY <1>1, <1>5 DEF Adds, Ledgers
  <1>7. CASE l.logs > 0
    BY <1>2, <1>5, <1>7 DEF FinishCancel
  <1>8. CASE ~(l.logs > 0)
    <2> DEFINE r == [of |-> AboutRequest, index |-> l.next, status |-> "499"]
    <2>1. N = {} /\ ledger.logs = 0 /\ l.logs = 0
      BY <1>5, <1>6, <1>8 DEF Adds
    <2>2. ledger' = Build(l, AboutRequest, "499")
      BY <1>2, <1>8 DEF FinishCancel
    <2>3. Adds(l, ledger', {r})
      BY <1>3, <1>6, <2>2, BuildAdds, SubjectsDiffer
    <2>4. r.of = AboutRequest /\ r.status = "499"
      OBVIOUS
    <2> HIDE DEF r
    <2>5. Adds(ledger, ledger', N \cup {r})
      BY <1>1, <1>5, <2>3, AddsMore
    <2>6. N \cup {r} = {r} /\ Open = {}
      BY <1>5, <2>1
    <2>7. ledger'.logs > 0
      BY <2>3 DEF Adds
    <2> QED BY <2>1, <2>4, <2>5, <2>6, <2>7
  <1> QED BY <1>7, <1>8

LEMMA LeaveKeeps ==
  ASSUME LogInv, Leave
  PROVE  LogInv'
  <1>1. /\ Typed /\ phase \in {"forwarding", "body"} /\ phase' = "gone"
        /\ UNCHANGED <<static, chain, lost, rows>> /\ UNCHANGED <<mode, stream, route>>
        /\ (Streaming # {} => stream) /\ (Chosen # {} => InFlight = {})
        /\ \A a, b \in Chosen : a = b
    BY DEF LogInv, Leave, Progress, static, chain
  <1>2. /\ att' \in [Attempts -> Stands]
        /\ \A a \in Attempts :
              att'[a] = IF a \in InFlight THEN "gone"
                        ELSE IF a \in Streaming THEN "answered" ELSE att[a]
    BY <1>1 DEF Leave, Typed, Stands
  <1>3. PICK N : /\ Adds(ledger, ledger', N)
                 /\ \A e, f \in N : e.of = f.of => e = f
                 /\ \A e \in N : e.status = "499"
                 /\ ledger'.logs > 0
                 /\ \/ /\ \A e \in N : \E a \in Open : e.of = AboutAttempt(a)
                       /\ \A a \in Open : \E e \in N : e.of = AboutAttempt(a)
                    \/ /\ \A e \in N : e.of = AboutRequest
                       /\ ledger.logs = 0 /\ Open = {}
    BY LeaveBuilds
  <1>4. Typed'
    BY <1>1, <1>2, <1>3 DEF Typed, Adds
  <1>5. Progress'
    <2>1. InFlight' = {} /\ Streaming' = {}
      BY <1>2 DEF InFlight, Streaming
    <2>2. Chosen' \subseteq Chosen
      BY <1>2 DEF Chosen, Streaming
    <2> QED BY <1>1, <2>1, <2>2 DEF Progress
  <1>6. \A a \in Open : a \in Untold /\ a \notin Untold' /\ a \in Attempts
    BY <1>1, <1>2 DEF Open, Untold, InFlight, Streaming
  <1>7. \A a \in Attempts : att'[a] = "answered" /\ att[a] # "answered" => a \in Open
    BY <1>1, <1>2 DEF Open, Streaming
  <1>8. Grows(N)
    <2>1. \A e \in N :
             \/ e.of = AboutRequest
             \/ \E a \in Untold : e.of = AboutAttempt(a) /\ a \notin Untold'
                                  /\ (e.status = "dropped" => att'[a] = "gone")
      BY <1>3, <1>6
    <2>2. Untold' \subseteq Untold
      BY <1>1, <1>2 DEF Untold, InFlight
    <2>3. \A a \in Told' \ Told : a \in Open
      <3>1. \A a \in Told' : a \in Attempts /\ a \notin InFlight
        BY <1>2 DEF Told
      <3> QED BY <1>2, <1>7, <3>1 DEF Told, InFlight
    <2>4. \A a \in Told' \ Told : \E e \in N : e.of = AboutAttempt(a)
      BY <1>3, <2>3
    <2>5. \A a \in Attempts : att[a] = "gone" => att'[a] = "gone"
      BY <1>2 DEF InFlight, Streaming
    <2>6. ASSUME NEW a \in Concluding'
          PROVE  \/ a \in Concluding /\ N = {}
                 \/ \E e \in N : e.of = AboutAttempt(a) /\ \A f \in N : f.index <= e.index
                 \/ About(a) = {} /\ \A e \in N : e.of # AboutAttempt(a)
      <3>1. a \in Attempts /\ a \notin InFlight /\ att'[a] \in {"answered", "rejected"}
        <4>1. a \in Attempts /\ att'[a] \in {"held", "answered", "rejected"}
          BY DEF Concluding, Told
        <4>2. a \notin InFlight
          BY <1>2, <4>1
        <4> QED BY <1>2, <4>1, <4>2 DEF InFlight
      <3>2. a \in Chosen /\ InFlight = {}
        BY <1>1, <1>2, <3>1 DEF Chosen, Streaming
      <3>3. \A b \in Open : b = a /\ a \in Streaming
        BY <1>1, <3>2 DEF Open, Chosen, Streaming, InFlight
      <3>4. CASE Open = {} /\ N = {}
        <4>1. att'[a] = att[a]
          BY <1>7, <3>1, <3>2, <3>4, <1>2 DEF Streaming
        <4>2. a \in Concluding
          BY <1>1, <3>1, <4>1 DEF Concluding, Told
        <4> QED BY <3>4, <4>2
      <3>5. CASE Open = {} /\ N # {}
        <4>1. ledger.logs = 0 /\ \A e \in N : e.of = AboutRequest
          BY <1>3, <3>5
        <4>2. About(a) = {}
          BY <3>1, <4>1 DEF LogInv, Resort
        <4> QED BY <3>1, <4>1, <4>2, SubjectsDiffer
      <3>6. CASE Open # {}
        <4>1. /\ \A e \in N : e.of = AboutAttempt(a)
              /\ \E e \in N : e.of = AboutAttempt(a)
          BY <1>3, <3>3, <3>6
        <4>2. PICK e \in N : e.of = AboutAttempt(a) /\ \A f \in N : f = e
          BY <1>3, <4>1
        <4>3. e.index \in Nat
          BY <1>3 DEF Adds, Entries
        <4> QED BY <4>2, <4>3
      <3> QED BY <3>4, <3>5, <3>6
    <2> QED BY <1>1, <1>3, <2>1, <2>2, <2>4, <2>5, <2>6 DEF Grows
  <1>9. Numbered' /\ All' = All \cup N
    BY <1>1, <1>3, NumberedMore DEF LogInv
  <1>10. Resort'
    <2>1. ~lost' => \E e \in All' : OfRequest(e)
      <3>1. CASE N # {}
        BY <1>3, <1>9, <3>1, OfRequestIs DEF Adds
      <3>2. CASE N = {}
        <4>1. ledger.logs = ledger'.logs
          BY <1>3, <3>2 DEF Adds
        <4> QED BY <1>1, <1>3, <1>9, <4>1 DEF LogInv, Resort
      <3> QED BY <3>1, <3>2
    <2>2. ASSUME NEW e \in All', e.of = AboutRequest
          PROVE  \A a \in Attempts : About(a)' = {}
      <3>1. e \in N
        BY <1>1, <1>9, <2>2 DEF LogInv, Resort
      <3>2. (\A f \in N : f.of = AboutRequest) /\ ledger.logs = 0
        BY <1>3, <1>6, <2>2, <3>1, SubjectsDiffer
      <3>3. \A a \in Attempts : About(a) = {}
        BY <3>2 DEF LogInv, Resort
      <3> QED BY <1>9, <3>2, <3>3, SubjectsDiffer DEF About
    <2>3. ledger'.logs > 0 /\ ~(ledger'.logs = 0)
      BY <1>3 DEF Adds, Ledgers
    <2> QED BY <1>1, <2>1, <2>2, <2>3 DEF Resort
  <1>11. Billing'
    BY <1>1, BillingStays DEF LogInv
  <1> QED BY <1>4, <1>5, <1>8, <1>9, <1>10, <1>11, TellingGrows, LastGrows DEF LogInv

-----------------------------------------------------------------------------
(* Writing. *)

\* A row is added, and of the others only the billing changes.
LEMMA WriteAdds ==
  ASSUME Typed, NEW e \in ledger.pending, Write(e)
  PROVE  /\ Typed'
         /\ DOMAIN rows' = DOMAIN rows \cup {Len(rows) + 1}
         /\ Len(rows) + 1 \notin DOMAIN rows
         /\ \A j \in DOMAIN rows : Entry(rows'[j]) = Entry(rows[j])
         /\ Entry(rows'[Len(rows) + 1]) = e
         /\ IF OfRequest(e)
            THEN \A j \in DOMAIN rows' : OfRequest(rows'[j]) => rows'[j].billable = Final(rows', j)
            ELSE \A j \in DOMAIN rows : rows'[j] = rows[j]
  <1> DEFINE n == Len(rows)
             x == [of |-> e.of, index |-> e.index, status |-> e.status, billable |-> TRUE]
             s == Append(rows, x)
  <1>1. e \in Entries /\ n \in Nat /\ rows \in Seq(Rows) /\ DOMAIN rows = 1..n
    BY DEF Typed, Ledgers
  <1>2. x \in Rows /\ Entry(x) = e
    BY <1>1 DEF Entries, Rows, Entry
  <1> HIDE DEF x
  <1>3. /\ s \in Seq(Rows) /\ DOMAIN s = 1..(n+1) /\ s[n+1] = x
        /\ \A j \in 1..n : s[j] = rows[j]
    BY <1>1, <1>2
  <1> HIDE DEF s
  <1>4. rows' = Reconciled(s, e)
    BY DEF Write, Inserted, s, x
  <1>5. /\ DOMAIN rows' = 1..(n+1)
        /\ \A j \in 1..(n+1) :
              rows'[j] = IF OfRequest(e) /\ OfRequest(s[j])
                         THEN [s[j] EXCEPT !.billable = Final(s, j)] ELSE s[j]
    BY <1>3, <1>4 DEF Reconciled
  <1>6. \A j, k : Final(s, j) \in BOOLEAN
    BY DEF Final
  <1>7. ASSUME NEW j \in 1..(n+1)
        PROVE  rows'[j] \in Rows /\ Entry(rows'[j]) = Entry(s[j]) /\ OfRequest(rows'[j]) = OfRequest(s[j])
    <2>1. s[j] \in Rows
      BY <1>3
    <2>2. [s[j] EXCEPT !.billable = Final(s, j)] \in Rows
      BY <2>1, <1>6 DEF Rows
    <2>3. /\ [s[j] EXCEPT !.billable = Final(s, j)].of = s[j].of
          /\ [s[j] EXCEPT !.billable = Final(s, j)].index = s[j].index
          /\ [s[j] EXCEPT !.billable = Final(s, j)].status = s[j].status
      BY <2>1 DEF Rows
    <2> QED BY <1>5, <2>1, <2>2, <2>3 DEF Entry, OfRequest
  <1>8. rows' \in Seq(Rows)
    <2>1. rows' = [j \in 1..(n+1) |-> rows'[j]]
      <3>1. CASE OfRequest(e)
        BY <1>3, <1>4, <3>1 DEF Reconciled
      <3>2. CASE ~OfRequest(e)
        <4>1. rows' = s
          BY <1>4, <3>2 DEF Reconciled
        <4> QED BY <1>3, <4>1
      <3> QED BY <3>1, <3>2
    <2>2. n + 1 \in Nat
      BY <1>1
    <2> QED BY <1>7, <2>1, <2>2
  <1>9. Typed'
    <2>1. ledger' \in Ledgers /\ UNCHANGED <<static, phase, chain, att, lost>>
      BY DEF Write, Typed, Ledgers
    <2> QED BY <1>8, <2>1 DEF Typed, static, chain
  <1>10. \A i, j \in 1..(n+1) : Before(rows', i, j) = Before(s, i, j)
    BY <1>7 DEF Before, Entry
  <1>11. \A j \in 1..(n+1) : Final(rows', j) = Final(s, j)
    BY <1>3, <1>5, <1>7, <1>10 DEF Final
  <1>12. ASSUME OfRequest(e), NEW j \in 1..(n+1), OfRequest(rows'[j])
         PROVE  rows'[j].billable = Final(rows', j)
    <2>1. s[j] \in Rows /\ OfRequest(s[j])
      BY <1>3, <1>7, <1>12
    <2>2. [s[j] EXCEPT !.billable = Final(s, j)].billable = Final(s, j)
      BY <2>1 DEF Rows
    <2> QED BY <1>5, <1>11, <1>12, <2>1, <2>2
  <1>13. n + 1 \notin 1..n /\ 1..(n+1) = 1..n \cup {n+1}
    BY <1>1
  <1> QED BY <1>1, <1>2, <1>3, <1>5, <1>7, <1>9, <1>12, <1>13

\* What stays of the account of a request when only rows are written or given up.
LEMMA WrittenKeeps ==
  ASSUME LogInv, Typed', Numbered', Billing', All' \subseteq All,
         ~lost' => ~lost /\ All' = All,
         ledger'.logs = ledger.logs, UNCHANGED <<static, phase, chain, att>>
  PROVE  LogInv'
  <1>1. /\ Untold' = Untold /\ Told' = Told /\ Concluding' = Concluding
        /\ Chosen' = Chosen /\ InFlight' = InFlight /\ Streaming' = Streaming
        /\ UNCHANGED <<mode, stream>>
    BY DEF Untold, Told, Concluding, Chosen, InFlight, Streaming, static
  <1>2. \A a \in Attempts : About(a)' \subseteq About(a)
    BY DEF About
  <1>3. ~lost' => \A a \in Attempts : About(a)' = About(a)
    BY DEF About
  <1>4. Untold \subseteq Attempts /\ Told \subseteq Attempts /\ Concluding \subseteq Attempts
    BY DEF Untold, Told, Concluding
  <1>5. Progress'
    BY <1>1 DEF LogInv, Progress
  <1>6. Telling'
    <2>1. \A a \in Untold' : About(a)' = {}
      BY <1>1, <1>2, <1>4 DEF LogInv, Telling
    <2>2. ~lost' => \A a \in Told' : About(a)' # {}
      BY <1>1, <1>3, <1>4 DEF LogInv, Telling
    <2>3. \A a \in Attempts : \A f, g \in About(a)' : f = g
      BY <1>2 DEF LogInv, Telling
    <2>4. \A a \in Attempts : \A f \in About(a)' : f.status = "dropped" => att'[a] = "gone"
      BY <1>2 DEF LogInv, Telling
    <2> QED BY <2>1, <2>2, <2>3, <2>4 DEF Telling
  <1>7. Resort'
    BY <1>2 DEF LogInv, Resort
  <1>8. Last'
    BY <1>1, <1>2, <1>4 DEF LogInv, Last, Tops
  <1> QED BY <1>5, <1>6, <1>7, <1>8 DEF LogInv

LEMMA WriteKeeps ==
  ASSUME LogInv, NEW e \in ledger.pending, Write(e)
  PROVE  LogInv'
  <1> DEFINE k == Len(rows) + 1
  <1>1. Typed /\ Numbered /\ Billing
    BY DEF LogInv
  <1>2. /\ Typed' /\ DOMAIN rows' = DOMAIN rows \cup {k} /\ k \notin DOMAIN rows
        /\ \A j \in DOMAIN rows : Entry(rows'[j]) = Entry(rows[j])
        /\ Entry(rows'[k]) = e
    BY <1>1, WriteAdds
  <1>3. IF OfRequest(e)
        THEN \A j \in DOMAIN rows' : OfRequest(rows'[j]) => rows'[j].billable = Final(rows', j)
        ELSE \A j \in DOMAIN rows : rows'[j] = rows[j]
    BY <1>1, WriteAdds
  <1>4. ledger'.pending = ledger.pending \ {e} /\ ledger'.logs = ledger.logs /\ ledger'.next = ledger.next
    BY <1>1 DEF Write, Typed, Ledgers
  <1>5. k \in Nat /\ \A j \in DOMAIN rows : j \in Nat /\ j < k
    BY <1>1 DEF Typed
  <1> HIDE DEF k
  <1>6. Kept' = Kept \cup {e}
    BY <1>2 DEF Kept
  <1>7. All' = All
    BY <1>4, <1>6 DEF All
  <1>8. /\ \A j \in DOMAIN rows : /\ rows'[j].of = rows[j].of /\ rows'[j].index = rows[j].index
                                  /\ OfRequest(rows'[j]) = OfRequest(rows[j])
        /\ rows'[k].of = e.of /\ rows'[k].index = e.index /\ OfRequest(rows'[k]) = OfRequest(e)
    BY <1>2 DEF Entry, OfRequest
  <1>9. RequestRows' = IF OfRequest(e) THEN RequestRows \cup {k} ELSE RequestRows
    BY <1>2, <1>8 DEF RequestRows
  <1>10. RequestRows \subseteq DOMAIN rows
    BY DEF RequestRows
  <1>11. Numbered'
    <2>1. \A i, j \in RequestRows' : rows'[i].index = rows'[j].index => i = j
      BY <1>1, <1>8, <1>9, <1>10 DEF Numbered
    <2>2. \A f \in ledger'.pending, j \in RequestRows' : OfRequest(f) => f.index # rows'[j].index
      <3>1. \A f \in ledger.pending : f \in All
        BY DEF All
      <3> QED BY <1>1, <1>4, <1>8, <1>9, <1>10, <3>1 DEF Numbered
    <2>3. \A f \in All' : OfRequest(f) => f.index < ledger'.next
      BY <1>1, <1>4, <1>7 DEF Numbered
    <2>4. \A f, g \in All' : OfRequest(f) /\ OfRequest(g) /\ f.index = g.index => f = g
      BY <1>1, <1>7 DEF Numbered
    <2> QED BY <2>1, <2>2, <2>3, <2>4 DEF Numbered
  <1>12. Billing'
    <2>1. CASE ~OfRequest(e)
      <3>1. \A j \in RequestRows : Final(rows', j) = Final(rows, j)
        BY <1>2, <1>3, <1>8, <1>10, <2>1 DEF Final, Before
      <3> QED BY <1>1, <1>3, <1>9, <1>10, <2>1, <3>1 DEF Billing
    <2>2. CASE OfRequest(e)
      <3>1. \A j \in RequestRows' : rows'[j].billable = Final(rows', j)
        BY <1>3, <2>2 DEF RequestRows
      <3>2. e.index \in Nat /\ \A j \in RequestRows : rows[j].index \in Nat /\ rows[j].index # e.index
        <4>1. e \in Entries /\ \A j \in DOMAIN rows : rows[j] \in Rows
          BY <1>1 DEF Typed, Ledgers
        <4>2. e.index \in Nat /\ \A j \in RequestRows : rows[j].index \in Nat
          BY <1>10, <4>1 DEF Entries, Rows
        <4> QED BY <1>1, <2>2, <4>2 DEF Numbered
      <3>3. CASE RequestRows = {}
        <4>1. Final(rows', k)
          BY <1>2, <1>8, <3>3 DEF Final, RequestRows
        <4> QED BY <1>9, <2>2, <3>1, <4>1 DEF Billing
      <3>4. CASE RequestRows # {}
        <4>1. PICK m \in RequestRows : Final(rows, m)
          BY <1>1, <3>4 DEF Billing
        <4>2. m \in DOMAIN rows /\ OfRequest(rows[m])
          BY DEF RequestRows
        <4>3. \A i \in DOMAIN rows' : OfRequest(rows'[i]) /\ i # k => i \in RequestRows
          BY <1>2, <1>8 DEF RequestRows
        <4>4. \A i \in RequestRows : i # m => Before(rows, i, m)
          BY <4>1 DEF Final, RequestRows
        <4>5. \A i \in RequestRows : rows[i].index <= rows[m].index
          BY <3>2, <4>4 DEF Before
        <4>6. CASE rows[m].index < e.index
          <5>1. \A i \in RequestRows : rows'[i].index < rows'[k].index
            BY <1>8, <1>10, <3>2, <4>5, <4>6
          <5>2. Final(rows', k)
            BY <4>3, <5>1 DEF Final, Before
          <5> QED BY <1>9, <2>2, <3>1, <5>2 DEF Billing
        <4>7. CASE e.index < rows[m].index
          <5>1. Before(rows', k, m)
            BY <1>8, <4>2, <4>7 DEF Before
          <5>2. \A i \in RequestRows : i # m => Before(rows', i, m)
            BY <1>8, <1>10, <4>2, <4>4 DEF Before
          <5>3. Final(rows', m)
            BY <4>3, <5>1, <5>2 DEF Final
          <5> QED BY <1>9, <2>2, <3>1, <5>3 DEF Billing
        <4> QED BY <3>2, <4>6, <4>7
      <3> QED BY <3>3, <3>4
    <2> QED BY <2>1, <2>2
  <1>13. UNCHANGED <<static, phase, chain, att, lost>>
    BY DEF Write
  <1> QED BY <1>2, <1>4, <1>7, <1>11, <1>12, <1>13, WrittenKeeps

LEMMA WriteFailsKeeps ==
  ASSUME LogInv, NEW e \in ledger.pending, WriteFails(e)
  PROVE  LogInv'
  <1>1. /\ Typed /\ Numbered /\ lost' = TRUE /\ rows' = rows
        /\ UNCHANGED <<static, phase, chain, att>> /\ UNCHANGED <<mode, stream, route>>
    BY DEF LogInv, WriteFails, static, chain
  <1>2. /\ ledger' \in Ledgers /\ ledger'.pending = ledger.pending \ {e}
        /\ ledger'.next = ledger.next /\ ledger'.logs = ledger.logs
    BY <1>1 DEF WriteFails, Typed, Ledgers
  <1>3. All' \subseteq All /\ RequestRows' = RequestRows
    BY <1>1, <1>2 DEF All, Kept, RequestRows
  <1>4. Typed'
    BY <1>1, <1>2 DEF Typed
  <1>5. Numbered'
    BY <1>1, <1>2, <1>3 DEF Numbered
  <1>6. Billing'
    BY <1>1, BillingStays DEF LogInv
  <1> QED BY <1>1, <1>2, <1>3, <1>4, <1>5, <1>6, WrittenKeeps

-----------------------------------------------------------------------------
(* The invariant. *)

LEMMA LogInit ==
  ASSUME Init
  PROVE  LogInv
  <1>1. /\ rows = <<>> /\ ledger.pending = {} /\ ledger.next = 0 /\ ledger.logs = 0
        /\ ~lost /\ lost = FALSE /\ phase = "forwarding" /\ route = 1
        /\ ledger = [next |-> 0, logs |-> 0, pending |-> {}]
        /\ att = [a \in Attempts |-> "idle"]
    BY DEF Init
  <1>2. DOMAIN rows = {} /\ rows \in Seq(Rows)
    BY <1>1
  <1>3. All = {} /\ RequestRows = {}
    BY <1>1, <1>2 DEF All, Kept, RequestRows
  <1>4. \A a \in Attempts : att[a] = "idle" /\ About(a) = {}
    BY <1>1, <1>3 DEF About
  <1>5. Typed
    <2>1. mode \in {"serial", "race"} /\ stream \in BOOLEAN
      BY LogAssumption DEF Init
    <2>2. att \in [Attempts -> Stands]
      BY <1>1 DEF Stands
    <2>3. ledger \in Ledgers
      BY <1>1 DEF Ledgers
    <2> QED BY <1>1, <1>2, <2>1, <2>2, <2>3 DEF Typed
  <1>6. Chosen = {} /\ InFlight = {} /\ Streaming = {} /\ Told = {} /\ Concluding = {}
    BY <1>4 DEF Chosen, InFlight, Streaming, Told, Concluding
  <1>7. Numbered /\ Billing
    BY <1>1, <1>3 DEF Numbered, Billing
  <1>8. Progress /\ Last
    BY <1>1, <1>6 DEF Progress, Last
  <1>9. Telling
    BY <1>4, <1>6 DEF Telling, Untold
  <1>10. Resort
    BY <1>1, <1>3, <1>4 DEF Resort
  <1> QED BY <1>5, <1>7, <1>8, <1>9, <1>10 DEF LogInv

LEMMA LogStutters == ASSUME LogInv, UNCHANGED vars PROVE LogInv'
  <1>1. UNCHANGED <<mode, stream, phase, route, before, att, ledger, lost, rows>>
    BY DEF vars
  <1>2. All' = All /\ RequestRows' = RequestRows
    BY <1>1 DEF All, Kept, RequestRows
  <1>3. Typed' /\ Numbered' /\ Billing'
    BY <1>1, <1>2, BillingStays DEF LogInv, Typed, Numbered
  <1> QED BY <1>1, <1>2, <1>3, WrittenKeeps DEF static, chain

\* The rows of a request, those that wait and its counts agree with where its attempts
\* stand, in every state: an attempt whose result was handled has one entry, one that
\* is under way or ended unlogged has none.
THEOREM RowsTellTheRequest == Spec => []LogInv
  <1>1. Init => LogInv
    BY LogInit
  <1>2. LogInv /\ [Next]_vars => LogInv'
    <2> SUFFICES ASSUME LogInv, [Next]_vars
                 PROVE  LogInv'
      OBVIOUS
    <2>1. ASSUME NEW a \in Attempts, Launch(a)
          PROVE  LogInv'
      BY <2>1, LaunchKeeps
    <2>2. ASSUME NEW a \in Attempts,
                 Accept(a) \/ Refuse(a) \/ Break(a) \/ Fail(a) \/ Discard(a) \/ FailUnlogged(a)
          PROVE  LogInv'
      BY <2>2, AttemptKeeps
    <2>3. ASSUME NEW a \in Attempts, Answer(a) \/ Reject(a) \/ RejectUnlogged(a)
          PROVE  LogInv'
      BY <2>3, AnswerKeeps
    <2>4. ASSUME NEW local \in BOOLEAN, NEW next \in BOOLEAN, Exhausted(local, next)
          PROVE  LogInv'
      BY <2>4, ExhaustedKeeps
    <2>5. CASE BodyEnds \/ \E status \in {"ok", "error"} : StreamSettles(status)
      BY <2>5, BodyKeeps
    <2>6. CASE Leave
      BY <2>6, LeaveKeeps
    <2>7. ASSUME NEW e \in ledger.pending, Write(e) \/ WriteFails(e)
          PROVE  LogInv'
      BY <2>7, WriteKeeps, WriteFailsKeeps
    <2>8. CASE UNCHANGED vars
      BY <2>8, LogStutters
    <2> QED BY <2>1, <2>2, <2>3, <2>4, <2>5, <2>6, <2>7, <2>8 DEF Next
  <1> QED BY <1>1, <1>2, PTL DEF Spec

-----------------------------------------------------------------------------
(* What it says of the rows. *)

LEMMA OneOrNone ==
  ASSUME NEW S, \A i, j \in S : i = j
  PROVE  Cardinality(S) <= 1 /\ (S # {} => Cardinality(S) = 1)
  <1>1. CASE S = {}
    BY <1>1, FS_EmptySet
  <1>2. CASE S # {}
    <2>1. PICK j \in S : S = {j}
      BY <1>2
    <2> QED BY <1>2, <2>1, FS_Singleton
  <1> QED BY <1>1, <1>2

\* An attempt's rows are its entries, and there is one at most.
LEMMA RowsAreEntries ==
  ASSUME LogInv
  PROVE  /\ \A j \in DOMAIN rows : /\ Entry(rows[j]) \in All /\ rows[j] \in Rows
                                   /\ Entry(rows[j]).of = rows[j].of
                                   /\ Entry(rows[j]).index = rows[j].index
                                   /\ Entry(rows[j]).status = rows[j].status
         /\ \A a \in Attempts : /\ RowsOf(AboutAttempt(a)) \subseteq RequestRows
                                /\ \A i, j \in RowsOf(AboutAttempt(a)) : i = j
         /\ RowsOf(AboutRequest) \subseteq RequestRows
         /\ \A i, j \in Billed : i = j
         /\ \A j \in Billed, i \in RequestRows : rows[i].index <= rows[j].index
         /\ \A j \in RequestRows : rows[j].index \in Nat /\ j \in DOMAIN rows
  <1>1. Typed /\ Numbered /\ Billing /\ Telling
    BY DEF LogInv
  <1>2. \A j \in DOMAIN rows : rows[j] \in Rows
    BY <1>1 DEF Typed
  <1>3. \A j \in DOMAIN rows : /\ Entry(rows[j]) \in All
                               /\ Entry(rows[j]).of = rows[j].of
                               /\ Entry(rows[j]).index = rows[j].index
                               /\ Entry(rows[j]).status = rows[j].status
    BY DEF All, Kept, Entry
  <1>4. \A j \in RequestRows : rows[j].index \in Nat /\ j \in DOMAIN rows
    BY <1>2 DEF RequestRows, Rows
  <1>5. \A s \in Subjects : s[1] # "local"
    BY DEF Subjects, AboutAttempt, AboutRequest
  <1>6. \A s \in Subjects : RowsOf(s) \subseteq RequestRows
    BY <1>5 DEF RowsOf, RequestRows, OfRequest
  <1>7. ASSUME NEW a \in Attempts, NEW i \in RowsOf(AboutAttempt(a)), NEW j \in RowsOf(AboutAttempt(a))
        PROVE  i = j
    <2>1. Entry(rows[i]) \in About(a) /\ Entry(rows[j]) \in About(a)
      BY <1>3 DEF About, RowsOf
    <2>2. Entry(rows[i]) = Entry(rows[j])
      BY <1>1, <2>1 DEF Telling
    <2>3. rows[i].index = rows[j].index /\ i \in RequestRows /\ j \in RequestRows
      BY <1>3, <1>6, <2>2, SubjectsDiffer DEF RowsOf
    <2> QED BY <1>1, <2>3 DEF Numbered
  <1>8. \A j \in Billed, i \in RequestRows : rows[i].index <= rows[j].index
    <2> SUFFICES ASSUME NEW j \in Billed, NEW i \in RequestRows, i # j
                 PROVE  rows[i].index <= rows[j].index
      BY <1>4 DEF Billed
    <2>1. j \in RequestRows /\ Final(rows, j)
      BY <1>1 DEF Billed, Billing
    <2>2. Before(rows, i, j)
      BY <2>1 DEF Final, RequestRows
    <2> QED BY <1>4, <2>1, <2>2 DEF Before
  <1>9. \A i, j \in Billed : i = j
    <2>1. Billed \subseteq RequestRows
      BY DEF Billed
    <2>2. \A i, j \in Billed : rows[i].index = rows[j].index
      BY <1>4, <1>8, <2>1
    <2> QED BY <1>1, <2>1, <2>2 DEF Numbered
  <1> QED BY <1>2, <1>3, <1>4, <1>6, <1>7, <1>8, <1>9, SubjectsDiffer

LEMMA SettledIsWritten ==
  ASSUME LogInv, Settled
  PROVE  /\ ~lost
         /\ \A e \in All : \E j \in DOMAIN rows : e = Entry(rows[j]) /\ e.of = rows[j].of
         /\ \A a \in Attempts : About(a) # {} => RowsOf(AboutAttempt(a)) # {}
  <1>1. ~lost /\ All = Kept
    BY DEF Settled, All
  <1>2. \A e \in All : \E j \in DOMAIN rows : e = Entry(rows[j]) /\ e.of = rows[j].of
    BY <1>1, RowsAreEntries DEF Kept
  <1>3. \A a \in Attempts : About(a) # {} => RowsOf(AboutAttempt(a)) # {}
    BY <1>2 DEF About, RowsOf
  <1> QED BY <1>1, <1>2, <1>3

LEMMA LogBills == ASSUME LogInv PROVE BilledByAnswer
  <1>1. RequestRows # {} => Cardinality(Billed) = 1
    <2>1. RequestRows # {} => Billed # {}
      BY DEF LogInv, Billing, Billed
    <2> QED BY <2>1, OneOrNone, RowsAreEntries
  <1>2. ASSUME Settled, NEW a \in Attempts,
               \/ att[a] = "answered" /\ stream
               \/ att[a] \in {"answered", "rejected"} /\ mode = "serial"
        PROVE  Billed = RowsOf(AboutAttempt(a))
    <2>1. a \in Concluding /\ a \in Told
      BY <1>2 DEF Concluding, Told
    <2>2. RowsOf(AboutAttempt(a)) # {}
      BY <1>2, <2>1, SettledIsWritten DEF LogInv, Telling
    <2>3. PICK j \in RowsOf(AboutAttempt(a)) : RowsOf(AboutAttempt(a)) = {j}
      BY <2>2, RowsAreEntries
    <2>4. j \in RequestRows /\ j \in DOMAIN rows /\ Entry(rows[j]) \in About(a)
      BY RowsAreEntries DEF RowsOf, About
    <2>5. \A f \in All : OfRequest(f) => f.index <= Entry(rows[j]).index
      BY <2>1, <2>4 DEF LogInv, Last, Tops
    <2>6. \A i \in RequestRows : rows[i].index <= rows[j].index
      <3>1. ASSUME NEW i \in RequestRows
            PROVE  rows[i].index <= rows[j].index
        <4>1. Entry(rows[i]) \in All /\ OfRequest(Entry(rows[i]))
          BY RowsAreEntries DEF RequestRows, OfRequest
        <4> QED BY <2>4, <2>5, <4>1, RowsAreEntries
      <3> QED BY <3>1
    <2>7. \A i \in RequestRows : i # j => rows[i].index < rows[j].index
      BY <2>4, <2>6, RowsAreEntries DEF LogInv, Numbered
    <2>8. Final(rows, j)
      BY <2>7 DEF Final, Before, RequestRows
    <2>9. j \in Billed
      BY <2>4, <2>8 DEF LogInv, Billing, Billed
    <2>10. \A i \in Billed : i = j
      BY <2>9, RowsAreEntries
    <2> QED BY <2>3, <2>9, <2>10
  <1>3. \A j \in Billed, i \in RequestRows : rows[i].index <= rows[j].index
    BY RowsAreEntries
  <1> QED BY <1>1, <1>2, <1>3 DEF BilledByAnswer

LEMMA LogTells == ASSUME LogInv PROVE OutcomeRecorded
  <1>1. \A a \in Attempts : Cardinality(RowsOf(AboutAttempt(a))) <= 1
    BY OneOrNone, RowsAreEntries
  <1>2. \A j \in DOMAIN rows : rows[j].status = "499" => phase = "gone"
    BY RowsAreEntries DEF LogInv, Resort
  <1>3. ASSUME Settled, NEW a \in Attempts, att[a] \in {"failed", "answered", "rejected"}
        PROVE  RowsOf(AboutAttempt(a)) # {}
    <2>1. a \in Told
      BY <1>3 DEF Told
    <2> QED BY <1>3, <2>1, SettledIsWritten DEF LogInv, Telling
  <1>4. ASSUME Settled, RowsOf(AboutRequest) # {}
        PROVE  phase = "gone" /\ \A a \in Attempts : RowsOf(AboutAttempt(a)) = {}
    <2>1. PICK e \in All : e.of = AboutRequest
      BY <1>4, RowsAreEntries DEF RowsOf
    <2>2. phase = "gone" /\ \A a \in Attempts : About(a) = {}
      BY <2>1 DEF LogInv, Resort
    <2>3. ASSUME NEW a \in Attempts, NEW j \in RowsOf(AboutAttempt(a))
          PROVE  FALSE
      <3>1. Entry(rows[j]) \in About(a)
        BY RowsAreEntries DEF RowsOf, About
      <3> QED BY <2>2, <3>1
    <2> QED BY <2>2, <2>3
  <1>5. ASSUME Settled, phase = "gone", \A a \in Attempts : RowsOf(AboutAttempt(a)) = {}
        PROVE  RowsOf(AboutRequest) # {}
    <2>1. PICK e \in All : OfRequest(e)
      BY <1>5, SettledIsWritten DEF LogInv, Resort
    <2>2. PICK j \in DOMAIN rows : e.of = rows[j].of
      BY <1>5, <2>1, SettledIsWritten
    <2>3. e.of \in Subjects
      BY <2>1, AllSubjects DEF LogInv
    <2>4. \A a \in Attempts : e.of # AboutAttempt(a)
      BY <1>5, <2>2 DEF RowsOf
    <2>5. e.of = AboutRequest
      BY <2>3, <2>4 DEF Subjects
    <2> QED BY <2>2, <2>5 DEF RowsOf
  <1>6. \A a \in Attempts, j \in DOMAIN rows :
           att[a] \in {"answered", "rejected"} /\ j \in RowsOf(AboutAttempt(a)) => rows[j].status # "dropped"
    <2> SUFFICES ASSUME NEW a \in Attempts, NEW j \in RowsOf(AboutAttempt(a)), j \in DOMAIN rows,
                        rows[j].status = "dropped"
                 PROVE  att[a] = "gone"
      OBVIOUS
    <2>1. Entry(rows[j]) \in About(a) /\ Entry(rows[j]).status = "dropped"
      BY RowsAreEntries DEF RowsOf, About
    <2> QED BY <2>1 DEF LogInv, Telling
  <1>7. ASSUME Settled, NEW a \in Attempts, att[a] \in Unlogged
        PROVE  RowsOf(AboutAttempt(a)) = {}
    <2>1. About(a) = {}
      BY <1>7 DEF LogInv, Telling, Untold, Unlogged
    <2>2. ASSUME NEW j \in RowsOf(AboutAttempt(a))
          PROVE  FALSE
      <3>1. Entry(rows[j]) \in About(a)
        BY RowsAreEntries DEF RowsOf, About
      <3> QED BY <2>1, <3>1
    <2> QED BY <2>2
  <1> QED BY <1>1, <1>2, <1>3, <1>4, <1>5, <1>6, <1>7 DEF OutcomeRecorded

\* However many rows are written, in whatever order and whichever are lost, the
\* one completed last is billed, and no other; and when all is written it is the
\* answer's, if the answer is an attempt that was logged.
THEOREM AnswerIsBilled == Spec => []BilledByAnswer
  BY LogBills, RowsTellTheRequest, PTL

\* However many attempts a request makes, each whose result was handled has one row,
\* a send that was dropped for a resend or ended while the proxy recovered has none,
\* and the request has its own only if the client left and nothing else tells of it.
THEOREM LogTellsTheOutcome == Spec => []OutcomeRecorded
  BY LogTells, RowsTellTheRequest, PTL
=============================================================================
