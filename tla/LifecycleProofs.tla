--------------------------- MODULE LifecycleProofs ---------------------------
(***************************************************************************)
(* Proofs about the account lifecycle, for every set of accounts and       *)
(* addresses, every number of users and any number of changes.             *)
(***************************************************************************)
EXTENDS Lifecycle, TLAPS

(***************************************************************************)
(* Nothing is under way in the service after a stop: an operation that     *)
(* holds the lock was either asked for later, or found the proxy running.  *)
(***************************************************************************)
Halt == halted => running = Stopped /\ step = "free"

LEMMA HaltInitially == Init => Halt
  BY DEF Init, ServiceInit, Halt

LEMMA HaltCalls ==
  ASSUME Halt, NEW by,
         Start(by) \/ Stop(by) \/ Restart(by) \/ Reload(by) \/ ApplySavedConfig(by)
  PROVE  Halt'
  <1>1. CASE Start(by) \/ Restart(by) \/ Reload(by)
    BY <1>1 DEF Start, Restart, Reload, Halt
  <1>2. CASE Stop(by)
    BY <1>2 DEF Stop, Finish, Release, Halt
  <1>3. CASE ApplySavedConfig(by)
    <2>1. CASE halted
      <3>1. Alive = Stopped
        BY <2>1 DEF Halt, Alive
      <3> QED BY <1>3, <2>1, <3>1 DEF ApplySavedConfig, Refresh, Release, Halt
    <2>2. CASE ~halted
      BY <1>3, <2>2 DEF ApplySavedConfig, Halt
    <2> QED BY <2>1, <2>2
  <1> QED BY <1>1, <1>2, <1>3

LEMMA HaltService ==
  ASSUME Halt, Service
  PROVE  Halt'
  <1>1. CASE Proceed
    <2>1. step # "free"
      BY <1>1 DEF Proceed, Open, Listen, Load, Swap, Fail
    <2>2. ~halted /\ halted' = halted
      BY <1>1, <2>1 DEF Proceed, Open, Listen, Load, Swap, Fail, Halt
    <2> QED BY <2>2 DEF Halt
  <1>2. CASE ServerFails
    BY <1>2 DEF ServerFails, Halt
  <1>3. CASE Look
    BY <1>3 DEF Look, Refresh, Alive, Halt
  <1>4. ASSUME NEW u \in Users, Interface(u)
        PROVE  Halt'
    BY <1>4, HaltCalls DEF Interface
  <1> QED BY <1>1, <1>2, <1>3, <1>4 DEF Service

LEMMA HaltKept == Halt /\ [Next]_vars => Halt'
  <1> SUFFICES ASSUME Halt, [Next]_vars
               PROVE  Halt'
    OBVIOUS
  <1>1. CASE Request
    BY <1>1 DEF Request, StartProxy, SaveConfig, Import, Login, service, Halt
  <1>2. CASE Work
    BY <1>2 DEF Work, Snapshot, Delete, Restore, SnapshotFails, Snapshotted,
                DeleteFails, Deleted, Bind, Bound, BindFails, Write, WriteFails,
                Applied, ApplyFailed, Served, RestoreAll, RestoreFails, Restored,
                Revert, RevertFails, Reapplied, Consume, service, Halt
  <1>3. CASE Call
    <2>1. CASE Apply
      BY <2>1, HaltCalls DEF Apply
    <2>2. CASE Reapply
      BY <2>2, HaltCalls DEF Reapply
    <2>3. CASE Serve
      <3>1. Start("worker") \/ Restart("worker")
        BY <2>3 DEF Serve
      <3> QED BY <3>1, HaltCalls
    <2> QED BY <1>3, <2>1, <2>2, <2>3 DEF Call
  <1>4. CASE Service
    BY <1>4, HaltService
  <1>5. CASE Crash
    BY <1>5 DEF Crash, ServiceDies, Halt
  <1>6. ASSUME NEW a \in Accounts, Exchange(a) \/ Answer(a) \/ Cancel(a)
        PROVE  Halt'
    BY <1>6 DEF Exchange, Answer, Answered, Cancel, service, Halt
  <1>7. CASE UNCHANGED vars
    BY <1>7 DEF vars, service, Halt
  <1> QED BY <1>1, <1>2, <1>3, <1>4, <1>5, <1>6, <1>7 DEF Next

\* A stopped proxy is not started again by a configuration saved meanwhile
\* (apply_saved_config).
THEOREM ProxyStaysStopped == Spec => []StoppedStaysStopped
  <1>1. Halt => StoppedStaysStopped
    BY DEF Halt, StoppedStaysStopped
  <1> QED BY HaltInitially, HaltKept, <1>1, PTL DEF Spec

(***************************************************************************)
(* What runs is what the file says.  The file is written just before it is *)
(* applied, and applied once the lock is free: from then on whatever holds *)
(* the lock has loaded the new file, or is still to load it.               *)
(***************************************************************************)
Synced ==
    pc \notin {"apply", "reapply"} =>
        /\ step = "free" /\ running # Stopped /\ ~lastError => running = file
        /\ step \in {"listen", "swap"} => loaded = file

LEMMA SyncedInitially == Init => Synced
  BY DEF Init, ServiceInit, Synced

\* An operation holds the lock until it has loaded the file itself.
LEMMA SyncedCalls ==
  ASSUME Synced, pc \notin {"apply", "reapply"}, pc' \notin {"apply", "reapply"}, NEW by,
         Start(by) \/ Stop(by) \/ Restart(by) \/ Reload(by) \/ ApplySavedConfig(by)
  PROVE  Synced'
  <1>1. CASE Start(by)
    BY <1>1 DEF Start, Refresh, Alive, Hold, Release, Synced
  <1>2. CASE Stop(by)
    BY <1>2 DEF Stop, Finish, Release, Synced
  <1>3. CASE Restart(by)
    BY <1>3 DEF Restart, Hold, Synced
  <1>4. CASE Reload(by)
    BY <1>4 DEF Reload, Hold, Synced
  <1>5. CASE ApplySavedConfig(by)
    BY <1>5 DEF ApplySavedConfig, Refresh, Alive, Hold, Release, Synced
  <1> QED BY <1>1, <1>2, <1>3, <1>4, <1>5

\* A saved configuration is applied to a proxy that runs by loading it.
LEMMA SyncedByApply ==
  ASSUME NEW by, ApplySavedConfig(by)
  PROVE  Synced'
  <1>1. CASE Alive = Stopped
    BY <1>1 DEF ApplySavedConfig, Refresh, Release, Hold, Synced
  <1>2. CASE Alive # Stopped
    BY <1>2 DEF ApplySavedConfig, Refresh, Release, Hold, Synced
  <1> QED BY <1>1, <1>2

LEMMA SyncedService ==
  ASSUME Synced, Service
  PROVE  Synced'
  <1>1. pc' = pc
    BY DEF Service
  <1>2. CASE pc \in {"apply", "reapply"}
    BY <1>1, <1>2 DEF Synced
  <1>3. CASE pc \notin {"apply", "reapply"}
    <2>1. CASE Open \/ Listen \/ Swap \/ Fail
      BY <1>1, <2>1 DEF Open, Listen, Swap, Fail, Release, Synced
    <2>2. CASE Load
      BY <1>1, <2>2 DEF Load, Synced
    <2>3. CASE ServerFails \/ Look
      BY <1>1, <2>3 DEF ServerFails, Look, Refresh, Alive, Synced
    <2>4. ASSUME NEW u \in Users, Interface(u)
          PROVE  Synced'
      BY <1>1, <1>3, <2>4, SyncedCalls DEF Interface
    <2> QED BY <2>1, <2>2, <2>3, <2>4 DEF Service, Proceed
  <1> QED BY <1>2, <1>3

\* A step of the worker that leaves the file and the service alone.
LEMMA SyncedApart ==
  ASSUME Synced, UNCHANGED <<file, running, lastError, step, loaded>>,
         pc \notin {"apply", "reapply"}
  PROVE  Synced'
  BY DEF Synced

LEMMA SyncedWork ==
  ASSUME Synced, Work
  PROVE  Synced'
  <1>1. CASE Write \/ Revert
    BY <1>1 DEF Write, Revert, Goto, Synced
  <1>2. ASSUME NEW a \in Accounts, Snapshot(a) \/ Delete(a) \/ Restore(a)
        PROVE  Synced'
    BY <1>2, SyncedApart DEF Snapshot, Delete, Restore, service
  <1>3. CASE SnapshotFails \/ Snapshotted \/ DeleteFails \/ Deleted
    BY <1>3, SyncedApart DEF SnapshotFails, Snapshotted, DeleteFails, Deleted, service
  <1>4. CASE Bind \/ Bound \/ BindFails \/ WriteFails
    BY <1>4, SyncedApart DEF Bind, Bound, BindFails, WriteFails, service
  <1>5. CASE Applied \/ ApplyFailed \/ Served \/ Reapplied
    BY <1>5, SyncedApart DEF Applied, ApplyFailed, Served, Reapplied, Consume, service
  <1>6. CASE RestoreAll \/ RestoreFails \/ Restored \/ RevertFails
    BY <1>6, SyncedApart DEF RestoreAll, RestoreFails, Restored, RevertFails, service
  <1> QED BY <1>1, <1>2, <1>3, <1>4, <1>5, <1>6 DEF Work

LEMMA SyncedKept == Synced /\ [Next]_vars => Synced'
  <1> SUFFICES ASSUME Synced, [Next]_vars
               PROVE  Synced'
    OBVIOUS
  <1>1. CASE Request
    <2>1. UNCHANGED <<file, service>> /\ pc = "idle"
      BY <1>1 DEF Request, StartProxy, SaveConfig, Import, Login, Begin
    <2> QED BY <2>1, SyncedApart DEF service
  <1>2. CASE Call
    <2>1. CASE Apply \/ Reapply
      BY <2>1, SyncedByApply DEF Apply, Reapply
    <2>2. CASE Serve
      <3>1. (Start("worker") \/ Restart("worker")) /\ pc = "serve" /\ pc' = "serving"
        BY <2>2 DEF Serve
      <3> QED BY <3>1, SyncedCalls
    <2> QED BY <1>2, <2>1, <2>2 DEF Call
  <1>3. CASE Crash
    BY <1>3 DEF Crash, ServiceDies, Synced
  <1>4. ASSUME NEW a \in Accounts, Exchange(a) \/ Answer(a) \/ Cancel(a)
        PROVE  Synced'
    <2>1. UNCHANGED <<file, service, pc>>
      BY <1>4 DEF Exchange, Answer, Answered, Cancel
    <2> QED BY <2>1 DEF service, Synced
  <1>5. CASE UNCHANGED vars
    BY <1>5 DEF vars, service, Synced
  <1> QED BY <1>1, <1>2, <1>3, <1>4, <1>5, SyncedWork, SyncedService DEF Next

\* When the worker rests and nothing has failed, the proxy runs with the file
\* as it is, though reloads of the interface load it while it is replaced.
THEOREM RunsWhatIsSaved == Spec => []RuntimeMatchesFile
  <1>1. Synced => RuntimeMatchesFile
    BY DEF Synced, RuntimeMatchesFile
  <1> QED BY SyncedInitially, SyncedKept, <1>1, PTL DEF Spec

(***************************************************************************)
(* The gate.  While an import runs, a spent credential of its snapshot is  *)
(* one whose exchange has not been answered, since no answer passes.       *)
(***************************************************************************)
GateTyped ==
    /\ held \in [Accounts -> Credentials]
    /\ flight \in [Accounts -> {"none", "held", "replaced"}]
    /\ backup \in [Accounts -> Credentials \cup {"same"}]

Awaited(a) ==
    /\ held[a] = "spent" => flight[a] = "held"
    /\ Gated /\ backup[a] = "spent" => flight[a] = "replaced"
    /\ pc = "idle" => backup[a] = "same"

GateInv ==
    /\ GateTyped
    /\ pc = "idle" => ~Gated
    /\ \A a \in Accounts : Awaited(a)

LEMMA GateInitially == Init => GateInv
  BY DEF Init, GateInv, GateTyped, Awaited, Gated, Each, Credentials

\* Replacing credentials does not depend on which job does it.
LEMMA ReplaceKeeps ==
  ASSUME GateInv, NEW T \in SUBSET Accounts, NEW c \in {"none", "usable"},
         Replace(T, c), pc' # "idle", Gated' => Gated \/ pc = "idle"
  PROVE  GateInv'
  <1>1. GateTyped'
    BY DEF GateInv, GateTyped, Replace, Kept, Credentials
  <1>2. ASSUME NEW a \in Accounts
        PROVE  Awaited(a)'
    <2>1. CASE a \in T
      <3>1. held'[a] = c
        BY <2>1 DEF Replace
      <3>2. backup'[a] = IF backup[a] = "same" THEN held[a] ELSE backup[a]
        BY <2>1 DEF Replace, Kept
      <3>3. flight'[a] = IF flight[a] # "held" THEN flight[a]
                         ELSE IF backup[a] = "same" THEN "replaced" ELSE "none"
        BY <2>1 DEF Replace
      <3> QED BY <3>1, <3>2, <3>3 DEF GateInv, Awaited
    <2>2. CASE a \notin T
      <3>1. held'[a] = held[a] /\ backup'[a] = backup[a] /\ flight'[a] = flight[a]
        BY <2>2 DEF Replace, Kept
      <3> QED BY <3>1 DEF GateInv, Awaited
    <2> QED BY <2>1, <2>2
  <1> QED BY <1>1, <1>2 DEF GateInv

\* A step that ends a change drops its snapshot.
LEMMA SettleKeeps ==
  ASSUME GateInv, NEW b, Settle(b), UNCHANGED tokens
  PROVE  GateInv'
  BY DEF GateInv, GateTyped, Awaited, Settle, Gated, Each, tokens

\* A step within a change that leaves credentials and snapshot alone.
LEMMA StepKeeps ==
  ASSUME GateInv, UNCHANGED <<held, flight, backup>>, pc' # "idle",
         Gated' => Gated \/ pc = "idle"
  PROVE  GateInv'
  BY DEF GateInv, GateTyped, Awaited

LEMMA GotoKeeps ==
  ASSUME GateInv, NEW next, next # "idle", Goto(next), UNCHANGED tokens
  PROVE  GateInv'
  BY StepKeeps DEF Goto, tokens, Gated

LEMMA UndoKeeps ==
  ASSUME GateInv, UndoCredentials, UNCHANGED tokens
  PROVE  GateInv'
  BY StepKeeps DEF UndoCredentials, tokens, Gated

LEMMA EndKeeps ==
  ASSUME GateInv, End, UNCHANGED tokens
  PROVE  GateInv'
  BY SettleKeeps DEF End

LEMMA AbandonKeeps ==
  ASSUME GateInv, Abandon, UNCHANGED tokens
  PROVE  GateInv'
  BY EndKeeps, UndoKeeps DEF Abandon

LEMMA RequestKeeps ==
  ASSUME GateInv, Request
  PROVE  GateInv'
  <1>1. ASSUME NEW kind \in {"start", "restart"}, StartProxy(kind)
        PROVE  GateInv'
    BY <1>1, StepKeeps DEF StartProxy, Begin, tokens
  <1>2. ASSUME NEW n \in Configs, SaveConfig(n)
        PROVE  GateInv'
    BY <1>2, StepKeeps DEF SaveConfig, Begin, tokens
  <1>3. ASSUME NEW S \in SUBSET Accounts, NEW T \in SUBSET S, Import(S, T)
        PROVE  GateInv'
    BY <1>3, ReplaceKeeps DEF Import, Begin
  <1>4. ASSUME NEW a \in Accounts, Login(a)
        PROVE  GateInv'
    BY <1>4, ReplaceKeeps DEF Login, Begin
  <1> QED BY <1>1, <1>2, <1>3, <1>4 DEF Request

LEMMA WorkKeeps ==
  ASSUME GateInv, Work
  PROVE  GateInv'
  <1>1. ASSUME NEW a \in Accounts, Snapshot(a)
        PROVE  GateInv'
    <2>1. backup' \in [Accounts -> Credentials \cup {"same"}]
      BY <1>1 DEF Snapshot, GateInv, GateTyped
    <2>2. \A b \in Accounts : backup'[b] \in {backup[b], "same"}
      BY <1>1 DEF Snapshot, GateInv, GateTyped
    <2>3. UNCHANGED <<held, flight, job, pc>> /\ pc # "idle"
      BY <1>1 DEF Snapshot, tokens
    <2> QED BY <2>1, <2>2, <2>3 DEF GateInv, GateTyped, Awaited, Gated
  <1>2. ASSUME NEW a \in Accounts, Delete(a)
        PROVE  GateInv'
    BY <1>2, ReplaceKeeps DEF Delete, Gated
  <1>3. ASSUME NEW a \in Accounts, Restore(a)
        PROVE  GateInv'
    <2>1. UNCHANGED <<job, pc>> /\ pc # "idle" /\ ~Gated /\ ~Gated'
      BY <1>3 DEF Restore, Gated
    <2>2. GateTyped'
      BY <1>3 DEF Restore, Restores, Copied, Kept, GateInv, GateTyped, Credentials
    <2>3. ASSUME NEW b \in Accounts
          PROVE  held'[b] = "spent" => flight'[b] = "held"
      BY <1>3 DEF Restore, Restores, Copied, Kept, GateInv, GateTyped, Awaited
    <2> QED BY <2>1, <2>2, <2>3 DEF GateInv, Awaited
  <1>4. CASE RestoreAll
    <2>1. UNCHANGED <<job, pc>> /\ pc # "idle" /\ Gated
      BY <1>4 DEF RestoreAll, Gated
    <2>2. GateTyped'
      BY <1>4 DEF RestoreAll, Restores, Copied, Kept, GateInv, GateTyped, Credentials
    <2>3. ASSUME NEW b \in Accounts
          PROVE  Awaited(b)'
      <3>1. backup'[b] = "same"
        BY <1>4 DEF RestoreAll, Restores, Copied, Kept, GateInv, GateTyped
      <3>2. held'[b] = "spent" => flight'[b] = "held"
        BY <1>4, <2>1 DEF RestoreAll, Restores, Copied, Kept, GateInv, GateTyped, Awaited
      <3> QED BY <3>1, <3>2 DEF Awaited
    <2> QED BY <2>1, <2>2, <2>3 DEF GateInv, Gated
  <1>5. CASE SnapshotFails \/ Bound \/ Applied \/ Served \/ Restored
    BY <1>5, EndKeeps, GotoKeeps DEF SnapshotFails, Bound, Applied, Served, Restored
  <1>6. CASE Snapshotted \/ Deleted \/ Write \/ Revert
    BY <1>6, GotoKeeps DEF Snapshotted, Deleted, Write, Revert
  <1>7. CASE DeleteFails \/ BindFails \/ WriteFails
    BY <1>7, UndoKeeps, AbandonKeeps DEF DeleteFails, BindFails, WriteFails
  <1>8. CASE ApplyFailed \/ Reapplied
    BY <1>8, EndKeeps, GotoKeeps, UndoKeeps DEF ApplyFailed, Reapplied
  <1>9. CASE Bind \/ RestoreFails
    BY <1>9, StepKeeps DEF Bind, RestoreFails, tokens, Gated
  <1>10. CASE RevertFails
    <2>1. CASE Settle(TRUE)
      BY <1>10, <2>1, SettleKeeps DEF RevertFails
    <2>2. CASE ~Settle(TRUE)
      BY <1>10, <2>2, StepKeeps DEF RevertFails, tokens, Gated
    <2> QED BY <2>1, <2>2
  <1> QED BY <1>1, <1>2, <1>3, <1>4, <1>5, <1>6, <1>7, <1>8, <1>9, <1>10 DEF Work

LEMMA CallKeeps ==
  ASSUME GateInv, Call
  PROVE  GateInv'
  <1>1. CASE Apply \/ Reapply
    BY <1>1, GotoKeeps DEF Apply, Reapply
  <1>2. CASE Serve
    BY <1>2, StepKeeps DEF Serve, tokens, change, Gated
  <1> QED BY <1>1, <1>2 DEF Call

\* An exchange starts only where none is under way, and its answer passes
\* only where no import holds the gate.
LEMMA TokensKeep ==
  ASSUME GateInv, NEW a \in Accounts, Exchange(a) \/ Answer(a) \/ Cancel(a)
  PROVE  GateInv'
  <1>1. CASE Exchange(a)
    <2>1. GateTyped' /\ UNCHANGED <<job, pc, backup>>
      BY <1>1 DEF Exchange, GateInv, GateTyped, Credentials, change
    <2>2. ASSUME NEW b \in Accounts
          PROVE  Awaited(b)'
      <3>1. CASE b = a
        BY <1>1, <2>1, <3>1 DEF Exchange, GateInv, GateTyped, Awaited, Gated
      <3>2. CASE b # a
        BY <1>1, <2>1, <3>2 DEF Exchange, GateInv, GateTyped, Awaited, Gated
      <3> QED BY <3>1, <3>2
    <2> QED BY <2>1, <2>2 DEF GateInv, Gated
  <1>2. CASE Answer(a)
    <2>1. UNCHANGED <<job, pc>> /\ ~Gated /\ ~Gated'
      BY <1>2 DEF Answer, Answered, Gated
    <2>2. GateTyped'
      BY <1>2 DEF Answer, Answered, Kept, GateInv, GateTyped, Credentials
    <2>3. pc = "idle" => backup' = backup
      BY <1>2 DEF Answer, Answered
    <2>4. ASSUME NEW b \in Accounts
          PROVE  held'[b] = "spent" => flight'[b] = "held"
      BY <1>2 DEF Answer, Answered, GateInv, GateTyped, Awaited
    <2> QED BY <2>1, <2>2, <2>3, <2>4 DEF GateInv, Awaited
  <1>3. CASE Cancel(a)
    <2>1. GateTyped' /\ UNCHANGED <<job, pc>>
      BY <1>3 DEF Cancel, GateInv, GateTyped, Credentials
    <2>2. ASSUME NEW b \in Accounts
          PROVE  Awaited(b)'
      <3>1. CASE b = a
        BY <1>3, <2>1, <3>1 DEF Cancel, GateInv, GateTyped, Awaited, Gated
      <3>2. CASE b # a
        BY <1>3, <2>1, <3>2 DEF Cancel, GateInv, GateTyped, Awaited, Gated
      <3> QED BY <3>1, <3>2
    <2> QED BY <2>1, <2>2 DEF GateInv, Gated
  <1> QED BY <1>1, <1>2, <1>3

LEMMA CrashKeeps ==
  ASSUME GateInv, Crash
  PROVE  GateInv'
  <1>1. held' \in [Accounts -> Credentials] /\ \A a \in Accounts : held'[a] # "spent"
    BY DEF Crash, GateInv, GateTyped, Credentials
  <1>2. flight' = Each("none")
    BY DEF Crash
  <1>3. pc' = "idle" /\ ~Gated' /\ backup' = [a \in Accounts |-> backup'[a]]
        /\ \A a \in Accounts : backup'[a] = "same"
    BY DEF Crash, Settle, GateInv, GateTyped, Awaited, Gated, Each, change
  <1> QED BY <1>1, <1>2, <1>3 DEF GateInv, GateTyped, Awaited, Each

LEMMA GateKept == GateInv /\ [Next]_vars => GateInv'
  <1> SUFFICES ASSUME GateInv, [Next]_vars
               PROVE  GateInv'
    OBVIOUS
  <1>1. CASE Service
    BY <1>1 DEF Service, tokens, change, GateInv, GateTyped, Awaited, Gated
  <1>2. CASE UNCHANGED vars
    BY <1>2 DEF vars, tokens, change, GateInv, GateTyped, Awaited, Gated
  <1> QED BY <1>1, <1>2, RequestKeeps, WorkKeeps, CallKeeps, CrashKeeps, TokensKeep DEF Next

\* Neither an import nor its undoing loses what an exchange has brought
\* (the provider_mutation gate of begin_provider_mutation).
THEOREM GateProtectsRotations == Spec => []RotationsSurvive
  <1>1. GateInv => RotationsSurvive
    BY DEF GateInv, Awaited, RotationsSurvive
  <1> QED BY GateInitially, GateKept, <1>1, PTL DEF Spec

-----------------------------------------------------------------------------
(***************************************************************************)
(* The changes of the account lifecycle are made whole or not at all: the  *)
(* invariant that says, for each place of a change, what its credentials   *)
(* and its file are compared with those it started from, and what follows  *)
(* from it, for any accounts and any number of changes.                    *)
(***************************************************************************)

\* The accounts that have credentials, and those that had when the change
\* began: a credential is replaced only when there is a copy of it.
Now == Holders(held)
Before == Holders(Copied)

\* What a saved configuration no longer names, and the file with more named.
Dropped == old.bound \ new.bound
Grown(S) == [old EXCEPT !.bound = @ \cup S]

\* An exchange that renews the credential held has spent it.
Owned == \A a \in Accounts : flight[a] = "held" => held[a] = "spent"

\* A save deletes before it writes, and when it fails it restores first.
Saving ==
    /\ new \in Configs /\ new # old
    /\ pc \in {"snapshot", "delete", "write", "apply", "applying", "restore",
               "revert", "reapply", "reapplying"}
    /\ Before \ Dropped \subseteq Now
    /\ Now \subseteq Before
    /\ Before \ touched \subseteq Now
    /\ pc \in {"snapshot", "delete", "write", "reapply", "reapplying"} => file = old
    /\ pc \in {"apply", "applying", "revert"} => file = new
    /\ pc = "restore" => file \in {old, new}
    /\ pc = "snapshot" => touched = {}
    /\ pc = "delete" => Now \cap Dropped \subseteq todo /\ todo \subseteq Dropped
    /\ pc \in {"write", "apply", "applying"} => Now \cap Dropped = {}
    /\ pc = "restore" /\ ~botched => Before \ todo \subseteq Now
    /\ pc \in {"revert", "reapply", "reapplying"} /\ ~botched => Before \subseteq Now
    /\ pc \notin {"restore", "revert", "reapply", "reapplying"} => ~botched

\* A start leaves the credentials alone.
Starting ==
    /\ ~botched
    /\ Now = Before
    /\ pc \in {"bind", "write", "apply", "applying", "revert", "reapply",
               "reapplying", "serve", "serving"}
    /\ pc \in {"bind", "write", "apply", "applying"} => todo = Before
    /\ pc \in {"bind", "write", "reapply", "reapplying"} => file = old
    /\ pc \in {"write", "apply", "applying"} => new = Grown(Before)
    /\ pc \in {"apply", "applying", "revert", "serve", "serving"} => file = Grown(Before)

\* An import or a login has its credentials first, and loses them last.
Granting ==
    /\ pc \in {"bind", "write", "apply", "applying", "revert", "reapply",
               "reapplying", "restore"}
    /\ Before \subseteq Now
    /\ Now \ touched \subseteq Before
    /\ pc # "restore" => ~botched
    /\ pc \in {"bind", "write", "apply", "applying"} => Now = Before \cup todo
    /\ pc \in {"bind", "write", "reapply", "reapplying"} => file = old
    /\ pc \in {"write", "apply", "applying"} => new = Grown(todo)
    /\ pc \in {"apply", "applying"} => file = new
    /\ pc \in {"revert", "restore"} =>
           \/ file = old
           \/ file = Grown(file.bound) /\ Now \subseteq Before \cup file.bound
    /\ pc = "restore" /\ ~botched => file = old /\ Now \ todo \subseteq Before

Changing ==
    /\ old \in Configs
    /\ \/ job = "save" /\ Saving
       \/ job \in {"start", "restart"} /\ Starting
       \/ job \in {"import", "login"} /\ Granting

Whole ==
    /\ Owned
    /\ pc = "idle" => job = "none"
    /\ pc # "idle" => Changing

ChangeInv == TypeOK /\ GateInv /\ Whole

-----------------------------------------------------------------------------
(* The accounts with credentials, step by step. *)

LEMMA HoldersIn == Now \subseteq Accounts /\ Before \subseteq Accounts
  BY DEF Now, Before, Holders

LEMMA HoldersStay ==
  ASSUME UNCHANGED <<held, backup>>
  PROVE  Now' = Now /\ Before' = Before
  BY DEF Now, Before, Holders, Copied, Kept

\* Replacing a credential copies it first.
LEMMA HoldersReplaced ==
  ASSUME GateTyped, Owned, NEW T \in SUBSET Accounts, NEW c \in {"none", "usable"},
         Replace(T, c)
  PROVE  /\ Now' = IF c = "none" THEN Now \ T ELSE Now \cup T
         /\ Before' = Before
         /\ Owned'
  <1>1. ASSUME NEW a \in Accounts
        PROVE  /\ held'[a] = IF a \in T THEN c ELSE held[a]
               /\ backup'[a] = IF a \in T /\ backup[a] = "same" THEN held[a] ELSE backup[a]
               /\ flight'[a] = "held" => flight[a] = "held" /\ a \notin T
    BY DEF Replace, Kept
  <1>2. Now' = IF c = "none" THEN Now \ T ELSE Now \cup T
    BY <1>1 DEF Now, Holders
  <1>3. ASSUME NEW a \in Accounts
        PROVE  Copied'[a] = Copied[a]
    <2>1. /\ Copied[a] = IF backup[a] = "same" THEN held[a] ELSE backup[a]
          /\ Copied'[a] = IF backup'[a] = "same" THEN held'[a] ELSE backup'[a]
      BY DEF Copied, Kept
    <2>2. held[a] # "same"
      BY DEF GateTyped, Credentials
    <2> QED BY <1>1, <2>1, <2>2
  <1>4. Before' = Before
    BY <1>3 DEF Before, Holders
  <1>5. Owned'
    BY <1>1 DEF Owned
  <1> QED BY <1>2, <1>4, <1>5

LEMMA HoldersRestored ==
  ASSUME GateTyped, Owned, NEW a \in Accounts, Restore(a)
  PROVE  /\ Now' = (Now \ {a}) \cup (Before \cap {a})
         /\ Before' = Before
         /\ Owned'
  <1>1. /\ held' = [held EXCEPT ![a] =
               IF Copied[a] = "spent" /\ flight[a] # "replaced" THEN "lost" ELSE Copied[a]]
        /\ Restores({a})
    BY DEF Restore
  <1>2. Copied \in [Accounts -> Credentials]
    BY DEF GateTyped, Copied, Kept, Credentials
  <1>3. /\ held'[a] = "none" <=> Copied[a] = "none"
        /\ backup'[a] = "same"
        /\ \A b \in Accounts : b # a => held'[b] = held[b] /\ backup'[b] = backup[b]
    BY <1>1, <1>2 DEF GateTyped, Restores
  <1>4. \A b \in Accounts :
            Copied'[b] = IF backup'[b] = "same" THEN held'[b] ELSE backup'[b]
    BY DEF Copied, Kept
  <1>5. \A b \in Accounts : Copied'[b] = "none" <=> Copied[b] = "none"
    BY <1>3, <1>4 DEF Copied, Kept
  <1>6. Before' = Before
    BY <1>5 DEF Before, Holders
  <1>7. Now' = (Now \ {a}) \cup (Before \cap {a})
    BY <1>3 DEF Now, Before, Holders
  <1>8. Owned'
    <2>1. ASSUME NEW b \in Accounts, flight'[b] = "held"
          PROVE  held'[b] = "spent"
      BY <1>1, <2>1 DEF Owned, Restores, Copied, Kept, GateTyped
    <2> QED BY <2>1 DEF Owned
  <1> QED BY <1>6, <1>7, <1>8

LEMMA HoldersRestoredAll ==
  ASSUME GateInv, Owned, RestoreAll
  PROVE  Now' = Before /\ Before' = Before /\ Owned'
  <1>1. /\ held' = Copied
        /\ Restores({a \in Accounts : backup[a] # "same"})
        /\ Gated
    BY DEF RestoreAll, Gated
  <1>2. \A a \in Accounts : backup'[a] = "same"
    BY <1>1 DEF Restores
  <1>3. \A a \in Accounts : Copied'[a] = Copied[a]
    <2>1. \A a \in Accounts : Copied'[a] = held'[a]
      BY <1>2 DEF Copied, Kept
    <2> QED BY <1>1, <2>1
  <1>4. Before' = Before
    BY <1>3 DEF Before, Holders
  <1>5. Now' = Before
    BY <1>1 DEF Now, Before
  <1>6. Owned'
    <2>1. ASSUME NEW b \in Accounts, flight'[b] = "held"
          PROVE  held'[b] = "spent"
      BY <1>1, <2>1 DEF Owned, Restores, Copied, Kept
    <2> QED BY <2>1 DEF Owned
  <1> QED BY <1>4, <1>5, <1>6

\* Exchanges change what credentials are worth, not who has them.
LEMMA HoldersExchange ==
  ASSUME GateInv, Owned, NEW a \in Accounts, Exchange(a) \/ Answer(a) \/ Cancel(a)
  PROVE  Now' = Now /\ Before' = Before /\ Owned'
  <1>1. GateTyped
    BY DEF GateInv
  <1>2. CASE Exchange(a)
    <2>1. /\ held' = [held EXCEPT ![a] = "spent"] /\ held[a] = "usable"
          /\ flight' = [flight EXCEPT ![a] = "held"]
          /\ backup' = backup
      BY <1>2 DEF Exchange, change
    <2>2. \A b \in Accounts : (held'[b] = "none" <=> held[b] = "none")
      BY <1>1, <2>1 DEF GateTyped
    <2>3. \A b \in Accounts : (Copied'[b] = "none" <=> Copied[b] = "none")
      BY <2>1, <2>2 DEF Copied, Kept
    <2>4. Owned'
      BY <1>1, <2>1 DEF Owned, GateTyped
    <2> QED BY <2>2, <2>3, <2>4 DEF Now, Before, Holders
  <1>3. CASE Answer(a)
    <2>1. flight' = [flight EXCEPT ![a] = "none"] /\ flight[a] # "none"
      BY <1>3 DEF Answer, Answered
    <2>2. CASE flight[a] = "held"
      <3>1. /\ held' = [held EXCEPT ![a] = "usable"] /\ held[a] = "spent"
            /\ backup' = backup \/ backup' = Kept({a})
        BY <1>3, <2>2 DEF Answer, Answered, Owned
      <3>2. \A b \in Accounts : (held'[b] = "none" <=> held[b] = "none")
        BY <1>1, <3>1 DEF GateTyped
      <3>3. \A b \in Accounts :
                \/ backup'[b] = backup[b]
                \/ backup[b] = "same" /\ backup'[b] = "spent" /\ held[b] = "spent"
        BY <3>1 DEF Kept
      <3>4. \A b \in Accounts : (Copied'[b] = "none" <=> Copied[b] = "none")
        BY <3>2, <3>3 DEF Copied, Kept
      <3>5. Owned'
        BY <1>1, <2>1, <3>1 DEF Owned, GateTyped
      <3> QED BY <3>2, <3>4, <3>5 DEF Now, Before, Holders
    <2>3. CASE flight[a] # "held"
      <3>1. UNCHANGED <<held, backup>>
        BY <1>3, <2>3 DEF Answer, Answered
      <3>2. Owned'
        BY <1>1, <2>1, <3>1 DEF Owned, GateTyped
      <3> QED BY <3>1, <3>2, HoldersStay
    <2> QED BY <2>2, <2>3
  <1>4. CASE Cancel(a)
    <2>1. flight' = [flight EXCEPT ![a] = "none"] /\ flight[a] # "none"
      BY <1>4 DEF Cancel
    <2>2. CASE flight[a] = "held"
      <3>1. /\ held' = [held EXCEPT ![a] = "lost"] /\ held[a] = "spent"
            /\ backup' = backup
        BY <1>4, <2>2 DEF Cancel, Owned
      <3>2. \A b \in Accounts : (held'[b] = "none" <=> held[b] = "none")
        BY <1>1, <3>1 DEF GateTyped
      <3>3. \A b \in Accounts : (Copied'[b] = "none" <=> Copied[b] = "none")
        BY <3>1, <3>2 DEF Copied, Kept
      <3>4. Owned'
        BY <1>1, <2>1, <3>1 DEF Owned, GateTyped
      <3> QED BY <3>2, <3>3, <3>4 DEF Now, Before, Holders
    <2>3. CASE flight[a] # "held"
      <3>1. /\ held' = held
            /\ backup' = [backup EXCEPT ![a] = IF @ = "spent" THEN "lost" ELSE @]
        BY <1>4, <2>3 DEF Cancel
      <3>2. \A b \in Accounts :
                \/ backup'[b] = backup[b]
                \/ backup[b] = "spent" /\ backup'[b] = "lost"
        BY <1>1, <3>1 DEF GateTyped
      <3>3. \A b \in Accounts : (Copied'[b] = "none" <=> Copied[b] = "none")
        BY <3>1, <3>2 DEF Copied, Kept
      <3>4. Owned'
        BY <1>1, <2>1, <3>1 DEF Owned, GateTyped
      <3> QED BY <3>1, <3>3, <3>4 DEF Now, Before, Holders
    <2> QED BY <2>2, <2>3
  <1> QED BY <1>2, <1>3, <1>4

LEMMA AtRest ==
  ASSUME GateInv, pc = "idle"
  PROVE  Before = Now
  <1>1. \A a \in Accounts : Copied[a] = held[a]
    BY DEF GateInv, Awaited, Copied, Kept
  <1> QED BY <1>1 DEF Before, Now, Holders

-----------------------------------------------------------------------------
(* A change keeps to its shape. *)

LEMMA WholeInitially == Init => Whole
  BY DEF Init, Whole, Owned, Each

\* A change begins with the file as it is, and with what was held as copied.
LEMMA WholeRequest ==
  ASSUME ChangeInv, Request
  PROVE  Whole' /\ old' = file /\ Before' = Now
  <1>1. GateTyped /\ GateInv /\ Owned /\ file \in Configs
    BY DEF ChangeInv, GateInv, Whole, TypeOK, ServiceTypeOK
  <1>2. ASSUME NEW kind, NEW first, Begin(kind, first)
        PROVE  /\ pc = "idle" /\ Before = Now
               /\ pc' = first /\ job' = kind /\ old' = file /\ ~botched'
    BY <1>1, <1>2, AtRest DEF Begin
  <1>3. ASSUME NEW kind \in {"start", "restart"}, StartProxy(kind)
        PROVE  Whole' /\ old' = file /\ Before' = Now
    <2>1. Begin(kind, "bind") /\ todo' = Now /\ UNCHANGED <<file, held, flight, backup>>
      BY <1>3 DEF StartProxy, tokens, Now
    <2>2. Now' = Now /\ Before' = Before /\ Owned'
      BY <1>1, <2>1, HoldersStay DEF Owned
    <2>3. Starting' /\ old' \in Configs /\ old' = file
      BY <1>1, <1>2, <2>1, <2>2 DEF Starting
    <2> QED BY <1>2, <2>1, <2>2, <2>3 DEF Whole, Changing
  <1>4. ASSUME NEW n \in Configs, SaveConfig(n)
        PROVE  Whole' /\ old' = file /\ Before' = Now
    <2>1. /\ Begin("save", "snapshot") /\ n # file /\ new' = n /\ touched' = {}
          /\ UNCHANGED <<file, held, flight, backup>>
      BY <1>4 DEF SaveConfig, tokens
    <2>2. Now' = Now /\ Before' = Before /\ Owned'
      BY <1>1, <2>1, HoldersStay DEF Owned
    <2>3. Saving' /\ old' \in Configs /\ old' = file
      BY <1>1, <1>2, <2>1, <2>2 DEF Saving
    <2> QED BY <1>2, <2>1, <2>2, <2>3 DEF Whole, Changing
  <1>5. ASSUME NEW S \in SUBSET Accounts, NEW T \in SUBSET S, Import(S, T)
        PROVE  Whole' /\ old' = file /\ Before' = Now
    <2>1. /\ touched' = Accounts /\ file' = file /\ Replace(T, "usable")
          /\ \/ T = S /\ Begin("import", "bind") /\ todo' = S
             \/ Begin("import", "restore") /\ todo' = Accounts
      BY <1>5 DEF Import
    <2>2. Now' = Now \cup T /\ Before' = Before /\ Owned'
      BY <1>1, <2>1, HoldersReplaced
    <2>3. /\ pc = "idle" /\ Before = Now /\ job' = "import" /\ old' = file /\ ~botched'
          /\ \/ pc' = "bind" /\ Now' = Before \cup todo'
             \/ pc' = "restore" /\ todo' = Accounts
      BY <1>2, <2>1, <2>2
    <2>4. Granting'
      BY <2>1, <2>2, <2>3, HoldersIn DEF Granting
    <2> QED BY <1>1, <2>2, <2>3, <2>4 DEF Whole, Changing
  <1>6. ASSUME NEW a \in Accounts, Login(a)
        PROVE  Whole' /\ old' = file /\ Before' = Now
    <2>1. /\ Begin("login", "bind") /\ todo' = {a} /\ touched' = {a}
          /\ Replace({a}, "usable") /\ file' = file
      BY <1>6 DEF Login
    <2>2. Now' = Now \cup {a} /\ Before' = Before /\ Owned'
      BY <1>1, <2>1, HoldersReplaced
    <2>3. Granting'
      BY <1>2, <2>1, <2>2 DEF Granting
    <2> QED BY <1>1, <1>2, <2>1, <2>2, <2>3 DEF Whole, Changing
  <1> QED BY <1>3, <1>4, <1>5, <1>6 DEF Request

\* The steps of a change, that neither begin nor end it.
Within ==
    /\ pc # "idle" /\ pc' # "idle"
    /\ UNCHANGED <<job, old, broken>>
    /\ dirty' = dirty \/ pc' = "serving"

LEMMA WholeWithin ==
  ASSUME Whole, Within, Owned',
         job = "save" => Saving',
         job \in {"start", "restart"} => Starting',
         job \in {"import", "login"} => Granting'
  PROVE  Whole'
  BY DEF Whole, Changing, Within

\* What the invariant says of a change under way.
LEMMA Kinds ==
  ASSUME Whole, pc # "idle"
  PROVE  /\ old \in Configs
         /\ job = "save" => Saving
         /\ job \in {"start", "restart"} => Starting
         /\ job \in {"import", "login"} => Granting
         /\ job \in {"save", "start", "restart", "import", "login"}
  BY DEF Whole, Changing

\* A step within a change that leaves the credentials alone.
Still == Now' = Now /\ Before' = Before /\ Owned'

LEMMA StillStep ==
  ASSUME Owned, UNCHANGED <<held, flight, backup>>
  PROVE  Still
  BY HoldersStay DEF Still, Owned

\* A failed change turns to its credentials with all of them to restore.
LEMMA WholeUndo ==
  ASSUME Whole, pc # "idle", UndoCredentials, UNCHANGED <<held, flight>>,
         job \in {"save", "import", "login"}, ~botched,
         job = "save" => file' \in {old, new},
         job # "save" => file' = old
  PROVE  Whole' /\ Within
  <1>1. Within /\ pc' = "restore" /\ todo' = touched /\ UNCHANGED <<new, touched, botched>>
    BY DEF UndoCredentials, Within, history
  <1>2. Still
    BY StillStep DEF UndoCredentials, Whole
  <1>3. Owned'
    BY <1>2 DEF Still
  <1>4. CASE job = "save"
    <2>1. Saving
      BY <1>4, Kinds
    <2>2. Dropped' = Dropped
      BY <1>1 DEF Dropped, Within
    <2>3. Saving'
      BY <1>1, <1>2, <1>4, <2>1, <2>2 DEF Saving, Within, Still
    <2> QED BY <1>1, <1>3, <1>4, <2>3, WholeWithin
  <1>5. CASE job \in {"import", "login"}
    <2>1. Granting
      BY <1>5, Kinds
    <2>2. Granting'
      BY <1>1, <1>2, <1>5, <2>1 DEF Granting, Within, Still
    <2> QED BY <1>1, <1>3, <1>5, <2>2, WholeWithin
  <1> QED BY <1>4, <1>5

\* One account at a time.
LEMMA WholeAccount ==
  ASSUME ChangeInv, NEW a \in Accounts, Snapshot(a) \/ Delete(a) \/ Restore(a)
  PROVE  Whole' /\ Within /\ Before' = Before
  <1>1. GateTyped /\ Owned /\ Whole
    BY DEF ChangeInv, GateInv, Whole
  <1>2. Within /\ pc' = pc /\ UNCHANGED <<file, new, botched>>
    BY DEF Snapshot, Delete, Restore, Within, history
  <1>3. Dropped' = Dropped
    BY <1>2 DEF Dropped, Within
  <1>4. CASE Snapshot(a)
    <2>1. pc = "snapshot" /\ UNCHANGED <<held, flight, touched>>
      BY <1>4 DEF Snapshot, tokens
    <2>2. Saving /\ job = "save"
      BY <1>1, <2>1 DEF Whole, Changing, Starting, Granting
    <2>3. Now = Before
      BY <2>1, <2>2 DEF Saving
    <2>4. Now' = Now
      BY <2>1 DEF Now, Holders
    <2>5. \A b \in Accounts : backup'[b] = IF b = a THEN "same" ELSE backup[b]
      BY <1>1, <1>4 DEF Snapshot, GateTyped
    <2>6. \A b \in Accounts : /\ b \in Before' <=> Copied'[b] # "none"
                              /\ b \in Before <=> Copied[b] # "none"
                              /\ b \in Now <=> held[b] # "none"
      BY DEF Before, Now, Holders
    <2>7. \A b \in Accounts : Copied'[b] = IF b = a THEN held[b] ELSE Copied[b]
      BY <2>1, <2>5 DEF Copied, Kept
    <2>8. Before' = Before
      <3>1. \A b \in Accounts : b \in Before' <=> b \in Before
        BY <2>3, <2>6, <2>7
      <3>2. Before \subseteq Accounts /\ Before' \subseteq Accounts
        BY DEF Before, Holders
      <3> QED BY <3>1, <3>2
    <2>9. Owned'
      BY <1>1, <2>1 DEF Owned
    <2>10. Saving'
      BY <1>2, <1>3, <2>1, <2>2, <2>4, <2>8 DEF Saving, Within
    <2> QED BY <1>1, <1>2, <2>2, <2>8, <2>9, <2>10, WholeWithin
  <1>5. CASE Delete(a)
    <2>1. /\ pc = "delete" /\ a \in todo /\ Replace({a}, "none")
          /\ todo' = todo \ {a} /\ touched' = touched \cup {a}
      BY <1>5 DEF Delete
    <2>2. Saving /\ job = "save"
      BY <1>1, <2>1 DEF Whole, Changing, Starting, Granting
    <2>3. Now' = Now \ {a} /\ Before' = Before /\ Owned'
      BY <1>1, <2>1, HoldersReplaced
    <2>4. a \in Dropped
      BY <2>1, <2>2 DEF Saving
    <2>5. Saving'
      BY <1>2, <1>3, <2>1, <2>2, <2>3, <2>4 DEF Saving, Within
    <2> QED BY <1>1, <1>2, <2>2, <2>3, <2>5, WholeWithin
  <1>6. CASE Restore(a)
    <2>1. pc = "restore" /\ a \in todo /\ todo' = todo \ {a} /\ touched' = touched
      BY <1>6 DEF Restore
    <2>2. Now' = (Now \ {a}) \cup (Before \cap {a}) /\ Before' = Before /\ Owned'
      BY <1>1, <1>6, HoldersRestored
    <2>3. CASE job = "save"
      <3>1. Saving
        BY <1>1, <2>1, <2>3, Kinds
      <3>2. Saving'
        BY <1>2, <1>3, <2>1, <2>2, <3>1 DEF Saving, Within
      <3> QED BY <1>1, <1>2, <2>2, <2>3, <3>2, WholeWithin
    <2>4. CASE job \in {"import", "login"}
      <3>1. Granting
        BY <1>1, <2>1, <2>4, Kinds
      <3>2. Granting'
        BY <1>2, <2>1, <2>2, <3>1 DEF Granting, Within, Grown
      <3> QED BY <1>1, <1>2, <2>2, <2>4, <3>2, WholeWithin
    <2>5. CASE job \in {"start", "restart"}
      BY <1>1, <2>1, <2>5 DEF Whole, Changing, Starting
    <2> QED BY <1>1, <2>1, <2>3, <2>4, <2>5, Kinds
  <1> QED BY <1>4, <1>5, <1>6

LEMMA WholeRestore ==
  ASSUME ChangeInv, RestoreAll \/ RestoreFails
  PROVE  Whole' /\ Within /\ Before' = Before
  <1>1. GateInv /\ Owned /\ Whole
    BY DEF ChangeInv, Whole
  <1>2. Within /\ pc = "restore" /\ pc' = pc /\ UNCHANGED <<file, new, touched>> /\ todo' = {}
    BY DEF RestoreAll, RestoreFails, Within, history
  <1>3. Dropped' = Dropped
    BY <1>2 DEF Dropped, Within
  <1>4. CASE RestoreAll
    <2>1. job = "import" /\ botched' = botched
      BY <1>4 DEF RestoreAll
    <2>2. Now' = Before /\ Before' = Before /\ Owned'
      BY <1>1, <1>4, HoldersRestoredAll
    <2>3. Granting
      BY <1>1, <1>2, <2>1, Kinds
    <2>4. Granting'
      BY <1>2, <2>1, <2>2, <2>3 DEF Granting, Within, Grown
    <2> QED BY <1>1, <1>2, <2>1, <2>2, <2>4, WholeWithin
  <1>5. CASE RestoreFails
    <2>1. Still /\ botched'
      BY <1>1, <1>5, StillStep DEF RestoreFails, tokens
    <2>2. Owned' /\ Before' = Before /\ Now' = Now
      BY <2>1 DEF Still
    <2>3. CASE job = "save"
      <3>1. Saving
        BY <1>1, <1>2, <2>3, Kinds
      <3>2. Saving'
        BY <1>2, <1>3, <2>1, <2>2, <3>1 DEF Saving, Within
      <3> QED BY <1>1, <1>2, <2>2, <2>3, <3>2, WholeWithin
    <2>4. CASE job \in {"import", "login"}
      <3>1. Granting
        BY <1>1, <1>2, <2>4, Kinds
      <3>2. Granting'
        BY <1>2, <2>1, <2>2, <3>1 DEF Granting, Within, Grown
      <3> QED BY <1>1, <1>2, <2>2, <2>4, <3>2, WholeWithin
    <2>5. CASE job \in {"start", "restart"}
      BY <1>1, <1>2, <2>5 DEF Whole, Changing, Starting
    <2> QED BY <1>1, <1>2, <2>3, <2>4, <2>5, Kinds
  <1> QED BY <1>4, <1>5

LEMMA GotoStill ==
  ASSUME Whole, pc # "idle", NEW next, next # "idle", Goto(next), UNCHANGED tokens
  PROVE  /\ Within /\ Still /\ Owned' /\ Now' = Now /\ Before' = Before
         /\ pc' = next /\ UNCHANGED <<old, new, touched, botched>>
         /\ Dropped' = Dropped
  <1>1. Within /\ pc' = next /\ UNCHANGED <<old, new, touched, botched, held, flight, backup>>
    BY DEF Goto, Within, tokens, history
  <1>2. Still
    BY <1>1, StillStep DEF Whole
  <1>3. Dropped' = Dropped
    BY <1>1 DEF Dropped
  <1> QED BY <1>1, <1>2, <1>3 DEF Still

LEMMA WholeDeletion ==
  ASSUME ChangeInv, Snapshotted \/ Deleted \/ DeleteFails
  PROVE  Whole' /\ Within /\ Before' = Before
  <1>1. Whole /\ pc # "idle" /\ UNCHANGED <<file, service, tokens>>
    BY DEF ChangeInv, Snapshotted, Deleted, DeleteFails
  <1>2. Saving /\ job = "save"
    BY <1>1 DEF Snapshotted, Deleted, DeleteFails, Whole, Changing, Starting, Granting
  <1>3. CASE Snapshotted
    <2>1. pc = "snapshot" /\ Goto("delete") /\ todo' = Dropped
      BY <1>3 DEF Snapshotted, Dropped
    <2>2. Saving'
      BY <1>1, <1>2, <2>1, GotoStill DEF Saving
    <2> QED BY <1>1, <1>2, <2>1, <2>2, GotoStill, WholeWithin
  <1>4. CASE Deleted
    <2>1. pc = "delete" /\ Goto("write") /\ todo = {}
      BY <1>4 DEF Deleted
    <2>2. Saving'
      BY <1>1, <1>2, <2>1, GotoStill DEF Saving
    <2> QED BY <1>1, <1>2, <2>1, <2>2, GotoStill, WholeWithin
  <1>5. CASE DeleteFails
    <2>1. UndoCredentials /\ file' = old /\ ~botched
      BY <1>1, <1>2, <1>5 DEF DeleteFails, Saving
    <2>2. Whole' /\ Within
      BY <1>1, <1>2, <2>1, WholeUndo DEF tokens
    <2>3. Before' = Before
      BY <1>1, <2>1, HoldersStay DEF UndoCredentials, tokens
    <2> QED BY <2>2, <2>3
  <1> QED BY <1>3, <1>4, <1>5

\* What the file is to say is what it said, with accounts added.
LEMMA GrownConfig ==
  ASSUME old \in Configs, NEW S \in SUBSET Accounts
  PROVE  /\ Grown(S) \in Configs
         /\ Grown(S).bound = old.bound \cup S
         /\ Grown(S).addr = old.addr
         /\ Grown(Grown(S).bound) = Grown(S)
         /\ S \subseteq old.bound => Grown(S) = old
  <1>1. Grown(S) = [addr |-> old.addr, bound |-> old.bound \cup S]
    BY DEF Grown, Configs
  <1>2. Grown(S).bound = old.bound \cup S
    BY <1>1
  <1>3. Grown(Grown(S).bound) = [addr |-> old.addr, bound |-> old.bound \cup (old.bound \cup S)]
    BY <1>2 DEF Grown, Configs
  <1>4. old.bound \cup (old.bound \cup S) = old.bound \cup S
    OBVIOUS
  <1>5. ASSUME S \subseteq old.bound
        PROVE  Grown(S) = old
    <2>1. old.bound \cup S = old.bound
      BY <1>5
    <2> QED BY <1>1, <2>1 DEF Configs
  <1> QED BY <1>1, <1>2, <1>3, <1>4, <1>5 DEF Configs

LEMMA WholeBind ==
  ASSUME ChangeInv, Bind \/ Bound \/ BindFails, pc' # "idle"
  PROVE  Whole' /\ Within /\ Before' = Before
  <1>1. Whole /\ pc = "bind" /\ UNCHANGED <<file, service, tokens>>
    BY DEF ChangeInv, Bind, Bound, BindFails
  <1>2. /\ old \in Configs /\ file = old /\ ~botched
        /\ \/ job \in {"start", "restart"} /\ Starting
           \/ job \in {"import", "login"} /\ Granting
    BY <1>1 DEF Whole, Changing, Saving, Starting, Granting
  <1>3. CASE Bind
    <2>1. /\ pc' = "write" /\ new' = [file EXCEPT !.bound = @ \cup todo]
          /\ UNCHANGED <<job, old, backup, todo, touched, botched, history>>
      BY <1>3 DEF Bind
    <2>2. Within /\ Still /\ Owned' /\ Now' = Now /\ Before' = Before
      BY <1>1, <2>1, StillStep DEF Within, Still, history, tokens, Whole
    <2>3. new' = Grown(todo) /\ \A S : Grown(S)' = Grown(S)
      BY <1>2, <2>1 DEF Grown
    <2>4. CASE job \in {"start", "restart"}
      <3>1. Starting
        BY <1>2, <2>4
      <3>2. Starting'
        BY <1>1, <1>2, <2>1, <2>2, <2>3, <3>1 DEF Starting
      <3> QED BY <1>1, <2>2, <2>4, <3>2, WholeWithin
    <2>5. CASE job \in {"import", "login"}
      <3>1. Granting
        BY <1>2, <2>5
      <3>2. Granting'
        BY <1>1, <1>2, <2>1, <2>2, <2>3, <3>1 DEF Granting
      <3> QED BY <1>1, <2>2, <2>5, <3>2, WholeWithin
    <2> QED BY <1>2, <2>2, <2>4, <2>5
  <1>4. CASE Bound
    <2>1. job \in {"start", "restart"} /\ Goto("serve") /\ todo \subseteq file.bound
      BY <1>4 DEF Bound, End, Settle
    <2>2. Starting
      BY <1>2, <2>1
    <2>3. file = Grown(Before)
      BY <1>1, <1>2, <2>1, <2>2, GrownConfig, HoldersIn DEF Starting
    <2>4. Starting'
      BY <1>1, <1>2, <2>1, <2>2, <2>3, GotoStill DEF Starting, Grown
    <2> QED BY <1>1, <2>1, <2>4, GotoStill, WholeWithin
  <1>5. CASE BindFails
    <2>1. job \in {"import", "login"} /\ UndoCredentials
      BY <1>2, <1>5 DEF BindFails, Abandon, End, Settle
    <2>2. Whole' /\ Within
      BY <1>1, <1>2, <2>1, WholeUndo DEF tokens
    <2>3. Before' = Before
      BY <1>1, <2>1, HoldersStay DEF UndoCredentials, tokens
    <2> QED BY <2>2, <2>3
  <1> QED BY <1>3, <1>4, <1>5

LEMMA WholeWrite ==
  ASSUME ChangeInv, Write \/ WriteFails, pc' # "idle"
  PROVE  Whole' /\ Within /\ Before' = Before
  <1>1. Whole /\ pc = "write" /\ UNCHANGED <<service, tokens>>
    BY DEF ChangeInv, Write, WriteFails
  <1>2. CASE Write
    <2>1. Goto("apply") /\ file' = new /\ todo' = todo
      BY <1>2 DEF Write
    <2>2. ASSUME job = "save" PROVE Saving'
      <3>1. Saving
        BY <1>1, <2>2, Kinds
      <3> QED BY <1>1, <2>1, <3>1, GotoStill DEF Saving
    <2>3. ASSUME job \in {"start", "restart"} PROVE Starting'
      <3>1. Starting
        BY <1>1, <2>3, Kinds
      <3> QED BY <1>1, <2>1, <3>1, GotoStill DEF Starting, Grown
    <2>4. ASSUME job \in {"import", "login"} PROVE Granting'
      <3>1. Granting
        BY <1>1, <2>4, Kinds
      <3> QED BY <1>1, <2>1, <3>1, GotoStill DEF Granting, Grown
    <2> QED BY <1>1, <2>1, <2>2, <2>3, <2>4, GotoStill, WholeWithin
  <1>3. CASE WriteFails
    <2>1. job \in {"save", "import", "login"} /\ UndoCredentials /\ file' = file
      BY <1>3 DEF WriteFails, Abandon, End, Settle
    <2>2. ~botched /\ file = old
      BY <1>1, <2>1 DEF Whole, Changing, Saving, Starting, Granting
    <2>3. Whole' /\ Within
      BY <1>1, <2>1, <2>2, WholeUndo DEF tokens
    <2>4. Before' = Before
      BY <1>1, <2>1, HoldersStay DEF UndoCredentials, tokens
    <2> QED BY <2>3, <2>4
  <1> QED BY <1>2, <1>3

LEMMA WholeCall ==
  ASSUME ChangeInv, Call
  PROVE  Whole' /\ Within /\ Before' = Before
  <1>1. Whole
    BY DEF ChangeInv
  <1>2. CASE Apply \/ Reapply
    <2>1. /\ UNCHANGED <<file, tokens, todo>>
          /\ \/ pc = "apply" /\ Goto("applying")
             \/ pc = "reapply" /\ Goto("reapplying")
      BY <1>2 DEF Apply, Reapply, ApplySavedConfig
    <2>2. /\ Within /\ Owned' /\ Now' = Now /\ Before' = Before /\ Dropped' = Dropped
          /\ UNCHANGED <<old, new, touched, botched>>
          /\ \/ pc = "apply" /\ pc' = "applying"
             \/ pc = "reapply" /\ pc' = "reapplying"
      BY <1>1, <2>1, GotoStill
    <2>3. ASSUME job = "save" PROVE Saving'
      <3>1. Saving
        BY <1>1, <2>2, <2>3, Kinds
      <3> QED BY <2>1, <2>2, <3>1 DEF Saving
    <2>4. ASSUME job \in {"start", "restart"} PROVE Starting'
      <3>1. Starting
        BY <1>1, <2>2, <2>4, Kinds
      <3> QED BY <2>1, <2>2, <3>1 DEF Starting, Grown
    <2>5. ASSUME job \in {"import", "login"} PROVE Granting'
      <3>1. Granting
        BY <1>1, <2>2, <2>5, Kinds
      <3> QED BY <2>1, <2>2, <3>1 DEF Granting, Grown
    <2> QED BY <1>1, <2>2, <2>3, <2>4, <2>5, WholeWithin
  <1>3. CASE Serve
    <2>1. /\ pc = "serve" /\ pc' = "serving"
          /\ UNCHANGED <<file, job, tokens, change, broken>>
      BY <1>3 DEF Serve, Start, Restart
    <2>2. Within /\ Still /\ UNCHANGED <<old, botched>>
      BY <1>1, <1>3, <2>1, StillStep DEF Serve, Within, tokens, change, Whole
    <2>3. Starting /\ job \in {"start", "restart"}
      BY <1>1, <2>1 DEF Whole, Changing, Saving, Granting
    <2>4. Starting'
      BY <2>1, <2>2, <2>3 DEF Starting, Still, Grown
    <2> QED BY <1>1, <2>2, <2>3, <2>4, WholeWithin DEF Still
  <1> QED BY <1>2, <1>3 DEF Call

LEMMA WholeApplied ==
  ASSUME ChangeInv, Applied \/ ApplyFailed, pc' # "idle"
  PROVE  Whole' /\ Within /\ Before' = Before
  <1>1. Whole /\ pc = "applying" /\ UNCHANGED <<file, tokens>>
    BY DEF ChangeInv, Applied, ApplyFailed
  <1>2. CASE Applied
    <2>1. job \in {"start", "restart"} /\ Goto("serve")
      BY <1>2 DEF Applied, End, Settle
    <2>2. Starting
      BY <1>1, <2>1, Kinds
    <2>3. Starting'
      BY <1>1, <2>1, <2>2, GotoStill DEF Starting, Grown
    <2> QED BY <1>1, <2>1, <2>3, GotoStill, WholeWithin
  <1>3. CASE ApplyFailed /\ job = "save"
    <2>1. UndoCredentials
      BY <1>3 DEF ApplyFailed
    <2>2. ~botched /\ file = new
      BY <1>1, <1>3, Kinds DEF Saving
    <2>3. Whole' /\ Within
      BY <1>1, <1>3, <2>1, <2>2, WholeUndo DEF tokens, UndoCredentials
    <2>4. Before' = Before
      BY <1>1, <2>1, HoldersStay DEF UndoCredentials, tokens
    <2> QED BY <2>3, <2>4
  <1>4. CASE ApplyFailed /\ job # "save"
    <2>1. Goto("revert") /\ todo' = todo
      BY <1>4 DEF ApplyFailed
    <2>2. ASSUME job \in {"start", "restart"} PROVE Starting'
      <3>1. Starting
        BY <1>1, <2>2, Kinds
      <3> QED BY <1>1, <2>1, <3>1, GotoStill DEF Starting, Grown
    <2>3. ASSUME job \in {"import", "login"} PROVE Granting'
      <3>1. Granting /\ old \in Configs
        BY <1>1, <2>3, Kinds
      <3>2. file = Grown(todo) /\ Now = Before \cup todo
        BY <1>1, <3>1 DEF Granting
      <3>3. todo \subseteq Accounts
        BY <3>2, HoldersIn
      <3>4. file = Grown(file.bound) /\ Now \subseteq Before \cup file.bound
        BY <3>1, <3>2, <3>3, GrownConfig
      <3>5. Grown(file.bound)' = Grown(file.bound)
        BY <1>1, <2>1, GotoStill DEF Grown
      <3> QED BY <1>1, <2>1, <3>1, <3>4, <3>5, GotoStill DEF Granting
    <2> QED BY <1>1, <1>4, <2>1, <2>2, <2>3, GotoStill, WholeWithin
  <1> QED BY <1>2, <1>3, <1>4

\* Putting the file back.
LEMMA WholeRevert ==
  ASSUME ChangeInv, Restored \/ Revert \/ RevertFails \/ Reapplied, pc' # "idle"
  PROVE  Whole' /\ Within /\ Before' = Before
  <1>1. Whole /\ pc # "idle" /\ UNCHANGED tokens
    BY DEF ChangeInv, Restored, Revert, RevertFails, Reapplied
  <1>2. CASE Restored
    <2>1. /\ pc = "restore" /\ job = "save" /\ file = new /\ file' = file
          /\ todo = {} /\ Goto("revert")
      BY <1>2 DEF Restored, End, Settle
    <2>2. Saving
      BY <1>1, <2>1, Kinds
    <2>3. Saving'
      BY <1>1, <2>1, <2>2, GotoStill DEF Saving
    <2> QED BY <1>1, <2>1, <2>3, GotoStill, WholeWithin
  <1>3. CASE Revert
    <2>1. pc = "revert" /\ file' = old /\ Goto("reapply")
      BY <1>3 DEF Revert
    <2>2. ASSUME job = "save" PROVE Saving'
      <3>1. Saving
        BY <1>1, <2>2, Kinds
      <3> QED BY <1>1, <2>1, <3>1, GotoStill DEF Saving
    <2>3. ASSUME job \in {"start", "restart"} PROVE Starting'
      <3>1. Starting
        BY <1>1, <2>3, Kinds
      <3> QED BY <1>1, <2>1, <3>1, GotoStill DEF Starting
    <2>4. ASSUME job \in {"import", "login"} PROVE Granting'
      <3>1. Granting
        BY <1>1, <2>4, Kinds
      <3> QED BY <1>1, <2>1, <3>1, GotoStill DEF Granting
    <2> QED BY <1>1, <2>1, <2>2, <2>3, <2>4, GotoStill, WholeWithin
  <1>4. CASE RevertFails
    <2>1. /\ pc = "revert" /\ job \in {"import", "login"} /\ pc' = "restore" /\ file' = file
          /\ botched' /\ UNCHANGED <<job, old, new, backup, touched, history>>
      BY <1>4 DEF RevertFails, Settle
    <2>2. Within /\ Still
      BY <1>1, <2>1, StillStep DEF Within, history, tokens, Whole
    <2>3. Granting
      BY <1>1, <2>1, Kinds
    <2>4. Granting'
      BY <2>1, <2>2, <2>3 DEF Granting, Still, Grown
    <2> QED BY <1>1, <2>1, <2>2, <2>4, WholeWithin DEF Still
  <1>5. CASE Reapplied
    <2>1. pc = "reapplying" /\ job \in {"import", "login"} /\ UndoCredentials /\ file' = file
      BY <1>5 DEF Reapplied, End, Settle
    <2>2. ~botched /\ file = old
      BY <1>1, <2>1, Kinds DEF Granting
    <2>3. Whole' /\ Within
      BY <1>1, <2>1, <2>2, WholeUndo DEF tokens
    <2>4. Before' = Before
      BY <1>1, <2>1, HoldersStay DEF UndoCredentials, tokens
    <2> QED BY <2>3, <2>4
  <1> QED BY <1>2, <1>3, <1>4, <1>5

LEMMA WholeWork ==
  ASSUME ChangeInv, Work, pc' # "idle"
  PROVE  Whole' /\ Within /\ Before' = Before
  <1>1. pc' = "idle" \/ ~(SnapshotFails \/ Served)
    BY DEF SnapshotFails, Served, End, Settle
  <1> QED BY <1>1, WholeAccount, WholeRestore, WholeDeletion, WholeBind, WholeWrite,
             WholeApplied, WholeRevert DEF Work

\* Whatever runs beside the worker leaves who has credentials as it is.
LEMMA WholeBeside ==
  ASSUME ChangeInv,
         Service \/ UNCHANGED vars
         \/ \E a \in Accounts : Exchange(a) \/ Answer(a) \/ Cancel(a)
  PROVE  /\ Whole' /\ Now' = Now /\ Before' = Before
         /\ UNCHANGED <<file, pc, job, old, history>>
  <1>1. GateInv /\ Whole /\ Owned
    BY DEF ChangeInv, Whole
  <1>2. UNCHANGED <<file, pc, job, old, new, todo, touched, botched, history>>
    BY DEF Service, Proceed, Open, Listen, Load, Swap, Fail, ServerFails, Look, Interface,
           Stop, Reload, vars, change, Exchange, Answer, Answered, Cancel
  <1>3. Now' = Now /\ Before' = Before /\ Owned'
    <2>1. CASE Service \/ UNCHANGED vars
      BY <1>1, <2>1, StillStep DEF Service, vars, tokens, change, Still
    <2>2. CASE \E a \in Accounts : Exchange(a) \/ Answer(a) \/ Cancel(a)
      BY <1>1, <2>2, HoldersExchange
    <2> QED BY <2>1, <2>2
  <1>4. CASE pc = "idle"
    <2>1. Whole'
      BY <1>1, <1>2, <1>3, <1>4 DEF Whole
    <2> QED BY <1>2, <1>3, <2>1
  <1>5. CASE pc # "idle"
    <2>1. Within /\ Dropped' = Dropped
      BY <1>2, <1>5 DEF Within, Dropped, history
    <2>2. ASSUME job = "save" PROVE Saving'
      <3>1. Saving
        BY <1>1, <1>5, <2>2, Kinds
      <3> QED BY <1>2, <1>3, <2>1, <3>1 DEF Saving
    <2>3. ASSUME job \in {"start", "restart"} PROVE Starting'
      <3>1. Starting
        BY <1>1, <1>5, <2>3, Kinds
      <3> QED BY <1>2, <1>3, <3>1 DEF Starting, Grown
    <2>4. ASSUME job \in {"import", "login"} PROVE Granting'
      <3>1. Granting
        BY <1>1, <1>5, <2>4, Kinds
      <3> QED BY <1>2, <1>3, <3>1 DEF Granting, Grown
    <2>5. Whole'
      BY <1>1, <1>3, <2>1, <2>2, <2>3, <2>4, WholeWithin
    <2> QED BY <1>2, <1>3, <2>5
  <1> QED BY <1>4, <1>5

-----------------------------------------------------------------------------
(* The end of a change. *)

\* What a change has come to, told from what it started with.
Undone == file = old /\ Now = Before
Saved == new \in Configs /\ file = new /\ Now = Before \ Dropped
Granted == \E S \in SUBSET Accounts : file = Grown(S) /\ Now = Before \cup S
Reconciled == file = Grown(Before) /\ Now = Before

Partly ==
    \/ /\ new \in Configs
       /\ file \in {old, new}
       /\ Before \ Dropped \subseteq Now
       /\ Now \subseteq Before
    \/ \E S \in SUBSET Accounts :
         /\ file \in {old, Grown(S)}
         /\ Before \subseteq Now
         /\ Now \subseteq Before \cup S
    \/ Reconciled

\* Wherever a change is cut short, it has touched only what it was about.
LEMMA PartlyAlways ==
  ASSUME ChangeInv, pc # "idle"
  PROVE  Partly
  <1>1. Whole /\ file \in Configs
    BY DEF ChangeInv, TypeOK, ServiceTypeOK
  <1>2. CASE job = "save"
    <2>1. Saving
      BY <1>1, <1>2, Kinds
    <2> QED BY <2>1 DEF Saving, Partly
  <1>3. CASE job \in {"start", "restart"}
    <2>1. Starting
      BY <1>1, <1>3, Kinds
    <2>2. file = old \/ file = Grown(Before)
      BY <2>1 DEF Starting
    <2>3. Before \in SUBSET Accounts
      BY HoldersIn
    <2> QED BY <2>1, <2>2, <2>3 DEF Starting, Partly
  <1>4. CASE job \in {"import", "login"}
    <2>1. Granting
      BY <1>1, <1>4, Kinds
    <2>2. CASE file = old
      <3>1. Before \subseteq Now /\ Now \subseteq Before \cup Accounts
        BY <2>1, HoldersIn DEF Granting
      <3> QED BY <2>2, <3>1 DEF Partly
    <2>3. CASE file # old
      <3>1. CASE pc \in {"apply", "applying"}
        <4>1. file = Grown(todo) /\ Now = Before \cup todo /\ Before \subseteq Now
          BY <2>1, <3>1 DEF Granting
        <4>2. todo \subseteq Accounts
          BY <4>1, HoldersIn
        <4> QED BY <4>1, <4>2 DEF Partly
      <3>2. CASE pc \in {"revert", "restore"}
        <4>1. /\ file = Grown(file.bound) /\ Before \subseteq Now
              /\ Now \subseteq Before \cup file.bound
          BY <2>1, <2>3, <3>2 DEF Granting
        <4>2. file.bound \in SUBSET Accounts
          BY <1>1 DEF Configs
        <4> QED BY <4>1, <4>2 DEF Partly
      <3> QED BY <2>1, <2>3, <3>1, <3>2 DEF Granting
    <2> QED BY <2>2, <2>3
  <1> QED BY <1>1, <1>2, <1>3, <1>4, Kinds

LEMMA SettleStill ==
  ASSUME Whole, NEW b, Settle(b), UNCHANGED tokens
  PROVE  Whole' /\ Now' = Now /\ broken' = b /\ pc' = "idle"
  BY DEF Whole, Owned, Settle, tokens, Now, Holders

\* What the work of a change does at its end.
LEMMA Ends ==
  ASSUME ChangeInv, Work, pc' = "idle"
  PROVE  /\ pc # "idle" /\ file' = file /\ UNCHANGED tokens
         /\ \/ Settle(TRUE) /\ dirty'
            \/ End /\ (~botched => Undone \/ Saved \/ Granted \/ Reconciled)
  <1>1. Whole /\ GateTyped /\ GateInv
    BY DEF ChangeInv, GateInv
  <1>2. CASE SnapshotFails
    <2>1. Saving /\ pc = "snapshot"
      BY <1>1, <1>2 DEF SnapshotFails, Whole, Changing, Starting, Granting
    <2>2. Undone
      BY <2>1 DEF Saving, Undone
    <2> QED BY <1>2, <2>1, <2>2 DEF SnapshotFails
  <1>3. CASE Bound
    <2>1. job \in {"import", "login"} /\ End /\ pc = "bind" /\ todo \subseteq file.bound
      BY <1>3 DEF Bound, Goto
    <2>2. Granting /\ old \in Configs
      BY <1>1, <2>1, Kinds
    <2>3. todo \subseteq Accounts /\ Now = Before \cup todo /\ file = old
      BY <2>1, <2>2, HoldersIn DEF Granting
    <2>4. Granted
      BY <2>1, <2>2, <2>3, GrownConfig DEF Granted
    <2> QED BY <1>3, <2>1, <2>4 DEF Bound
  <1>4. CASE BindFails \/ WriteFails
    <2>1. job \in {"start", "restart"} /\ End /\ pc \in {"bind", "write"}
      BY <1>4 DEF BindFails, WriteFails, Abandon, UndoCredentials
    <2>2. Starting
      BY <1>1, <2>1, Kinds
    <2>3. Undone
      BY <2>1, <2>2 DEF Starting, Undone
    <2> QED BY <1>4, <2>1, <2>3 DEF BindFails, WriteFails
  <1>5. CASE Applied
    <2>1. job \in {"save", "import", "login"} /\ End /\ pc = "applying"
      BY <1>5 DEF Applied, Goto
    <2>2. CASE job = "save"
      <3>1. Saving
        BY <1>1, <2>1, <2>2, Kinds
      <3>2. Saved
        BY <2>1, <3>1 DEF Saving, Saved
      <3> QED BY <1>5, <2>1, <3>2 DEF Applied
    <2>3. CASE job \in {"import", "login"}
      <3>1. Granting
        BY <1>1, <2>1, <2>3, Kinds
      <3>2. Granted
        BY <2>1, <3>1, HoldersIn DEF Granting, Granted
      <3> QED BY <1>5, <2>1, <3>2 DEF Applied
    <2> QED BY <2>1, <2>2, <2>3
  <1>6. CASE Served
    <2>1. pc = "serving" /\ End
      BY <1>6 DEF Served
    <2>2. Starting
      BY <1>1, <2>1 DEF Whole, Changing, Saving, Granting
    <2>3. Reconciled
      BY <2>1, <2>2 DEF Starting, Reconciled
    <2> QED BY <1>6, <2>1, <2>3 DEF Served
  <1>7. CASE Restored
    <2>1. pc = "restore" /\ todo = {} /\ End /\ ~(job = "save" /\ file = new)
      BY <1>7 DEF Restored, Goto
    <2>2. ASSUME ~botched PROVE Undone
      <3>1. CASE job = "save"
        <4>1. Saving
          BY <1>1, <2>1, <3>1, Kinds
        <4> QED BY <2>1, <2>2, <3>1, <4>1 DEF Saving, Undone
      <3>2. CASE job \in {"import", "login"}
        <4>1. Granting
          BY <1>1, <2>1, <3>2, Kinds
        <4> QED BY <2>1, <2>2, <4>1 DEF Granting, Undone
      <3> QED BY <1>1, <2>1, <3>1, <3>2 DEF Whole, Changing, Starting
    <2> QED BY <1>7, <2>1, <2>2 DEF Restored
  <1>8. CASE RevertFails
    BY <1>8 DEF RevertFails
  <1>9. CASE Reapplied
    <2>1. pc = "reapplying" /\ job \in {"save", "start", "restart"} /\ End
      BY <1>9 DEF Reapplied, UndoCredentials
    <2>2. ASSUME ~botched PROVE Undone
      <3>1. CASE job = "save"
        <4>1. Saving
          BY <1>1, <2>1, <3>1, Kinds
        <4> QED BY <2>1, <2>2, <4>1 DEF Saving, Undone
      <3>2. CASE job \in {"start", "restart"}
        <4>1. Starting
          BY <1>1, <2>1, <3>2, Kinds
        <4> QED BY <2>1, <4>1 DEF Starting, Undone
      <3> QED BY <2>1, <3>1, <3>2
    <2> QED BY <1>9, <2>1, <2>2 DEF Reapplied
  <1>10. SnapshotFails \/ Bound \/ BindFails \/ WriteFails \/ Applied \/ Served
         \/ Restored \/ RevertFails \/ Reapplied
    BY DEF Work, Snapshot, Delete, Restore, Snapshotted, DeleteFails, Deleted, Bind, Write,
           ApplyFailed, RestoreAll, RestoreFails, Revert, Goto, UndoCredentials
  <1> QED BY <1>2, <1>3, <1>4, <1>5, <1>6, <1>7, <1>8, <1>9, <1>10

\* A crash ends a change where it is.
LEMMA Crashes ==
  ASSUME ChangeInv, Crash
  PROVE  /\ Whole' /\ Now' = Now /\ file' = file /\ pc' = "idle"
         /\ pc = "idle" => UNCHANGED <<old, history>>
         /\ pc # "idle" => broken' = TRUE /\ dirty' = TRUE
  <1>1. GateTyped /\ Whole
    BY DEF ChangeInv, GateInv
  <1>2. Now' = Now
    <2>1. \A a \in Accounts : held'[a] = IF held[a] = "spent" THEN "lost" ELSE held[a]
      BY DEF Crash
    <2> QED BY <2>1 DEF Now, Holders
  <1>3. Owned'
    BY DEF Crash, Owned, Each
  <1>4. /\ pc' = "idle" /\ job' = "none" /\ file' = file
        /\ pc = "idle" => UNCHANGED <<old, history>>
        /\ pc # "idle" => broken' = TRUE /\ dirty' = TRUE
    BY <1>1 DEF Crash, Settle, Whole, change, history
  <1> QED BY <1>2, <1>3, <1>4 DEF Whole

-----------------------------------------------------------------------------
(* Types. *)

LEMMA CallTypes ==
  ASSUME ServiceTypeOK, NEW by \in Callers,
         Start(by) \/ Stop(by) \/ Restart(by) \/ Reload(by) \/ ApplySavedConfig(by)
  PROVE  ServiceTypeOK'
  <1>1. Alive \in Configs \cup {Stopped}
    BY DEF Alive, ServiceTypeOK
  <1>2. CASE Start(by)
    BY <1>1, <1>2 DEF Start, Refresh, Hold, Release, ServiceTypeOK
  <1>3. CASE Stop(by)
    BY <1>3 DEF Stop, Finish, Release, ServiceTypeOK
  <1>4. CASE Restart(by)
    BY <1>4 DEF Restart, Finish, Hold, ServiceTypeOK
  <1>5. CASE Reload(by)
    BY <1>1, <1>5 DEF Reload, Refresh, Hold, ServiceTypeOK
  <1>6. CASE ApplySavedConfig(by)
    BY <1>1, <1>6 DEF ApplySavedConfig, Refresh, Hold, Release, ServiceTypeOK
  <1> QED BY <1>2, <1>3, <1>4, <1>5, <1>6

LEMMA ServiceTypes ==
  ASSUME ServiceTypeOK, Service
  PROVE  ServiceTypeOK'
  <1>1. CASE Open \/ Listen
    BY <1>1 DEF Open, Listen, Release, ServiceTypeOK
  <1>2. CASE Load
    BY <1>2 DEF Load, Finish, ServiceTypeOK
  <1>3. CASE Swap \/ Fail
    BY <1>3 DEF Swap, Fail, Release, ServiceTypeOK
  <1>4. CASE ServerFails
    BY <1>4 DEF ServerFails, ServiceTypeOK
  <1>5. CASE Look
    BY <1>5 DEF Look, Refresh, Alive, ServiceTypeOK
  <1>6. ASSUME NEW u \in Users, Interface(u)
        PROVE  ServiceTypeOK'
    BY <1>6, CallTypes DEF Interface, Callers
  <1> QED BY <1>1, <1>2, <1>3, <1>4, <1>5, <1>6 DEF Service, Proceed

\* The file is only ever given a configuration.
LEMMA FileTypes ==
  ASSUME ChangeInv, Next
  PROVE  file' \in Configs
  <1>1. Whole /\ file \in Configs /\ new \in Configs \cup {Stopped}
    BY DEF ChangeInv, TypeOK, ServiceTypeOK
  <1>2. CASE Request
    BY <1>1, <1>2 DEF Request, StartProxy, SaveConfig, Import, Login
  <1>3. CASE Work
    <2>1. CASE Write
      <3>1. pc = "write" /\ file' = new
        BY <2>1 DEF Write
      <3>2. CASE job = "save"
        BY <1>1, <3>1, <3>2, Kinds DEF Saving
      <3>3. CASE job # "save"
        <4>1. PICK S \in {Before, todo} : new = Grown(S) /\ S \subseteq Accounts
          BY <1>1, <3>1, <3>3, Kinds, HoldersIn DEF Starting, Granting
        <4> QED BY <1>1, <3>1, <4>1, Kinds, GrownConfig
      <3> QED BY <3>2, <3>3
    <2>2. CASE Revert
      BY <1>1, <2>2, Kinds DEF Revert
    <2>3. CASE ~(Write \/ Revert)
      BY <1>1, <1>3, <2>3 DEF Work, Snapshot, Delete, Restore, SnapshotFails, Snapshotted,
         DeleteFails, Deleted, Bind, Bound, BindFails, WriteFails, Applied, ApplyFailed,
         Served, RestoreAll, RestoreFails, Restored, RevertFails, Reapplied
    <2> QED BY <2>1, <2>2, <2>3
  <1>4. CASE Call
    BY <1>1, <1>4 DEF Call, Apply, Reapply, Serve, ApplySavedConfig, Start, Restart
  <1>5. CASE Service \/ \E a \in Accounts : Exchange(a) \/ Answer(a) \/ Cancel(a)
    BY <1>1, <1>5, WholeBeside
  <1>6. CASE Crash
    BY <1>1, <1>6, Crashes
  <1> QED BY <1>2, <1>3, <1>4, <1>5, <1>6 DEF Next

ChangeTyped ==
    /\ given \in 0..MaxChanges
    /\ job \in Jobs
    /\ pc \in PCs
    /\ old \in Configs \cup {Stopped}
    /\ new \in Configs \cup {Stopped}
    /\ todo \in SUBSET Accounts
    /\ touched \in SUBSET Accounts
    /\ botched \in BOOLEAN /\ broken \in BOOLEAN /\ dirty \in BOOLEAN

LEMMA TypeParts == TypeOK <=> ServiceTypeOK /\ GateTyped /\ ChangeTyped
  BY DEF TypeOK, GateTyped, ChangeTyped

LEMMA SettleTypes ==
  ASSUME ChangeTyped, NEW b \in BOOLEAN, Settle(b), dirty' \in BOOLEAN
  PROVE  ChangeTyped'
  BY DEF ChangeTyped, Settle, Jobs, PCs

LEMMA EndTypes ==
  ASSUME ChangeTyped, End
  PROVE  ChangeTyped'
  <1>1. botched \in BOOLEAN /\ dirty' \in BOOLEAN
    BY DEF ChangeTyped, End
  <1> QED BY <1>1, SettleTypes DEF End

LEMMA GotoTypes ==
  ASSUME ChangeTyped, NEW next \in PCs, Goto(next), todo' \in SUBSET Accounts
  PROVE  ChangeTyped'
  BY DEF ChangeTyped, Goto, history

LEMMA UndoTypes ==
  ASSUME ChangeTyped, UndoCredentials
  PROVE  ChangeTyped'
  BY DEF ChangeTyped, UndoCredentials, history, PCs

LEMMA BeginTypes ==
  ASSUME ChangeTyped, file \in Configs, NEW kind \in Jobs, NEW first \in PCs,
         Begin(kind, first), new' \in Configs \cup {Stopped},
         todo' \in SUBSET Accounts, touched' \in SUBSET Accounts
  PROVE  ChangeTyped'
  <1>1. given' \in 0..MaxChanges
    BY LifecycleAssumption DEF ChangeTyped, Begin
  <1> QED BY <1>1 DEF ChangeTyped, Begin, history

LEMMA RequestTypes ==
  ASSUME ChangeTyped, file \in Configs, Request
  PROVE  ChangeTyped'
  <1>1. ASSUME NEW kind \in {"start", "restart"}, StartProxy(kind)
        PROVE  ChangeTyped'
    BY <1>1, BeginTypes DEF StartProxy, Holders, Jobs, PCs, ChangeTyped
  <1>2. ASSUME NEW n \in Configs, SaveConfig(n)
        PROVE  ChangeTyped'
    <2>1. file.bound \ n.bound \in SUBSET Accounts
      BY DEF Configs
    <2> QED BY <1>2, <2>1, BeginTypes DEF SaveConfig, Jobs, PCs
  <1>3. ASSUME NEW S \in SUBSET Accounts, NEW T \in SUBSET S, Import(S, T)
        PROVE  ChangeTyped'
    BY <1>3, BeginTypes DEF Import, Jobs, PCs, ChangeTyped
  <1>4. ASSUME NEW a \in Accounts, Login(a)
        PROVE  ChangeTyped'
    BY <1>4, BeginTypes DEF Login, Jobs, PCs, ChangeTyped
  <1> QED BY <1>1, <1>2, <1>3, <1>4 DEF Request

LEMMA WorkTypes ==
  ASSUME ChangeInv, ChangeTyped, file \in Configs, Work
  PROVE  ChangeTyped'
  <1>1. ASSUME NEW a \in Accounts, Snapshot(a) \/ Delete(a) \/ Restore(a)
        PROVE  ChangeTyped'
    BY <1>1 DEF Snapshot, Delete, Restore, ChangeTyped, history
  <1>2. CASE SnapshotFails \/ DeleteFails \/ BindFails \/ WriteFails
    BY <1>2, EndTypes, UndoTypes DEF SnapshotFails, DeleteFails, BindFails, WriteFails, Abandon
  <1>3. CASE Snapshotted
    <2>1. Saving /\ old \in Configs
      BY <1>3 DEF Snapshotted, ChangeInv, Whole, Changing, Starting, Granting
    <2>2. old.bound \ new.bound \in SUBSET Accounts
      BY <2>1 DEF Configs
    <2> QED BY <1>3, <2>2, GotoTypes DEF Snapshotted, PCs
  <1>4. CASE Deleted \/ Write \/ Revert \/ Bound
    BY <1>4, GotoTypes, EndTypes DEF Deleted, Write, Revert, Bound, PCs, ChangeTyped
  <1>5. CASE Bind
    <2>1. new' \in Configs
      BY <1>5 DEF Bind, ChangeTyped, Configs
    <2> QED BY <1>5, <2>1 DEF Bind, ChangeTyped, PCs, history
  <1>6. CASE Applied \/ ApplyFailed \/ Served \/ Reapplied
    BY <1>6, GotoTypes, EndTypes, UndoTypes
       DEF Applied, ApplyFailed, Served, Reapplied, PCs, ChangeTyped
  <1>7. CASE RestoreAll \/ RestoreFails
    BY <1>7 DEF RestoreAll, RestoreFails, ChangeTyped, history
  <1>8. CASE Restored
    BY <1>8, GotoTypes, EndTypes DEF Restored, PCs, ChangeTyped
  <1>9. CASE RevertFails
    <2>1. CASE Settle(TRUE) /\ dirty' = TRUE
      BY <2>1, SettleTypes
    <2>2. CASE ~(Settle(TRUE) /\ dirty' = TRUE)
      BY <1>9, <2>2 DEF RevertFails, ChangeTyped, PCs, history
    <2> QED BY <2>1, <2>2
  <1> QED BY <1>1, <1>2, <1>3, <1>4, <1>5, <1>6, <1>7, <1>8, <1>9 DEF Work

LEMMA TypesKept ==
  ASSUME ChangeInv, [Next]_vars, GateInv'
  PROVE  TypeOK'
  <1>1. ServiceTypeOK /\ GateTyped /\ ChangeTyped /\ file \in Configs
    BY TypeParts DEF ChangeInv, ServiceTypeOK
  <1>2. CASE UNCHANGED vars
    <2>1. ServiceTypeOK' /\ GateTyped' /\ ChangeTyped'
      BY <1>1, <1>2 DEF vars, service, tokens, change, history, ServiceTypeOK,
         GateTyped, ChangeTyped
    <2> QED BY <2>1 DEF TypeOK, GateTyped, ChangeTyped
  <1>3. CASE Next
    <2>1. file' \in Configs
      BY <1>3, FileTypes
    <2>2. ServiceTypeOK'
      <3>1. CASE Request
        <4>1. UNCHANGED service
          BY <3>1 DEF Request, StartProxy, SaveConfig, Import, Login
        <4> QED BY <1>1, <2>1, <4>1 DEF service, ServiceTypeOK
      <3>2. CASE Work
        <4>1. UNCHANGED service \/ Consume
          BY <3>2 DEF Work, Snapshot, Delete, Restore, SnapshotFails, Snapshotted,
             DeleteFails, Deleted, Bind, Bound, BindFails, Write, WriteFails, Applied,
             ApplyFailed, Served, RestoreAll, RestoreFails, Restored, Revert, RevertFails,
             Reapplied
        <4> QED BY <1>1, <2>1, <4>1 DEF service, Consume, ServiceTypeOK
      <3>3. CASE Call
        <4>1. Start("worker") \/ Restart("worker") \/ ApplySavedConfig("worker")
          BY <3>3 DEF Call, Apply, Reapply, Serve
        <4> QED BY <1>1, <4>1, CallTypes DEF Callers
      <3>4. CASE Service
        BY <1>1, <3>4, ServiceTypes
      <3>5. CASE Crash
        BY <2>1, <3>5 DEF Crash, ServiceDies, ServiceTypeOK
      <3>6. ASSUME NEW a \in Accounts, Exchange(a) \/ Answer(a) \/ Cancel(a)
            PROVE  ServiceTypeOK'
        <4>1. UNCHANGED service
          BY <3>6 DEF Exchange, Answer, Answered, Cancel
        <4> QED BY <1>1, <2>1, <4>1 DEF service, ServiceTypeOK
      <3> QED BY <1>3, <3>1, <3>2, <3>3, <3>4, <3>5, <3>6 DEF Next
    <2>3. ChangeTyped'
      <3>1. CASE Request \/ Work
        BY <1>1, <3>1, RequestTypes, WorkTypes
      <3>2. CASE Call
        BY <1>1, <3>2, GotoTypes DEF Call, Apply, Reapply, Serve, change, ChangeTyped, PCs
      <3>3. CASE Service
        BY <1>1, <3>3 DEF Service, change, history, ChangeTyped
      <3>4. CASE Crash
        <4>1. CASE pc = "idle"
          BY <1>1, <3>4, <4>1 DEF Crash, change, ChangeTyped
        <4>2. CASE pc # "idle"
          <5>1. Settle(TRUE) /\ dirty' = TRUE
            BY <3>4, <4>2 DEF Crash
          <5> QED BY <1>1, <5>1, SettleTypes
        <4> QED BY <4>1, <4>2
      <3>5. ASSUME NEW a \in Accounts, Exchange(a) \/ Answer(a) \/ Cancel(a)
            PROVE  ChangeTyped'
        BY <1>1, <3>5 DEF Exchange, Answer, Answered, Cancel, change, history, ChangeTyped
      <3> QED BY <1>3, <3>1, <3>2, <3>3, <3>4, <3>5 DEF Next
    <2> QED BY <2>2, <2>3 DEF GateInv, TypeOK, GateTyped, ChangeTyped
  <1> QED BY <1>2, <1>3

-----------------------------------------------------------------------------
(* What holds of every change. *)

LEMMA ChangeInitially == Init => ChangeInv
  <1> SUFFICES ASSUME Init
               PROVE  ChangeInv
    OBVIOUS
  <1>1. GateInv /\ Whole
    BY GateInitially, WholeInitially
  <1>2. ServiceTypeOK
    BY DEF Init, ServiceInit, ServiceTypeOK
  <1>3. ChangeTyped
    <2>1. 0 \in 0..MaxChanges
      BY LifecycleAssumption
    <2> QED BY <2>1 DEF Init, ServiceInit, ChangeTyped, Jobs, PCs
  <1> QED BY <1>1, <1>2, <1>3, TypeParts DEF GateInv, ChangeInv

LEMMA WholeKept ==
  ASSUME ChangeInv, [Next]_vars
  PROVE  Whole'
  <1>1. CASE Work
    <2>1. CASE pc' = "idle"
      BY <1>1, <2>1, Ends, SettleStill DEF ChangeInv, End
    <2>2. CASE pc' # "idle"
      BY <1>1, <2>2, WholeWork
    <2> QED BY <2>1, <2>2
  <1> QED BY <1>1, WholeRequest, WholeCall, WholeBeside, Crashes DEF Next

LEMMA ChangeKept == ChangeInv /\ [Next]_vars => ChangeInv'
  <1> SUFFICES ASSUME ChangeInv, [Next]_vars
               PROVE  ChangeInv'
    OBVIOUS
  <1>1. GateInv'
    BY GateKept DEF ChangeInv
  <1> QED BY <1>1, WholeKept, TypesKept DEF ChangeInv

\* Every variable of the lifecycle keeps its type (ProxyServiceInner, the
\* store's rows, the orchestrator's locals).
THEOREM TypeCorrect == Spec => []TypeOK
  <1>1. ChangeInv => TypeOK
    BY DEF ChangeInv
  <1> QED BY ChangeInitially, ChangeKept, <1>1, PTL DEF Spec

\* Unless a change was cut short, every account with credentials is named,
\* by the file or by the one that the change under way started from.
Named ==
    ~dirty /\ pc # "serving" => Shown(Now, Before) \subseteq Shown(file, old).bound

LEMMA NamedInitially == Init => Named
  BY DEF Init, Named

LEMMA NamedKept == ChangeInv /\ Named /\ [Next]_vars => Named'
  <1> SUFFICES ASSUME ChangeInv, Named, [Next]_vars, ~dirty', pc' # "serving"
               PROVE  Shown(Now, Before)' \subseteq (Shown(file, old).bound)'
    BY DEF Named
  <1>1. Whole
    BY DEF ChangeInv
  <1>2. ASSUME Within, Before' = Before, pc # "serving"
        PROVE  Shown(Now, Before)' \subseteq (Shown(file, old).bound)'
    BY <1>2 DEF Within, Named, Shown
  <1>3. CASE Request
    <2>1. pc = "idle" /\ pc' # "idle" /\ dirty' = dirty
      BY <1>3 DEF Request, StartProxy, SaveConfig, Import, Login, Begin, history
    <2>2. old' = file /\ Before' = Now
      BY <1>3, WholeRequest
    <2> QED BY <2>1, <2>2 DEF Named, Shown
  <1>4. CASE Work /\ pc' # "idle"
    <2>1. pc # "serving"
      BY <1>4 DEF Work, Snapshot, Delete, Restore, SnapshotFails, Snapshotted, DeleteFails,
         Deleted, Bind, Bound, BindFails, Write, WriteFails, Applied, ApplyFailed, Served,
         RestoreAll, RestoreFails, Restored, Revert, RevertFails, Reapplied, End, Settle
    <2> QED BY <1>2, <1>4, <2>1, WholeWork
  <1>5. CASE Work /\ pc' = "idle"
    <2>1. /\ pc # "idle" /\ End /\ file' = file /\ ~dirty /\ ~botched
          /\ Undone \/ Saved \/ Granted \/ Reconciled
      BY <1>5, Ends DEF End
    <2>2. Now' = Now
      BY <1>1, <1>5, <2>1, Ends, SettleStill DEF End
    <2>3. old \in Configs
      BY <1>1, <2>1, Kinds
    <2>4. Reconciled => Now \subseteq file.bound
      BY <2>3, HoldersIn, GrownConfig DEF Reconciled
    <2>5. CASE pc = "serving"
      <3>1. Starting
        BY <1>1, <2>5 DEF Whole, Changing, Saving, Granting
      <3>2. Reconciled
        BY <2>5, <3>1 DEF Starting, Reconciled
      <3> QED BY <1>5, <2>1, <2>2, <2>4, <3>2 DEF Shown
    <2>6. CASE pc # "serving"
      <3>1. Before \subseteq old.bound
        BY <2>1, <2>6 DEF Named, Shown
      <3>2. Undone => Now \subseteq file.bound
        BY <3>1 DEF Undone
      <3>3. Saved => Now \subseteq file.bound
        BY <3>1 DEF Saved, Dropped
      <3>4. Granted => Now \subseteq file.bound
        BY <2>3, <3>1, GrownConfig DEF Granted
      <3> QED BY <1>5, <2>1, <2>2, <2>4, <3>2, <3>3, <3>4 DEF Shown
    <2> QED BY <2>5, <2>6
  <1>6. CASE Call
    <2>1. pc # "serving"
      BY <1>6 DEF Call, Apply, Reapply, Serve
    <2> QED BY <1>2, <1>6, <2>1, WholeCall
  <1>7. CASE Service \/ UNCHANGED vars
             \/ \E a \in Accounts : Exchange(a) \/ Answer(a) \/ Cancel(a)
    <2>1. Now' = Now /\ Before' = Before /\ UNCHANGED <<file, pc, old, dirty>>
      BY <1>7, WholeBeside DEF history
    <2> QED BY <2>1 DEF Named, Shown
  <1>8. CASE Crash
    <2>1. Now' = Now /\ file' = file /\ pc' = "idle" /\ pc = "idle" /\ dirty' = dirty
      BY <1>8, Crashes DEF history
    <2> QED BY <2>1 DEF Named, Shown
  <1> QED BY <1>3, <1>4, <1>5, <1>6, <1>7, <1>8 DEF Next

\* While the proxy runs and no change was cut short since its accounts were
\* last reconciled, each account with credentials has an upstream
\* (ensure_bindings_locked before a start, and every change after it).
THEOREM EveryAccountServed == Spec => []AccountsServed
  <1>1. Named => AccountsServed
    BY DEF Named, AccountsServed, Shown, Now
  <1> QED BY ChangeInitially, ChangeKept, NamedInitially, NamedKept, <1>1, PTL DEF Spec

-----------------------------------------------------------------------------
(* The lifecycle implements AccountChanges. *)

LEMMA AtomicInitially == Init => Changes!Init
  BY DEF Init, ServiceInit, Changes!Init, Shown, Holders

\* A step within a change, or beside the worker, is not seen.
LEMMA Unseen ==
  ASSUME UNCHANGED <<Shown(file, old), Shown(Now, Before), broken>>
  PROVE  UNCHANGED <<Shown(file, old), Shown(Holders(held), Holders(Copied)), broken>>
  BY DEF Now, Before

\* Seen from outside, a change takes place where it ends.
LEMMA EndSeen ==
  ASSUME ChangeInv, pc # "idle", pc' = "idle", file' = file, Now' = Now,
         \/ broken' = TRUE
         \/ broken' = FALSE /\ (Undone \/ Saved \/ Granted \/ Reconciled)
  PROVE  Changes!Next
  <1>1. /\ Shown(file, old) = old /\ Shown(file, old)' = file
        /\ Shown(Holders(held), Holders(Copied)) = Before
        /\ Shown(Holders(held), Holders(Copied))' = Now
    BY DEF Shown, Now, Before
  <1>2. CASE broken' = TRUE
    <2>1. Partly
      BY PartlyAlways
    <2>2. Changes!Interrupted
      BY <1>1, <1>2, <2>1
         DEF Partly, Reconciled, Grown, Dropped, Changes!Interrupted, Changes!WithBound,
             Changes!Unbound
    <2> QED BY <2>2 DEF Changes!Next
  <1>3. CASE broken' = FALSE /\ Undone
    BY <1>1, <1>3 DEF Undone, Changes!Undone, Changes!Next
  <1>4. CASE broken' = FALSE /\ Saved
    BY <1>1, <1>4 DEF Saved, Dropped, Changes!Save, Changes!Unbound, Changes!Next
  <1>5. CASE broken' = FALSE /\ Granted
    BY <1>1, <1>5 DEF Granted, Grown, Changes!Grant, Changes!WithBound, Changes!Next
  <1>6. CASE broken' = FALSE /\ Reconciled
    BY <1>1, <1>6 DEF Reconciled, Grown, Changes!Reconcile, Changes!WithBound, Changes!Next
  <1> QED BY <1>2, <1>3, <1>4, <1>5, <1>6

LEMMA AtomicStep ==
  ASSUME ChangeInv, [Next]_vars
  PROVE  [Changes!Next]_<<Shown(file, old), Shown(Holders(held), Holders(Copied)), broken>>
  <1>1. Whole
    BY DEF ChangeInv
  <1>2. ASSUME Within, Before' = Before
        PROVE  UNCHANGED <<Shown(file, old), Shown(Now, Before), broken>>
    BY <1>2 DEF Within, Shown
  <1>3. CASE Request
    <2>1. pc = "idle" /\ pc' # "idle" /\ broken' = broken
      BY <1>3 DEF Request, StartProxy, SaveConfig, Import, Login, Begin, history
    <2>2. old' = file /\ Before' = Now
      BY <1>3, WholeRequest
    <2>3. UNCHANGED <<Shown(file, old), Shown(Now, Before), broken>>
      BY <2>1, <2>2 DEF Shown
    <2> QED BY <2>3, Unseen
  <1>4. CASE Work /\ pc' # "idle"
    BY <1>2, <1>4, WholeWork, Unseen
  <1>5. CASE Work /\ pc' = "idle"
    <2>1. /\ pc # "idle" /\ file' = file /\ UNCHANGED tokens
          /\ \/ Settle(TRUE)
             \/ Settle(botched) /\ (~botched => Undone \/ Saved \/ Granted \/ Reconciled)
      BY <1>5, Ends DEF End
    <2>2. Now' = Now /\ (broken' = TRUE \/ broken' = botched)
      BY <1>1, <2>1, SettleStill
    <2>3. \/ broken' = TRUE
          \/ broken' = FALSE /\ (Undone \/ Saved \/ Granted \/ Reconciled)
      <3>1. botched \in BOOLEAN
        BY DEF ChangeInv, TypeOK
      <3>2. CASE Settle(TRUE)
        BY <1>1, <2>1, <3>2, SettleStill
      <3>3. CASE ~Settle(TRUE)
        BY <1>1, <2>1, <3>1, <3>3, SettleStill
      <3> QED BY <3>2, <3>3
    <2> QED BY <1>5, <2>1, <2>2, <2>3, EndSeen
  <1>6. CASE Call
    BY <1>2, <1>6, WholeCall, Unseen
  <1>7. CASE Service \/ UNCHANGED vars
             \/ \E a \in Accounts : Exchange(a) \/ Answer(a) \/ Cancel(a)
    <2>1. Now' = Now /\ Before' = Before /\ UNCHANGED <<file, pc, old, broken>>
      BY <1>7, WholeBeside DEF history
    <2>2. UNCHANGED <<Shown(file, old), Shown(Now, Before), broken>>
      BY <2>1 DEF Shown
    <2> QED BY <2>2, Unseen
  <1>8. CASE Crash
    <2>1. Now' = Now /\ file' = file /\ pc' = "idle"
      BY <1>8, Crashes
    <2>2. CASE pc = "idle"
      <3>1. UNCHANGED <<Shown(file, old), Shown(Now, Before), broken>>
        BY <1>8, <2>1, <2>2, Crashes DEF Shown, history
      <3> QED BY <3>1, Unseen
    <2>3. CASE pc # "idle"
      BY <1>8, <2>1, <2>3, Crashes, EndSeen
    <2> QED BY <2>2, <2>3
  <1> QED BY <1>3, <1>4, <1>5, <1>6, <1>7, <1>8 DEF Next

\* Seen where the worker rests, a change of the credentials and of the file
\* is made whole, or undone, or it was cut short and touches no more than it
\* was about (the compensations of AccountLifecycle).
THEOREM ChangesMadeWhole == Spec => ChangesAreAtomic
  <1>1. ChangeInv /\ [Next]_vars =>
        [Changes!Next]_<<Shown(file, old), Shown(Holders(held), Holders(Copied)), broken>>
    BY AtomicStep
  <1> QED BY ChangeInitially, ChangeKept, AtomicInitially, <1>1, PTL
          DEF Spec, ChangesAreAtomic, Changes!Spec
=============================================================================
