----------------------------- MODULE Lifecycle -----------------------------
(***************************************************************************)
(* The account lifecycle: imports, logins, saved configurations and starts *)
(* change the credentials, the configuration file and the running proxy    *)
(* together.  No transaction spans the three, so a change takes a          *)
(* snapshot, makes its steps and undoes them when one fails.               *)
(*                                                                         *)
(* A single worker runs the changes one after another and to their end,    *)
(* whether or not the caller still waits.  What runs beside it is not in   *)
(* its hands: stops and reloads of the interface, a server that fails,     *)
(* and token exchanges, which replace a credential unless an import holds  *)
(* the provider's gate.  The accounts here are those of one provider.      *)
(***************************************************************************)
EXTENDS ProxyService, Naturals

CONSTANTS
    Renewable,      \* the accounts whose tokens are exchanged: an Agent
                    \* Identity has none that are, and one key for all time
    MaxChanges      \* bound: how many changes the worker is given

ASSUME LifecycleAssumption ==
    /\ Renewable \subseteq Accounts
    /\ MaxChanges \in Nat

VARIABLES
    given,      \* how many changes it has been given
    job,        \* what the worker is doing
    pc,         \* where it is in it
    held,       \* the credential of each account
    flight,     \* what an exchange on its way renews: the credential held, or
                \* a replaced one that the snapshot still has
    old,        \* the configuration the change started from
    new,        \* the one it writes
    backup,     \* the snapshot: a credential, or "same" as the one held;
                \* before it is taken, what was held when the change began
    todo,       \* the accounts the present loop has still to treat
    touched,    \* the accounts whose credentials are restored on failure
    botched,    \* a compensation of this change has failed
    broken,     \* history: the last change was cut short
    dirty       \* history: so was one since accounts were last reconciled

tokens  == <<held, flight>>
change  == <<old, new, backup, todo, touched, botched>>
history == <<broken, dirty>>
vars    == <<file, service, given, job, pc, tokens, change, history>>

PCs == {"idle", "snapshot", "delete", "bind", "write", "apply", "applying",
        "restore", "revert", "reapply", "reapplying", "serve", "serving"}
Jobs == {"none", "start", "restart", "save", "import", "login"}

\* The refresh token of a spent credential has been exchanged: only the answer
\* makes the account usable again.  It is lost with the answer, or when a save
\* or a login has put back what was spent meanwhile.
Credentials == {"none", "usable", "spent", "lost"}

TypeOK ==
    /\ ServiceTypeOK
    /\ given \in 0..MaxChanges
    /\ job \in Jobs
    /\ pc \in PCs
    /\ held \in [Accounts -> Credentials]
    /\ flight \in [Accounts -> {"none", "held", "replaced"}]
    /\ old \in Configs \cup {Stopped}
    /\ new \in Configs \cup {Stopped}
    /\ backup \in [Accounts -> Credentials \cup {"same"}]
    /\ todo \in SUBSET Accounts
    /\ touched \in SUBSET Accounts
    /\ {botched, broken, dirty} \subseteq BOOLEAN

Each(x) == [a \in Accounts |-> x]
Holders(h) == {a \in Accounts : h[a] # "none"}
Gated == job = "import"

Init ==
    /\ ServiceInit
    /\ given = 0
    /\ job = "none"
    /\ pc = "idle"
    /\ held \in [Accounts -> {"none", "usable"}]
    /\ flight = Each("none")
    /\ old = Stopped
    /\ new = Stopped
    /\ backup = Each("same")
    /\ todo = {}
    /\ touched = {}
    /\ botched = FALSE
    /\ broken = FALSE
    /\ dirty = TRUE

-----------------------------------------------------------------------------
(* Token exchanges, beside the worker. *)

\* The server exchanges the token: from now on only its answer is of use.
Exchange(a) ==
    /\ a \in Renewable
    /\ held[a] = "usable"
    /\ flight[a] = "none"
    /\ held' = [held EXCEPT ![a] = "spent"]
    /\ flight' = [flight EXCEPT ![a] = "held"]
    /\ UNCHANGED <<file, service, given, job, pc, change, history>>

\* What the snapshot holds once the credentials of T are replaced.
Kept(T) == [a \in Accounts |-> IF a \in T /\ backup[a] = "same" THEN held[a] ELSE backup[a]]
Copied == Kept(Accounts)

\* The answer is saved under the gate, unless the credential was replaced.
Answered(a) ==
    /\ flight[a] # "none"
    /\ flight' = [flight EXCEPT ![a] = "none"]
    /\ IF flight[a] = "held"
       THEN /\ held' = [held EXCEPT ![a] = "usable"]
            /\ backup' = IF pc = "idle" THEN backup ELSE Kept({a})
       ELSE UNCHANGED <<held, backup>>
    /\ UNCHANGED <<file, service, given, job, pc, old, new, todo, touched,
                   botched, history>>

\* Mutant: the answer is saved without the gate.
AnswerUngated(a) == Answered(a)

Answer(a) == ~Gated /\ Answered(a)

\* The client it was for leaves, or a stop of the proxy aborts it: the answer
\* is lost, and with it what the snapshot may still have.
Cancel(a) ==
    /\ flight[a] # "none"
    /\ flight' = [flight EXCEPT ![a] = "none"]
    /\ IF flight[a] = "held"
       THEN held' = [held EXCEPT ![a] = "lost"] /\ UNCHANGED backup
       ELSE /\ backup' = [backup EXCEPT ![a] = IF @ = "spent" THEN "lost" ELSE @]
            /\ UNCHANGED held
    /\ UNCHANGED <<file, service, given, job, pc, old, new, todo, touched,
                   botched, history>>

-----------------------------------------------------------------------------
(* The frame of a change. *)

Begin(kind, first) ==
    /\ pc = "idle"
    /\ given < MaxChanges
    /\ given' = given + 1
    /\ job' = kind
    /\ pc' = first
    /\ old' = file
    /\ botched' = FALSE
    /\ UNCHANGED history

Settle(isBotched) ==
    /\ job' = "none"
    /\ pc' = "idle"
    /\ old' = Stopped
    /\ new' = Stopped
    /\ backup' = Each("same")
    /\ todo' = {}
    /\ touched' = {}
    /\ botched' = FALSE
    /\ broken' = isBotched
    /\ UNCHANGED given

End == Settle(botched) /\ dirty' = (dirty \/ botched)

Goto(next) == pc' = next /\ UNCHANGED <<given, job, old, new, backup, touched, botched, history>>

\* The credentials a failed change has replaced or deleted are put back.
UndoCredentials ==
    /\ pc' = "restore"
    /\ todo' = touched
    /\ UNCHANGED <<given, job, old, new, backup, touched, botched, history>>

\* A start has replaced none: it only fails.
Abandon ==
    \/ job \in {"start", "restart"} /\ End
    \/ job \in {"save", "import", "login"} /\ UndoCredentials

-----------------------------------------------------------------------------
(* The changes. *)

\* Mutant: the proxy is started with the configuration as it is.
StartUnreconciled(kind) ==
    /\ Begin(kind, "serve")
    /\ todo' = {}
    /\ touched' = {}
    /\ UNCHANGED <<file, service, new, tokens, backup>>

\* Every account is given an upstream before the proxy starts or restarts.
StartProxy(kind) ==
    /\ Begin(kind, "bind")
    /\ todo' = Holders(held)
    /\ touched' = {}
    /\ UNCHANGED <<file, service, new, tokens, backup>>

\* Nothing is done when the saved configuration says what the file says.
SaveConfig(n) ==
    /\ n # file
    /\ Begin("save", "snapshot")
    /\ new' = n
    /\ todo' = file.bound \ n.bound
    /\ touched' = {}
    /\ UNCHANGED <<file, service, tokens, backup>>

\* Credentials of T are replaced by c.  An exchange goes on for its credential
\* only as long as there is a copy of it.
Replace(T, c) ==
    /\ held' = [a \in Accounts |-> IF a \in T THEN c ELSE held[a]]
    /\ backup' = Kept(T)
    /\ flight' = [a \in Accounts |->
           IF a \notin T \/ flight[a] # "held" THEN flight[a]
           ELSE IF backup[a] = "same" THEN "replaced" ELSE "none"]

\* The gate is taken, all accounts are copied, and those in T are written,
\* which may be only some of what was to be imported.
Import(S, T) ==
    /\ touched' = Accounts
    /\ \/ T = S /\ Begin("import", "bind") /\ todo' = S
       \/ Begin("import", "restore") /\ todo' = Accounts
    /\ Replace(T, "usable")
    /\ UNCHANGED <<file, service, new>>

\* commit_login_record: the login's credential, and the one it replaces.
Login(a) ==
    /\ Begin("login", "bind")
    /\ todo' = {a}
    /\ touched' = {a}
    /\ Replace({a}, "usable")
    /\ UNCHANGED <<file, service, new>>

-----------------------------------------------------------------------------
(* A saved configuration deletes the credentials of what it no longer names. *)

Snapshot(a) ==
    /\ pc = "snapshot" /\ a \in todo
    /\ backup' = [backup EXCEPT ![a] = "same"]
    /\ todo' = todo \ {a}
    /\ UNCHANGED <<file, service, given, job, pc, tokens, old, new, touched, botched, history>>

SnapshotFails ==
    /\ pc = "snapshot" /\ todo # {}
    /\ End
    /\ UNCHANGED <<file, service, tokens>>

Snapshotted ==
    /\ pc = "snapshot" /\ todo = {}
    /\ todo' = old.bound \ new.bound
    /\ Goto("delete")
    /\ UNCHANGED <<file, service, tokens>>

Delete(a) ==
    /\ pc = "delete" /\ a \in todo
    /\ Replace({a}, "none")
    /\ todo' = todo \ {a}
    /\ touched' = touched \cup {a}
    /\ UNCHANGED <<file, service, given, job, pc, old, new, botched, history>>

\* Mutant: what was deleted before the failure stays deleted.
DeleteFailsOnly ==
    /\ pc = "delete" /\ todo # {}
    /\ End
    /\ UNCHANGED <<file, service, tokens>>

DeleteFails ==
    /\ pc = "delete" /\ todo # {}
    /\ UndoCredentials
    /\ UNCHANGED <<file, service, tokens>>

Deleted ==
    /\ pc = "delete" /\ todo = {}
    /\ Goto("write")
    /\ UNCHANGED <<file, service, tokens, todo>>

-----------------------------------------------------------------------------
(* The other changes give every account an upstream (ensure_bindings_locked). *)

\* Mutant: the configuration to write is not the reconciled one.
BindForgotten ==
    /\ pc = "bind" /\ ~(todo \subseteq file.bound)
    /\ Goto("write")
    /\ UNCHANGED <<file, service, tokens, todo>>

Bind ==
    /\ pc = "bind" /\ ~(todo \subseteq file.bound)
    /\ new' = [file EXCEPT !.bound = @ \cup todo]
    /\ pc' = "write"
    /\ UNCHANGED <<file, service, given, job, tokens, old, backup, todo, touched, botched, history>>

Bound ==
    /\ pc = "bind" /\ todo \subseteq file.bound
    /\ \/ job \in {"start", "restart"} /\ Goto("serve") /\ UNCHANGED todo
       \/ job \in {"import", "login"} /\ End
    /\ UNCHANGED <<file, service, tokens>>

\* The file cannot be read.
BindFails ==
    /\ pc = "bind"
    /\ Abandon
    /\ UNCHANGED <<file, service, tokens>>

-----------------------------------------------------------------------------
(* The configuration is written and applied. *)

Write ==
    /\ pc = "write"
    /\ file' = new
    /\ Goto("apply")
    /\ UNCHANGED <<service, tokens, todo>>

\* An invalid configuration is refused before the file is touched.
WriteFails ==
    /\ pc = "write"
    /\ Abandon
    /\ UNCHANGED <<file, service, tokens>>

\* The worker takes the result of its call.
Consume ==
    /\ reply' = "none"
    /\ UNCHANGED <<running, failed, lastError, holder, step, loaded, halted>>

Apply ==
    /\ pc = "apply"
    /\ ApplySavedConfig("worker")
    /\ Goto("applying")
    /\ UNCHANGED <<tokens, todo>>

Applied ==
    /\ pc = "applying" /\ reply = "ok"
    /\ \/ job \in {"start", "restart"} /\ Goto("serve") /\ UNCHANGED todo
       \/ job \in {"save", "import", "login"} /\ End
    /\ Consume
    /\ UNCHANGED <<file, tokens>>

\* A save restores credentials before the file, the others after it.
ApplyFailed ==
    /\ pc = "applying" /\ reply = "error"
    /\ \/ job = "save" /\ UndoCredentials
       \/ job # "save" /\ Goto("revert") /\ UNCHANGED todo
    /\ Consume
    /\ UNCHANGED <<file, tokens>>

Serve ==
    /\ pc = "serve"
    /\ IF job = "start" THEN Start("worker") ELSE Restart("worker")
    /\ pc' = "serving"
    /\ dirty' = FALSE
    /\ UNCHANGED <<given, job, tokens, change, broken>>

Served ==
    /\ pc = "serving" /\ reply # "none"
    /\ End
    /\ Consume
    /\ UNCHANGED <<file, tokens>>

-----------------------------------------------------------------------------
(* Compensation. *)

\* The answer to an exchange of a restored credential is of use again.
Restores(T) ==
    /\ backup' = [a \in Accounts |-> IF a \in T THEN "same" ELSE backup[a]]
    /\ flight' = [a \in Accounts |->
           IF a \notin T THEN flight[a]
           ELSE IF flight[a] = "replaced" /\ backup[a] = "spent" THEN "held" ELSE "none"]

Restore(a) ==
    /\ pc = "restore" /\ job # "import" /\ a \in todo
    /\ held' = [held EXCEPT ![a] =
           IF Copied[a] = "spent" /\ flight[a] # "replaced" THEN "lost" ELSE Copied[a]]
    /\ Restores({a})
    /\ todo' = todo \ {a}
    /\ UNCHANGED <<file, service, given, job, pc, old, new, touched, botched, history>>

\* An import puts the provider's whole snapshot back in one transaction.
RestoreAll ==
    /\ pc = "restore" /\ job = "import" /\ todo # {}
    /\ held' = Copied
    /\ Restores({a \in Accounts : backup[a] # "same"})
    /\ todo' = {}
    /\ UNCHANGED <<file, service, given, job, pc, old, new, touched, botched, history>>

RestoreFails ==
    /\ pc = "restore" /\ todo # {}
    /\ botched' = TRUE
    /\ todo' = {}
    /\ UNCHANGED <<file, service, given, job, pc, tokens, old, new, backup, touched, history>>

\* Only a save has the file still to put back, and only when it was written.
Restored ==
    /\ pc = "restore" /\ todo = {}
    /\ IF job = "save" /\ file = new THEN Goto("revert") /\ UNCHANGED todo ELSE End
    /\ UNCHANGED <<file, service, tokens>>

Revert ==
    /\ pc = "revert"
    /\ file' = old
    /\ Goto("reapply")
    /\ UNCHANGED <<service, tokens, todo>>

RevertFails ==
    /\ pc = "revert"
    /\ \/ /\ job \in {"save", "start", "restart"}
          /\ Settle(TRUE)
          /\ dirty' = TRUE
       \/ /\ job \in {"import", "login"}
          /\ pc' = "restore"
          /\ todo' = touched
          /\ botched' = TRUE
          /\ UNCHANGED <<given, job, old, new, backup, touched, history>>
    /\ UNCHANGED <<file, service, tokens>>

Reapply ==
    /\ pc = "reapply"
    /\ ApplySavedConfig("worker")
    /\ Goto("reapplying")
    /\ UNCHANGED <<tokens, todo>>

Reapplied ==
    /\ pc = "reapplying" /\ reply # "none"
    /\ \/ job \in {"save", "start", "restart"} /\ End
       \/ job \in {"import", "login"} /\ UndoCredentials
    /\ Consume
    /\ UNCHANGED <<file, tokens>>

-----------------------------------------------------------------------------

\* The process ends.  The stores stay; an exchange whose answer is not saved
\* has cost the account its token.
Crash ==
    /\ ServiceDies
    /\ IF pc = "idle"
       THEN UNCHANGED <<given, job, pc, change, broken, dirty>>
       ELSE Settle(TRUE) /\ dirty' = TRUE
    /\ held' = [a \in Accounts |-> IF held[a] = "spent" THEN "lost" ELSE held[a]]
    /\ flight' = Each("none")
    /\ UNCHANGED file

Request ==
    \/ \E kind \in {"start", "restart"} : StartProxy(kind)
    \/ \E n \in Configs : SaveConfig(n)
    \/ \E S \in SUBSET Accounts : \E T \in SUBSET S : S # {} /\ Import(S, T)
    \/ \E a \in Accounts : Login(a)

Call == Apply \/ Reapply \/ Serve

Work ==
    \/ \E a \in Accounts : Snapshot(a) \/ Delete(a) \/ Restore(a)
    \/ SnapshotFails \/ Snapshotted \/ DeleteFails \/ Deleted
    \/ Bind \/ Bound \/ BindFails \/ Write \/ WriteFails
    \/ Applied \/ ApplyFailed \/ Served
    \/ RestoreAll \/ RestoreFails \/ Restored \/ Revert \/ RevertFails \/ Reapplied

Service ==
    /\ Proceed \/ ServerFails \/ Look \/ \E u \in Users : Interface(u)
    /\ UNCHANGED <<given, job, pc, tokens, change, history>>

Next ==
    \/ Request \/ Work \/ Call \/ Service \/ Crash
    \/ \E a \in Accounts : Exchange(a) \/ Answer(a) \/ Cancel(a)

Spec == Init /\ [][Next]_vars

-----------------------------------------------------------------------------
(* Properties. *)

\* A change is made whole or not at all: after one that fails, with its
\* compensation done, the same accounts have credentials and the file is the
\* old one.  One that a crash cuts short touches only what it was about.
Shown(now, before) == IF pc = "idle" THEN now ELSE before

Changes == INSTANCE AccountChanges WITH
    file <- Shown(file, old),
    held <- Shown(Holders(held), Holders(Copied)),
    broken <- broken

ChangesAreAtomic == Changes!Spec

\* A proxy that was stopped is not started again by a configuration that was
\* saved at the same time (apply_saved_config reads whether it runs under the
\* lock it reloads with).
StoppedStaysStopped == halted => running = Stopped

\* When the worker rests and the last operation did not fail, what runs is
\* what the file says, whatever reloads of the interface came in between.
RuntimeMatchesFile ==
    pc = "idle" /\ step = "free" /\ running # Stopped /\ ~lastError => running = file

\* While the proxy runs and the worker rests, every account with credentials
\* has an upstream, unless a change was cut short since the last start.
AccountsServed ==
    pc = "idle" /\ running # Stopped /\ ~dirty => Holders(held) \subseteq file.bound

\* Neither an import nor its undoing loses the token an exchange has brought:
\* the gate is held from the snapshot to the restore.
RotationsSurvive ==
    \A a \in Accounts : held[a] = "spent" => flight[a] = "held"
=============================================================================
