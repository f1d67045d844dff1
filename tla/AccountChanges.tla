--------------------------- MODULE AccountChanges ---------------------------
(***************************************************************************)
(* What the account lifecycle promises of the two stores it changes        *)
(* together, the configuration file and the credentials: a change is made  *)
(* whole or, when it fails, not at all.  One that is cut short, by the end *)
(* of the process or by a compensation that fails as well, may be made in  *)
(* part, but it touches nothing that the change was not about.             *)
(***************************************************************************)
CONSTANTS Accounts, Configs

VARIABLES
    file,       \* the configuration
    held,       \* the accounts that have credentials
    broken      \* the last change was cut short

Init ==
    /\ file \in Configs
    /\ held \in SUBSET Accounts
    /\ broken = FALSE

WithBound(S) == [file EXCEPT !.bound = @ \cup S]
Unbound(new) == file.bound \ new.bound

\* A configuration is saved: what it no longer names loses its credentials.
Save(new) ==
    /\ file' = new
    /\ held' = held \ Unbound(new)
    /\ broken' = FALSE

\* Accounts are imported or log in: they get credentials and an upstream.
Grant(S) ==
    /\ held' = held \cup S
    /\ file' = WithBound(S)
    /\ broken' = FALSE

\* Accounts without an upstream get one before the proxy starts.
Reconcile ==
    /\ file' = WithBound(held)
    /\ held' = held
    /\ broken' = FALSE

\* A change fails and is undone.
Undone == UNCHANGED <<file, held>> /\ broken' = FALSE

Interrupted ==
    /\ broken' = TRUE
    /\ \/ \E new \in Configs :
             /\ file' \in {file, new}
             /\ held \ Unbound(new) \subseteq held'
             /\ held' \subseteq held
       \/ \E S \in SUBSET Accounts :
             /\ file' \in {file, WithBound(S)}
             /\ held \subseteq held'
             /\ held' \subseteq held \cup S
       \/ file' = WithBound(held) /\ held' = held

Next ==
    \/ \E new \in Configs : Save(new)
    \/ \E S \in SUBSET Accounts : Grant(S)
    \/ Reconcile
    \/ Undone
    \/ Interrupted

Spec == Init /\ [][Next]_<<file, held, broken>>
=============================================================================
