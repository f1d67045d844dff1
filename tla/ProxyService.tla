---------------------------- MODULE ProxyService ----------------------------
(***************************************************************************)
(* The proxy as its owner sees it: started, stopped, restarted, reloaded   *)
(* or given a saved configuration, by the interface and by the worker of   *)
(* the account lifecycle (ProxyService, ProxyServiceInner).                *)
(*                                                                         *)
(* Every operation holds one lock from its first line to its last, and its *)
(* first line notices a server that has ended by itself.  The lock does    *)
(* not protect the configuration file, which may be replaced between the   *)
(* moment an operation loads it and the moment it takes effect: these are  *)
(* steps of their own.                                                     *)
(***************************************************************************)

CONSTANTS
    Accounts,       \* the accounts an upstream of the configuration may name
    Addresses,      \* the settings a reload cannot change: address, body limit
    Users,          \* the tasks of the interface that may call the service
    MayEnd          \* whether a server may end by itself

ASSUME ServiceAssumption ==
    /\ "none" \notin Addresses
    /\ MayEnd \in BOOLEAN
    /\ {"worker", "nobody"} \cap Users = {}

Configs == [addr : Addresses, bound : SUBSET Accounts]
Stopped == [addr |-> "none", bound |-> {}]
Callers == Users \cup {"worker"}

VARIABLES
    file,       \* the configuration file
    running,    \* the configuration the proxy runs with, or Stopped
    failed,     \* its server has ended by itself and nobody has noticed
    lastError,  \* whether last_error holds a message
    holder,     \* who holds the lock
    step,       \* what the holder does next, "free" when there is none
    loaded,     \* the configuration the holder has loaded
    reply,      \* what the worker's last call has returned
    halted      \* history: the last command was a stop, or there was none

service == <<running, failed, lastError, holder, step, loaded, reply, halted>>

ServiceTypeOK ==
    /\ file \in Configs
    /\ running \in Configs \cup {Stopped}
    /\ failed \in BOOLEAN
    /\ lastError \in BOOLEAN
    /\ holder \in Callers \cup {"nobody"}
    /\ step \in {"free", "open", "listen", "load", "swap"}
    /\ loaded \in Configs \cup {Stopped}
    /\ reply \in {"none", "ok", "error"}
    /\ halted \in BOOLEAN

\* The process has just begun: nothing runs, whatever the file says.
ServiceInit ==
    /\ file \in Configs
    /\ running = Stopped
    /\ failed = FALSE
    /\ lastError = FALSE
    /\ holder = "nobody"
    /\ step = "free"
    /\ loaded = Stopped
    /\ reply = "none"
    /\ halted = TRUE

-----------------------------------------------------------------------------
(* The lock.  refresh_if_finished is the first thing its holder does.      *)

Alive == IF failed THEN Stopped ELSE running

Hold(by, next) ==
    /\ holder' = by
    /\ step' = next
    /\ reply' = IF by = "worker" THEN "none" ELSE reply

Release(by, answer) ==
    /\ holder' = "nobody"
    /\ step' = "free"
    /\ loaded' = Stopped
    /\ reply' = IF by = "worker" THEN answer ELSE reply

\* The error of a server that has ended is kept.
Refresh ==
    /\ step = "free"
    /\ running' = Alive
    /\ failed' = FALSE
    /\ lastError' = (lastError \/ failed)

\* finish_task: what still runs is told to shut down, and aborted when that
\* takes too long.
Finish(was) ==
    /\ running' = Stopped
    /\ failed' = FALSE
    /\ \/ lastError' = (lastError \/ failed)
       \/ was # Stopped /\ lastError' = TRUE

-----------------------------------------------------------------------------
(* The operations. *)

Start(by) ==
    /\ Refresh
    /\ halted' = FALSE
    /\ \/ Alive = Stopped /\ Hold(by, "open") /\ UNCHANGED loaded
       \/ Alive # Stopped /\ Release(by, "ok")
    /\ UNCHANGED file

Stop(by) ==
    /\ step = "free"
    /\ Finish(Alive)
    /\ halted' = TRUE
    /\ Release(by, "ok")
    /\ UNCHANGED file

Restart(by) ==
    /\ step = "free"
    /\ Finish(Alive)
    /\ halted' = FALSE
    /\ Hold(by, "open")
    /\ UNCHANGED <<file, loaded>>

\* A stopped proxy is started.
Reload(by) ==
    /\ Refresh
    /\ halted' = FALSE
    /\ Hold(by, IF Alive = Stopped THEN "open" ELSE "load")
    /\ UNCHANGED <<file, loaded>>

\* Mutant: whether the proxy runs is left to the reload.
ApplyStartsStopped(by) ==
    /\ Refresh
    /\ Hold(by, IF Alive = Stopped THEN "open" ELSE "load")
    /\ UNCHANGED <<file, halted, loaded>>

\* A stopped proxy stays stopped.
ApplySavedConfig(by) ==
    /\ Refresh
    /\ \/ Alive = Stopped /\ Release(by, "ok")
       \/ Alive # Stopped /\ Hold(by, "load") /\ UNCHANGED loaded
    /\ UNCHANGED <<file, halted>>

\* status, reload_behavior and the queries: they only notice that it ended.
Look == failed /\ Refresh /\ UNCHANGED <<file, holder, step, loaded, reply, halted>>

-----------------------------------------------------------------------------
(* What the holder of the lock does. *)

Open ==
    /\ step = "open"
    /\ loaded' = file
    /\ step' = "listen"
    /\ UNCHANGED <<file, running, failed, lastError, holder, reply, halted>>

Listen ==
    /\ step = "listen"
    /\ running' = loaded
    /\ failed' = FALSE
    /\ lastError' = FALSE
    /\ Release(holder, "ok")
    /\ UNCHANGED <<file, halted>>

\* Mutant: a reload never restarts.
LoadAlwaysSwaps ==
    /\ step = "load"
    /\ loaded' = [file EXCEPT !.addr = running.addr]
    /\ step' = "swap"
    /\ UNCHANGED <<file, running, failed, lastError, holder, reply, halted>>

\* A new address or body limit makes the reload a restart, which loads the
\* file again.
Load ==
    /\ step = "load"
    /\ \/ /\ file.addr = running.addr
          /\ loaded' = file
          /\ step' = "swap"
          /\ UNCHANGED <<running, failed, lastError>>
       \/ /\ file.addr # running.addr
          /\ Finish(running)
          /\ step' = "open"
          /\ UNCHANGED loaded
    /\ UNCHANGED <<file, holder, reply, halted>>

Swap ==
    /\ step = "swap"
    /\ running' = loaded
    /\ lastError' = FALSE
    /\ Release(holder, "ok")
    /\ UNCHANGED <<file, failed, halted>>

\* The file cannot be read, a client cannot be built, the address is taken.
Fail ==
    /\ step # "free"
    /\ lastError' = TRUE
    /\ Release(holder, "error")
    /\ UNCHANGED <<file, running, failed, halted>>

\* The server ends by itself: its task returns an error or panics.
ServerFails ==
    /\ MayEnd
    /\ running # Stopped
    /\ ~failed
    /\ failed' = TRUE
    /\ UNCHANGED <<file, running, lastError, holder, step, loaded, reply, halted>>

Interface(u) == Stop(u) \/ Reload(u)

Proceed == Open \/ Listen \/ Load \/ Swap \/ Fail

\* Nothing of the service survives the process.
ServiceDies ==
    /\ running' = Stopped
    /\ failed' = FALSE
    /\ lastError' = FALSE
    /\ holder' = "nobody"
    /\ step' = "free"
    /\ loaded' = Stopped
    /\ reply' = "none"
    /\ halted' = TRUE
=============================================================================
