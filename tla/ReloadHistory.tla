---------------------------- MODULE ReloadHistory ----------------------------
(***************************************************************************)
(* What a call promises while other callers reload side by side.  Whether  *)
(* it is kept depends on what has happened before, which two history       *)
(* variables record; they hold up no step of the manager.                  *)
(***************************************************************************)
EXTENDS NginxManagerProps

VARIABLES
    raced,    \* two callers have incremented the version at the same time
    touched   \* for each call, the files that others have changed since it began

history     == <<raced, touched>>
historyVars == <<vars, history>>

\* Two callers are between the read and the write of configVersion++.
Racing == \E c, d \in Callers : c # d /\ pc[c] = "increment" /\ pc[d] = "increment"

HistoryInit == Init /\ raced = FALSE /\ touched = [c \in Callers |-> {}]

Recorded ==
    /\ raced' = (raced \/ Racing')
    /\ touched' = [c \in Callers |->
                     IF Returned(c)' THEN {}
                     ELSE touched[c] \union {n \in Names : n # name[c] /\ files'[n] # files[n]}]

HistorySpec == HistoryInit /\ [][Next /\ Recorded]_historyVars

(***************************************************************************)
(* As long as no two increments have raced, a call that succeeds has       *)
(* brought its change to NGINX, whatever the other callers do: write and   *)
(* remove files, overwrite the version file with an older or a newer one,  *)
(* and share a signal or a load.  So it is the unlocked increment, and     *)
(* nothing else that the callers share, that breaks SuccessIsApplied.      *)
(***************************************************************************)
SuccessUnlessRaced ==
    [][\A c \in Callers : Returns(c, "ok") /\ ~raced
            => running.files[name[c]] = content[c]]_historyVars

(***************************************************************************)
(* So far the callers have all that Reloader.tla promises: what NGINX runs *)
(* is replaced as a whole by files that load together, and a success means *)
(* that it runs every file that has not been changed by others since the   *)
(* call began.                                                             *)
(***************************************************************************)
Promise ==
    INSTANCE Reloader WITH
        Loadable <- {f \in [Names -> File] : Loads(f)},
        running <- running.files,
        phase <- [c \in Callers |-> IF Returned(c) THEN pc[c] ELSE "busy"]

ImplementsReloader == Promise!Init /\ [][raced' \/ Promise!Next]_(Promise!vars)
==============================================================================
