------------------------------ MODULE Reconciler ------------------------------
(***************************************************************************)
(* What the controller promises, without informers, queue or workers: for  *)
(* each TCPServer there is a set of wanted contents of its file and the    *)
(* file there is.  A change of what is wanted makes the TCPServer pending, *)
(* only the file of a pending one is touched, and it stays pending until   *)
(* its file is a wanted one.                                               *)
(*                                                                         *)
(* Controller implements this as long as no deletion is learnt from a new  *)
(* list (ControllerProps.tla, proved in ControllerProofs.tla).             *)
(***************************************************************************)
CONSTANTS
    Keys,      \* the TCPServers
    Contents,  \* what a file may hold, or that it is absent
    Absent     \* there is no file

VARIABLES
    wanted,   \* the contents each file may rightly have
    files,    \* the contents it has
    pending   \* the TCPServers that are yet to be looked at (again)

vars == <<wanted, files, pending>>

Right(k) == files[k] \in wanted[k]

Init ==
    /\ files = [k \in Keys |-> Absent]
    /\ wanted \in [Keys -> SUBSET Contents]
    /\ pending \in SUBSET Keys
    /\ \A k \in Keys \ pending : Right(k)

Change ==
    /\ wanted' \in [Keys -> SUBSET Contents]
    /\ pending \subseteq pending' /\ pending' \subseteq Keys
    /\ \A k \in Keys \ pending' : wanted'[k] = wanted[k]
    /\ UNCHANGED files

Work(k) ==
    /\ k \in pending
    /\ \E c \in Contents : files' = [files EXCEPT ![k] = c]
    /\ UNCHANGED <<wanted, pending>>

Settle(k) ==
    /\ k \in pending
    /\ Right(k)
    /\ pending' = pending \ {k}
    /\ UNCHANGED <<wanted, files>>

\* Everything is forgotten and learnt anew.
Restart == Init'

Next == Change \/ Restart \/ \E k \in Keys : Work(k) \/ Settle(k)

Spec == Init /\ [][Next]_vars
==============================================================================
