------------------------------- MODULE Reloader -------------------------------
(***************************************************************************)
(* What the Configurer and its manager promise to any number of callers,   *)
(* each with a file of its own: a change edits that file, NGINX takes over *)
(* all the files at once or none of them, and a call that succeeds returns *)
(* when NGINX runs the file as the caller left it, and every other file as *)
(* well that nobody has changed since the call began, those that earlier   *)
(* calls failed to apply included.  After an error NGINX may take the      *)
(* files over later.                                                       *)
(*                                                                         *)
(* NginxManager implements this until two of its increments of the config  *)
(* version race (ReloadHistory.tla).                                       *)
(***************************************************************************)
CONSTANTS
    Callers,
    Names,     \* the files
    File,      \* what a file may hold, or that it is absent
    Loadable,  \* the combinations of files that NGINX accepts
    Absent     \* no file, no value

VARIABLES
    files,     \* the files there are
    running,   \* the files NGINX has loaded
    phase,     \* of each caller: "idle", "busy", or the outcome: "ok", "error"
    name,      \* the file of its call
    touched    \* what other calls have changed since its call began

vars == <<files, running, phase, name, touched>>

Init ==
    /\ files = [n \in Names |-> Absent] /\ running = files
    /\ phase = [c \in Callers |-> "idle"]
    /\ name = [c \in Callers |-> Absent]
    /\ touched = [c \in Callers |-> {}]

Begin(c) ==
    /\ phase[c] = "idle" /\ phase' = [phase EXCEPT ![c] = "busy"]
    /\ \E n \in Names :
        /\ \A d \in Callers : phase[d] # "idle" => name[d] # n
        /\ name' = [name EXCEPT ![c] = n]
    /\ UNCHANGED <<files, running, touched>>

Edit(c) ==
    /\ phase[c] = "busy"
    /\ \E x \in File : files' = [files EXCEPT ![name[c]] = x]
    /\ touched' = [d \in Callers |-> IF d # c /\ phase[d] = "busy"
                                     THEN touched[d] \union {name[c]} ELSE touched[d]]
    /\ UNCHANGED <<running, phase, name>>

Load ==
    /\ files \in Loadable
    /\ running' = files
    /\ UNCHANGED <<files, phase, name, touched>>

Return(c, outcome) ==
    /\ phase[c] = "busy" /\ phase' = [phase EXCEPT ![c] = outcome]
    /\ touched' = [touched EXCEPT ![c] = {}]
    /\ UNCHANGED <<files, running, name>>

Succeed(c) ==
    /\ \A n \in Names \ touched[c] : running[n] = files[n]
    /\ Return(c, "ok")

Fail(c) == Return(c, "error")

Finish(c) ==
    /\ phase[c] \in {"ok", "error"} /\ phase' = [phase EXCEPT ![c] = "idle"]
    /\ name' = [name EXCEPT ![c] = Absent]
    /\ UNCHANGED <<files, running, touched>>

Next ==
    \/ \E c \in Callers : Begin(c) \/ Edit(c) \/ Succeed(c) \/ Fail(c) \/ Finish(c)
    \/ Load

Spec == Init /\ [][Next]_vars
==============================================================================
