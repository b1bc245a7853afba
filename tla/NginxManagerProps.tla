-------------------------- MODULE NginxManagerProps --------------------------
(***************************************************************************)
(* What a call of the Configurer promises about NGINX.                     *)
(***************************************************************************)
EXTENDS NginxManager

Steps == {"idle", "create", "write", "delete", "reload", "increment", "generate",
          "rename", "signal", "expect", "poll"} \union Outcomes

Versions == 0..MaxCalls

\* Every variable of the manager and of NGINX holds a value of its kind.
TypeOK ==
    /\ files \in [Names -> File]
    /\ versionFile \in Versions /\ configVersion \in Versions
    /\ pc \in [Callers -> Steps]
    /\ name \in [Callers -> Names \union {Absent}]
    /\ content \in [Callers -> Contents \union {Absent}]
    /\ seen \in [Callers -> Versions] /\ expected \in [Callers -> Versions]
    /\ retries \in [Callers -> 0..(MaxRetries - 1)]
    /\ signalled \in BOOLEAN
    /\ loading \in Versions \union {Absent}
    /\ running \in [version : Versions, files : [Names -> File]]
    /\ draining \subseteq Versions
    /\ missed \in BOOLEAN
    /\ calls \in 0..MaxCalls

(***************************************************************************)
(* The promise of WaitForCorrectVersion ("which ensures that a new worker  *)
(* process has been started for that config version"): when a call         *)
(* succeeds, NGINX runs what the caller wrote.                             *)
(***************************************************************************)
Returns(c, outcome) == pc[c] # outcome /\ pc'[c] = outcome

SuccessIsApplied ==
    [][\A c \in Callers : Returns(c, "ok") => running.files[name[c]] = content[c]]_vars

(***************************************************************************)
(* Nothing is forgotten: when all calls have returned and NGINX has seen   *)
(* every signal, it runs the files there are, unless they do not load, or  *)
(* what was tried last, a reload command or a load, failed for a reason of *)
(* its own.  So no signal is lost between two callers and one load, and a  *)
(* change whose own reload failed is applied with the next one.            *)
(***************************************************************************)
Returned(c) == pc[c] \in Outcomes \union {"idle"}

Quiet == (\A c \in Callers : Returned(c)) /\ ~signalled /\ loading = Absent

AppliedWhenQuiet == Quiet /\ Loads(files) /\ ~missed => running.files = files
==============================================================================
