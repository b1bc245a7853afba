---------------------------- MODULE LifecycleProps ----------------------------
(***************************************************************************)
(* What the process promises to whoever starts and stops it.               *)
(***************************************************************************)
EXTENDS Lifecycle

\* Every variable of the process holds a value of its kind.
TypeOK ==
    /\ main \in {"start", "verify", "spawn", "build", "startKube", "startConf",
                "sync", "run", "return"}
    /\ handler \in {"none", "notify", "select", "close", "quit", "await", "exit"}
    /\ nginx \in {"off", "up", "quitting", "exited"}
    /\ nginxDone \in {"empty", "ok", "error", "received"}
    /\ failed \in BOOLEAN /\ term \in BOOLEAN /\ told \in BOOLEAN /\ stopped \in BOOLEAN
    /\ exitStatus \in {0, 1}
    /\ process \in {Alive, 0, 1, Fatal, Killed}
    /\ DOMAIN factories = {"kube", "conf"}
    /\ Len(held) <= Len(Requests)

(***************************************************************************)
(* The agent does not outlive its purpose: once it is told to terminate,   *)
(* or NGINX is gone, the process ends, wherever main was, even if the      *)
(* caches never sync or NGINX never finishes its graceful quit.            *)
(***************************************************************************)
Terminates == told \/ nginx = "exited" ~> process # Alive

(***************************************************************************)
(* The controller is stopped before NGINX is told to quit, and never       *)
(* without a reason: SIGTERM or the end of NGINX.                          *)
(***************************************************************************)
StopHasReason ==
    /\ nginx = "quitting" => stopped
    /\ stopped => told \/ nginx = "exited"

(***************************************************************************)
(* "Exiting with a status" (startSignalHandler): the end of NGINX with an  *)
(* error, which nobody asked for, is not reported as a success.            *)
(***************************************************************************)
FailureIsReported == process = 0 => told \/ ~failed

(***************************************************************************)
(* What the controller lists from, waits for and has its handlers on are   *)
(* the informers that run, one for each type ("Always prefer using an      *)
(* informer factory to get a shared informer"): a handler on another       *)
(* informer than the lister's would enqueue keys before or long after the  *)
(* lister sees them, and one that never runs leaves the agent waiting.     *)
(***************************************************************************)
SharedInformersRun ==
    main \in {"sync", "run"} =>
        /\ \A i \in DOMAIN held : held[i].informer \in Running
        /\ \A a, b \in Running : a.type = b.type => a = b
==============================================================================
