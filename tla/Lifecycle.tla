------------------------------ MODULE Lifecycle ------------------------------
(***************************************************************************)
(* The life of the agent's process: main, the goroutine of                 *)
(* startSignalHandler, the one that waits for the nginx command, and NGINX.*)
(*                                                                         *)
(* The process ends with a status: Fatal for glog.Fatalf, Killed for a     *)
(* SIGTERM that nobody has asked to be notified of.  What the controller   *)
(* does between start and stop is in Controller.tla; here its workers may  *)
(* only bring the process down, by a file that cannot be written.          *)
(*                                                                         *)
(* main also makes the informers and hands them to NewController before it *)
(* runs them, through two factories (InformerFactory.tla), client-go's for *)
(* the core types and the generated one for TCPServers.                    *)
(***************************************************************************)
EXTENDS InformerFactory, Sequences

Fatal  == 255
Killed == 143
Alive  == -1

VARIABLES
    main,       \* where main is
    handler,    \* where startSignalHandler is
    nginx,      \* the nginx command
    failed,     \* it exited with an error
    nginxDone,  \* the channel from its waiting goroutine, of capacity 1
    term,       \* a SIGTERM in the handler's channel
    told,       \* SIGTERM was sent to the process
    stopped,    \* stopCh is closed
    exitStatus, \* the handler's
    process,    \* Alive, or the status the process has ended with
    factories,  \* the two informer factories
    held        \* what the controller uses: its listers, the informers whose
                \* HasSynced it waits for, those its handlers are added to

others == <<handler, nginx, failed, nginxDone, term, told, stopped, exitStatus, process>>
built  == <<factories, held>>
vars   == <<main, others, built>>

CoreTypes == {"services", "endpoints", "pods"}
FactoryOf(type) == IF type \in CoreTypes THEN "kube" ELSE "conf"

Init ==
    /\ main = "start" /\ handler = "none"
    /\ nginx = "off" /\ failed = FALSE /\ nginxDone = "empty"
    /\ term = FALSE /\ told = FALSE
    /\ stopped = FALSE /\ exitStatus = 0
    /\ process = Alive
    /\ factories = [kube |-> NewSharedInformerFactory(CoreTypes),
                    conf |-> NewSharedInformerFactory({"tcpservers"})]
    /\ held = <<>>

Exit(status) ==
    /\ process = Alive /\ process' = status
    /\ UNCHANGED <<main, handler, nginx, failed, nginxDone, term, told, stopped, exitStatus,
                   built>>

(***************************************************************************)
(* main.                                                                   *)
(***************************************************************************)
Main(from, to) == process = Alive /\ main = from /\ main' = to

StartNginx ==
    \/ /\ Main("start", "verify")
       /\ nginx' = "up"
       /\ UNCHANGED <<handler, failed, nginxDone, term, told, stopped, exitStatus, process, built>>
    \/ main = "start" /\ Exit(Fatal)

NginxVerified ==
    /\ nginx = "up"
    /\ Main("verify", "spawn")
    /\ UNCHANGED <<others, built>>

NginxNotVerified == main = "verify" /\ Exit(Fatal)

SpawnHandler ==
    /\ Main("spawn", "build")
    /\ handler' = "notify"
    /\ UNCHANGED <<nginx, failed, nginxDone, term, told, stopped, exitStatus, process, built>>

TemplateUnusable == main = "build" /\ held = <<>> /\ Exit(Fatal)

\* NewController's requests, in its order: what for, and which type.
Requests ==
    << [use |-> "list",   type |-> "services"],   [use |-> "list",   type |-> "endpoints"],
       [use |-> "await",  type |-> "endpoints"],  [use |-> "list",   type |-> "pods"],
       [use |-> "list",   type |-> "tcpservers"], [use |-> "await",  type |-> "tcpservers"],
       [use |-> "handle", type |-> "tcpservers"], [use |-> "handle", type |-> "endpoints"] >>

\* The next request is granted by the factory of its type.
RequestInformer ==
    /\ Len(held) < Len(Requests)
    /\ Main("build", IF Len(held) + 1 = Len(Requests) THEN "startKube" ELSE "build")
    /\ LET r == Requests[Len(held) + 1]
           f == InformerFor(factories[FactoryOf(r.type)], r.type)
       IN  /\ factories' = [factories EXCEPT ![FactoryOf(r.type)] = f]
           /\ held' = Append(held, [use |-> r.use,
                                    informer |-> [type |-> r.type, n |-> f.informers[r.type]]])
    /\ UNCHANGED others

StartFactory(f, from, to) ==
    /\ Main(from, to)
    /\ factories' = [factories EXCEPT ![f] = Start(factories[f])]
    /\ UNCHANGED <<others, held>>

StartFactories ==
    \/ StartFactory("kube", "startKube", "startConf")
    \/ StartFactory("conf", "startConf", "sync")

\* Run: WaitForCacheSync, then the workers until stopCh is closed.  An informer
\* that does not run never has its cache synced.
Running == factories["kube"].running \union factories["conf"].running

CachesSynced ==
    /\ \A i \in DOMAIN held : held[i].use = "await" => held[i].informer \in Running
    /\ Main("sync", "run")
    /\ UNCHANGED <<others, built>>

SyncStopped == main = "sync" /\ stopped /\ Exit(Fatal)

RunReturns ==
    /\ stopped
    /\ Main("run", "return")
    /\ UNCHANGED <<others, built>>

MainReturns == main = "return" /\ Exit(0)

WorkerFails == main = "run" /\ Exit(Fatal)

(***************************************************************************)
(* startSignalHandler.                                                     *)
(***************************************************************************)
Handler(from, to) == process = Alive /\ handler = from /\ handler' = to

Notify ==
    /\ Handler("notify", "select")
    /\ UNCHANGED <<main, nginx, failed, nginxDone, term, told, stopped, exitStatus, process,
                   built>>

SelectNginxError ==
    /\ nginxDone = "error"
    /\ Handler("select", "close")
    /\ nginxDone' = "received"
    /\ exitStatus' = 1
    /\ UNCHANGED <<main, nginx, failed, term, told, stopped, process, built>>

SelectWithNginxStatus ==
    /\ nginxDone \in {"ok", "error"}
    /\ Handler("select", "close")
    /\ nginxDone' = "received"
    /\ exitStatus' = IF nginxDone = "error" THEN Killed ELSE 0
    /\ UNCHANGED <<main, nginx, failed, term, told, stopped, process, built>>

SelectNginxDone ==
    /\ nginxDone \in {"ok", "error"}
    /\ Handler("select", "close")
    /\ nginxDone' = "received"
    /\ exitStatus' = IF nginxDone = "error" THEN 1 ELSE 0
    /\ UNCHANGED <<main, nginx, failed, term, told, stopped, process, built>>

SelectSignal ==
    /\ term
    /\ Handler("select", "close")
    /\ term' = FALSE
    /\ UNCHANGED <<main, nginx, failed, nginxDone, told, stopped, exitStatus, process,
                   built>>

CloseAfterNginx ==
    /\ \/ /\ Handler("close", IF nginxDone = "received" THEN "exit" ELSE "quit")
          /\ UNCHANGED stopped
       \/ Handler("exit", "exit") /\ stopped' = TRUE
    /\ UNCHANGED <<main, nginx, failed, nginxDone, term, told, exitStatus, process, built>>

CloseStop ==
    /\ Handler("close", IF nginxDone = "received" THEN "exit" ELSE "quit")
    /\ stopped' = TRUE
    /\ UNCHANGED <<main, nginx, failed, nginxDone, term, told, exitStatus, process, built>>

\* nginx -s quit fails when there is no NGINX to signal, and with NGINX up when
\* the configuration does not load, or the shell is not started.
Quit ==
    \/ /\ nginx = "up"
       /\ Handler("quit", "await")
       /\ nginx' = "quitting"
       /\ UNCHANGED <<main, failed, nginxDone, term, told, stopped, exitStatus, process,
                   built>>
    \/ handler = "quit" /\ Exit(Fatal)

AwaitNginx ==
    /\ nginxDone \in {"ok", "error"}
    /\ Handler("await", "exit")
    /\ nginxDone' = "received"
    /\ UNCHANGED <<main, nginx, failed, term, told, stopped, exitStatus, process,
                   built>>

OsExit == handler = "exit" /\ Exit(exitStatus)

(***************************************************************************)
(* NGINX, the goroutine that waits for it, and the kubelet's SIGTERM.      *)
(***************************************************************************)
NginxExits ==
    /\ process = Alive
    /\ nginx \in {"up", "quitting"}
    /\ nginx' = "exited"
    /\ failed' \in BOOLEAN
    /\ UNCHANGED <<main, handler, nginxDone, term, told, stopped, exitStatus, process,
                   built>>

Wait ==
    /\ process = Alive
    /\ nginx = "exited" /\ nginxDone = "empty"
    /\ nginxDone' = IF failed THEN "error" ELSE "ok"
    /\ UNCHANGED <<main, handler, nginx, failed, term, told, stopped, exitStatus, process,
                   built>>

Sigterm ==
    /\ process = Alive
    /\ ~told
    /\ told' = TRUE
    /\ IF handler \in {"none", "notify"}
       THEN process' = Killed /\ UNCHANGED term
       ELSE term' = TRUE /\ UNCHANGED process
    /\ UNCHANGED <<main, handler, nginx, failed, nginxDone, stopped, exitStatus, built>>

MainStep ==
    \/ StartNginx \/ NginxVerified \/ NginxNotVerified \/ SpawnHandler
    \/ RequestInformer \/ StartFactories
    \/ SyncStopped \/ RunReturns \/ MainReturns

HandlerStep ==
    \/ Notify \/ SelectNginxDone \/ SelectSignal
    \/ CloseStop \/ Quit \/ AwaitNginx \/ OsExit

Next ==
    \/ MainStep \/ HandlerStep
    \/ TemplateUnusable \/ CachesSynced \/ WorkerFails
    \/ NginxExits \/ Wait \/ Sigterm

Spec == Init /\ [][Next]_vars

(***************************************************************************)
(* Fairness: the process's own goroutines are scheduled.  Nothing is       *)
(* assumed of NGINX (a graceful quit waits for its connections), of the    *)
(* API server (the caches may never sync) or of the kubelet.               *)
(***************************************************************************)
FairSpec ==
    /\ Spec
    /\ WF_vars(MainStep)
    /\ WF_vars(HandlerStep)
    /\ WF_vars(Wait)
==============================================================================
