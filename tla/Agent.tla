-------------------------------- MODULE Agent --------------------------------
(***************************************************************************)
(* The whole way from a declared TCPServer to what NGINX serves: the       *)
(* controller of Controller.tla with the reload of its workers opened up   *)
(* into the manager and NGINX of NginxManager.tla.                         *)
(*                                                                         *)
(* The callers of the manager are the controller's workers, a call is for  *)
(* the worker's key with the configuration it has rendered, and the files  *)
(* are the same files.  Of the manager's actions the reload and NGINX's    *)
(* own are used; the writing and the removal of a file are the             *)
(* controller's.                                                           *)
(***************************************************************************)
EXTENDS Controller

CONSTANTS
    MaxRetries,  \* see NginxManager.tla
    Faults,
    MaxCalls     \* bound: calls of the Configurer

ASSUME RetriesAssumption == MaxRetries \in Nat \ {0}
ASSUME CallsAssumption == MaxCalls \in Nat
ASSUME NoConfigAssumption == Absent \notin AllConfigs /\ Absent \notin Nat

VARIABLES
    versionFile, configVersion,
    call,                     \* each worker's step in Reload, or "idle"
    seen, expected, retries,
    signalled, loading, running, draining, missed,
    calls

ListenPortOf(config) == config.listenPort

Manager ==
    INSTANCE NginxManager WITH
        Callers <- Workers, Names <- Keys,
        Contents <- AllConfigs, ListenPort <- ListenPortOf,
        pc <- call, name <- key, content <- cfg

reloading == <<versionFile, configVersion, call, seen, expected, retries>>
nginx     == <<signalled, loading, running, draining, missed>>
manager   == <<reloading, nginx, calls>>
agentVars == <<vars, manager>>

\* The controller's variables that the manager does not know.
own == <<api, caches, events, run, queue, pc, tcps, svc, tcpServersEx, disturbances>>

AgentInit == Init /\ Manager!Init

\* With the process goes NGINX, and the version file of its container.
AgentRestart ==
    /\ Restart
    /\ versionFile' = 0 /\ configVersion' = 0
    /\ call' = [w \in Workers |-> "idle"]
    /\ seen' = [w \in Workers |-> 0] /\ expected' = [w \in Workers |-> 0]
    /\ retries' = [w \in Workers |-> 0]
    /\ signalled' = FALSE /\ loading' = Absent
    /\ running' = [version |-> 0, files |-> Manager!NoFiles]
    /\ draining' = {} /\ missed' = FALSE
    /\ calls' = 0

Alone(step) == step /\ UNCHANGED manager

\* A look-up that ends in a configuration, or in none, begins the call.
Look(w) ==
    /\ ReadTCPServer(w) \/ ReadService(w) \/ ReadEndpoints(w)
    /\ calls' = IF pc'[w] \in {"create", "remove"} THEN calls + 1 ELSE calls
    /\ calls' <= MaxCalls
    /\ UNCHANGED <<reloading, nginx>>

EditFile(w) == Alone(Create(w) \/ Write(w) \/ Remove(w))

CallReloadUnlessRemoved(w) ==
    /\ Store(w) \/ Delete(w)
    /\ call' = [call EXCEPT ![w] = IF pc[w] = "delete" THEN "ok" ELSE "reload"]
    /\ UNCHANGED <<versionFile, configVersion, seen, expected, retries, nginx, calls>>

CallReload(w) ==
    /\ Store(w) \/ Delete(w)
    /\ call' = [call EXCEPT ![w] = "reload"]
    /\ UNCHANGED <<versionFile, configVersion, seen, expected, retries, nginx, calls>>

Reload(w) == Manager!Reload(w) /\ UNCHANGED own

\* Reload has returned, and the worker is done with its key whatever came of it.
ReloadReturned(w) == Finish(w) /\ Manager!Finish(w)

Work(w) == Look(w) \/ EditFile(w) \/ CallReload(w) \/ Reload(w) \/ ReloadReturned(w)

NginxLoads == (Manager!BeginLoad \/ Manager!EndLoad) /\ UNCHANGED own

OldWorkersQuit == Manager!OldWorkersQuit /\ UNCHANGED own

AgentNext ==
    \/ AgentRestart
    \/ Alone(Outside)
    \/ \E w \in Workers : Alone(Get(w)) \/ Work(w) \/ Alone(ListerFails(w))
    \/ NginxLoads \/ OldWorkersQuit

AgentSpec == AgentInit /\ [][AgentNext]_agentVars

(***************************************************************************)
(* Fairness: as long as there is something to do for the informers, the    *)
(* handlers, the rate limiter, the workers or a load that NGINX was        *)
(* signalled to do, one of them goes on, and resync periods elapse.  That  *)
(* is less than each of them going on, which their goroutines would do.    *)
(***************************************************************************)
InformersDeliver ==
    \/ \E k \in Keys : TCPServerDelta(k)
    \/ \E s \in ServiceKeys : ServiceDelta(s) \/ EndpointsDelta(s)
    \/ \E p \in Pods : PodDelta(p)
    \/ TCPServersSynced \/ ServicesSynced \/ EndpointsSynced

Resync ==
    \/ \E k \in Keys : TCPServerResync(k)
    \/ \E s \in ServiceKeys : EndpointsResync(s)

Proceed ==
    \/ Alone(InformersDeliver)
    \/ Alone(HandleTCPServerEvent \/ HandleEndpointsEvent)
    \/ Alone(StartWorkers)
    \/ Alone(\E k \in Keys : RateLimitElapsed(k))
    \/ \E w \in Workers : Alone(Get(w)) \/ Work(w)
    \/ NginxLoads

FairAgent == AgentSpec /\ WF_agentVars(Proceed) /\ WF_agentVars(Alone(Resync))
==============================================================================
