------------------------------ MODULE Controller ------------------------------
(***************************************************************************)
(* The controller of internal/k8s/controller.go: informers feed event      *)
(* handlers, the handlers put TCPServer keys on a work queue, and Run's    *)
(* workers take the keys and bring the configuration files in line with    *)
(* what the informer caches say, through the Configurer of                 *)
(* internal/configuration.                                                 *)
(*                                                                         *)
(* Everything a worker shares is read and written in a step of its own:    *)
(* the three lister look-ups, the truncation and the writing of a file,    *)
(* the Configurer's map.  Reload is one step that returns, with or without *)
(* an error; NginxManager.tla opens it up.                                 *)
(*                                                                         *)
(* The API server, the informers and the work queue are client-go, which   *)
(* is not part of the repository; they are modelled from how it uses them. *)
(***************************************************************************)
EXTENDS Rendering, FiniteSets

CONSTANTS
    Keys,            \* TCPServers, [ns, name]
    ServiceKeys,     \* services and their endpoints, [ns, name]
    TCPServerSpecs,  \* the specs a TCPServer may have, valid or not
    ServiceSpecs,    \* the specs a service may have
    EndpointsSpecs,  \* the subsets the endpoints of a service may have
    Pods,            \* the pods there may be, of all namespaces
    Workers,         \* the workers Run starts
    Absent,          \* no object, no file, no value
    Truncated,       \* a file that was created and not written yet
    Churn,           \* the kinds of disturbance that happen
    MaxDisturbances  \* bound: how many of them happen

Disturbances ==
    {"tcpserver", "service", "endpoints", "pod",  \* objects change in the API server
     "relist",      \* a watch breaks: a deletion is learnt from a new list
     "resync",      \* the informers' periodic resync
     "listerError", \* a lister returns an error other than NotFound
     "restart"}     \* the agent's container dies and is started again

ServiceKey(k, t) == [ns |-> k.ns, name |-> t.serviceName]

MaybeTCPServer == TCPServerSpecs \union {Absent}
MaybeService   == ServiceSpecs \union {Absent}
MaybeEndpoints == EndpointsSpecs \union {Absent}

ASSUME ChurnAssumption == Churn \subseteq Disturbances
ASSUME BoundAssumption == MaxDisturbances \in Nat
ASSUME AbsentAssumption ==
    /\ Absent \notin TCPServerSpecs
    /\ Absent \notin ServiceSpecs
    /\ Absent \notin EndpointsSpecs
ASSUME ServiceKeyAssumption ==
    \A k \in Keys, t \in TCPServerSpecs :
        ValidTCPServer(t) => ServiceKey(k, t) \in ServiceKeys

VARIABLES
    tcpApi, svcApi, eptApi, podApi,          \* the API server's objects
    tcpCache, svcCache, eptCache, podCache,  \* the informers' caches
    tcpEvents, eptEvents,        \* notifications the handlers have not seen
    synced,                      \* the informers whose first list is cached
    started,                     \* Run has started its workers
    dirty, processing, waiting,  \* the work queue and its delayed keys
    pc, key,                     \* each worker's next step and its key
    tcps, svc, cfg,              \* what each worker has read and rendered
    files,                       \* the files in conf.d/tcp
    tcpServersEx,                \* the names the Configurer remembers
    disturbances                 \* how many disturbances have happened

api    == <<tcpApi, svcApi, eptApi, podApi>>
caches == <<tcpCache, svcCache, eptCache, podCache>>
events == <<tcpEvents, eptEvents>>
queue  == <<dirty, processing, waiting>>
worker == <<pc, key, tcps, svc, cfg>>
conf   == <<files, tcpServersEx>>
run    == <<synced, started>>
vars   == <<api, caches, events, run, queue, worker, conf, disturbances>>

(***************************************************************************)
(* What a worker renders for key k from TCPServer t, service s, endpoints  *)
(* e and the pods it finds: a missing service hides the endpoints, and     *)
(* missing endpoints are empty ones.                                       *)
(***************************************************************************)
ConfigsFor(k, t, s, e, pods) ==
    IF s = Absent
    THEN Configs(k, t, EmptyService, EmptyEndpoints, pods)
    ELSE Configs(k, t, s, IF e = Absent THEN EmptyEndpoints ELSE e, pods)

AllConfigs ==
    UNION {ConfigsFor(k, t, s, e, pods) :
        k \in Keys, t \in TCPServerSpecs, s \in MaybeService, e \in MaybeEndpoints,
        pods \in SUBSET Pods}

ASSUME TruncatedAssumption == Truncated # Absent /\ Truncated \notin AllConfigs

Served(t) == t # Absent /\ ValidTCPServer(t)

(***************************************************************************)
(* The start of the agent: empty caches, an empty queue, and a container   *)
(* whose conf.d/tcp is the image's empty directory.  Unless services, or   *)
(* pods, are disturbed, they are taken to be cached before anything else   *)
(* happens: Run waits for neither.                                         *)
(***************************************************************************)
NoObject(ks) == [k \in ks |-> Absent]
NoValue      == [w \in Workers |-> Absent]
AllIdle      == [w \in Workers |-> "get"]

FirstServices == IF "service" \in Churn THEN NoObject(ServiceKeys) ELSE svcApi
FirstPods     == IF "pod" \in Churn THEN {} ELSE podApi
FirstSynced   == IF "service" \in Churn THEN {} ELSE {"services"}

Init ==
    /\ tcpApi \in [Keys -> MaybeTCPServer]
    /\ svcApi \in [ServiceKeys -> MaybeService]
    /\ eptApi \in [ServiceKeys -> MaybeEndpoints]
    /\ podApi \in SUBSET Pods
    /\ tcpCache = NoObject(Keys)
    /\ svcCache = FirstServices
    /\ eptCache = NoObject(ServiceKeys)
    /\ podCache = FirstPods
    /\ tcpEvents = <<>> /\ eptEvents = <<>>
    /\ synced = FirstSynced /\ started = FALSE
    /\ dirty = {} /\ processing = {} /\ waiting = {}
    /\ pc = AllIdle /\ key = NoValue
    /\ tcps = NoValue /\ svc = NoValue /\ cfg = NoValue
    /\ files = NoObject(Keys) /\ tcpServersEx = {}
    /\ disturbances = 0

Disturb(kind) ==
    /\ kind \in Churn
    /\ disturbances < MaxDisturbances
    /\ disturbances' = disturbances + 1

(***************************************************************************)
(* The process dies (glog.Fatalf, NGINX exits, the node kills it) and the  *)
(* kubelet starts the container again, with a fresh file system.           *)
(***************************************************************************)
Restart ==
    /\ Disturb("restart")
    /\ tcpCache' = NoObject(Keys)
    /\ svcCache' = FirstServices
    /\ eptCache' = NoObject(ServiceKeys)
    /\ podCache' = FirstPods
    /\ tcpEvents' = <<>> /\ eptEvents' = <<>>
    /\ synced' = FirstSynced /\ started' = FALSE
    /\ dirty' = {} /\ processing' = {} /\ waiting' = {}
    /\ pc' = AllIdle /\ key' = NoValue
    /\ tcps' = NoValue /\ svc' = NoValue /\ cfg' = NoValue
    /\ files' = NoObject(Keys) /\ tcpServersEx' = {}
    /\ UNCHANGED api

(***************************************************************************)
(* The API server: objects are created, changed and deleted.               *)
(***************************************************************************)
ChangeTCPServer(k) ==
    /\ Disturb("tcpserver")
    /\ \E t \in MaybeTCPServer \ {tcpApi[k]} : tcpApi' = [tcpApi EXCEPT ![k] = t]
    /\ UNCHANGED <<svcApi, eptApi, podApi, caches, events, run, queue, worker, conf>>

ChangeService(s) ==
    /\ Disturb("service")
    /\ \E v \in MaybeService \ {svcApi[s]} : svcApi' = [svcApi EXCEPT ![s] = v]
    /\ UNCHANGED <<tcpApi, eptApi, podApi, caches, events, run, queue, worker, conf>>

ChangeEndpoints(s) ==
    /\ Disturb("endpoints")
    /\ \E e \in MaybeEndpoints \ {eptApi[s]} : eptApi' = [eptApi EXCEPT ![s] = e]
    /\ UNCHANGED <<tcpApi, svcApi, podApi, caches, events, run, queue, worker, conf>>

ChangePod(p) ==
    /\ Disturb("pod")
    /\ podApi' = IF p \in podApi THEN podApi \ {p} ELSE podApi \union {p}
    /\ UNCHANGED <<tcpApi, svcApi, eptApi, caches, events, run, queue, worker, conf>>

(***************************************************************************)
(* The informers: each brings its cache closer to the API server, object   *)
(* by object, and notifies its handlers in the order of its changes.  The  *)
(* service informer has no handler, nor has the pod informer.  A deletion  *)
(* learnt from a new list is notified with a tombstone                     *)
(* (DeletedFinalStateUnknown) in the place of the object.                  *)
(***************************************************************************)
TCPServerDelta(k) ==
    /\ tcpCache[k] # tcpApi[k]
    /\ tcpCache' = [tcpCache EXCEPT ![k] = tcpApi[k]]
    /\ \E tombstone \in BOOLEAN :
        /\ tombstone => "relist" \in Churn /\ tcpApi[k] = Absent
        /\ tcpEvents' = Append(tcpEvents, [key |-> k, old |-> tcpCache[k],
                                           new |-> tcpApi[k], tombstone |-> tombstone])
    /\ UNCHANGED <<api, svcCache, eptCache, podCache, eptEvents, run, queue, worker,
                   conf, disturbances>>

ServiceDelta(s) ==
    /\ svcCache[s] # svcApi[s]
    /\ svcCache' = [svcCache EXCEPT ![s] = svcApi[s]]
    /\ UNCHANGED <<api, tcpCache, eptCache, podCache, events, run, queue, worker, conf,
                   disturbances>>

PodDelta(p) ==
    /\ p \in podApi <=> p \notin podCache
    /\ podCache' = IF p \in podCache THEN podCache \ {p} ELSE podCache \union {p}
    /\ UNCHANGED <<api, tcpCache, svcCache, eptCache, events, run, queue, worker, conf,
                   disturbances>>

EndpointsDelta(s) ==
    /\ eptCache[s] # eptApi[s]
    /\ eptCache' = [eptCache EXCEPT ![s] = eptApi[s]]
    /\ eptEvents' = Append(eptEvents, [service |-> s, old |-> eptCache[s],
                                       new |-> eptApi[s]])
    /\ UNCHANGED <<api, tcpCache, svcCache, podCache, tcpEvents, run, queue, worker,
                   conf, disturbances>>

\* A resync notifies an update from each cached object to itself.
TCPServerResync(k) ==
    /\ "resync" \in Churn
    /\ tcpCache[k] # Absent /\ tcpEvents = <<>>
    /\ tcpEvents' = << [key |-> k, old |-> tcpCache[k], new |-> tcpCache[k],
                        tombstone |-> FALSE] >>
    /\ UNCHANGED <<api, caches, eptEvents, run, queue, worker, conf, disturbances>>

EndpointsResync(s) ==
    /\ "resync" \in Churn
    /\ eptCache[s] # Absent /\ eptEvents = <<>>
    /\ eptEvents' = << [service |-> s, old |-> eptCache[s], new |-> eptCache[s]] >>
    /\ UNCHANGED <<api, caches, tcpEvents, run, queue, worker, conf, disturbances>>

HasSynced(informer, upToDate) ==
    /\ informer \notin synced
    /\ upToDate
    /\ synced' = synced \union {informer}
    /\ UNCHANGED <<api, caches, events, started, queue, worker, conf, disturbances>>

TCPServersSynced == HasSynced("tcpservers", tcpCache = tcpApi)
ServicesSynced   == HasSynced("services", svcCache = svcApi)
EndpointsSynced  == HasSynced("endpoints", eptCache = eptApi)

(***************************************************************************)
(* The work queue.  A key is queued when it is dirty and not in process,   *)
(* so a key added while a worker has it is queued again when that worker   *)
(* is done.  The order of the queue is left out.                           *)
(***************************************************************************)
Queued == dirty \ processing

Add(ks) == dirty' = dirty \union ks

Done(k) == processing' = processing \ {k}

RateLimitElapsed(k) ==
    /\ k \in waiting
    /\ waiting' = waiting \ {k}
    /\ Add({k})
    /\ UNCHANGED <<api, caches, events, run, processing, worker, conf, disturbances>>

(***************************************************************************)
(* The event handlers.  A deleted TCPServer is enqueued under the key of   *)
(* the object notified, and a tombstone has none.                          *)
(***************************************************************************)
EnqueuedUnlessDeleted(e) ==
    IF e.tombstone \/ e.old = e.new \/ e.new = Absent THEN {} ELSE {e.key}

EnqueuedUnlessUpdated(e) ==
    IF e.tombstone \/ (e.old # Absent /\ e.new # Absent) THEN {} ELSE {e.key}

EnqueuedWithoutCheck(e) ==
    IF e.old = e.new THEN {} ELSE {IF e.tombstone THEN Absent ELSE e.key}

EnqueuedBy(e) == IF e.tombstone \/ e.old = e.new THEN {} ELSE {e.key}

\* What the lister finds in a namespace of the cache.
ListedTCPServers(ns) == {k \in Keys : k.ns = ns /\ tcpCache[k] # Absent}

OneTCPServerForEndpoints(s) ==
    LET named == {k \in ListedTCPServers(s.ns) : tcpCache[k].serviceName = s.name}
    IN  IF named = {} THEN {} ELSE {CHOOSE k \in named : TRUE}

TCPServersForEndpoints(s) ==
    {k \in ListedTCPServers(s.ns) : tcpCache[k].serviceName = s.name}

HandleTCPServerEvent ==
    /\ tcpEvents # <<>>
    /\ tcpEvents' = Tail(tcpEvents)
    /\ Add(EnqueuedBy(Head(tcpEvents)))
    /\ UNCHANGED <<api, caches, eptEvents, run, processing, waiting, worker, conf,
                   disturbances>>

HandleEndpointsEvent ==
    /\ eptEvents # <<>>
    /\ eptEvents' = Tail(eptEvents)
    /\ Add(IF Head(eptEvents).old = Head(eptEvents).new THEN {}
           ELSE TCPServersForEndpoints(Head(eptEvents).service))
    /\ UNCHANGED <<api, caches, tcpEvents, run, processing, waiting, worker, conf,
                   disturbances>>

(***************************************************************************)
(* Run and its workers.                                                    *)
(***************************************************************************)
AwaitedInformers == {"tcpservers", "endpoints"}

StartWorkersAtOnce ==
    /\ ~started
    /\ started' = TRUE
    /\ UNCHANGED <<api, caches, events, synced, queue, worker, conf, disturbances>>

StartWorkers ==
    /\ ~started
    /\ AwaitedInformers \subseteq synced
    /\ started' = TRUE
    /\ UNCHANGED <<api, caches, events, synced, queue, worker, conf, disturbances>>

GetAndDone(w) ==
    /\ started
    /\ pc[w] = "get"
    /\ \E k \in Queued :
        /\ key' = [key EXCEPT ![w] = k]
        /\ dirty' = dirty \ {k}
    /\ pc' = [pc EXCEPT ![w] = "tcpserver"]
    /\ UNCHANGED <<api, caches, events, run, processing, waiting, tcps, svc, cfg, conf,
                   disturbances>>

Get(w) ==
    /\ started
    /\ pc[w] = "get"
    /\ \E k \in Queued :
        /\ key' = [key EXCEPT ![w] = k]
        /\ processing' = processing \union {k}
        /\ dirty' = dirty \ {k}
    /\ pc' = [pc EXCEPT ![w] = "tcpserver"]
    /\ UNCHANGED <<api, caches, events, run, waiting, tcps, svc, cfg, conf,
                   disturbances>>

\* The deferred Done, with the worker ready for its next key.
Release(w) ==
    /\ Done(key[w])
    /\ key' = [key EXCEPT ![w] = Absent]
    /\ tcps' = [tcps EXCEPT ![w] = Absent]
    /\ svc' = [svc EXCEPT ![w] = Absent]
    /\ cfg' = [cfg EXCEPT ![w] = Absent]
    /\ pc' = [pc EXCEPT ![w] = "get"]

\* A TCPServer that is gone or invalid has its configuration deleted.
ReadTCPServer(w) ==
    /\ pc[w] = "tcpserver"
    /\ LET t == tcpCache[key[w]] IN
        IF Served(t)
        THEN /\ tcps' = [tcps EXCEPT ![w] = t]
             /\ pc' = [pc EXCEPT ![w] = "service"]
        ELSE /\ pc' = [pc EXCEPT ![w] = "remove"]
             /\ UNCHANGED tcps
    /\ UNCHANGED <<api, caches, events, run, queue, key, svc, cfg, conf, disturbances>>

ReadService(w) ==
    /\ pc[w] = "service"
    /\ LET s == svcCache[ServiceKey(key[w], tcps[w])] IN
        IF s = Absent
        THEN /\ \E c \in ConfigsFor(key[w], tcps[w], Absent, Absent, podCache) :
                    cfg' = [cfg EXCEPT ![w] = c]
             /\ pc' = [pc EXCEPT ![w] = "create"]
             /\ UNCHANGED svc
        ELSE /\ svc' = [svc EXCEPT ![w] = s]
             /\ pc' = [pc EXCEPT ![w] = "endpoints"]
             /\ UNCHANGED cfg
    /\ UNCHANGED <<api, caches, events, run, queue, key, tcps, conf, disturbances>>

\* The pods are listed right after, in the same step: nothing is ever compared
\* with what they were a moment before.
ReadEndpoints(w) ==
    /\ pc[w] = "endpoints"
    /\ LET e == eptCache[ServiceKey(key[w], tcps[w])] IN
        \E c \in ConfigsFor(key[w], tcps[w], svc[w], e, podCache) :
            cfg' = [cfg EXCEPT ![w] = c]
    /\ pc' = [pc EXCEPT ![w] = "create"]
    /\ UNCHANGED <<api, caches, events, run, queue, key, tcps, svc, conf, disturbances>>

ListerErrorDropped(w) ==
    /\ Disturb("listerError")
    /\ pc[w] \in {"tcpserver", "service", "endpoints"}
    /\ Release(w)
    /\ UNCHANGED <<api, caches, events, run, dirty, waiting, conf>>

\* The sync returns the lister's error: the key is added again later.
ListerFails(w) ==
    /\ Disturb("listerError")
    /\ pc[w] \in {"tcpserver", "service", "endpoints"}
    /\ waiting' = waiting \union {key[w]}
    /\ Release(w)
    /\ UNCHANGED <<api, caches, events, run, dirty, conf>>

(***************************************************************************)
(* The Configurer: AddOrUpdateTCPServer writes the file in place, records  *)
(* the name in the map and reloads; DeleteTCPServer removes the file,      *)
(* deletes the key from the map and reloads.  A name in the map is that of *)
(* the file, "tcp/tcps_<ns>_<name>"; the key deleted from it is            *)
(* "<ns>/<name>".                                                          *)
(***************************************************************************)
FileName(k) == [prefix |-> "tcp/tcps", ns |-> k.ns, name |-> k.name]

CreateAndGiveUp(w) ==
    /\ pc[w] = "create"
    /\ files' = [files EXCEPT ![key[w]] = Truncated]
    /\ pc' = [pc EXCEPT ![w] = "store"]
    /\ UNCHANGED <<api, caches, events, run, queue, key, tcps, svc, cfg, tcpServersEx,
                   disturbances>>

Create(w) ==
    /\ pc[w] = "create"
    /\ files' = [files EXCEPT ![key[w]] = Truncated]
    /\ pc' = [pc EXCEPT ![w] = "write"]
    /\ UNCHANGED <<api, caches, events, run, queue, key, tcps, svc, cfg, tcpServersEx,
                   disturbances>>

Write(w) ==
    /\ pc[w] = "write"
    /\ files' = [files EXCEPT ![key[w]] = cfg[w]]
    /\ pc' = [pc EXCEPT ![w] = "store"]
    /\ UNCHANGED <<api, caches, events, run, queue, key, tcps, svc, cfg, tcpServersEx,
                   disturbances>>

Store(w) ==
    /\ pc[w] = "store"
    /\ tcpServersEx' = tcpServersEx \union {FileName(key[w])}
    /\ pc' = [pc EXCEPT ![w] = "reload"]
    /\ UNCHANGED <<api, caches, events, run, queue, key, tcps, svc, cfg, files,
                   disturbances>>

Remove(w) ==
    /\ pc[w] = "remove"
    /\ files' = [files EXCEPT ![key[w]] = Absent]
    /\ pc' = [pc EXCEPT ![w] = "delete"]
    /\ UNCHANGED <<api, caches, events, run, queue, key, tcps, svc, cfg, tcpServersEx,
                   disturbances>>

Delete(w) ==
    /\ pc[w] = "delete"
    /\ tcpServersEx' = tcpServersEx \ {key[w]}
    /\ pc' = [pc EXCEPT ![w] = "reload"]
    /\ UNCHANGED <<api, caches, events, run, queue, key, tcps, svc, cfg, files,
                   disturbances>>

\* Reload returns.  An error is logged and recorded as an event of the
\* TCPServer, and the sync succeeds all the same: the key is forgotten.
Finish(w) ==
    /\ pc[w] = "reload"
    /\ Release(w)
    /\ UNCHANGED <<api, caches, events, run, dirty, waiting, conf, disturbances>>

Sync(w) ==
    \/ ReadTCPServer(w) \/ ReadService(w) \/ ReadEndpoints(w)
    \/ Create(w) \/ Write(w) \/ Store(w)
    \/ Remove(w) \/ Delete(w)
    \/ Finish(w)

\* Everything but the workers and the end of the process.
Outside ==
    \/ \E k \in Keys : \/ ChangeTCPServer(k) \/ TCPServerDelta(k)
                       \/ TCPServerResync(k) \/ RateLimitElapsed(k)
    \/ \E s \in ServiceKeys : \/ ChangeService(s) \/ ChangeEndpoints(s)
                              \/ ServiceDelta(s) \/ EndpointsDelta(s)
                              \/ EndpointsResync(s)
    \/ \E p \in Pods : ChangePod(p) \/ PodDelta(p)
    \/ TCPServersSynced \/ ServicesSynced \/ EndpointsSynced
    \/ HandleTCPServerEvent \/ HandleEndpointsEvent
    \/ StartWorkers

Next ==
    \/ Restart
    \/ Outside
    \/ \E w \in Workers : Get(w) \/ Sync(w) \/ ListerFails(w)

Spec == Init /\ [][Next]_vars

(***************************************************************************)
(* Fairness: the informers' and the workers' goroutines are scheduled, the *)
(* rate limiter's delays and the resync periods elapse.  Nothing is        *)
(* assumed of the disturbances.                                            *)
(***************************************************************************)
Fairness ==
    /\ \A k \in Keys : /\ WF_vars(TCPServerDelta(k))
                       /\ WF_vars(RateLimitElapsed(k))
                       /\ WF_vars(TCPServerResync(k))
    /\ \A s \in ServiceKeys : /\ WF_vars(ServiceDelta(s))
                              /\ WF_vars(EndpointsDelta(s))
                              /\ WF_vars(EndpointsResync(s))
    /\ \A p \in Pods : WF_vars(PodDelta(p))
    /\ WF_vars(TCPServersSynced) /\ WF_vars(EndpointsSynced) /\ WF_vars(ServicesSynced)
    /\ WF_vars(HandleTCPServerEvent) /\ WF_vars(HandleEndpointsEvent)
    /\ WF_vars(StartWorkers)
    /\ \A w \in Workers : WF_vars(Get(w)) /\ WF_vars(Sync(w))

FairSpec == Spec /\ Fairness
==============================================================================
