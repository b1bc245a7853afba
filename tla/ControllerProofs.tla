--------------------------- MODULE ControllerProofs ---------------------------
(***************************************************************************)
(* Proofs, for any number of TCPServers, workers and disturbances, that    *)
(* the controller of Controller.tla keeps the safety properties of         *)
(* ControllerProps.tla.                                                    *)
(***************************************************************************)
EXTENDS ControllerProps, TLAPS

(***************************************************************************)
(* First invariant: the types, the workers' keys and what they have read.  *)
(***************************************************************************)
Busy(w) == pc[w] # "get"

DistinctKeys ==
    \A v, w \in Workers : Busy(v) /\ Busy(w) /\ v # w => key[v] # key[w]

KeysInHand == \A k : k \in processing <=> \E w \in Workers : Busy(w) /\ key[w] = k

ReadsAreServed ==
    \A w \in Workers : pc[w] \in {"service", "endpoints"} => Served(tcps[w])

Basic == TypeOK /\ DistinctKeys /\ KeysInHand /\ ReadsAreServed

LEMMA KeysInHandLemma == DistinctKeys /\ KeysInHand <=> OneWorkerPerKey
  BY DEF DistinctKeys, KeysInHand, OneWorkerPerKey, Busy, Holding

LEMMA MaybeLemma ==
    /\ \A x : x \in MaybeTCPServer <=> x \in TCPServerSpecs \/ x = Absent
    /\ \A x : x \in MaybeService <=> x \in ServiceSpecs \/ x = Absent
    /\ \A x : x \in MaybeEndpoints <=> x \in EndpointsSpecs \/ x = Absent
  BY DEF MaybeTCPServer, MaybeService, MaybeEndpoints

LEMMA ConfigsForLemma ==
    ASSUME NEW k \in Keys, NEW t \in TCPServerSpecs,
           NEW s \in MaybeService, NEW e \in MaybeEndpoints, NEW pods \in SUBSET Pods
    PROVE  ConfigsFor(k, t, s, e, pods) \subseteq AllConfigs
  BY DEF AllConfigs

\* A worker that has a TCPServer in hand looks up a service key of the instance.
LEMMA ServiceKeyLemma ==
    ASSUME NEW k \in Keys, NEW t \in MaybeTCPServer, Served(t)
    PROVE  t \in TCPServerSpecs /\ ServiceKey(k, t) \in ServiceKeys
  BY MaybeLemma, ServiceKeyAssumption DEF Served

LEMMA InitBasic == Init => Basic
  <1> SUFFICES ASSUME Init PROVE Basic
    OBVIOUS
  <1>1. ObjectTypes
    BY MaybeLemma DEF Init, ObjectTypes, NoObject, FirstServices, FirstPods
  <1>2. EventTypes
    BY DEF Init, EventTypes
  <1>3. RunTypes /\ BoundTypes
    <2>1. RunTypes
      BY Zenon DEF Init, RunTypes, FirstSynced
    <2>2. BoundTypes
      BY BoundAssumption DEF Init, BoundTypes
    <2>. QED
      BY <2>1, <2>2
  <1>4. QueueTypes
    BY DEF Init, QueueTypes
  <1>5. WorkerTypes
    BY MaybeLemma DEF Init, WorkerTypes, NoValue, AllIdle, Steps
  <1>6. ConfTypes
    BY DEF Init, ConfTypes, NoObject, Contents
  <1>7. DistinctKeys /\ KeysInHand /\ ReadsAreServed
    BY DEF Init, DistinctKeys, KeysInHand, ReadsAreServed, Busy, AllIdle
  <1>. QED
    BY <1>1, <1>2, <1>3, <1>4, <1>5, <1>6, <1>7 DEF Basic, TypeOK

USE DEF api, caches, events, run, queue, worker, conf

LEMMA BasicRestart == ASSUME Basic, Restart PROVE Basic'
  <1>1. ObjectTypes'
    BY MaybeLemma DEF Basic, TypeOK, Restart, ObjectTypes, NoObject,
       FirstServices, FirstPods
  <1>2. EventTypes'
    BY DEF Restart, EventTypes
  <1>3. RunTypes' /\ BoundTypes'
    <2>1. RunTypes'
      BY Zenon DEF Restart, RunTypes, FirstSynced
    <2>2. BoundTypes'
      BY BoundAssumption DEF Basic, TypeOK, Restart, Disturb, BoundTypes
    <2>. QED
      BY <2>1, <2>2
  <1>4. QueueTypes'
    BY DEF Restart, QueueTypes
  <1>5. WorkerTypes'
    BY MaybeLemma DEF Restart, WorkerTypes, NoValue, AllIdle, Steps
  <1>6. ConfTypes'
    BY DEF Restart, ConfTypes, NoObject, Contents
  <1>7. DistinctKeys' /\ KeysInHand' /\ ReadsAreServed'
    BY DEF Restart, DistinctKeys, KeysInHand, ReadsAreServed, Busy, AllIdle
  <1>. QED
    BY <1>1, <1>2, <1>3, <1>4, <1>5, <1>6, <1>7 DEF Basic, TypeOK

LEMMA BasicTCPServer ==
    ASSUME Basic, NEW k \in Keys,
           ChangeTCPServer(k) \/ TCPServerDelta(k) \/ TCPServerResync(k)
    PROVE  Basic'
  <1>1. ObjectTypes'
    <2>1. CASE ChangeTCPServer(k)
      BY <2>1 DEF Basic, TypeOK, ObjectTypes, ChangeTCPServer
    <2>2. CASE TCPServerDelta(k) \/ TCPServerResync(k)
      BY <2>2 DEF Basic, TypeOK, ObjectTypes, TCPServerDelta, TCPServerResync
    <2>. QED
      BY <2>1, <2>2
  <1>2. EventTypes'
    <2>1. \A b \in BOOLEAN, new \in MaybeTCPServer :
            [key |-> k, old |-> tcpCache[k], new |-> new, tombstone |-> b]
              \in TCPServerEvents
      BY DEF Basic, TypeOK, ObjectTypes, TCPServerEvents
    <2>2. CASE ChangeTCPServer(k)
      BY <2>2 DEF Basic, TypeOK, EventTypes, ChangeTCPServer
    <2>3. CASE TCPServerDelta(k)
      <3>1. PICK e \in TCPServerEvents : tcpEvents' = Append(tcpEvents, e)
        BY <2>1, <2>3 DEF Basic, TypeOK, ObjectTypes, TCPServerDelta
      <3>. QED
        BY <2>3, <3>1 DEF Basic, TypeOK, EventTypes, TCPServerDelta
    <2>4. CASE TCPServerResync(k)
      <3>1. [key |-> k, old |-> tcpCache[k], new |-> tcpCache[k], tombstone |-> FALSE]
              \in TCPServerEvents
        BY DEF Basic, TypeOK, ObjectTypes, TCPServerEvents
      <3>. QED
        BY <2>4, <3>1 DEF Basic, TypeOK, EventTypes, TCPServerResync
    <2>. QED
      BY <2>2, <2>3, <2>4
  <1>3. BoundTypes'
    BY BoundAssumption
    DEF Basic, TypeOK, BoundTypes, ChangeTCPServer, TCPServerDelta, TCPServerResync,
        Disturb
  <1>4. UNCHANGED <<run, queue, worker, conf>>
    BY DEF ChangeTCPServer, TCPServerDelta, TCPServerResync
  <1>. QED
    BY <1>1, <1>2, <1>3, <1>4
    DEF Basic, TypeOK, RunTypes, QueueTypes, WorkerTypes, ConfTypes, DistinctKeys,
        KeysInHand, ReadsAreServed, Busy

LEMMA BasicService ==
    ASSUME Basic, NEW s \in ServiceKeys,
           \/ ChangeService(s) \/ ChangeEndpoints(s)
           \/ ServiceDelta(s) \/ EndpointsDelta(s) \/ EndpointsResync(s)
    PROVE  Basic'
  <1>1. ObjectTypes'
    <2>1. CASE ChangeService(s)
      BY <2>1 DEF Basic, TypeOK, ObjectTypes, ChangeService
    <2>2. CASE ChangeEndpoints(s)
      BY <2>2 DEF Basic, TypeOK, ObjectTypes, ChangeEndpoints
    <2>3. CASE ServiceDelta(s) \/ EndpointsDelta(s) \/ EndpointsResync(s)
      BY <2>3 DEF Basic, TypeOK, ObjectTypes, ServiceDelta, EndpointsDelta,
         EndpointsResync
    <2>. QED
      BY <2>1, <2>2, <2>3
  <1>2. EventTypes'
    <2>1. \A new \in MaybeEndpoints :
            [service |-> s, old |-> eptCache[s], new |-> new] \in EndpointsEvents
      BY DEF Basic, TypeOK, ObjectTypes, EndpointsEvents
    <2>2. CASE ChangeService(s) \/ ChangeEndpoints(s) \/ ServiceDelta(s)
      BY <2>2 DEF Basic, TypeOK, EventTypes, ChangeService, ChangeEndpoints, ServiceDelta
    <2>3. CASE EndpointsDelta(s)
      BY <2>1, <2>3 DEF Basic, TypeOK, ObjectTypes, EventTypes, EndpointsDelta
    <2>4. CASE EndpointsResync(s)
      BY <2>1, <2>4 DEF Basic, TypeOK, ObjectTypes, EventTypes, EndpointsResync
    <2>. QED
      BY <2>2, <2>3, <2>4
  <1>3. BoundTypes'
    BY BoundAssumption
    DEF Basic, TypeOK, BoundTypes, ChangeService, ChangeEndpoints, ServiceDelta,
        EndpointsDelta, EndpointsResync, Disturb
  <1>4. UNCHANGED <<run, queue, worker, conf>>
    BY DEF ChangeService, ChangeEndpoints, ServiceDelta, EndpointsDelta, EndpointsResync
  <1>. QED
    BY <1>1, <1>2, <1>3, <1>4
    DEF Basic, TypeOK, RunTypes, QueueTypes, WorkerTypes, ConfTypes, DistinctKeys,
        KeysInHand, ReadsAreServed, Busy

LEMMA BasicPod ==
    ASSUME Basic, NEW p \in Pods, ChangePod(p) \/ PodDelta(p) PROVE Basic'
  <1>1. ObjectTypes'
    BY DEF Basic, TypeOK, ObjectTypes, ChangePod, PodDelta
  <1>2. BoundTypes'
    BY BoundAssumption DEF Basic, TypeOK, BoundTypes, ChangePod, PodDelta, Disturb
  <1>3. UNCHANGED <<events, run, queue, worker, conf>>
    BY DEF ChangePod, PodDelta
  <1>. QED
    BY <1>1, <1>2, <1>3
    DEF Basic, TypeOK, EventTypes, RunTypes, QueueTypes, WorkerTypes, ConfTypes,
        DistinctKeys, KeysInHand, ReadsAreServed, Busy

LEMMA BasicRun ==
    ASSUME Basic,
           TCPServersSynced \/ ServicesSynced \/ EndpointsSynced \/ StartWorkers
    PROVE  Basic'
  <1>1. RunTypes'
    BY Zenon
    DEF Basic, TypeOK, RunTypes, TCPServersSynced, ServicesSynced, EndpointsSynced,
        HasSynced, StartWorkers
  <1>2. UNCHANGED <<api, caches, events, queue, worker, conf, disturbances>>
    BY DEF TCPServersSynced, ServicesSynced, EndpointsSynced, HasSynced, StartWorkers
  <1>. QED
    BY <1>1, <1>2
    DEF Basic, TypeOK, ObjectTypes, EventTypes, BoundTypes, QueueTypes, WorkerTypes,
        ConfTypes, DistinctKeys, KeysInHand, ReadsAreServed, Busy

\* A handler of a notified change only adds keys of TCPServers.
LEMMA BasicEnqueue ==
    ASSUME Basic,
           \/ HandleTCPServerEvent \/ HandleEndpointsEvent
           \/ \E k \in Keys : RateLimitElapsed(k)
    PROVE  Basic'
  <1>1. EventTypes'
    <2>1. CASE HandleTCPServerEvent
      BY <2>1 DEF Basic, TypeOK, EventTypes, HandleTCPServerEvent
    <2>2. CASE HandleEndpointsEvent
      BY <2>2 DEF Basic, TypeOK, EventTypes, HandleEndpointsEvent
    <2>3. CASE \E k \in Keys : RateLimitElapsed(k)
      BY <2>3 DEF Basic, TypeOK, EventTypes, RateLimitElapsed
    <2>. QED
      BY <2>1, <2>2, <2>3
  <1>2. QueueTypes'
    <2>1. CASE HandleTCPServerEvent
      <3>1. Head(tcpEvents) \in TCPServerEvents
        BY <2>1 DEF Basic, TypeOK, EventTypes, HandleTCPServerEvent
      <3>. QED
        BY <2>1, <3>1 DEF Basic, TypeOK, QueueTypes, HandleTCPServerEvent, Add,
           EnqueuedBy, TCPServerEvents
    <2>2. CASE HandleEndpointsEvent
      BY <2>2 DEF Basic, TypeOK, QueueTypes, HandleEndpointsEvent, Add,
         TCPServersForEndpoints, ListedTCPServers
    <2>3. CASE \E k \in Keys : RateLimitElapsed(k)
      BY <2>3 DEF Basic, TypeOK, QueueTypes, RateLimitElapsed, Add
    <2>. QED
      BY <2>1, <2>2, <2>3
  <1>3. UNCHANGED <<api, caches, run, processing, worker, conf, disturbances>>
    BY DEF HandleTCPServerEvent, HandleEndpointsEvent, RateLimitElapsed
  <1>. QED
    BY <1>1, <1>2, <1>3
    DEF Basic, TypeOK, ObjectTypes, RunTypes, BoundTypes, WorkerTypes, ConfTypes,
        DistinctKeys, KeysInHand, ReadsAreServed, Busy

\* The steps of a worker.
LEMMA BusyKeyLemma ==
    ASSUME Basic, NEW w \in Workers, Busy(w)
    PROVE  key[w] \in Keys /\ key[w] \in processing
  BY DEF Basic, TypeOK, QueueTypes, KeysInHand

LEMMA BasicGet == ASSUME Basic, NEW w \in Workers, Get(w) PROVE Basic'
  <1>1. QueueTypes' /\ WorkerTypes'
    BY DEF Basic, TypeOK, QueueTypes, WorkerTypes, Get, Queued, Steps
  <1>2. DistinctKeys' /\ KeysInHand' /\ ReadsAreServed'
    BY DEF Basic, TypeOK, WorkerTypes, Get, Queued, DistinctKeys, KeysInHand,
           ReadsAreServed, Busy
  <1>3. UNCHANGED <<api, caches, events, run, conf, disturbances>>
    BY DEF Get
  <1>. QED
    BY <1>1, <1>2, <1>3
    DEF Basic, TypeOK, ObjectTypes, EventTypes, RunTypes, BoundTypes, ConfTypes

\* A worker that goes on with its key, whatever it does to the files.
LEMMA BasicProgress ==
    ASSUME Basic, NEW w \in Workers, Busy(w), NEW step \in Steps \ {"get"},
           pc' = [pc EXCEPT ![w] = step],
           WorkerTypes', ConfTypes', ReadsAreServed',
           UNCHANGED <<api, caches, events, run, queue, key, disturbances>>
    PROVE  Basic'
  <1>1. DistinctKeys' /\ KeysInHand'
    BY DEF Basic, TypeOK, WorkerTypes, DistinctKeys, KeysInHand, Busy
  <1>. QED
    BY <1>1
    DEF Basic, TypeOK, ObjectTypes, EventTypes, RunTypes, BoundTypes, QueueTypes

LEMMA BasicReadTCPServer ==
    ASSUME Basic, NEW w \in Workers, ReadTCPServer(w) PROVE Basic'
  <1>. DEFINE t == tcpCache[key[w]]
  <1>1. Busy(w) /\ key[w] \in Keys /\ t \in MaybeTCPServer
    BY BusyKeyLemma DEF ReadTCPServer, Busy, Basic, TypeOK, ObjectTypes
  <1>2. ConfTypes'
    BY DEF Basic, TypeOK, ConfTypes, ReadTCPServer
  <1>3. CASE Served(t)
    <2>1. pc' = [pc EXCEPT ![w] = "service"] /\ tcps' = [tcps EXCEPT ![w] = t]
      BY <1>3 DEF ReadTCPServer
    <2>2. WorkerTypes' /\ ReadsAreServed'
      BY <1>1, <1>3, <2>1
      DEF Basic, TypeOK, WorkerTypes, Steps, ReadTCPServer, ReadsAreServed
    <2>. QED
      BY <1>1, <1>2, <2>1, <2>2, BasicProgress DEF ReadTCPServer, Steps
  <1>4. CASE ~Served(t)
    <2>1. pc' = [pc EXCEPT ![w] = "remove"] /\ UNCHANGED tcps
      BY <1>4 DEF ReadTCPServer
    <2>2. WorkerTypes' /\ ReadsAreServed'
      BY <2>1 DEF Basic, TypeOK, WorkerTypes, Steps, ReadTCPServer, ReadsAreServed
    <2>. QED
      BY <1>1, <1>2, <2>1, <2>2, BasicProgress DEF ReadTCPServer, Steps
  <1>. QED
    BY <1>3, <1>4

\* What a worker that looks objects up has in hand.
LEMMA LookUpLemma ==
    ASSUME Basic, NEW w \in Workers, pc[w] \in {"service", "endpoints"}
    PROVE  /\ key[w] \in Keys
           /\ tcps[w] \in TCPServerSpecs
           /\ Served(tcps[w])
           /\ ServiceKey(key[w], tcps[w]) \in ServiceKeys
           /\ podCache \in SUBSET Pods
  <1>1. key[w] \in Keys
    BY BusyKeyLemma DEF Busy
  <1>2. tcps[w] \in MaybeTCPServer /\ Served(tcps[w])
    BY DEF Basic, TypeOK, WorkerTypes, ReadsAreServed
  <1>3. podCache \in SUBSET Pods
    BY DEF Basic, TypeOK, ObjectTypes
  <1>. QED
    BY <1>1, <1>2, <1>3, ServiceKeyLemma

LEMMA BasicReadService ==
    ASSUME Basic, NEW w \in Workers, ReadService(w) PROVE Basic'
  <1>. DEFINE s == svcCache[ServiceKey(key[w], tcps[w])]
  <1>1. Busy(w) /\ pc[w] = "service"
    BY DEF ReadService, Busy
  <1>2. s \in MaybeService
    BY <1>1, LookUpLemma DEF Basic, TypeOK, ObjectTypes
  <1>3. ConfTypes'
    BY DEF Basic, TypeOK, ConfTypes, ReadService
  <1>4. CASE s = Absent
    <2>1. PICK c \in ConfigsFor(key[w], tcps[w], Absent, Absent, podCache) :
            cfg' = [cfg EXCEPT ![w] = c]
      BY <1>4 DEF ReadService
    <2>2. c \in AllConfigs
      BY <1>1, <2>1, LookUpLemma, ConfigsForLemma, MaybeLemma
    <2>3. pc' = [pc EXCEPT ![w] = "create"] /\ UNCHANGED svc
      BY <1>4 DEF ReadService
    <2>4. WorkerTypes' /\ ReadsAreServed'
      BY <2>1, <2>2, <2>3
      DEF Basic, TypeOK, WorkerTypes, Steps, ReadService, ReadsAreServed
    <2>. QED
      BY <1>1, <1>3, <2>3, <2>4, BasicProgress DEF ReadService, Steps
  <1>5. CASE s # Absent
    <2>1. pc' = [pc EXCEPT ![w] = "endpoints"] /\ svc' = [svc EXCEPT ![w] = s]
          /\ UNCHANGED cfg
      BY <1>5 DEF ReadService
    <2>2. WorkerTypes' /\ ReadsAreServed'
      BY <1>1, <1>2, <2>1
      DEF Basic, TypeOK, WorkerTypes, Steps, ReadService, ReadsAreServed
    <2>. QED
      BY <1>1, <1>3, <2>1, <2>2, BasicProgress DEF ReadService, Steps
  <1>. QED
    BY <1>4, <1>5

LEMMA BasicReadEndpoints ==
    ASSUME Basic, NEW w \in Workers, ReadEndpoints(w) PROVE Basic'
  <1>. DEFINE e == eptCache[ServiceKey(key[w], tcps[w])]
  <1>1. Busy(w) /\ pc[w] = "endpoints"
    BY DEF ReadEndpoints, Busy
  <1>2. e \in MaybeEndpoints /\ svc[w] \in MaybeService
    BY <1>1, LookUpLemma DEF Basic, TypeOK, ObjectTypes, WorkerTypes
  <1>3. PICK c \in ConfigsFor(key[w], tcps[w], svc[w], e, podCache) :
                cfg' = [cfg EXCEPT ![w] = c]
    BY DEF ReadEndpoints
  <1>4. c \in AllConfigs
    BY <1>1, <1>2, <1>3, LookUpLemma, ConfigsForLemma
  <1>5. pc' = [pc EXCEPT ![w] = "create"]
    BY DEF ReadEndpoints
  <1>6. WorkerTypes' /\ ConfTypes' /\ ReadsAreServed'
    BY <1>3, <1>4, <1>5
    DEF Basic, TypeOK, WorkerTypes, ConfTypes, Steps, ReadEndpoints, ReadsAreServed
  <1>. QED
    BY <1>1, <1>5, <1>6, BasicProgress DEF ReadEndpoints, Steps

LEMMA BasicRelease ==
    ASSUME Basic, NEW w \in Workers, Busy(w), Release(w), QueueTypes', BoundTypes',
           UNCHANGED <<api, caches, events, run, conf>>
    PROVE  Basic'
  <1>1. WorkerTypes'
    BY MaybeLemma DEF Basic, TypeOK, WorkerTypes, Steps, Release
  <1>2. DistinctKeys' /\ KeysInHand' /\ ReadsAreServed'
    BY DEF Basic, TypeOK, WorkerTypes, DistinctKeys, KeysInHand, ReadsAreServed, Busy,
           Release, Done
  <1>. QED
    BY <1>1, <1>2 DEF Basic, TypeOK, ObjectTypes, EventTypes, RunTypes, ConfTypes

LEMMA BasicListerFails == ASSUME Basic, NEW w \in Workers, ListerFails(w) PROVE Basic'
  <1>1. Busy(w) /\ key[w] \in Keys
    BY BusyKeyLemma DEF ListerFails, Busy
  <1>2. QueueTypes' /\ BoundTypes'
    BY <1>1, BoundAssumption
    DEF Basic, TypeOK, QueueTypes, BoundTypes, ListerFails, Disturb, Release, Done
  <1>. QED
    BY <1>1, <1>2, BasicRelease DEF ListerFails

LEMMA BasicFinish == ASSUME Basic, NEW w \in Workers, Finish(w) PROVE Basic'
  <1>1. Busy(w)
    BY DEF Finish, Busy
  <1>2. QueueTypes' /\ BoundTypes'
    BY DEF Basic, TypeOK, QueueTypes, BoundTypes, Finish, Release, Done
  <1>. QED
    BY <1>1, <1>2, BasicRelease DEF Finish

LEMMA BasicConfigurer ==
    ASSUME Basic, NEW w \in Workers,
           Create(w) \/ Write(w) \/ Store(w) \/ Remove(w) \/ Delete(w)
    PROVE  Basic'
  <1>1. Busy(w) /\ key[w] \in Keys
    BY BusyKeyLemma DEF Create, Write, Store, Remove, Delete, Busy
  <1>2. PICK step \in {"write", "store", "reload", "delete"} :
          pc' = [pc EXCEPT ![w] = step]
    BY DEF Create, Write, Store, Remove, Delete
  <1>3. UNCHANGED <<api, caches, events, run, queue, key, tcps, svc, cfg, disturbances>>
    BY DEF Create, Write, Store, Remove, Delete
  <1>4. WorkerTypes' /\ ReadsAreServed'
    BY <1>2, <1>3 DEF Basic, TypeOK, WorkerTypes, Steps, ReadsAreServed
  <1>5. ConfTypes'
    <2>1. CASE Create(w) \/ Remove(w)
      BY <2>1 DEF Basic, TypeOK, ConfTypes, Contents, Create, Remove
    <2>2. CASE Write(w)
      BY <2>2 DEF Basic, TypeOK, ConfTypes, WorkerTypes, Contents, Write
    <2>3. CASE Store(w)
      BY <1>1, <2>3 DEF Basic, TypeOK, ConfTypes, Store
    <2>4. CASE Delete(w)
      BY <2>4 DEF Basic, TypeOK, ConfTypes, Delete
    <2>. QED
      BY <2>1, <2>2, <2>3, <2>4
  <1>. QED
    BY <1>1, <1>2, <1>3, <1>4, <1>5, BasicProgress DEF Steps

LEMMA BasicWorker ==
    ASSUME Basic, NEW w \in Workers, Get(w) \/ Sync(w) \/ ListerFails(w)
    PROVE  Basic'
  BY BasicGet, BasicReadTCPServer, BasicReadService, BasicReadEndpoints,
     BasicConfigurer, BasicFinish, BasicListerFails
  DEF Sync

LEMMA BasicStutter == ASSUME Basic, UNCHANGED vars PROVE Basic'
  BY DEF vars, Basic, TypeOK, ObjectTypes, EventTypes, RunTypes, BoundTypes, QueueTypes,
     WorkerTypes, ConfTypes, DistinctKeys, KeysInHand, ReadsAreServed, Busy

LEMMA BasicNext == Basic /\ [Next]_vars => Basic'
  BY BasicRestart, BasicTCPServer, BasicService, BasicPod, BasicRun, BasicEnqueue, BasicWorker,
     BasicStutter
  DEF Next, Outside

\* Every reachable state of the controller is of the declared types.
THEOREM TypeCorrect == Spec => []TypeOK
  <1>1. Spec => []Basic
    BY InitBasic, BasicNext, PTL DEF Spec
  <1>2. Basic => TypeOK
    BY DEF Basic
  <1>. QED
    BY <1>1, <1>2, PTL

\* Whatever is added to the queue and whenever, two workers never have the
\* same key: the files are written by one worker at a time.
THEOREM MutualExclusion == Spec => []OneWorkerPerKey
  <1>1. Spec => []Basic
    BY InitBasic, BasicNext, PTL DEF Spec
  <1>2. Basic => OneWorkerPerKey
    BY KeysInHandLemma DEF Basic
  <1>. QED
    BY <1>1, <1>2, PTL

(***************************************************************************)
(* Second invariant: what is settled is current, in the workers' hands and *)
(* in the files.                                                           *)
(***************************************************************************)
\* The caches of what nobody is told of only differ from the API server if it
\* is disturbed.
OthersKnown ==
    /\ "service" \notin Churn => svcCache = svcApi
    /\ "pod" \notin Churn => podCache = podApi

SamePossible ==
    /\ \A s : PossibleServices(s)' = PossibleServices(s)
    /\ PossiblePods' = PossiblePods

SettledIsCurrent ==
    \A k \in Keys : Settled(k) /\ k \notin processing => files[k] \in Wanted(k)

Current == Basic /\ OthersKnown /\ WorkIsCurrent /\ SettledIsCurrent

\* What Settled and Wanted say of a key depends on the caches, the events and
\* the queue only.
LEMMA SameSettled ==
    ASSUME NEW k \in Keys, UNCHANGED <<caches, events, dirty, waiting>>
    PROVE  Settled(k)' <=> Settled(k)
  BY DEF Settled, Coming, NotifiedTCPServer, NotifiedEndpoints

LEMMA SameWanted ==
    ASSUME NEW k \in Keys, UNCHANGED caches
    PROVE  Wanted(k)' = Wanted(k)
  BY DEF Wanted, PossibleServices, PossiblePods

\* A step that touches nothing the workers hold, and changes what is wanted
\* of no key that stays settled.
Calm ==
    /\ UNCHANGED <<worker, processing, files>>
    /\ SamePossible
    /\ \A k \in Keys : Settled(k)' => /\ Settled(k)
                                      /\ tcpCache'[k] = tcpCache[k]
                                      /\ Wanted(k)' = Wanted(k)

LEMMA FrameLemma == ASSUME Current, Calm PROVE WorkIsCurrent' /\ SettledIsCurrent'
  <1>1. \A w \in Holding : key[w] \in Keys
    BY BusyKeyLemma DEF Current, Holding, Busy
  <1>2. Holding' = Holding
    BY DEF Calm, Holding
  <1>3. ASSUME NEW w \in Holding, Settled(key[w])' PROVE HandIsCurrent(w)'
    <2>1. /\ Settled(key[w]) /\ tcpCache'[key[w]] = tcpCache[key[w]]
          /\ Wanted(key[w])' = Wanted(key[w])
      BY <1>1, <1>3 DEF Calm
    <2>2. HandIsCurrent(w)
      BY <1>3, <2>1 DEF Current, WorkIsCurrent
    <2>. QED
      BY <2>1, <2>2 DEF Calm, SamePossible, HandIsCurrent
  <1>4. WorkIsCurrent'
    BY <1>2, <1>3 DEF WorkIsCurrent
  <1>5. SettledIsCurrent'
    BY DEF Calm, Current, SettledIsCurrent
  <1>. QED
    BY <1>4, <1>5

LEMMA InitCurrent == Init => WorkIsCurrent /\ SettledIsCurrent /\ OthersKnown
  BY DEF Init, WorkIsCurrent, Holding, AllIdle, SettledIsCurrent, Wanted, Served,
         NoObject, OthersKnown, FirstServices, FirstPods

LEMMA CurrentRestart ==
    ASSUME Current, Restart PROVE WorkIsCurrent' /\ SettledIsCurrent' /\ OthersKnown'
  BY DEF Restart, WorkIsCurrent, Holding, AllIdle, SettledIsCurrent, Wanted, Served,
         NoObject, OthersKnown, FirstServices, FirstPods

\* The service cache only differs from the API server if services are disturbed.
LEMMA OthersKnownLemma ==
    ASSUME Current, "service" \in Churn \/ UNCHANGED <<svcApi, svcCache>>,
           "pod" \in Churn \/ UNCHANGED <<podApi, podCache>>
    PROVE  OthersKnown' /\ SamePossible
  BY DEF Current, OthersKnown, SamePossible, PossibleServices, PossiblePods

\* Steps that leave the caches, the events and the queue alone.
LEMMA CalmIdle ==
    ASSUME Current, UNCHANGED <<caches, events, queue, worker, files>>,
           "service" \in Churn \/ UNCHANGED svcApi,
           "pod" \in Churn \/ UNCHANGED podApi
    PROVE  Calm /\ OthersKnown'
  <1>1. OthersKnown' /\ SamePossible
    BY OthersKnownLemma
  <1>2. \A k \in Keys : /\ Settled(k)' <=> Settled(k)
                        /\ tcpCache'[k] = tcpCache[k]
                        /\ Wanted(k)' = Wanted(k)
    BY SameSettled, SameWanted
  <1>. QED
    BY <1>1, <1>2 DEF Calm

\* Notifications are only appended: what was coming still is.
LEMMA AppendTCPServerEvent ==
    ASSUME Current, NEW e \in TCPServerEvents, tcpEvents' = Append(tcpEvents, e),
           NEW j \in Keys, NotifiedTCPServer(j) \/ (e.key = j /\ EnqueuedBy(e) # {})
    PROVE  NotifiedTCPServer(j)'
  <1>1. tcpEvents \in Seq(TCPServerEvents)
    BY DEF Current, Basic, TypeOK, EventTypes
  <1>2. CASE NotifiedTCPServer(j)
    <2>1. PICK i \in DOMAIN tcpEvents : tcpEvents[i].key = j /\ EnqueuedBy(tcpEvents[i]) # {}
      BY <1>2 DEF NotifiedTCPServer
    <2>2. i \in DOMAIN tcpEvents' /\ tcpEvents'[i] = tcpEvents[i]
      BY <1>1
    <2>. QED
      BY <2>1, <2>2 DEF NotifiedTCPServer
  <1>3. CASE e.key = j /\ EnqueuedBy(e) # {}
    <2>1. /\ Len(tcpEvents) + 1 \in DOMAIN tcpEvents'
          /\ tcpEvents'[Len(tcpEvents) + 1] = e
      BY <1>1
    <2>. QED
      BY <1>3, <2>1 DEF NotifiedTCPServer
  <1>. QED
    BY <1>2, <1>3

LEMMA AppendEndpointsEvent ==
    ASSUME Current, NEW e \in EndpointsEvents, eptEvents' = Append(eptEvents, e),
           UNCHANGED tcpCache, NEW j \in Keys,
           \/ NotifiedEndpoints(j)
           \/ /\ Served(tcpCache[j])
              /\ e.service = ServiceKey(j, tcpCache[j]) /\ e.old # e.new
    PROVE  NotifiedEndpoints(j)'
  <1>1. eptEvents \in Seq(EndpointsEvents)
    BY DEF Current, Basic, TypeOK, EventTypes
  <1>2. CASE NotifiedEndpoints(j)
    <2>1. PICK i \in DOMAIN eptEvents :
            /\ eptEvents[i].service = ServiceKey(j, tcpCache[j])
            /\ eptEvents[i].old # eptEvents[i].new
      BY <1>2 DEF NotifiedEndpoints
    <2>2. i \in DOMAIN eptEvents' /\ eptEvents'[i] = eptEvents[i]
      BY <1>1
    <2>. QED
      BY <1>2, <2>1, <2>2 DEF NotifiedEndpoints
  <1>3. CASE Served(tcpCache[j]) /\ e.service = ServiceKey(j, tcpCache[j]) /\ e.old # e.new
    <2>1. /\ Len(eptEvents) + 1 \in DOMAIN eptEvents'
          /\ eptEvents'[Len(eptEvents) + 1] = e
      BY <1>1
    <2>. QED
      BY <1>3, <2>1 DEF NotifiedEndpoints
  <1>. QED
    BY <1>2, <1>3

LEMMA CalmTCPServerDelta ==
    ASSUME Current, NEW k \in Keys, TCPServerDelta(k)
    PROVE  Calm /\ OthersKnown'
  <1>1. UNCHANGED <<svcApi, podApi, svcCache, podCache, eptCache, eptEvents, queue,
                    worker, files>>
    BY DEF TCPServerDelta
  <1>2. OthersKnown' /\ SamePossible
    BY <1>1, OthersKnownLemma
  <1>3. PICK b \in BOOLEAN :
          /\ b => "relist" \in Churn /\ tcpApi[k] = Absent
          /\ tcpEvents' = Append(tcpEvents, [key |-> k, old |-> tcpCache[k],
                                             new |-> tcpApi[k], tombstone |-> b])
    BY DEF TCPServerDelta
  <1>. DEFINE e == [key |-> k, old |-> tcpCache[k], new |-> tcpApi[k], tombstone |-> b]
  <1>4. e \in TCPServerEvents
    BY DEF Current, Basic, TypeOK, ObjectTypes, TCPServerEvents
  <1>5. /\ tcpCache'[k] = tcpApi[k] /\ tcpCache[k] # tcpApi[k]
        /\ \A j \in Keys \ {k} : tcpCache'[j] = tcpCache[j]
    BY DEF TCPServerDelta, Current, Basic, TypeOK, ObjectTypes
  <1>6. ~Settled(k)'
    <2>1. CASE b
      BY <1>3, <1>5, <2>1 DEF Settled
    <2>2. CASE ~b
      <3>1. e.key = k /\ EnqueuedBy(e) = {k}
        BY <1>5, <2>2 DEF EnqueuedBy
      <3>2. NotifiedTCPServer(k)'
        BY <1>3, <1>4, <3>1, AppendTCPServerEvent
      <3>. QED
        BY <3>2 DEF Settled, Coming
    <2>. QED
      BY <2>1, <2>2
  <1>7. ASSUME NEW j \in Keys, Settled(j)'
        PROVE  Settled(j) /\ tcpCache'[j] = tcpCache[j] /\ Wanted(j)' = Wanted(j)
    <2>1. j # k
      BY <1>6, <1>7
    <2>2. tcpCache'[j] = tcpCache[j]
      BY <1>5, <2>1
    <2>3. Wanted(j)' = Wanted(j)
      BY <1>1, <2>2 DEF Wanted, PossibleServices, PossiblePods
    <2>4. Coming(j) => Coming(j)'
      <3>1. NotifiedTCPServer(j) => NotifiedTCPServer(j)'
        BY <1>3, <1>4, AppendTCPServerEvent
      <3>2. NotifiedEndpoints(j) => NotifiedEndpoints(j)'
        BY <1>1, <2>2 DEF NotifiedEndpoints
      <3>. QED
        BY <1>1, <3>1, <3>2 DEF Coming
    <2>. QED
      BY <1>7, <2>2, <2>3, <2>4 DEF Settled
  <1>. QED
    BY <1>1, <1>2, <1>7 DEF Calm

LEMMA CalmUnwatchedDelta ==
    ASSUME Current,
           \/ \E s \in ServiceKeys : ServiceDelta(s)
           \/ \E p \in Pods : PodDelta(p)
    PROVE  Calm /\ OthersKnown'
  <1>1. /\ "service" \in Churn \/ UNCHANGED <<svcApi, svcCache>>
        /\ "pod" \in Churn \/ UNCHANGED <<podApi, podCache>>
    <2>1. CASE \E s \in ServiceKeys : ServiceDelta(s)
      BY <2>1 DEF ServiceDelta, Current, OthersKnown
    <2>2. CASE \E p \in Pods : PodDelta(p)
      BY <2>2 DEF PodDelta, Current, OthersKnown
    <2>. QED
      BY <2>1, <2>2
  <1>2. OthersKnown' /\ SamePossible
    BY <1>1, OthersKnownLemma
  <1>3. UNCHANGED <<tcpCache, eptCache, events, queue, worker, files>>
    BY DEF ServiceDelta, PodDelta
  <1>4. \A j \in Keys : Settled(j)' <=> Settled(j)
    BY <1>3 DEF Settled, Coming, NotifiedTCPServer, NotifiedEndpoints
  <1>5. \A j \in Keys : Wanted(j)' = Wanted(j)
    BY <1>2, <1>3 DEF Wanted, SamePossible
  <1>. QED
    BY <1>2, <1>3, <1>4, <1>5 DEF Calm

LEMMA CalmEndpointsDelta ==
    ASSUME Current, NEW s \in ServiceKeys, EndpointsDelta(s)
    PROVE  Calm /\ OthersKnown'
  <1>1. UNCHANGED <<svcApi, podApi, svcCache, podCache, tcpCache, tcpEvents, queue,
                    worker, files>>
    BY DEF EndpointsDelta
  <1>2. OthersKnown' /\ SamePossible
    BY <1>1, OthersKnownLemma
  <1>. DEFINE e == [service |-> s, old |-> eptCache[s], new |-> eptApi[s]]
  <1>3. e \in EndpointsEvents /\ eptEvents' = Append(eptEvents, e) /\ e.old # e.new
    BY DEF EndpointsDelta, Current, Basic, TypeOK, ObjectTypes, EndpointsEvents
  <1>4. \A v \in ServiceKeys \ {s} : eptCache'[v] = eptCache[v]
    BY DEF EndpointsDelta, Current, Basic, TypeOK, ObjectTypes
  <1>5. ASSUME NEW j \in Keys, Settled(j)'
        PROVE  Settled(j) /\ Wanted(j)' = Wanted(j)
    <2>1. NotifiedTCPServer(j) => NotifiedTCPServer(j)'
      BY <1>1 DEF NotifiedTCPServer
    <2>2. NotifiedEndpoints(j) => NotifiedEndpoints(j)'
      BY <1>1, <1>3, AppendEndpointsEvent
    <2>3. Settled(j)
      BY <1>1, <1>5, <2>1, <2>2 DEF Settled, Coming
    <2>4. CASE ~Served(tcpCache[j])
      BY <1>1, <2>3, <2>4 DEF Wanted
    <2>5. CASE Served(tcpCache[j])
      <3>1. ServiceKey(j, tcpCache[j]) # s
        BY <1>1, <1>3, <1>5, <2>5, AppendEndpointsEvent DEF Settled, Coming
      <3>2. ServiceKey(j, tcpCache[j]) \in ServiceKeys
        BY <2>5, ServiceKeyLemma DEF Current, Basic, TypeOK, ObjectTypes
      <3>3. eptCache'[ServiceKey(j, tcpCache[j])] = eptCache[ServiceKey(j, tcpCache[j])]
        BY <1>4, <3>1, <3>2
      <3>. QED
        BY <1>1, <2>3, <3>3 DEF Wanted, PossibleServices, PossiblePods
    <2>. QED
      BY <2>3, <2>4, <2>5
  <1>. QED
    BY <1>1, <1>2, <1>5 DEF Calm

\* A resync notifies no change.
LEMMA CalmResync ==
    ASSUME Current,
           \/ \E k \in Keys : TCPServerResync(k)
           \/ \E s \in ServiceKeys : EndpointsResync(s)
    PROVE  Calm /\ OthersKnown'
  <1>1. UNCHANGED <<svcApi, podApi, caches, queue, worker, files>>
    BY DEF TCPServerResync, EndpointsResync
  <1>2. OthersKnown' /\ SamePossible
    BY <1>1, OthersKnownLemma
  <1>3. ASSUME NEW j \in Keys PROVE Settled(j)' => Settled(j)
    <2>1. NotifiedTCPServer(j) => NotifiedTCPServer(j)'
      BY DEF TCPServerResync, EndpointsResync, NotifiedTCPServer
    <2>2. NotifiedEndpoints(j) => NotifiedEndpoints(j)'
      BY DEF TCPServerResync, EndpointsResync, NotifiedEndpoints
    <2>. QED
      BY <1>1, <2>1, <2>2 DEF Settled, Coming
  <1>4. \A j \in Keys : Wanted(j)' = Wanted(j) /\ tcpCache'[j] = tcpCache[j]
    BY <1>1, SameWanted
  <1>. QED
    BY <1>1, <1>2, <1>3, <1>4 DEF Calm

\* A notification that a handler takes leaves its keys in the queue.
LEMMA CalmTCPServerEvent ==
    ASSUME Current, HandleTCPServerEvent
    PROVE  Calm /\ OthersKnown'
  <1>1. UNCHANGED <<svcApi, podApi, caches, eptEvents, processing, waiting, worker, files>>
    BY DEF HandleTCPServerEvent
  <1>2. OthersKnown' /\ SamePossible
    BY <1>1, OthersKnownLemma
  <1>3. ASSUME NEW j \in Keys PROVE Coming(j) => Coming(j)'
    <2>1. tcpEvents \in Seq(TCPServerEvents) /\ tcpEvents # <<>>
          /\ tcpEvents' = Tail(tcpEvents)
      BY DEF Current, Basic, TypeOK, EventTypes, HandleTCPServerEvent
    <2>2. dirty' = dirty \union EnqueuedBy(tcpEvents[1])
      BY <2>1 DEF HandleTCPServerEvent, Add
    <2>3. NotifiedTCPServer(j) => NotifiedTCPServer(j)' \/ j \in dirty'
      <3>1. SUFFICES ASSUME NEW i \in DOMAIN tcpEvents,
                            tcpEvents[i].key = j, EnqueuedBy(tcpEvents[i]) # {}
                     PROVE  NotifiedTCPServer(j)' \/ j \in dirty'
        BY DEF NotifiedTCPServer
      <3>2. CASE i = 1
        <4>1. j \in EnqueuedBy(tcpEvents[1])
          BY <3>1, <3>2 DEF EnqueuedBy
        <4>. QED
          BY <2>2, <4>1
      <3>3. CASE i # 1
        <4>1. i - 1 \in DOMAIN tcpEvents' /\ tcpEvents'[i - 1] = tcpEvents[i]
          BY <2>1, <3>3
        <4>. QED
          BY <3>1, <4>1 DEF NotifiedTCPServer
      <3>. QED
        BY <3>2, <3>3
    <2>4. NotifiedEndpoints(j) => NotifiedEndpoints(j)'
      BY <1>1 DEF NotifiedEndpoints
    <2>. QED
      BY <1>1, <2>2, <2>3, <2>4 DEF Coming
  <1>4. \A j \in Keys : Wanted(j)' = Wanted(j) /\ tcpCache'[j] = tcpCache[j]
    BY <1>1, SameWanted
  <1>. QED
    BY <1>1, <1>2, <1>3, <1>4 DEF Calm, Settled

LEMMA CalmEndpointsEvent ==
    ASSUME Current, HandleEndpointsEvent
    PROVE  Calm /\ OthersKnown'
  <1>1. UNCHANGED <<svcApi, podApi, caches, tcpEvents, processing, waiting, worker, files>>
    BY DEF HandleEndpointsEvent
  <1>2. OthersKnown' /\ SamePossible
    BY <1>1, OthersKnownLemma
  <1>3. ASSUME NEW j \in Keys PROVE Coming(j) => Coming(j)'
    <2>1. eptEvents \in Seq(EndpointsEvents) /\ eptEvents # <<>>
          /\ eptEvents' = Tail(eptEvents)
      BY DEF Current, Basic, TypeOK, EventTypes, HandleEndpointsEvent
    <2>2. /\ dirty \subseteq dirty'
          /\ eptEvents[1].old # eptEvents[1].new =>
                TCPServersForEndpoints(eptEvents[1].service) \subseteq dirty'
      BY <2>1 DEF HandleEndpointsEvent, Add
    <2>3. NotifiedEndpoints(j) => NotifiedEndpoints(j)' \/ j \in dirty'
      <3>1. SUFFICES ASSUME NEW i \in DOMAIN eptEvents, Served(tcpCache[j]),
                            eptEvents[i].service = ServiceKey(j, tcpCache[j]),
                            eptEvents[i].old # eptEvents[i].new
                     PROVE  NotifiedEndpoints(j)' \/ j \in dirty'
        BY DEF NotifiedEndpoints
      <3>2. CASE i = 1
        <4>1. j \in TCPServersForEndpoints(eptEvents[1].service)
          BY <3>1, <3>2 DEF TCPServersForEndpoints, ListedTCPServers, ServiceKey, Served
        <4>. QED
          BY <2>2, <3>1, <3>2, <4>1
      <3>3. CASE i # 1
        <4>1. i - 1 \in DOMAIN eptEvents' /\ eptEvents'[i - 1] = eptEvents[i]
          BY <2>1, <3>3
        <4>. QED
          BY <1>1, <3>1, <4>1 DEF NotifiedEndpoints
      <3>. QED
        BY <3>2, <3>3
    <2>4. NotifiedTCPServer(j) => NotifiedTCPServer(j)'
      BY <1>1 DEF NotifiedTCPServer
    <2>. QED
      BY <1>1, <2>2, <2>3, <2>4 DEF Coming
  <1>4. \A j \in Keys : Wanted(j)' = Wanted(j) /\ tcpCache'[j] = tcpCache[j]
    BY <1>1, SameWanted
  <1>. QED
    BY <1>1, <1>2, <1>3, <1>4 DEF Calm, Settled

LEMMA CalmRateLimit ==
    ASSUME Current, NEW k \in Keys, RateLimitElapsed(k)
    PROVE  Calm /\ OthersKnown'
  <1>1. UNCHANGED <<svcApi, podApi, caches, events, processing, worker, files>>
    BY DEF RateLimitElapsed
  <1>2. OthersKnown' /\ SamePossible
    BY <1>1, OthersKnownLemma
  <1>3. \A j \in Keys : Settled(j)' => Settled(j)
    BY <1>1 DEF Settled, Coming, NotifiedTCPServer, NotifiedEndpoints, RateLimitElapsed,
       Add
  <1>4. \A j \in Keys : Wanted(j)' = Wanted(j) /\ tcpCache'[j] = tcpCache[j]
    BY <1>1, SameWanted
  <1>. QED
    BY <1>1, <1>2, <1>3, <1>4 DEF Calm

\* What a worker does with its key does not concern the other keys and workers.
LEMMA OthersLemma ==
    ASSUME Current, NEW w \in Workers, NEW k \in Keys, UNCHANGED caches,
           \A v \in Workers : Busy(v) /\ v # w => key[v] # k,
           \A v \in Workers \ {w} : /\ pc'[v] = pc[v] /\ key'[v] = key[v]
                                    /\ tcps'[v] = tcps[v] /\ svc'[v] = svc[v]
                                    /\ cfg'[v] = cfg[v],
           \A j \in Keys \ {k} : /\ files'[j] = files[j]
                                 /\ Settled(j)' => Settled(j)
                                 /\ j \in processing => j \in processing'
    PROVE  /\ \A v \in Holding' \ {w} : Settled(key[v])' => HandIsCurrent(v)'
           /\ \A j \in Keys \ {k} : Settled(j)' /\ j \notin processing' =>
                                        files'[j] \in Wanted(j)'
  <1>1. \A j \in Keys : Wanted(j)' = Wanted(j) /\ tcpCache'[j] = tcpCache[j]
    BY SameWanted
  <1>2. SamePossible
    BY DEF SamePossible, PossibleServices, PossiblePods
  <1>3. ASSUME NEW v \in Holding' \ {w}, Settled(key[v])' PROVE HandIsCurrent(v)'
    <2>1. v \in Workers /\ v # w /\ v \in Holding /\ Busy(v)
      BY DEF Holding, Busy
    <2>2. key[v] \in Keys \ {k} /\ key'[v] = key[v]
      BY <2>1, BusyKeyLemma DEF Current
    <2>3. Settled(key[v])
      BY <1>3, <2>2
    <2>4. HandIsCurrent(v)
      BY <2>1, <2>3 DEF Current, WorkIsCurrent
    <2>5. /\ pc'[v] = pc[v] /\ tcps'[v] = tcps[v] /\ svc'[v] = svc[v] /\ cfg'[v] = cfg[v]
          /\ files'[key[v]] = files[key[v]]
      BY <2>1, <2>2
    <2>. QED
      BY <1>1, <1>2, <2>2, <2>4, <2>5 DEF HandIsCurrent, SamePossible
  <1>4. ASSUME NEW j \in Keys \ {k}, Settled(j)', j \notin processing'
        PROVE  files'[j] \in Wanted(j)'
    BY <1>1, <1>4 DEF Current, SettledIsCurrent
  <1>. QED
    BY <1>3, <1>4

LEMMA GoesOnLemma ==
    ASSUME Current, NEW w \in Workers, Busy(w), NEW step \in Steps \ {"get"},
           pc' = [pc EXCEPT ![w] = step],
           UNCHANGED <<svcApi, podApi, caches, events, queue, key>>,
           \A v \in Workers \ {w} : /\ tcps'[v] = tcps[v] /\ svc'[v] = svc[v]
                                    /\ cfg'[v] = cfg[v],
           \A j \in Keys \ {key[w]} : files'[j] = files[j],
           Settled(key[w]) => HandIsCurrent(w)'
    PROVE  WorkIsCurrent' /\ SettledIsCurrent' /\ OthersKnown'
  <1>. DEFINE k == key[w]
  <1>1. k \in Keys /\ k \in processing
    BY BusyKeyLemma DEF Current
  <1>2. \A v \in Workers : Busy(v) /\ v # w => key[v] # k
    BY DEF Current, Basic, DistinctKeys
  <1>3. \A j \in Keys : Settled(j)' <=> Settled(j)
    BY SameSettled
  <1>4. \A v \in Workers \ {w} : pc'[v] = pc[v]
    BY DEF Current, Basic, TypeOK, WorkerTypes
  <1>. HIDE DEF k
  <1>5. /\ \A v \in Holding' \ {w} : Settled(key[v])' => HandIsCurrent(v)'
        /\ \A j \in Keys \ {k} : Settled(j)' /\ j \notin processing' =>
                                     files'[j] \in Wanted(j)'
    BY <1>1, <1>2, <1>3, <1>4, OthersLemma DEF k
  <1>6. Settled(key[w])' => HandIsCurrent(w)'
    BY <1>1, <1>3 DEF k
  <1>7. WorkIsCurrent'
    BY <1>5, <1>6 DEF WorkIsCurrent
  <1>8. SettledIsCurrent'
    BY <1>1, <1>5 DEF SettledIsCurrent
  <1>9. OthersKnown'
    BY OthersKnownLemma
  <1>. QED
    BY <1>7, <1>8, <1>9

LEMMA ReleasesLemma ==
    ASSUME Current, NEW w \in Workers, Busy(w), Release(w),
           UNCHANGED <<svcApi, podApi, caches, events, dirty, files>>,
           waiting \subseteq waiting',
           Settled(key[w]) => \/ key[w] \in waiting'
                              \/ files[key[w]] \in Wanted(key[w])
    PROVE  WorkIsCurrent' /\ SettledIsCurrent' /\ OthersKnown'
  <1>1. PICK k \in Keys : k = key[w] /\ processing' = processing \ {k}
    BY BusyKeyLemma DEF Current, Release, Done
  <1>2. \A v \in Workers : Busy(v) /\ v # w => key[v] # k
    BY <1>1 DEF Current, Basic, DistinctKeys
  <1>3. \A j \in Keys : Settled(j)' => Settled(j)
    BY DEF Settled, Coming, NotifiedTCPServer, NotifiedEndpoints
  <1>4. \A v \in Workers \ {w} : /\ pc'[v] = pc[v] /\ key'[v] = key[v]
                                 /\ tcps'[v] = tcps[v] /\ svc'[v] = svc[v]
                                 /\ cfg'[v] = cfg[v]
    BY DEF Current, Basic, TypeOK, WorkerTypes, Release
  <1>5. Settled(k)' => files'[k] \in Wanted(k)'
    BY <1>1, <1>3, SameWanted DEF Settled, Coming
  <1>6. w \notin Holding'
    BY DEF Holding, Release, Current, Basic, TypeOK, WorkerTypes
  <1>7. /\ \A v \in Holding' \ {w} : Settled(key[v])' => HandIsCurrent(v)'
        /\ \A j \in Keys \ {k} : Settled(j)' /\ j \notin processing' =>
                                     files'[j] \in Wanted(j)'
    BY <1>1, <1>2, <1>3, <1>4, OthersLemma
  <1>8. WorkIsCurrent'
    BY <1>6, <1>7 DEF WorkIsCurrent
  <1>9. SettledIsCurrent'
    BY <1>5, <1>7 DEF SettledIsCurrent
  <1>. QED
    BY <1>8, <1>9, OthersKnownLemma

\* A worker that takes a key has read nothing yet.
LEMMA CurrentGet ==
    ASSUME Current, NEW w \in Workers, Get(w)
    PROVE  WorkIsCurrent' /\ SettledIsCurrent' /\ OthersKnown'
  <1>1. PICK k \in Queued : /\ key' = [key EXCEPT ![w] = k]
                            /\ processing' = processing \union {k}
                            /\ dirty' = dirty \ {k}
    BY DEF Get
  <1>2. k \in Keys /\ k \notin processing
    BY DEF Queued, Current, Basic, TypeOK, QueueTypes
  <1>3. \A v \in Workers : Busy(v) /\ v # w => key[v] # k
    BY <1>2 DEF Current, Basic, KeysInHand
  <1>4. /\ UNCHANGED <<svcApi, podApi, caches, events, waiting, tcps, svc, cfg, files>>
        /\ pc' = [pc EXCEPT ![w] = "tcpserver"]
    BY DEF Get
  <1>5. \A v \in Workers \ {w} : pc'[v] = pc[v] /\ key'[v] = key[v]
    BY <1>1, <1>4 DEF Current, Basic, TypeOK, WorkerTypes
  <1>6. \A j \in Keys \ {k} : Settled(j)' => Settled(j)
    BY <1>1, <1>4 DEF Settled, Coming, NotifiedTCPServer, NotifiedEndpoints
  <1>7. /\ \A v \in Holding' \ {w} : Settled(key[v])' => HandIsCurrent(v)'
        /\ \A j \in Keys \ {k} : Settled(j)' /\ j \notin processing' =>
                                     files'[j] \in Wanted(j)'
    BY <1>1, <1>2, <1>3, <1>4, <1>5, <1>6, OthersLemma
  <1>8. HandIsCurrent(w)'
    BY <1>4 DEF HandIsCurrent, Current, Basic, TypeOK, WorkerTypes
  <1>9. WorkIsCurrent' /\ SettledIsCurrent'
    BY <1>1, <1>7, <1>8 DEF WorkIsCurrent, SettledIsCurrent
  <1>. QED
    BY <1>4, <1>9, OthersKnownLemma

LEMMA CurrentReadTCPServer ==
    ASSUME Current, NEW w \in Workers, ReadTCPServer(w)
    PROVE  WorkIsCurrent' /\ SettledIsCurrent' /\ OthersKnown'
  <1>1. Busy(w) /\ UNCHANGED <<svcApi, podApi, caches, events, queue, key, svc, cfg, files>>
    BY DEF ReadTCPServer, Busy
  <1>2. CASE Served(tcpCache[key[w]])
    <2>1. pc' = [pc EXCEPT ![w] = "service"] /\ tcps' = [tcps EXCEPT ![w] = tcpCache[key[w]]]
      BY <1>2 DEF ReadTCPServer
    <2>2. HandIsCurrent(w)'
      BY <1>1, <2>1 DEF HandIsCurrent, Current, Basic, TypeOK, WorkerTypes
    <2>3. \A v \in Workers \ {w} : tcps'[v] = tcps[v]
      BY <2>1 DEF Current, Basic, TypeOK, WorkerTypes
    <2>. QED
      BY <1>1, <2>1, <2>2, <2>3, GoesOnLemma DEF Steps
  <1>3. CASE ~Served(tcpCache[key[w]])
    <2>1. pc' = [pc EXCEPT ![w] = "remove"] /\ UNCHANGED tcps
      BY <1>3 DEF ReadTCPServer
    <2>2. HandIsCurrent(w)'
      BY <1>1, <1>3, <2>1 DEF HandIsCurrent, Wanted, Current, Basic, TypeOK, WorkerTypes
    <2>. QED
      BY <1>1, <2>1, <2>2, GoesOnLemma DEF Steps
  <1>. QED
    BY <1>2, <1>3

\* A missing service hides the endpoints.
LEMMA NoServiceLemma ==
    ASSUME NEW k, NEW t, NEW e, NEW pods
    PROVE  ConfigsFor(k, t, Absent, e, pods) = ConfigsFor(k, t, Absent, Absent, pods)
  BY DEF ConfigsFor

LEMMA CurrentReadService ==
    ASSUME Current, NEW w \in Workers, ReadService(w)
    PROVE  WorkIsCurrent' /\ SettledIsCurrent' /\ OthersKnown'
  <1>. DEFINE sk == ServiceKey(key[w], tcps[w])
  <1>1. /\ Busy(w) /\ pc[w] = "service"
        /\ UNCHANGED <<svcApi, podApi, caches, events, queue, key, tcps, files>>
    BY DEF ReadService, Busy
  <1>2. sk \in ServiceKeys /\ Served(tcps[w])
    BY <1>1, LookUpLemma DEF Current
  <1>3. svcCache[sk] \in PossibleServices(sk) /\ podCache \in PossiblePods
    BY <1>2 DEF PossibleServices, PossiblePods, Current, Basic, TypeOK, ObjectTypes
  <1>4. Settled(key[w]) => tcps[w] = tcpCache[key[w]]
    BY <1>1 DEF Current, WorkIsCurrent, HandIsCurrent, Holding
  <1>5. CASE svcCache[sk] = Absent
    <2>1. PICK c \in ConfigsFor(key[w], tcps[w], Absent, Absent, podCache) :
            cfg' = [cfg EXCEPT ![w] = c]
      BY <1>5 DEF ReadService
    <2>2. pc' = [pc EXCEPT ![w] = "create"] /\ UNCHANGED svc
      BY <1>5 DEF ReadService
    <2>3. cfg'[w] = c /\ pc'[w] = "create" /\ \A v \in Workers \ {w} : cfg'[v] = cfg[v]
      BY <2>1, <2>2 DEF Current, Basic, TypeOK, WorkerTypes
    <2>4. c \in ConfigsFor(key[w], tcps[w], svcCache[sk], eptCache[sk], podCache)
      BY <1>5, <2>1, NoServiceLemma
    <2>5. Settled(key[w]) => c \in Wanted(key[w])
      BY <1>2, <1>3, <1>4, <2>4 DEF Wanted
    <2>6. Settled(key[w]) => c \in Wanted(key[w])'
      BY <1>1, <2>5 DEF Wanted, PossibleServices, PossiblePods
    <2>7. Settled(key[w]) => HandIsCurrent(w)'
      BY <2>3, <2>6 DEF HandIsCurrent
    <2>. QED
      BY <1>1, <2>2, <2>3, <2>7, GoesOnLemma DEF Steps
  <1>6. CASE svcCache[sk] # Absent
    <2>1. /\ pc' = [pc EXCEPT ![w] = "endpoints"]
          /\ svc' = [svc EXCEPT ![w] = svcCache[sk]] /\ UNCHANGED cfg
      BY <1>6 DEF ReadService
    <2>2. /\ svc'[w] = svcCache[sk] /\ pc'[w] = "endpoints"
          /\ \A v \in Workers \ {w} : svc'[v] = svc[v]
      BY <2>1 DEF Current, Basic, TypeOK, WorkerTypes
    <2>3. svc'[w] \in PossibleServices(ServiceKey(key[w], tcps[w]))'
      BY <1>1, <1>3, <2>2 DEF PossibleServices
    <2>4. Settled(key[w]) => HandIsCurrent(w)'
      BY <1>1, <1>4, <2>2, <2>3 DEF HandIsCurrent
    <2>. QED
      BY <1>1, <2>1, <2>2, <2>4, GoesOnLemma DEF Steps
  <1>. QED
    BY <1>5, <1>6

LEMMA CurrentReadEndpoints ==
    ASSUME Current, NEW w \in Workers, ReadEndpoints(w)
    PROVE  WorkIsCurrent' /\ SettledIsCurrent' /\ OthersKnown'
  <1>. DEFINE sk == ServiceKey(key[w], tcps[w])
  <1>1. /\ Busy(w) /\ pc[w] = "endpoints"
        /\ UNCHANGED <<svcApi, podApi, caches, events, queue, key, tcps, svc, files>>
        /\ pc' = [pc EXCEPT ![w] = "create"]
    BY DEF ReadEndpoints, Busy
  <1>2. Served(tcps[w])
    BY <1>1, LookUpLemma DEF Current
  <1>3. Settled(key[w]) => tcps[w] = tcpCache[key[w]] /\ svc[w] \in PossibleServices(sk)
    BY <1>1 DEF Current, WorkIsCurrent, HandIsCurrent, Holding
  <1>4. podCache \in PossiblePods
    BY DEF PossiblePods, Current, Basic, TypeOK, ObjectTypes
  <1>5. PICK c \in ConfigsFor(key[w], tcps[w], svc[w], eptCache[sk], podCache) :
          cfg' = [cfg EXCEPT ![w] = c]
    BY DEF ReadEndpoints
  <1>6. cfg'[w] = c /\ pc'[w] = "create" /\ \A v \in Workers \ {w} : cfg'[v] = cfg[v]
    BY <1>1, <1>5 DEF Current, Basic, TypeOK, WorkerTypes
  <1>7. Settled(key[w]) => c \in Wanted(key[w])
    BY <1>2, <1>3, <1>5, <1>4 DEF Wanted
  <1>8. Settled(key[w]) => c \in Wanted(key[w])'
    BY <1>1, <1>7 DEF Wanted, PossibleServices, PossiblePods
  <1>9. Settled(key[w]) => HandIsCurrent(w)'
    BY <1>6, <1>8 DEF HandIsCurrent
  <1>. QED
    BY <1>1, <1>6, <1>9, GoesOnLemma DEF Steps

LEMMA CurrentConfigurer ==
    ASSUME Current, NEW w \in Workers,
           Create(w) \/ Write(w) \/ Store(w) \/ Remove(w) \/ Delete(w)
    PROVE  WorkIsCurrent' /\ SettledIsCurrent' /\ OthersKnown'
  <1>1. /\ Busy(w)
        /\ UNCHANGED <<svcApi, podApi, caches, events, queue, key, tcps, svc, cfg>>
    BY DEF Create, Write, Store, Remove, Delete, Busy
  <1>2. key[w] \in Keys /\ w \in Holding
    BY <1>1, BusyKeyLemma DEF Current, Holding, Busy
  <1>3. \A j \in Keys \ {key[w]} : files'[j] = files[j]
    BY DEF Create, Write, Store, Remove, Delete, Current, Basic, TypeOK, ConfTypes
  <1>4. Wanted(key[w])' = Wanted(key[w])
    BY <1>1, <1>2 DEF Wanted, PossibleServices, PossiblePods
  <1>5. PICK step \in {"write", "store", "reload", "delete"} :
          pc' = [pc EXCEPT ![w] = step]
    BY DEF Create, Write, Store, Remove, Delete
  <1>6. ASSUME Settled(key[w]) PROVE HandIsCurrent(w)'
    <2>1. HandIsCurrent(w)
      BY <1>2, <1>6 DEF Current, WorkIsCurrent
    <2>2. CASE Create(w)
      BY <1>1, <1>4, <2>1, <2>2
      DEF HandIsCurrent, Create, Current, Basic, TypeOK, WorkerTypes
    <2>3. CASE Write(w)
      BY <1>1, <1>2, <1>4, <2>1, <2>3
      DEF HandIsCurrent, Write, Current, Basic, TypeOK, WorkerTypes, ConfTypes
    <2>4. CASE Store(w) \/ Delete(w)
      BY <1>1, <1>4, <2>1, <2>4
      DEF HandIsCurrent, Store, Delete, Current, Basic, TypeOK, WorkerTypes
    <2>5. CASE Remove(w)
      BY <1>1, <1>2, <1>4, <2>1, <2>5
      DEF HandIsCurrent, Remove, Current, Basic, TypeOK, WorkerTypes, ConfTypes
    <2>. QED
      BY <2>2, <2>3, <2>4, <2>5
  <1>. QED
    BY <1>1, <1>3, <1>5, <1>6, GoesOnLemma DEF Steps

LEMMA CurrentEndOfSync ==
    ASSUME Current, NEW w \in Workers, Finish(w) \/ ListerFails(w)
    PROVE  WorkIsCurrent' /\ SettledIsCurrent' /\ OthersKnown'
  <1>1. /\ Busy(w) /\ Release(w)
        /\ UNCHANGED <<svcApi, podApi, caches, events, dirty, files>>
        /\ waiting \subseteq waiting'
    BY DEF Finish, ListerFails, Busy
  <1>2. Settled(key[w]) => key[w] \in waiting' \/ files[key[w]] \in Wanted(key[w])
    BY DEF Finish, ListerFails, Current, WorkIsCurrent, HandIsCurrent, Holding
  <1>. QED
    BY <1>1, <1>2, ReleasesLemma

LEMMA CalmOutside == ASSUME Current, Outside PROVE Calm /\ OthersKnown'
  <1>1. ASSUME NEW k \in Keys, ChangeTCPServer(k) PROVE Calm /\ OthersKnown'
    BY <1>1, CalmIdle DEF ChangeTCPServer
  <1>2. ASSUME NEW s \in ServiceKeys, ChangeService(s) \/ ChangeEndpoints(s)
        PROVE  Calm /\ OthersKnown'
    BY <1>2, CalmIdle DEF ChangeService, ChangeEndpoints, Disturb
  <1>4. ASSUME NEW p \in Pods, ChangePod(p) PROVE Calm /\ OthersKnown'
    BY <1>4, CalmIdle DEF ChangePod, Disturb
  <1>3. CASE TCPServersSynced \/ ServicesSynced \/ EndpointsSynced \/ StartWorkers
    BY <1>3, CalmIdle
    DEF TCPServersSynced, ServicesSynced, EndpointsSynced, HasSynced, StartWorkers
  <1>. QED
    BY <1>1, <1>2, <1>3, <1>4, CalmTCPServerDelta, CalmUnwatchedDelta, CalmEndpointsDelta,
       CalmResync, CalmTCPServerEvent, CalmEndpointsEvent, CalmRateLimit
    DEF Outside

LEMMA CurrentNext == Current /\ [Next]_vars => Current'
  <1>. SUFFICES ASSUME Current, [Next]_vars
                PROVE  WorkIsCurrent' /\ SettledIsCurrent' /\ OthersKnown'
    BY BasicNext DEF Current
  <1>1. CASE Restart
    BY <1>1, CurrentRestart
  <1>2. CASE Outside
    BY <1>2, CalmOutside, FrameLemma
  <1>3. ASSUME NEW w \in Workers, Get(w) \/ Sync(w) \/ ListerFails(w)
        PROVE  WorkIsCurrent' /\ SettledIsCurrent' /\ OthersKnown'
    BY <1>3, CurrentGet, CurrentReadTCPServer, CurrentReadService, CurrentReadEndpoints,
       CurrentConfigurer, CurrentEndOfSync
    DEF Sync
  <1>4. CASE UNCHANGED vars
    BY <1>4, CalmIdle, FrameLemma DEF vars
  <1>. QED
    BY <1>1, <1>2, <1>3, <1>4 DEF Next

LEMMA CurrentInvariant == Spec => []Current
  <1>1. Init => Current
    BY InitBasic, InitCurrent DEF Current
  <1>. QED
    BY <1>1, CurrentNext, PTL DEF Spec

\* What a worker has read of a key, and is about to write, is current unless
\* the key is coming again.
THEOREM WorkInHandIsCurrent == Spec => []WorkIsCurrent
  <1>1. Current => WorkIsCurrent
    BY DEF Current
  <1>. QED
    BY <1>1, CurrentInvariant, PTL

\* No update of a TCPServer or of its endpoints is lost, whatever its
\* interleaving with the workers, with lister errors and with restarts.
THEOREM NoLostUpdate == Spec => []ExistingIsCurrent
  <1>1. Current => ExistingIsCurrent
    BY DEF Current, SettledIsCurrent, ExistingIsCurrent, Pending, Settled
  <1>. QED
    BY <1>1, CurrentInvariant, PTL

\* A deleted TCPServer's file is removed, unless the deletion is learnt from a
\* list after a broken watch.
THEOREM NoFileLeftBehind ==
    ASSUME "relist" \notin Churn
    PROVE  Spec => []DeletedIsRemoved
  <1>1. \A k \in Keys : tcpCache[k] = Absent => Wanted(k) = {Absent}
    BY DEF Wanted, Served
  <1>2. Current => DeletedIsRemoved
    BY <1>1 DEF Current, SettledIsCurrent, DeletedIsRemoved, Pending, Settled
  <1>. QED
    BY <1>2, CurrentInvariant, PTL

\* A truncated file always has the worker that truncated it about to write it.
THEOREM NoTruncatedFileLeft == Spec => []TruncatedIsOwned
  <1>1. Init => TruncatedIsOwned
    BY TruncatedAssumption DEF Init, NoObject, TruncatedIsOwned
  <1>2. ASSUME Basic, TruncatedIsOwned, [Next]_vars PROVE TruncatedIsOwned'
    <2>1. CASE UNCHANGED <<pc, key, files>>
      BY <2>1, <1>2 DEF TruncatedIsOwned
    <2>2. CASE Restart
      BY <2>2, TruncatedAssumption DEF Restart, NoObject, TruncatedIsOwned
    <2>3. ASSUME NEW w \in Workers, Get(w) \/ Sync(w) \/ ListerFails(w)
          PROVE  TruncatedIsOwned'
      <3>1. CASE pc[w] # "write"
        <4>1. \A v \in Workers : pc[v] = "write" => pc'[v] = "write" /\ key'[v] = key[v]
          BY <1>2, <2>3, <3>1
          DEF Basic, TypeOK, WorkerTypes, Get, Sync, ReadTCPServer, ReadService,
              ReadEndpoints, Create, Write, Store, Remove, Delete, Finish, ListerFails,
              Release
        <4>2. ASSUME NEW k \in Keys, files'[k] = Truncated, files[k] # Truncated
              PROVE  pc'[w] = "write" /\ key'[w] = k
          BY <1>2, <2>3, <3>1, <4>2, TruncatedAssumption
          DEF Basic, TypeOK, WorkerTypes, ConfTypes, Get, Sync, ReadTCPServer,
              ReadService, ReadEndpoints, Create, Write, Store, Remove, Delete, Finish,
              ListerFails, Release
        <4>. QED
          BY <1>2, <4>1, <4>2 DEF TruncatedIsOwned
      <3>2. CASE pc[w] = "write"
        <4>1. Write(w)
          BY <2>3, <3>2
          DEF Get, Sync, ReadTCPServer, ReadService, ReadEndpoints, Create, Store, Remove,
              Delete, Finish, ListerFails
        <4>2. key[w] \in Keys
          BY <1>2, <3>2, BusyKeyLemma DEF Busy
        <4>3. files'[key[w]] # Truncated
          BY <1>2, <4>1, <4>2, TruncatedAssumption
          DEF Basic, TypeOK, WorkerTypes, ConfTypes, Write
        <4>. QED
          BY <1>2, <4>1, <4>3
          DEF TruncatedIsOwned, Write, Basic, TypeOK, WorkerTypes, ConfTypes
      <3>. QED
        BY <3>1, <3>2
    <2>. QED
      BY <1>2, <2>1, <2>2, <2>3
      DEF Next, Outside, vars, ChangeTCPServer, ChangeService, ChangeEndpoints, TCPServerDelta,
          ServiceDelta, EndpointsDelta, ChangePod, PodDelta, TCPServerResync,
          EndpointsResync, TCPServersSynced, ServicesSynced, EndpointsSynced, HasSynced, RateLimitElapsed,
          HandleTCPServerEvent, HandleEndpointsEvent, StartWorkers
  <1>. QED
    BY <1>1, <1>2, InitBasic, BasicNext, PTL DEF Spec

(***************************************************************************)
(* Files change only in the hands of a worker, after the awaited caches    *)
(* have been filled: an agent that has just started never takes an empty   *)
(* cache for the deletion of everything.                                   *)
(***************************************************************************)
WorkAfterSync ==
    /\ started => AwaitedInformers \subseteq synced
    /\ processing # {} => started

LEMMA WorkAfterSyncNext == ASSUME Basic, WorkAfterSync, [Next]_vars PROVE WorkAfterSync'
  <1>1. CASE UNCHANGED <<run, processing>>
    BY <1>1 DEF WorkAfterSync
  <1>2. CASE Restart
    BY <1>2 DEF Restart, WorkAfterSync
  <1>3. CASE TCPServersSynced \/ ServicesSynced \/ EndpointsSynced
    <2>1. synced \subseteq synced' /\ UNCHANGED <<started, processing>>
      BY <1>3 DEF TCPServersSynced, ServicesSynced, EndpointsSynced, HasSynced
    <2>. QED
      BY <2>1, Zenon DEF WorkAfterSync
  <1>4. CASE StartWorkers
    BY <1>4 DEF StartWorkers, WorkAfterSync
  <1>5. ASSUME NEW w \in Workers, Get(w) \/ Sync(w) \/ ListerFails(w)
        PROVE  WorkAfterSync'
    <2>1. UNCHANGED run
      BY <1>5
      DEF Get, Sync, ReadTCPServer, ReadService, ReadEndpoints, Create, Write, Store,
          Remove, Delete, Finish, ListerFails
    <2>2. started \/ processing' \subseteq processing
      BY <1>5
      DEF Get, Sync, ReadTCPServer, ReadService, ReadEndpoints, Create, Write, Store,
          Remove, Delete, Finish, ListerFails, Release, Done
    <2>. QED
      BY <2>1, <2>2 DEF WorkAfterSync
  <1>. QED
    BY <1>1, <1>2, <1>3, <1>4, <1>5
    DEF Next, Outside, vars, ChangeTCPServer, ChangeService, ChangeEndpoints, TCPServerDelta,
        ServiceDelta, EndpointsDelta, ChangePod, PodDelta, TCPServerResync,
        EndpointsResync, RateLimitElapsed, HandleTCPServerEvent, HandleEndpointsEvent

\* A file changes only while its key is a worker's, in a process whose caches of
\* TCPServers and endpoints were filled; or the container starts afresh.
THEOREM FilesAreTheWorkers == Spec => FilesChangeOnlyInProcess
  <1>1. Init => WorkAfterSync
    BY DEF Init, WorkAfterSync
  <1>2. ASSUME Basic, WorkAfterSync, Next, NEW k \in Keys, files'[k] # files[k]
        PROVE  \/ /\ started /\ k \in processing
                  /\ {"tcpservers", "endpoints"} \subseteq synced
               \/ files' = NoObject(Keys)
    <2>1. CASE Restart
      BY <2>1 DEF Restart
    <2>2. CASE \E w \in Workers : Create(w) \/ Write(w) \/ Remove(w)
      <3>1. PICK w \in Workers : Create(w) \/ Write(w) \/ Remove(w)
        BY <2>2
      <3>2. Busy(w) /\ k = key[w]
        BY <1>2, <3>1 DEF Busy, Create, Write, Remove, Basic, TypeOK, ConfTypes
      <3>3. k \in processing
        BY <1>2, <3>2, BusyKeyLemma
      <3>. QED
        BY <1>2, <3>3 DEF WorkAfterSync, AwaitedInformers
    <2>3. CASE UNCHANGED files
      BY <1>2, <2>3
    <2>. QED
      BY <1>2, <2>1, <2>2, <2>3
      DEF Next, Outside, Get, Sync, ReadTCPServer, ReadService, ReadEndpoints, Store, Delete,
          Finish, ListerFails, conf, ChangeTCPServer, ChangeService, ChangeEndpoints,
          TCPServerDelta, ServiceDelta, EndpointsDelta, ChangePod, PodDelta,
          TCPServerResync, EndpointsResync, TCPServersSynced, ServicesSynced,
          EndpointsSynced, HasSynced, RateLimitElapsed, HandleTCPServerEvent,
          HandleEndpointsEvent, StartWorkers
  <1>3. Basic /\ WorkAfterSync /\ [Next]_vars =>
            [\A k \in Keys : files'[k] # files[k] =>
                \/ /\ started /\ k \in processing
                   /\ {"tcpservers", "endpoints"} \subseteq synced
                \/ files' = NoObject(Keys)]_vars
    BY <1>2
  <1>. QED
    BY <1>1, <1>3, InitBasic, BasicNext, WorkAfterSyncNext, PTL
    DEF Spec, FilesChangeOnlyInProcess
==============================================================================
