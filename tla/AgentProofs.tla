------------------------------ MODULE AgentProofs ------------------------------
(***************************************************************************)
(* Proofs about the whole agent, for any number of TCPServers, workers and *)
(* disturbances, and whatever may go wrong with NGINX and its polls.       *)
(*                                                                         *)
(* First, the agent is a controller: it takes no step that Controller.tla  *)
(* does not take, so that all that ControllerProofs.tla proves holds of it.*)
(* Second, its types, where a worker is in its call of the manager, and    *)
(* how many versions there have been.  Third, both together: what is       *)
(* declared is served.  That it is a manager is in AgentManagerProofs.tla. *)
(***************************************************************************)
EXTENDS AgentProps, ControllerProofs, FiniteSetTheorems

USE DEF api, caches, events, run, queue, worker, conf

(***************************************************************************)
(* The agent is a controller.                                              *)
(***************************************************************************)
\* What the manager and NGINX do between a call and its return is not a step of
\* the controller.
LEMMA OwnUnchanged ==
    ASSUME (\E w \in Workers : Reload(w)) \/ NginxLoads \/ OldWorkersQuit
    PROVE  UNCHANGED vars
  <1>1. CASE NginxLoads \/ OldWorkersQuit
    BY <1>1
    DEF NginxLoads, OldWorkersQuit, Manager!BeginLoad, Manager!EndLoad,
        Manager!OldWorkersQuit, Manager!local, own, vars
  <1>2. ASSUME NEW w \in Workers, Reload(w) PROVE UNCHANGED vars
    BY <1>2
    DEF Reload, Manager!Reload, Manager!ReadVersion, Manager!IncrementVersion,
        Manager!GenerateVersionConfig, Manager!RenameVersionFile, Manager!Signal,
        Manager!ExpectVersion, Manager!Poll, Manager!local, own, vars
  <1>. QED
    BY <1>1, <1>2

LEMMA AgentStep == [AgentNext]_agentVars => [Next]_vars
  <1>. SUFFICES ASSUME AgentNext PROVE [Next]_vars
    BY DEF agentVars
  <1>1. CASE AgentRestart
    BY <1>1 DEF AgentRestart, Next
  <1>2. CASE Alone(Outside)
    BY <1>2 DEF Alone, Next
  <1>3. ASSUME NEW w \in Workers, Alone(Get(w)) \/ Alone(ListerFails(w)) PROVE Next
    BY <1>3 DEF Alone, Next
  <1>4. ASSUME NEW w \in Workers, Work(w) PROVE [Next]_vars
    BY <1>4, OwnUnchanged
    DEF Work, Look, EditFile, CallReload, ReloadReturned, Alone, Next, Sync
  <1>5. CASE NginxLoads \/ OldWorkersQuit
    BY <1>5, OwnUnchanged
  <1>. QED
    BY <1>1, <1>2, <1>3, <1>4, <1>5 DEF AgentNext

\* All that is true of every run of the controller is true of the agent.
THEOREM AgentIsController == AgentSpec => Spec
  <1>1. AgentInit => Init
    BY DEF AgentInit
  <1>. QED
    BY <1>1, AgentStep, PTL DEF AgentSpec, Spec

LEMMA AgentIsCurrent == AgentSpec => []Current
  BY AgentIsController, CurrentInvariant, PTL

(***************************************************************************)
(* Types, and where the workers are.                                       *)
(***************************************************************************)
CallSteps == {"idle", "reload", "increment", "generate", "rename", "signal", "expect",
              "poll"} \union Manager!Outcomes

CallTypes ==
    /\ call \in [Workers -> CallSteps]
    /\ \A w \in Workers : call[w] = "idle" <=> pc[w] # "reload"
    /\ seen \in [Workers -> Nat] /\ expected \in [Workers -> Nat]
    /\ retries \in [Workers -> 0..(MaxRetries - 1)]

NginxTypes ==
    /\ versionFile \in Nat /\ configVersion \in Nat
    /\ signalled \in BOOLEAN /\ loading \in Nat \union {Absent}
    /\ running \in [version : Nat, files : [Keys -> Contents]]
    /\ draining \subseteq Nat
    /\ missed \in BOOLEAN
    /\ calls \in 0..MaxCalls

\* A worker has a configuration from its rendering to the end of the call, and
\* no other: a removal has none.
Rendered ==
    \A w \in Workers :
        /\ pc[w] \in {"create", "write", "store"} => cfg[w] \in AllConfigs
        /\ pc[w] \notin {"create", "write", "store", "reload"} => cfg[w] = Absent

AgentTypes == Current /\ CallTypes /\ NginxTypes /\ Rendered

LEMMA InitAgentTypes == AgentInit => CallTypes /\ NginxTypes /\ Rendered
  <1>. SUFFICES ASSUME AgentInit PROVE CallTypes /\ NginxTypes /\ Rendered
    OBVIOUS
  <1>1. 0 \in 0..(MaxRetries - 1) /\ 0 \in 0..MaxCalls
    BY RetriesAssumption, CallsAssumption
  <1>2. CallTypes
    BY <1>1 DEF AgentInit, Init, Manager!Init, AllIdle, CallTypes, CallSteps
  <1>3. NginxTypes
    BY <1>1 DEF AgentInit, Manager!Init, Manager!NoFiles, NginxTypes, Contents
  <1>4. Rendered
    BY DEF AgentInit, Init, AllIdle, NoValue, Rendered
  <1>. QED
    BY <1>2, <1>3, <1>4

LEMMA OutsideFrame == Outside => UNCHANGED <<worker, processing, conf>>
  BY DEF Outside, ChangeTCPServer, ChangeService, ChangeEndpoints, ChangePod, TCPServerDelta,
         ServiceDelta, EndpointsDelta, PodDelta, TCPServerResync, EndpointsResync,
         TCPServersSynced, ServicesSynced, EndpointsSynced, HasSynced, RateLimitElapsed,
         HandleTCPServerEvent, HandleEndpointsEvent, StartWorkers

\* What a worker has when it has looked everything up is a configuration.
LEMMA LookRenders ==
    ASSUME Basic, Rendered, NEW w \in Workers,
           ReadTCPServer(w) \/ ReadService(w) \/ ReadEndpoints(w)
    PROVE  /\ pc[w] \in {"tcpserver", "service", "endpoints"}
           /\ UNCHANGED <<key, files>>
           /\ \/ /\ \E step \in {"service", "endpoints", "remove"} :
                        pc' = [pc EXCEPT ![w] = step]
                 /\ UNCHANGED cfg
              \/ /\ pc' = [pc EXCEPT ![w] = "create"]
                 /\ \E c \in AllConfigs : cfg' = [cfg EXCEPT ![w] = c]
  <1>1. CASE ReadTCPServer(w)
    BY <1>1 DEF ReadTCPServer
  <1>2. CASE ReadService(w)
    <2>. DEFINE s == svcCache[ServiceKey(key[w], tcps[w])]
    <2>1. CASE s = Absent
      <3>1. PICK c \in ConfigsFor(key[w], tcps[w], Absent, Absent, podCache) :
              cfg' = [cfg EXCEPT ![w] = c]
        BY <1>2, <2>1 DEF ReadService
      <3>2. c \in AllConfigs
        BY <1>2, <3>1, LookUpLemma, ConfigsForLemma, MaybeLemma DEF ReadService
      <3>. QED
        BY <1>2, <2>1, <3>1, <3>2 DEF ReadService
    <2>2. CASE s # Absent
      BY <1>2, <2>2 DEF ReadService
    <2>. QED
      BY <2>1, <2>2
  <1>3. CASE ReadEndpoints(w)
    <2>. DEFINE e == eptCache[ServiceKey(key[w], tcps[w])]
    <2>1. e \in MaybeEndpoints /\ svc[w] \in MaybeService
      BY <1>3, LookUpLemma DEF ReadEndpoints, Basic, TypeOK, ObjectTypes, WorkerTypes
    <2>2. PICK c \in ConfigsFor(key[w], tcps[w], svc[w], e, podCache) :
            cfg' = [cfg EXCEPT ![w] = c]
      BY <1>3 DEF ReadEndpoints
    <2>3. c \in AllConfigs
      BY <1>3, <2>1, <2>2, LookUpLemma, ConfigsForLemma DEF ReadEndpoints
    <2>. QED
      BY <1>3, <2>2, <2>3 DEF ReadEndpoints
  <1>. QED
    BY <1>1, <1>2, <1>3

\* A step of a worker that begins, ends or goes on with its sync, and does not
\* come to Reload or leave it.
LEMMA SyncSteps ==
    ASSUME Basic, Rendered, NEW w \in Workers,
           Get(w) \/ ListerFails(w) \/ Create(w) \/ Write(w) \/ Remove(w)
    PROVE  /\ Rendered'
           /\ pc[w] # "reload"
           /\ \E step \in Steps \ {"reload"} : pc' = [pc EXCEPT ![w] = step]
  <1>1. pc[w] # "reload" /\ \E step \in Steps \ {"reload"} : pc' = [pc EXCEPT ![w] = step]
    BY DEF Get, ListerFails, Create, Write, Remove, Release, Steps
  <1>2. \A v \in Workers : v # w => pc'[v] = pc[v]
    BY <1>1
  <1>3. CASE Get(w) \/ Create(w) \/ Write(w) \/ Remove(w)
    <2>1. UNCHANGED cfg
      BY <1>3 DEF Get, Create, Write, Remove
    <2>2. \/ pc[w] = "get" /\ pc'[w] = "tcpserver"
          \/ pc[w] = "create" /\ pc'[w] = "write"
          \/ pc[w] = "write" /\ pc'[w] = "store"
          \/ pc[w] = "remove" /\ pc'[w] = "delete"
      BY <1>3 DEF Get, Create, Write, Remove, Basic, TypeOK, WorkerTypes
    <2>. QED
      BY <1>1, <1>2, <2>1, <2>2 DEF Rendered
  <1>4. CASE ListerFails(w)
    <2>1. cfg' = [cfg EXCEPT ![w] = Absent] /\ pc' = [pc EXCEPT ![w] = "get"]
      BY <1>4 DEF ListerFails, Release
    <2>2. cfg'[w] = Absent /\ pc'[w] = "get" /\ \A v \in Workers : v # w => cfg'[v] = cfg[v]
      BY <2>1 DEF Basic, TypeOK, WorkerTypes
    <2>. QED
      BY <1>1, <1>2, <2>2 DEF Rendered
  <1>. QED
    BY <1>1, <1>3, <1>4

\* The steps of the controller that the manager knows nothing of.
LEMMA AloneTypes ==
    ASSUME AgentTypes,
           \/ Alone(Outside)
           \/ \E w \in Workers : Alone(Get(w)) \/ Alone(ListerFails(w)) \/ EditFile(w)
    PROVE  CallTypes' /\ NginxTypes' /\ Rendered'
  <1>1. UNCHANGED manager
    BY DEF Alone, EditFile
  <1>2. NginxTypes'
    BY <1>1 DEF AgentTypes, NginxTypes, manager, reloading, nginx
  <1>3. CASE Outside
    <2>1. UNCHANGED <<pc, cfg>>
      BY <1>3, OutsideFrame
    <2>. QED
      BY <1>1, <1>2, <2>1 DEF AgentTypes, CallTypes, Rendered, manager, reloading
  <1>4. ASSUME NEW w \in Workers,
               Get(w) \/ ListerFails(w) \/ Create(w) \/ Write(w) \/ Remove(w)
        PROVE  CallTypes' /\ Rendered'
    <2>1. /\ Rendered' /\ pc[w] # "reload"
          /\ \E step \in Steps \ {"reload"} : pc' = [pc EXCEPT ![w] = step]
      BY <1>4, SyncSteps DEF AgentTypes, Current
    <2>. QED
      BY <1>1, <2>1
      DEF AgentTypes, Current, Basic, TypeOK, WorkerTypes, CallTypes, manager, reloading
  <1>. QED
    BY <1>2, <1>3, <1>4 DEF Alone, EditFile

LEMMA LookTypes ==
    ASSUME AgentTypes, NEW w \in Workers, Look(w)
    PROVE  CallTypes' /\ NginxTypes' /\ Rendered'
  <1>1. /\ pc[w] \in {"tcpserver", "service", "endpoints"}
        /\ \/ /\ \E step \in {"service", "endpoints", "remove"} :
                    pc' = [pc EXCEPT ![w] = step]
              /\ UNCHANGED cfg
           \/ /\ pc' = [pc EXCEPT ![w] = "create"]
              /\ \E c \in AllConfigs : cfg' = [cfg EXCEPT ![w] = c]
    BY LookRenders DEF Look, AgentTypes, Current
  <1>2. UNCHANGED <<reloading, nginx>> /\ calls' \in 0..MaxCalls
    BY CallsAssumption DEF Look, AgentTypes, NginxTypes
  <1>3. CallTypes'
    BY <1>1, <1>2
    DEF AgentTypes, Current, Basic, TypeOK, WorkerTypes, CallTypes, reloading
  <1>4. NginxTypes'
    BY <1>2 DEF AgentTypes, NginxTypes, reloading, nginx
  <1>5. Rendered'
    BY <1>1 DEF AgentTypes, Current, Basic, TypeOK, WorkerTypes, Rendered
  <1>. QED
    BY <1>3, <1>4, <1>5

\* The beginning and the end of a Reload.
LEMMA CallReloadTypes ==
    ASSUME AgentTypes, NEW w \in Workers, CallReload(w) \/ ReloadReturned(w)
    PROVE  CallTypes' /\ NginxTypes' /\ Rendered'
  <1>1. CASE CallReload(w)
    <2>1. /\ UNCHANGED <<seen, expected, retries, nginx, calls, versionFile, configVersion, cfg>>
          /\ call' = [call EXCEPT ![w] = "reload"] /\ pc' = [pc EXCEPT ![w] = "reload"]
      BY <1>1 DEF CallReload, Store, Delete
    <2>2. CallTypes'
      BY <2>1 DEF AgentTypes, Current, Basic, TypeOK, WorkerTypes, CallTypes, CallSteps
    <2>3. NginxTypes' /\ Rendered'
      BY <2>1
      DEF AgentTypes, Current, Basic, TypeOK, WorkerTypes, NginxTypes, Rendered, nginx
    <2>. QED
      BY <2>2, <2>3
  <1>2. CASE ReloadReturned(w)
    <2>1. /\ UNCHANGED <<seen, expected, retries, nginx, calls, versionFile, configVersion>>
          /\ call' = [call EXCEPT ![w] = "idle"] /\ pc' = [pc EXCEPT ![w] = "get"]
          /\ cfg' = [cfg EXCEPT ![w] = Absent]
      BY <1>2
      DEF ReloadReturned, Finish, Release, Manager!Finish, Manager!go, Manager!nginx, nginx
    <2>2. CallTypes'
      BY <2>1 DEF AgentTypes, Current, Basic, TypeOK, WorkerTypes, CallTypes, CallSteps
    <2>3. NginxTypes' /\ Rendered'
      BY <2>1
      DEF AgentTypes, Current, Basic, TypeOK, WorkerTypes, NginxTypes, Rendered, nginx
    <2>. QED
      BY <2>2, <2>3
  <1>. QED
    BY <1>1, <1>2

\* What the steps of Reload do to the worker that takes them, and to what all
\* share.
LEMMA ReloadSteps ==
    ASSUME AgentTypes, NEW w \in Workers, Reload(w)
    PROVE  /\ UNCHANGED <<vars, loading, running, draining, calls>>
           /\ pc[w] = "reload"
           /\ \E step \in CallSteps \ {"idle", "reload"} : call' = [call EXCEPT ![w] = step]
           /\ signalled' \in {signalled, TRUE}
           /\ versionFile' \in {versionFile, seen[w]}
           /\ configVersion' = IF call[w] = "increment" THEN seen[w] + 1 ELSE configVersion
           /\ \E v \in {0, configVersion, seen[w]} : seen' = [seen EXCEPT ![w] = v]
           /\ \E v \in {0, configVersion, expected[w]} : expected' = [expected EXCEPT ![w] = v]
           /\ \E n \in 0..(MaxRetries - 1) : retries' = [retries EXCEPT ![w] = n]
           /\ call[w] = "reload" => call'[w] = "increment"
           /\ call'[w] = "increment" => call[w] = "reload"
           /\ call[w] = "increment" => call'[w] = "generate"
  <1>. USE DEF Reload, Manager!Reload, Manager!Step, Manager!local, Manager!go, Manager!nginx,
               CallSteps, Manager!Outcomes
  <1>1. UNCHANGED vars
    BY OwnUnchanged
  <1>2. /\ seen = [seen EXCEPT ![w] = seen[w]] /\ expected = [expected EXCEPT ![w] = expected[w]]
        /\ retries = [retries EXCEPT ![w] = retries[w]] /\ call = [call EXCEPT ![w] = call[w]]
        /\ retries[w] \in 0..(MaxRetries - 1) /\ 0 \in 0..(MaxRetries - 1)
        /\ call[w] # "idle" => pc[w] = "reload"
        /\ \A step : [call EXCEPT ![w] = step][w] = step
    BY RetriesAssumption DEF AgentTypes, CallTypes
  <1>3. CASE Manager!ReadVersion(w) \/ Manager!IncrementVersion(w)
             \/ Manager!GenerateVersionConfig(w) \/ Manager!RenameVersionFile(w)
             \/ Manager!ExpectVersion(w)
    BY <1>1, <1>2, <1>3
    DEF Manager!ReadVersion, Manager!IncrementVersion, Manager!GenerateVersionConfig,
        Manager!RenameVersionFile, Manager!ExpectVersion
  <1>4. CASE Manager!Signal(w)
    BY <1>1, <1>2, <1>4 DEF Manager!Signal, Manager!Return
  <1>5. CASE Manager!Poll(w)
    <2>1. retries[w] + 1 # MaxRetries => retries[w] + 1 \in 0..(MaxRetries - 1)
      BY <1>2, RetriesAssumption
    <2>. QED
      BY <1>1, <1>2, <1>5, <2>1 DEF Manager!Poll, Manager!PollAgain, Manager!Return
  <1>. QED
    BY <1>3, <1>4, <1>5

\* That the files load is a truth value, and missed is one, or what it was.
LEMMA MissedType ==
    ASSUME AgentTypes, (\E w \in Workers : Reload(w)) \/ NginxLoads \/ OldWorkersQuit
    PROVE  missed' \in BOOLEAN
  <1>1. Manager!Loads(files) \in BOOLEAN
    BY Zenon DEF Manager!Loads
  <1>2. missed' \in {missed, FALSE, Manager!Loads(files)}
    BY DEF Reload, NginxLoads, OldWorkersQuit, Manager!Reload, Manager!ReadVersion,
           Manager!IncrementVersion, Manager!GenerateVersionConfig,
           Manager!RenameVersionFile, Manager!Signal, Manager!ExpectVersion, Manager!Poll,
           Manager!BeginLoad, Manager!EndLoad, Manager!OldWorkersQuit, Manager!nginx
  <1>. QED
    BY <1>1, <1>2, Zenon DEF AgentTypes, NginxTypes

LEMMA ReloadTypes ==
    ASSUME AgentTypes, NEW w \in Workers, Reload(w)
    PROVE  CallTypes' /\ NginxTypes' /\ Rendered'
  <1>1. UNCHANGED <<pc, cfg>>
    BY ReloadSteps DEF vars
  <1>2. /\ seen[w] \in Nat /\ expected[w] \in Nat
        /\ versionFile \in Nat /\ configVersion \in Nat
    BY DEF AgentTypes, CallTypes, NginxTypes
  <1>3. seen' \in [Workers -> Nat] /\ expected' \in [Workers -> Nat]
        /\ retries' \in [Workers -> 0..(MaxRetries - 1)]
    <2>1. PICK v \in {0, configVersion, seen[w]} : seen' = [seen EXCEPT ![w] = v]
      BY ReloadSteps
    <2>2. PICK u \in {0, configVersion, expected[w]} : expected' = [expected EXCEPT ![w] = u]
      BY ReloadSteps
    <2>3. \E n \in 0..(MaxRetries - 1) : retries' = [retries EXCEPT ![w] = n]
      BY ReloadSteps
    <2>. QED
      BY <1>2, <2>1, <2>2, <2>3 DEF AgentTypes, CallTypes
  <1>4. call' \in [Workers -> CallSteps]
        /\ \A v \in Workers : call'[v] = "idle" <=> pc[v] # "reload"
    BY ReloadSteps DEF AgentTypes, CallTypes
  <1>5. versionFile' \in Nat /\ configVersion' \in Nat /\ signalled' \in BOOLEAN
        /\ UNCHANGED <<loading, running, draining, calls>>
    <2>1. signalled' \in BOOLEAN
      BY ReloadSteps, Zenon DEF AgentTypes, NginxTypes
    <2>2. configVersion' = IF call[w] = "increment" THEN seen[w] + 1 ELSE configVersion
      BY ReloadSteps
    <2>3. versionFile' \in {versionFile, seen[w]}
      BY ReloadSteps
    <2>4. UNCHANGED <<loading, running, draining, calls>>
      BY ReloadSteps
    <2>. QED
      BY <1>2, <2>1, <2>2, <2>3, <2>4
  <1>6. NginxTypes'
    BY <1>5, MissedType DEF AgentTypes, NginxTypes
  <1>. QED
    BY <1>1, <1>3, <1>4, <1>6 DEF AgentTypes, CallTypes, Rendered

LEMMA LoadTypes ==
    ASSUME AgentTypes, NginxLoads \/ OldWorkersQuit
    PROVE  CallTypes' /\ NginxTypes' /\ Rendered'
  <1>1. UNCHANGED <<pc, cfg, call, seen, expected, retries, versionFile, configVersion, calls>>
    BY OwnUnchanged
    DEF vars, NginxLoads, OldWorkersQuit, Manager!BeginLoad, Manager!EndLoad,
        Manager!OldWorkersQuit, Manager!local, Manager!go
  <1>2. /\ signalled' \in {signalled, FALSE} /\ loading' \in {loading, versionFile, Absent}
        /\ draining' \subseteq draining \union {running.version}
        /\ \/ UNCHANGED running
           \/ loading # Absent /\ running' = [version |-> loading, files |-> files]
    BY DEF NginxLoads, OldWorkersQuit, Manager!BeginLoad, Manager!EndLoad,
           Manager!OldWorkersQuit
  <1>3. files \in [Keys -> Contents]
    BY DEF AgentTypes, Current, Basic, TypeOK, ConfTypes
  <1>4. running' \in [version : Nat, files : [Keys -> Contents]]
    BY <1>2, <1>3 DEF AgentTypes, NginxTypes
  <1>. QED
    BY <1>1, <1>2, <1>4, MissedType DEF AgentTypes, CallTypes, NginxTypes, Rendered

LEMMA RestartTypes == AgentRestart => CallTypes' /\ NginxTypes' /\ Rendered'
  <1>. SUFFICES ASSUME AgentRestart PROVE CallTypes' /\ NginxTypes' /\ Rendered'
    OBVIOUS
  <1>1. 0 \in 0..(MaxRetries - 1) /\ 0 \in 0..MaxCalls
    BY RetriesAssumption, CallsAssumption
  <1>2. CallTypes'
    BY <1>1 DEF AgentRestart, Restart, AllIdle, CallTypes, CallSteps
  <1>3. NginxTypes'
    BY <1>1 DEF AgentRestart, Manager!NoFiles, NginxTypes, Contents
  <1>4. Rendered'
    BY DEF AgentRestart, Restart, AllIdle, NoValue, Rendered
  <1>. QED
    BY <1>2, <1>3, <1>4

LEMMA AgentTypesInvariant == AgentSpec => []AgentTypes
  <1>1. AgentTypes /\ [AgentNext]_agentVars => CallTypes' /\ NginxTypes' /\ Rendered'
    <2>. SUFFICES ASSUME AgentTypes, [AgentNext]_agentVars
                  PROVE  CallTypes' /\ NginxTypes' /\ Rendered'
      OBVIOUS
    <2>1. CASE UNCHANGED agentVars
      BY <2>1
      DEF agentVars, vars, manager, reloading, nginx, AgentTypes, CallTypes, NginxTypes,
          Rendered
    <2>2. ASSUME NEW w \in Workers, Work(w) PROVE CallTypes' /\ NginxTypes' /\ Rendered'
      BY <2>2, AloneTypes, LookTypes, CallReloadTypes, ReloadTypes DEF Work
    <2>. QED
      BY <2>1, <2>2, AloneTypes, LoadTypes, RestartTypes DEF AgentNext
  <1>. QED
    BY InitAgentTypes, <1>1, AgentIsCurrent, PTL DEF AgentSpec, AgentTypes

(***************************************************************************)
(* No version is beyond the calls there have been: of these, some have yet *)
(* to increment the counter, and each of the others has incremented it by  *)
(* one at most, since two increments may overwrite each other.             *)
(***************************************************************************)
ToIncrement ==
    {w \in Workers : \/ pc[w] \in {"create", "write", "store", "remove", "delete"}
                     \/ call[w] \in {"reload", "increment"}}

Incremented == calls - Cardinality(ToIncrement)

VersionsWithin(max) ==
    /\ versionFile <= max /\ configVersion <= max
    /\ \A w \in Workers : seen[w] <= max /\ expected[w] <= max
    /\ running.version <= max
    /\ loading # Absent => loading <= max
    /\ \A v \in draining : v <= max

Counted ==
    /\ IsFiniteSet(ToIncrement) /\ Incremented \in Nat
    /\ VersionsWithin(Incremented)

LEMMA NoneToIncrement ==
    ASSUME calls = 0, ToIncrement = {}
    PROVE  IsFiniteSet(ToIncrement) /\ Incremented = 0
  BY FS_EmptySet DEF Incremented

LEMMA InitCounted == AgentInit => Counted
  <1>. SUFFICES ASSUME AgentInit PROVE Counted
    OBVIOUS
  <1>1. calls = 0 /\ ToIncrement = {}
    BY DEF AgentInit, Init, Manager!Init, AllIdle, ToIncrement
  <1>2. VersionsWithin(0)
    BY DEF AgentInit, Manager!Init, VersionsWithin
  <1>. QED
    BY <1>1, <1>2, NoneToIncrement DEF Counted

LEMMA RestartCounted == AgentRestart => Counted'
  <1>. SUFFICES ASSUME AgentRestart PROVE Counted'
    OBVIOUS
  <1>1. calls' = 0 /\ ToIncrement' = {}
    BY DEF AgentRestart, Restart, AllIdle, ToIncrement
  <1>2. IsFiniteSet(ToIncrement') /\ Incremented' = 0
    BY <1>1, FS_EmptySet DEF Incremented
  <1>3. VersionsWithin(0)'
    BY DEF AgentRestart, VersionsWithin
  <1>. QED
    BY <1>2, <1>3 DEF Counted, VersionsWithin

\* A step that begins no call and increments nothing.
LEMMA SameIncremented ==
    ASSUME Counted, UNCHANGED calls, ToIncrement' = ToIncrement
    PROVE  IsFiniteSet(ToIncrement') /\ Incremented' = Incremented
  BY DEF Counted, Incremented

LEMMA SameManager ==
    ASSUME Counted, UNCHANGED <<seen, expected, versionFile, configVersion, nginx, calls>>,
           ToIncrement' = ToIncrement
    PROVE  Counted'
  BY SameIncremented DEF Counted, VersionsWithin, nginx

LEMMA AloneCounted ==
    ASSUME AgentTypes, Counted,
           \/ Alone(Outside)
           \/ \E w \in Workers : Alone(Get(w)) \/ Alone(ListerFails(w)) \/ EditFile(w)
    PROVE  Counted'
  <1>1. UNCHANGED manager
    BY DEF Alone, EditFile
  <1>2. ToIncrement' = ToIncrement
    <2>1. CASE Outside
      BY <1>1, <2>1, OutsideFrame DEF ToIncrement, manager, reloading
    <2>2. ASSUME NEW w \in Workers,
                 Get(w) \/ ListerFails(w) \/ Create(w) \/ Write(w) \/ Remove(w)
          PROVE  ToIncrement' = ToIncrement
      <3>1. \/ /\ pc[w] \in {"get", "tcpserver", "service", "endpoints"}
               /\ \E step \in {"get", "tcpserver"} : pc' = [pc EXCEPT ![w] = step]
            \/ /\ pc[w] \in {"create", "write", "remove"}
               /\ \E step \in {"write", "store", "delete"} : pc' = [pc EXCEPT ![w] = step]
        BY <2>2 DEF Get, ListerFails, Create, Write, Remove, Release
      <3>. QED
        BY <1>1, <3>1
        DEF AgentTypes, Current, Basic, TypeOK, WorkerTypes, ToIncrement, manager, reloading
    <2>. QED
      BY <2>1, <2>2 DEF Alone, EditFile
  <1>. QED
    BY <1>1, <1>2, SameManager DEF manager, reloading

LEMMA LookCounted ==
    ASSUME AgentTypes, Counted, NEW w \in Workers, Look(w)
    PROVE  Counted'
  <1>1. UNCHANGED <<reloading, nginx>>
    BY DEF Look
  <1>2. /\ pc[w] \in {"tcpserver", "service", "endpoints"}
        /\ \E step \in {"service", "endpoints", "create", "remove"} :
              pc' = [pc EXCEPT ![w] = step]
    BY LookRenders DEF Look, AgentTypes, Current
  <1>3. w \notin ToIncrement
    BY <1>2 DEF ToIncrement, AgentTypes, CallTypes
  <1>4. CASE pc'[w] \in {"create", "remove"}
    <2>1. calls' = calls + 1
      BY <1>4 DEF Look
    <2>2. ToIncrement' = ToIncrement \union {w}
      BY <1>1, <1>2, <1>4
      DEF AgentTypes, Current, Basic, TypeOK, WorkerTypes, ToIncrement, reloading
    <2>3. /\ IsFiniteSet(ToIncrement') /\ Cardinality(ToIncrement) \in Nat
          /\ Cardinality(ToIncrement') = Cardinality(ToIncrement) + 1
      BY <1>3, <2>2, FS_AddElement, FS_CardinalityType DEF Counted
    <2>4. Incremented' = Incremented
      BY <2>1, <2>3 DEF Incremented, AgentTypes, NginxTypes
    <2>. QED
      BY <1>1, <2>3, <2>4 DEF Counted, VersionsWithin, reloading, nginx
  <1>5. CASE pc'[w] \notin {"create", "remove"}
    <2>1. calls' = calls
      BY <1>5 DEF Look
    <2>2. ToIncrement' = ToIncrement
      BY <1>1, <1>2, <1>5
      DEF AgentTypes, Current, Basic, TypeOK, WorkerTypes, CallTypes, ToIncrement, reloading
    <2>. QED
      BY <1>1, <2>1, <2>2, SameManager DEF reloading
  <1>. QED
    BY <1>4, <1>5

LEMMA CallReloadCounted ==
    ASSUME AgentTypes, Counted, NEW w \in Workers, CallReload(w) \/ ReloadReturned(w)
    PROVE  Counted'
  <1>1. CASE CallReload(w)
    <2>1. /\ UNCHANGED <<seen, expected, versionFile, configVersion, nginx, calls>>
          /\ call' = [call EXCEPT ![w] = "reload"] /\ pc' = [pc EXCEPT ![w] = "reload"]
          /\ pc[w] \in {"store", "delete"}
      BY <1>1 DEF CallReload, Store, Delete
    <2>2. ToIncrement' = ToIncrement
      BY <2>1 DEF AgentTypes, Current, Basic, TypeOK, WorkerTypes, CallTypes, ToIncrement
    <2>. QED
      BY <2>1, <2>2, SameManager
  <1>2. CASE ReloadReturned(w)
    <2>1. /\ UNCHANGED <<seen, expected, versionFile, configVersion, nginx, calls>>
          /\ call' = [call EXCEPT ![w] = "idle"] /\ pc' = [pc EXCEPT ![w] = "get"]
          /\ call[w] \in {"ok", "error"} /\ pc[w] = "reload"
      BY <1>2
      DEF ReloadReturned, Finish, Release, Manager!Finish, Manager!go, Manager!nginx,
          Manager!Outcomes, nginx
    <2>2. ToIncrement' = ToIncrement
      BY <2>1 DEF AgentTypes, Current, Basic, TypeOK, WorkerTypes, CallTypes, ToIncrement
    <2>. QED
      BY <2>1, <2>2, SameManager
  <1>. QED
    BY <1>1, <1>2

LEMMA ReloadCounted ==
    ASSUME AgentTypes, Counted, NEW w \in Workers, Reload(w)
    PROVE  Counted'
  <1>1. UNCHANGED <<pc, loading, running, draining, calls>> /\ pc[w] = "reload"
    BY ReloadSteps DEF vars
  <1>2. PICK step \in CallSteps \ {"idle", "reload"} : call' = [call EXCEPT ![w] = step]
    BY ReloadSteps
  <1>3. PICK v \in {0, configVersion, seen[w]} : seen' = [seen EXCEPT ![w] = v]
    BY ReloadSteps
  <1>4. PICK u \in {0, configVersion, expected[w]} : expected' = [expected EXCEPT ![w] = u]
    BY ReloadSteps
  <1>5. versionFile' \in {versionFile, seen[w]}
    BY ReloadSteps
  <1>6. /\ configVersion' = IF call[w] = "increment" THEN seen[w] + 1 ELSE configVersion
        /\ call[w] = "reload" <=> step = "increment"
        /\ call[w] = "increment" => step = "generate"
    BY <1>2, ReloadSteps DEF AgentTypes, CallTypes
  <1>7. /\ \A x \in Workers : seen'[x] \in {0, configVersion, seen[x]}
        /\ \A x \in Workers : expected'[x] \in {0, configVersion, expected[x]}
    BY <1>3, <1>4 DEF AgentTypes, CallTypes
  <1>8. CASE call[w] = "increment"
    <2>1. w \in ToIncrement /\ ToIncrement' = ToIncrement \ {w}
      BY <1>1, <1>2, <1>6, <1>8 DEF AgentTypes, CallTypes, ToIncrement
    <2>2. /\ IsFiniteSet(ToIncrement') /\ Cardinality(ToIncrement) \in Nat
          /\ Cardinality(ToIncrement') = Cardinality(ToIncrement) - 1
      BY <2>1, FS_RemoveElement, FS_CardinalityType DEF Counted
    <2>3. Incremented' = Incremented + 1
      BY <1>1, <2>2 DEF Incremented, AgentTypes, NginxTypes
    <2>. QED
      BY <1>1, <1>5, <1>6, <1>7, <1>8, <2>2, <2>3
      DEF AgentTypes, CallTypes, NginxTypes, Counted, VersionsWithin
  <1>9. CASE call[w] # "increment"
    <2>1. ToIncrement' = ToIncrement
      BY <1>1, <1>2, <1>6, <1>9 DEF AgentTypes, CallTypes, ToIncrement
    <2>2. IsFiniteSet(ToIncrement') /\ Incremented' = Incremented
      BY <1>1, <2>1, SameIncremented
    <2>3. configVersion' <= Incremented /\ versionFile' <= Incremented
      BY <1>5, <1>6, <1>9 DEF Counted, VersionsWithin
    <2>4. \A x \in Workers : seen'[x] <= Incremented /\ expected'[x] <= Incremented
      BY <1>7 DEF Counted, VersionsWithin
    <2>. QED
      BY <1>1, <2>2, <2>3, <2>4 DEF Counted, VersionsWithin
  <1>. QED
    BY <1>8, <1>9

LEMMA LoadCounted ==
    ASSUME AgentTypes, Counted, NginxLoads \/ OldWorkersQuit
    PROVE  Counted'
  <1>1. UNCHANGED <<pc, call, seen, expected, versionFile, configVersion, calls>>
    BY OwnUnchanged
    DEF vars, NginxLoads, OldWorkersQuit, Manager!BeginLoad, Manager!EndLoad,
        Manager!OldWorkersQuit, Manager!local, Manager!go
  <1>2. /\ loading' \in {loading, versionFile, Absent}
        /\ draining' \subseteq draining \union {running.version}
        /\ \/ UNCHANGED running
           \/ loading # Absent /\ running' = [version |-> loading, files |-> files]
    BY DEF NginxLoads, OldWorkersQuit, Manager!BeginLoad, Manager!EndLoad,
           Manager!OldWorkersQuit
  <1>3. IsFiniteSet(ToIncrement') /\ Incremented' = Incremented
    BY <1>1, SameIncremented DEF ToIncrement
  <1>. QED
    BY <1>1, <1>2, <1>3 DEF Counted, VersionsWithin

LEMMA CountedInvariant == AgentSpec => []Counted
  <1>1. AgentTypes /\ Counted /\ [AgentNext]_agentVars => Counted'
    <2>. SUFFICES ASSUME AgentTypes, Counted, [AgentNext]_agentVars PROVE Counted'
      OBVIOUS
    <2>1. CASE UNCHANGED agentVars
      BY <2>1, SameManager DEF agentVars, vars, manager, reloading, ToIncrement
    <2>2. ASSUME NEW w \in Workers, Work(w) PROVE Counted'
      BY <2>2, AloneCounted, LookCounted, CallReloadCounted, ReloadCounted DEF Work
    <2>. QED
      BY <2>1, <2>2, AloneCounted, LoadCounted, RestartCounted DEF AgentNext
  <1>. QED
    BY InitCounted, <1>1, AgentTypesInvariant, PTL DEF AgentSpec

\* Every reachable state of the agent is of the declared types; a worker is in
\* Reload exactly as long as the manager has its call, and no version is taken
\* that is not of a call, whatever two workers do to each other's increments.
THEOREM AgentTypeCorrect == AgentSpec => []AgentTypeOK
  <1>1. ASSUME AgentTypes, Counted PROVE AgentTypeOK
    <2>1. Incremented \in Nat /\ Incremented <= calls /\ calls \in Nat
      BY <1>1, FS_CardinalityType, CallsAssumption
      DEF Counted, Incremented, AgentTypes, NginxTypes
    <2>2. /\ versionFile \in 0..calls /\ configVersion \in 0..calls
          /\ seen \in [Workers -> 0..calls] /\ expected \in [Workers -> 0..calls]
          /\ loading \in 0..calls \union {Absent}
          /\ running.version \in 0..calls
      BY <1>1, <2>1 DEF AgentTypes, CallTypes, NginxTypes, Counted, VersionsWithin
    <2>3. running \in [version : 0..calls, files : [Keys -> Contents]]
      BY <1>1, <2>2 DEF AgentTypes, NginxTypes
    <2>. QED
      BY <1>1, <2>2, <2>3 DEF AgentTypes, CallTypes, CallSteps, NginxTypes, AgentTypeOK
  <1>. QED
    BY <1>1, AgentTypesInvariant, CountedInvariant, PTL

(***************************************************************************)
(* What is written is served: while NGINX does not run the files there     *)
(* are, and they load, either a worker has yet to signal it, or a signal   *)
(* has yet to be seen, or a load has yet to end, or the last try failed.   *)
(* ServedAtRest by itself says nothing of the states in between.           *)
(***************************************************************************)
WillSignal(w) ==
    \/ pc[w] \in {"write", "store", "delete"}
    \/ call[w] \in {"reload", "increment", "generate", "rename", "signal"}

Underwritten ==
    Manager!Loads(files) /\ running.files # files =>
        (\E w \in Workers : WillSignal(w)) \/ signalled \/ loading # Absent \/ missed

\* A step that takes nobody's promise back.
LEMMA KeepsUnderwritten ==
    ASSUME Underwritten, UNCHANGED <<files, running>>,
           signalled' = signalled, loading' = loading, missed' = missed,
           \A w \in Workers : WillSignal(w) => WillSignal(w)'
    PROVE  Underwritten'
  BY DEF Underwritten, Manager!Loads

LEMMA AloneUnderwritten ==
    ASSUME AgentTypes, Underwritten,
           \/ Alone(Outside)
           \/ \E w \in Workers : Alone(Get(w)) \/ Alone(ListerFails(w)) \/ EditFile(w)
    PROVE  Underwritten'
  <1>1. UNCHANGED manager
    BY DEF Alone, EditFile
  <1>2. CASE Outside
    BY <1>1, <1>2, OutsideFrame, KeepsUnderwritten
    DEF WillSignal, manager, reloading, nginx
  <1>3. ASSUME NEW w \in Workers, Get(w) \/ ListerFails(w) PROVE Underwritten'
    <2>1. /\ pc[w] \in {"get", "tcpserver", "service", "endpoints"} /\ UNCHANGED files
          /\ \A v \in Workers \ {w} : pc'[v] = pc[v]
      BY <1>3 DEF Get, ListerFails, Release, AgentTypes, Current, Basic, TypeOK, WorkerTypes
    <2>2. ~WillSignal(w)
      BY <2>1 DEF WillSignal, AgentTypes, CallTypes
    <2>. QED
      BY <1>1, <2>1, <2>2, KeepsUnderwritten DEF WillSignal, manager, reloading, nginx
  <1>4. ASSUME NEW w \in Workers, Create(w) \/ Write(w) \/ Remove(w) PROVE Underwritten'
    BY <1>4
    DEF Create, Write, Remove, Underwritten, WillSignal, AgentTypes, Current, Basic, TypeOK,
        WorkerTypes
  <1>. QED
    BY <1>2, <1>3, <1>4 DEF Alone, EditFile

LEMMA CallUnderwritten ==
    ASSUME AgentTypes, Underwritten, NEW w \in Workers,
           Look(w) \/ CallReload(w) \/ ReloadReturned(w)
    PROVE  Underwritten'
  <1>1. CASE Look(w)
    <2>1. /\ pc[w] \in {"tcpserver", "service", "endpoints"} /\ UNCHANGED files
          /\ \A v \in Workers \ {w} : pc'[v] = pc[v]
      BY <1>1, LookRenders
      DEF Look, AgentTypes, Current, Basic, TypeOK, WorkerTypes
    <2>2. ~WillSignal(w)
      BY <2>1 DEF WillSignal, AgentTypes, CallTypes
    <2>. QED
      BY <1>1, <2>1, <2>2, KeepsUnderwritten DEF Look, WillSignal, reloading, nginx
  <1>2. CASE CallReload(w)
    <2>1. /\ UNCHANGED <<files, nginx>> /\ call' = [call EXCEPT ![w] = "reload"]
          /\ pc' = [pc EXCEPT ![w] = "reload"]
      BY <1>2 DEF CallReload, Store, Delete
    <2>2. \A v \in Workers : WillSignal(v) => WillSignal(v)'
      BY <2>1
      DEF WillSignal, AgentTypes, Current, Basic, TypeOK, WorkerTypes, CallTypes
    <2>. QED
      BY <2>1, <2>2, KeepsUnderwritten DEF nginx
  <1>3. CASE ReloadReturned(w)
    <2>1. /\ UNCHANGED <<files, nginx>> /\ call[w] \in {"ok", "error"} /\ pc[w] = "reload"
          /\ call' = [call EXCEPT ![w] = "idle"] /\ pc' = [pc EXCEPT ![w] = "get"]
      BY <1>3
      DEF ReloadReturned, Finish, Release, Manager!Finish, Manager!Outcomes, Manager!nginx,
          nginx
    <2>2. \A v \in Workers : WillSignal(v) => WillSignal(v)'
      BY <2>1
      DEF WillSignal, AgentTypes, Current, Basic, TypeOK, WorkerTypes, CallTypes
    <2>. QED
      BY <2>1, <2>2, KeepsUnderwritten DEF nginx
  <1>. QED
    BY <1>1, <1>2, <1>3

\* A worker signals, or finds that the files do not load, or fails to signal.
LEMMA ReloadUnderwritten ==
    ASSUME AgentTypes, Underwritten, NEW w \in Workers, Reload(w)
    PROVE  Underwritten'
  <1>1. UNCHANGED <<pc, files, running, loading>>
    BY ReloadSteps DEF vars
  <1>2. CASE Manager!Signal(w)
    <2>1. CASE Manager!Loads(files)
      <3>1. signalled' \/ missed'
        BY <1>2, <2>1 DEF Manager!Signal
      <3>. QED
        BY <3>1 DEF Underwritten
    <2>2. CASE ~Manager!Loads(files)
      BY <1>1, <2>2 DEF Underwritten, Manager!Loads
    <2>. QED
      BY <2>1, <2>2
  <1>3. CASE ~Manager!Signal(w)
    <2>1. UNCHANGED <<signalled, missed>>
      BY <1>3
      DEF Reload, Manager!Reload, Manager!ReadVersion, Manager!IncrementVersion,
          Manager!GenerateVersionConfig, Manager!RenameVersionFile, Manager!ExpectVersion,
          Manager!Poll, Manager!nginx
    <2>2. WillSignal(w) => WillSignal(w)'
      BY <1>1, <1>3
      DEF Reload, Manager!Reload, Manager!ReadVersion, Manager!IncrementVersion,
          Manager!GenerateVersionConfig, Manager!RenameVersionFile, Manager!ExpectVersion,
          Manager!Poll, Manager!Step, WillSignal, AgentTypes, CallTypes
    <2>3. \A v \in Workers \ {w} : call'[v] = call[v]
      BY ReloadSteps DEF AgentTypes, CallTypes
    <2>. QED
      BY <1>1, <2>1, <2>2, <2>3, KeepsUnderwritten DEF WillSignal
  <1>. QED
    BY <1>2, <1>3

LEMMA LoadUnderwritten ==
    ASSUME AgentTypes, Underwritten, NginxLoads \/ OldWorkersQuit
    PROVE  Underwritten'
  <1>1. UNCHANGED <<pc, files, call>>
    BY OwnUnchanged
    DEF vars, NginxLoads, OldWorkersQuit, Manager!BeginLoad, Manager!EndLoad,
        Manager!OldWorkersQuit
  <1>2. CASE OldWorkersQuit
    BY <1>1, <1>2, KeepsUnderwritten DEF OldWorkersQuit, Manager!OldWorkersQuit, WillSignal
  <1>3. CASE NginxLoads /\ Manager!BeginLoad
    BY <1>3, NoConfigAssumption DEF Manager!BeginLoad, AgentTypes, NginxTypes, Underwritten
  <1>4. CASE NginxLoads /\ Manager!EndLoad
    <2>1. running'.files = files \/ ~Manager!Loads(files) \/ missed'
      BY <1>4 DEF Manager!EndLoad
    <2>. QED
      BY <1>1, <2>1 DEF Underwritten, Manager!Loads
  <1>. QED
    BY <1>2, <1>3, <1>4 DEF NginxLoads

LEMMA UnderwrittenInvariant == AgentSpec => []Underwritten
  <1>1. AgentInit => Underwritten
    BY DEF AgentInit, Manager!Init, Underwritten
  <1>2. AgentTypes /\ Underwritten /\ [AgentNext]_agentVars => Underwritten'
    <2>. SUFFICES ASSUME AgentTypes, Underwritten, [AgentNext]_agentVars
                  PROVE  Underwritten'
      OBVIOUS
    <2>1. CASE UNCHANGED agentVars
      BY <2>1, KeepsUnderwritten DEF agentVars, vars, manager, reloading, nginx, WillSignal
    <2>2. CASE AgentRestart
      BY <2>2 DEF AgentRestart, Restart, NoObject, Manager!NoFiles, Underwritten
    <2>3. ASSUME NEW w \in Workers, Work(w) PROVE Underwritten'
      BY <2>3, AloneUnderwritten, CallUnderwritten, ReloadUnderwritten DEF Work
    <2>. QED
      BY <2>1, <2>2, <2>3, AloneUnderwritten, LoadUnderwritten DEF AgentNext
  <1>. QED
    BY <1>1, <1>2, AgentTypesInvariant, PTL DEF AgentSpec

\* Unless a deletion is learnt from a list after a broken watch, what NGINX runs
\* at rest is what every TCPServer asks for, or its last reload command or load
\* has failed: a reload that another worker's overtook, or that failed before a
\* later one that did not, leaves nothing undone.
THEOREM RestIsServed ==
    ASSUME "relist" \notin Churn
    PROVE  AgentSpec => []ServedAtRest
  <1>1. ASSUME AgentTypes, Underwritten PROVE ServedAtRest
    <2>. SUFFICES ASSUME AtRest, Manager!Loads(files), ~missed, NEW k \in Keys
                  PROVE  running.files[k] \in Wanted(k)
      BY DEF ServedAtRest
    <2>1. \A w \in Workers : pc[w] = "get"
      <3>1. processing = {}
        BY <1>1 DEF AtRest, Pending, AgentTypes, Current, Basic, TypeOK, QueueTypes
      <3>. QED
        BY <1>1, <3>1 DEF AgentTypes, Current, Basic, KeysInHand, Busy
    <2>2. \A w \in Workers : ~WillSignal(w)
      BY <1>1, <2>1 DEF WillSignal, AgentTypes, CallTypes
    <2>3. running.files = files
      BY <1>1, <2>2 DEF Underwritten, AtRest
    <2>4. files[k] \in Wanted(k)
      BY <1>1 DEF AtRest, Pending, Settled, AgentTypes, Current, SettledIsCurrent
    <2>. QED
      BY <2>3, <2>4
  <1>. QED
    BY <1>1, AgentTypesInvariant, UnderwrittenInvariant, PTL
================================================================================
