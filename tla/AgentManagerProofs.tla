--------------------------- MODULE AgentManagerProofs ---------------------------
(***************************************************************************)
(* The proof that the agent implements NginxManager.tla: the workers are   *)
(* callers as the manager takes them to be, at every step of every run,    *)
(* for any number of TCPServers, workers and calls and with all faults.    *)
(***************************************************************************)
EXTENDS AgentProofs, ReconcilerProofs

USE DEF api, caches, events, run, queue, worker, conf

\* The manager's view of the workers: the refinement mapping of Calls.
CallPc   == [w \in Workers |-> CallStep(w)]
CallName == [w \in Workers |-> IF InCall(w) THEN key[w] ELSE Absent]

LEMMA CallIsOpen ==
    ASSUME AgentTypes, NEW w \in Workers
    PROVE  /\ CallPc[w] = CallStep(w)
           /\ CallPc[w] # "idle" <=> InCall(w)
           /\ InCall(w) => CallName[w] = key[w] /\ key[w] \in Keys /\ Busy(w)
  <1>1. CallPc[w] # "idle" <=> InCall(w)
    BY DEF CallPc, CallStep, InCall, AgentTypes, CallTypes
  <1>2. InCall(w) => CallName[w] = key[w] /\ key[w] \in Keys /\ Busy(w)
    BY BusyKeyLemma DEF InCall, CallName, AgentTypes, Current, Busy
  <1>. QED
    BY <1>1, <1>2 DEF CallPc

\* A worker's step is that of the caller, and the other callers do nothing.
LEMMA OneCaller ==
    ASSUME NEW w \in Workers, NEW step, CallStep(w)' = step,
           \A v \in Workers \ {w} : pc'[v] = pc[v] /\ call'[v] = call[v]
    PROVE  CallPc' = [CallPc EXCEPT ![w] = step]
  BY DEF CallPc, CallStep

LEMMA NoName ==
    ASSUME NEW w \in Workers, ~InCall(w), ~InCall(w)',
           \A v \in Workers \ {w} : pc'[v] = pc[v] /\ key'[v] = key[v]
    PROVE  CallName' = CallName
  BY DEF CallName, InCall

LEMMA CallStutters ==
    ASSUME UNCHANGED <<files, manager, cfg>>, CallPc' = CallPc, CallName' = CallName
    PROVE  UNCHANGED Calls!vars
  BY DEF manager, reloading, nginx, CallPc, CallName, Calls!vars, Calls!go, Calls!local,
         Calls!nginx

(***************************************************************************)
(* The steps of the controller outside its calls.                          *)
(***************************************************************************)
LEMMA OutsideOfCalls ==
    ASSUME AgentTypes,
           \/ Alone(Outside)
           \/ \E w \in Workers : Alone(Get(w)) \/ Alone(ListerFails(w))
    PROVE  UNCHANGED Calls!vars
  <1>1. UNCHANGED manager
    BY DEF Alone
  <1>2. CASE Outside
    <2>1. UNCHANGED <<files, cfg, pc, key, call>>
      BY <1>1, <1>2, OutsideFrame DEF manager, reloading
    <2>2. CallPc' = CallPc /\ CallName' = CallName
      BY <2>1 DEF CallPc, CallName, CallStep, InCall
    <2>. QED
      BY <1>1, <2>1, <2>2, CallStutters
  <1>3. ASSUME NEW w \in Workers, Get(w) \/ ListerFails(w) PROVE UNCHANGED Calls!vars
    <2>1. /\ pc[w] \in {"get", "tcpserver", "service", "endpoints"}
          /\ \E step \in {"get", "tcpserver"} : pc' = [pc EXCEPT ![w] = step]
          /\ \E k : key' = [key EXCEPT ![w] = k]
          /\ UNCHANGED files
          /\ cfg' = cfg \/ cfg' = [cfg EXCEPT ![w] = Absent]
      <3>1. CASE Get(w)
        BY <3>1 DEF Get
      <3>2. CASE ListerFails(w)
        BY <3>2 DEF ListerFails, Release
      <3>. QED
        BY <1>3, <3>1, <3>2
    <2>2. UNCHANGED cfg
      BY <2>1 DEF AgentTypes, Rendered, Current, Basic, TypeOK, WorkerTypes
    <2>3. \A v \in Workers \ {w} : /\ pc'[v] = pc[v] /\ call'[v] = call[v]
                                   /\ key'[v] = key[v]
      BY <1>1, <2>1
      DEF manager, reloading, AgentTypes, Current, Basic, TypeOK, WorkerTypes
    <2>4. ~InCall(w) /\ ~InCall(w)' /\ CallStep(w) = "idle" /\ CallStep(w)' = "idle"
      BY <2>1
      DEF InCall, CallStep, AgentTypes, Current, Basic, TypeOK, WorkerTypes
    <2>5. CallName' = CallName
      BY <2>3, <2>4, NoName
    <2>6. CallPc' = CallPc
      BY <2>3, <2>4, OneCaller DEF CallPc
    <2>. QED
      BY <1>1, <2>1, <2>2, <2>5, <2>6, CallStutters
  <1>. QED
    BY <1>2, <1>3 DEF Alone

\* A look-up that ends in a configuration, or in none, begins a call for a file
\* that no other call is for.
LEMMA LookBegins ==
    ASSUME AgentTypes, NEW w \in Workers, Look(w)
    PROVE  Calls!Begin(w) \/ UNCHANGED Calls!vars
  <1>1. /\ pc[w] \in {"tcpserver", "service", "endpoints"}
        /\ UNCHANGED <<key, files>>
        /\ \/ /\ \E step \in {"service", "endpoints", "remove"} :
                    pc' = [pc EXCEPT ![w] = step]
              /\ UNCHANGED cfg
           \/ /\ pc' = [pc EXCEPT ![w] = "create"]
              /\ \E c \in AllConfigs : cfg' = [cfg EXCEPT ![w] = c]
    BY LookRenders DEF Look, AgentTypes, Current
  <1>2. UNCHANGED <<reloading, nginx>>
    BY DEF Look
  <1>3. \A v \in Workers \ {w} : /\ pc'[v] = pc[v] /\ call'[v] = call[v]
                                 /\ key'[v] = key[v]
    BY <1>1, <1>2
    DEF reloading, AgentTypes, Current, Basic, TypeOK, WorkerTypes
  <1>4. ~InCall(w) /\ CallStep(w) = "idle" /\ cfg[w] = Absent
    BY <1>1 DEF InCall, CallStep, AgentTypes, Rendered
  <1>5. CASE pc'[w] \in {"service", "endpoints"}
    <2>1. UNCHANGED <<cfg, calls>>
      BY <1>1, <1>5
      DEF Look, AgentTypes, Current, Basic, TypeOK, WorkerTypes
    <2>2. ~InCall(w)' /\ CallStep(w)' = "idle"
      BY <1>5 DEF InCall, CallStep
    <2>3. CallName' = CallName
      BY <1>3, <1>4, <2>2, NoName
    <2>4. CallPc' = CallPc
      BY <1>3, <1>4, <2>2, OneCaller DEF CallPc
    <2>. QED
      BY <1>1, <1>2, <2>1, <2>3, <2>4, CallStutters DEF manager
  <1>6. CASE pc'[w] \in {"create", "remove"}
    <2>. DEFINE x == IF pc'[w] = "create" THEN cfg'[w] ELSE Absent
    <2>1. /\ x \in AllConfigs \union {Absent} /\ cfg' = [cfg EXCEPT ![w] = x]
          /\ pc'[w] = "create" <=> x # Absent
      BY <1>1, <1>4, <1>6, NoConfigAssumption
      DEF AgentTypes, Current, Basic, TypeOK, WorkerTypes
    <2>2. calls < MaxCalls /\ calls' = calls + 1
      BY <1>6, CallsAssumption DEF Look, AgentTypes, NginxTypes
    <2>3. InCall(w)' /\ CallStep(w)' = IF x = Absent THEN "delete" ELSE "create"
      BY <1>6, <2>1 DEF InCall, CallStep
    <2>4. CallPc[w] = "idle"
          /\ CallPc' = [CallPc EXCEPT ![w] = IF x = Absent THEN "delete" ELSE "create"]
      BY <1>3, <1>4, <2>3, OneCaller DEF CallPc
    <2>5. CallName' = [CallName EXCEPT ![w] = key[w]]
      BY <1>1, <1>3, <2>3 DEF CallName, InCall
    <2>6. Busy(w) /\ key[w] \in Keys
      BY <1>1, BusyKeyLemma DEF Busy, AgentTypes, Current
    <2>7. \A d \in Workers : CallPc[d] # "idle" => CallName[d] # key[w]
      BY <1>4, <2>6, CallIsOpen DEF AgentTypes, Current, Basic, DistinctKeys
    <2>. HIDE DEF x
    <2>8. Calls!Begin(w)
      BY <1>1, <1>2, <2>1, <2>2, <2>4, <2>5, <2>6, <2>7
      DEF Calls!Begin, Calls!Step, Calls!go, Calls!nginx, CallPc, CallName, reloading, nginx
    <2>. QED
      BY <2>8
  <1>. QED
    BY <1>1, <1>5, <1>6 DEF AgentTypes, Current, Basic, TypeOK, WorkerTypes

(***************************************************************************)
(* The steps of the Configurer, of Reload and of NGINX.                    *)
(***************************************************************************)
LEMMA FilesEdited ==
    ASSUME AgentTypes, NEW w \in Workers, EditFile(w)
    PROVE  Calls!Call(w)
  <1>1. UNCHANGED <<manager, key, cfg>>
    BY DEF EditFile, Alone, Create, Write, Remove
  <1>2. \E step : pc' = [pc EXCEPT ![w] = step]
    BY DEF EditFile, Alone, Create, Write, Remove
  <1>3. \A v \in Workers \ {w} : pc'[v] = pc[v] /\ call'[v] = call[v]
    BY <1>1, <1>2
    DEF manager, reloading, AgentTypes, Current, Basic, TypeOK, WorkerTypes
  <1>4. CallName[w] = key[w] /\ CallName' = CallName
    <2>1. InCall(w) /\ InCall(w)'
      BY DEF EditFile, Alone, Create, Write, Remove, InCall, AgentTypes, Current, Basic,
             TypeOK, WorkerTypes
    <2>. QED
      BY <1>1, <1>3, <2>1 DEF CallName, InCall
  <1>. USE DEF Calls!Step, Calls!go, Calls!local, Calls!nginx, CallPc, CallName, CallStep
  <1>5. CASE Create(w) \/ Write(w)
    <2>1. \/ /\ pc[w] = "create" /\ pc'[w] = "write"
             /\ files' = [files EXCEPT ![key[w]] = Truncated]
          \/ /\ pc[w] = "write" /\ pc'[w] = "store"
             /\ files' = [files EXCEPT ![key[w]] = cfg[w]]
      BY <1>5 DEF Create, Write, AgentTypes, Current, Basic, TypeOK, WorkerTypes
    <2>2. \/ CallPc[w] = "create" /\ CallPc' = [CallPc EXCEPT ![w] = "write"]
             /\ files' = [files EXCEPT ![key[w]] = Truncated]
          \/ CallPc[w] = "write" /\ CallPc' = [CallPc EXCEPT ![w] = "reload"]
             /\ files' = [files EXCEPT ![key[w]] = cfg[w]]
      BY <1>3, <2>1, OneCaller
    <2>3. Calls!CreateConfig(w)
      BY <1>1, <1>4, <2>2 DEF Calls!CreateConfig, manager, reloading, nginx
    <2>. QED
      BY <2>3 DEF Calls!Call
  <1>6. CASE Remove(w)
    <2>1. /\ pc[w] = "remove" /\ pc'[w] = "delete"
          /\ files' = [files EXCEPT ![key[w]] = Absent]
      BY <1>6 DEF Remove, AgentTypes, Current, Basic, TypeOK, WorkerTypes
    <2>2. CallPc[w] = "delete" /\ CallPc' = [CallPc EXCEPT ![w] = "reload"]
      BY <1>3, <2>1, OneCaller
    <2>3. Calls!DeleteConfig(w)
      BY <1>1, <1>4, <2>1, <2>2 DEF Calls!DeleteConfig, manager, reloading, nginx
    <2>. QED
      BY <2>3 DEF Calls!Call
  <1>. QED
    BY <1>5, <1>6 DEF EditFile, Alone

\* The Configurer's map is not the manager's: with it nothing happens there.
LEMMA CallReloadStutters ==
    ASSUME AgentTypes, NEW w \in Workers, CallReload(w)
    PROVE  UNCHANGED Calls!vars
  <1>1. /\ pc[w] \in {"store", "delete"} /\ pc' = [pc EXCEPT ![w] = "reload"]
        /\ call' = [call EXCEPT ![w] = "reload"]
        /\ UNCHANGED <<files, key, cfg, versionFile, configVersion, seen, expected, retries,
                       nginx, calls>>
    BY DEF CallReload, Store, Delete
  <1>2. CallPc' = CallPc /\ CallName' = CallName
    BY <1>1
    DEF CallPc, CallStep, CallName, InCall, AgentTypes, CallTypes, Current, Basic, TypeOK,
        WorkerTypes
  <1>. QED
    BY <1>1, <1>2
    DEF Calls!vars, Calls!go, Calls!local, Calls!nginx, CallPc, CallName, nginx

LEMMA Reloads ==
    ASSUME AgentTypes, NEW w \in Workers, Reload(w)
    PROVE  Calls!Call(w)
  <1>1. UNCHANGED <<pc, key, cfg, files>> /\ pc[w] = "reload"
    BY ReloadSteps DEF vars
  <1>2. CallPc[w] = call[w] /\ CallName' = CallName
    BY <1>1 DEF CallPc, CallStep, CallName, InCall
  <1>3. \A step : call' = [call EXCEPT ![w] = step] => CallPc' = [CallPc EXCEPT ![w] = step]
    BY <1>1 DEF CallPc, CallStep, AgentTypes, CallTypes
  <1>4. UNCHANGED call => CallPc' = CallPc
    BY <1>1 DEF CallPc, CallStep
  <1>. USE DEF Manager!Step, Manager!local, Manager!go, Manager!nginx,
               Calls!Step, Calls!local, Calls!go, Calls!nginx, CallPc, CallName
  <1>5. CASE Manager!ReadVersion(w) \/ Manager!GenerateVersionConfig(w)
             \/ Manager!ExpectVersion(w)
    BY <1>1, <1>2, <1>3, <1>5
    DEF Manager!ReadVersion, Manager!GenerateVersionConfig, Manager!ExpectVersion,
        Calls!ReadVersion, Calls!GenerateVersionConfig, Calls!ExpectVersion, Calls!Reload,
        Calls!Call, nginx
  <1>6. CASE Manager!IncrementVersion(w) \/ Manager!RenameVersionFile(w)
    BY <1>1, <1>2, <1>3, <1>6
    DEF Manager!IncrementVersion, Manager!RenameVersionFile, Calls!IncrementVersion,
        Calls!RenameVersionFile, Calls!Reload, Calls!Call, nginx
  <1>7. \A outcome : Manager!Return(w, outcome) => Calls!Return(w, outcome)
    BY <1>3 DEF Manager!Return, Calls!Return
  <1>8. CASE Manager!Signal(w)
    <2>1. Manager!Loads(files) = Calls!Loads(files)
      BY DEF Manager!Loads, Calls!Loads
    <2>2. CASE Manager!Return(w, "error")
      BY <1>1, <1>2, <1>3, <1>7, <1>8, <2>1, <2>2
      DEF Manager!Signal, Calls!Signal, Calls!Reload, Calls!Call, nginx
    <2>3. CASE ~Manager!Return(w, "error")
      BY <1>1, <1>2, <1>3, <1>8, <2>1, <2>3
      DEF Manager!Signal, Calls!Signal, Calls!Reload, Calls!Call, nginx
    <2>. QED
      BY <2>2, <2>3
  <1>9. CASE Manager!Poll(w)
    <2>1. Manager!PollAgain(w) => Calls!PollAgain(w)
      BY <1>4 DEF Manager!PollAgain, Calls!PollAgain
    <2>2. Manager!Answers = Calls!Answers
      BY DEF Manager!Answers, Calls!Answers
    <2>3. PICK v \in Manager!Answers :
            IF v = expected[w] THEN Manager!Return(w, "ok")
            ELSE IF retries[w] + 1 = MaxRetries THEN Manager!Return(w, "error")
            ELSE Manager!PollAgain(w)
      BY <1>9 DEF Manager!Poll
    <2>4. IF v = expected[w] THEN Calls!Return(w, "ok")
          ELSE IF retries[w] + 1 = MaxRetries THEN Calls!Return(w, "error")
          ELSE Calls!PollAgain(w)
      BY <1>7, <2>1, <2>3
    <2>5. CallPc[w] = "poll" /\ UNCHANGED <<files, versionFile, configVersion, nginx, calls>>
      BY <1>2, <1>9 DEF Manager!Poll, nginx
    <2>. QED
      BY <1>1, <1>2, <2>2, <2>4, <2>5 DEF Calls!Poll, Calls!Reload, Calls!Call, nginx
  <1>. QED
    BY <1>5, <1>6, <1>8, <1>9 DEF Reload, Manager!Reload

LEMMA CallReturns ==
    ASSUME AgentTypes, NEW w \in Workers, ReloadReturned(w)
    PROVE  Calls!Call(w)
  <1>1. /\ pc[w] = "reload" /\ pc' = [pc EXCEPT ![w] = "get"]
        /\ call[w] \in {"ok", "error"} /\ call' = [call EXCEPT ![w] = "idle"]
        /\ key' = [key EXCEPT ![w] = Absent] /\ cfg' = [cfg EXCEPT ![w] = Absent]
        /\ UNCHANGED <<files, versionFile, configVersion, seen, expected, retries, nginx,
                       calls>>
    BY DEF ReloadReturned, Finish, Release, Manager!Finish, Manager!Outcomes, Manager!go,
           Manager!nginx, nginx
  <1>2. CallPc[w] \in Calls!Outcomes /\ CallPc' = [CallPc EXCEPT ![w] = "idle"]
    BY <1>1
    DEF CallPc, CallStep, Calls!Outcomes, AgentTypes, CallTypes, Current, Basic, TypeOK,
        WorkerTypes
  <1>3. CallName' = [CallName EXCEPT ![w] = Absent]
    BY <1>1 DEF CallName, InCall, AgentTypes, Current, Basic, TypeOK, WorkerTypes
  <1>. QED
    BY <1>1, <1>2, <1>3
    DEF Calls!Call, Calls!Finish, Calls!go, Calls!nginx, CallPc, CallName, nginx

LEMMA NginxSteps ==
    ASSUME NginxLoads \/ OldWorkersQuit
    PROVE  Calls!BeginLoad \/ Calls!EndLoad \/ Calls!OldWorkersQuit
  <1>1. UNCHANGED <<pc, key, cfg, call>>
    BY OwnUnchanged
    DEF vars, NginxLoads, OldWorkersQuit, Manager!BeginLoad, Manager!EndLoad,
        Manager!OldWorkersQuit
  <1>2. CallPc' = CallPc /\ CallName' = CallName
    BY <1>1 DEF CallPc, CallStep, CallName, InCall
  <1>3. Manager!Loads(files) = Calls!Loads(files)
    BY DEF Manager!Loads, Calls!Loads
  <1>. USE DEF Manager!local, Manager!go, Calls!local, Calls!go, CallPc, CallName
  <1>4. CASE Manager!BeginLoad
    BY <1>1, <1>2, <1>4 DEF Manager!BeginLoad, Calls!BeginLoad
  <1>5. CASE Manager!EndLoad
    BY <1>1, <1>2, <1>3, <1>5 DEF Manager!EndLoad, Calls!EndLoad
  <1>6. CASE Manager!OldWorkersQuit
    BY <1>1, <1>2, <1>6 DEF Manager!OldWorkersQuit, Calls!OldWorkersQuit
  <1>. QED
    BY <1>4, <1>5, <1>6 DEF NginxLoads, OldWorkersQuit

(***************************************************************************)
(* The refinement.                                                         *)
(***************************************************************************)
LEMMA ManagerStarts == AgentInit => Calls!Init
  <1>. SUFFICES ASSUME AgentInit PROVE Calls!Init
    OBVIOUS
  <1>1. \A w \in Workers : CallStep(w) = "idle" /\ ~InCall(w)
    BY DEF AgentInit, Init, AllIdle, CallStep, InCall
  <1>. QED
    BY <1>1
    DEF AgentInit, Init, Manager!Init, Manager!NoFiles, NoValue, Calls!Init, Calls!NoFiles

\* With the process the calls die: it is a new start of the manager.
LEMMA ManagerRestarts == AgentRestart => Calls!Init'
  <1>. SUFFICES ASSUME AgentRestart PROVE Calls!Init'
    OBVIOUS
  <1>1. \A w \in Workers : CallStep(w)' = "idle" /\ ~InCall(w)'
    BY DEF AgentRestart, Restart, AllIdle, CallStep, InCall
  <1>. QED
    BY <1>1
    DEF AgentRestart, Restart, NoObject, NoValue, Manager!NoFiles, Calls!Init, Calls!NoFiles

\* The agent is a manager called by the workers, from one start of the process
\* to the next: no worker calls it in another order than its callers do, no two
\* of them for one file, and what the agent adds is invisible to it.
THEOREM AgentImplementsManager == AgentSpec => ImplementsManager
  <1>1. AgentTypes /\ [AgentNext]_agentVars => [Calls!Next \/ Calls!Init']_(Calls!vars)
    <2>. SUFFICES ASSUME AgentTypes, [AgentNext]_agentVars
                  PROVE  Calls!Next \/ Calls!Init' \/ UNCHANGED Calls!vars
      OBVIOUS
    <2>1. CASE UNCHANGED agentVars
      BY <2>1, CallStutters
      DEF agentVars, vars, manager, reloading, CallPc, CallName, CallStep, InCall
    <2>2. ASSUME NEW w \in Workers, Work(w) PROVE Calls!Next \/ UNCHANGED Calls!vars
      BY <2>2, LookBegins, FilesEdited, CallReloadStutters, Reloads, CallReturns
      DEF Work, Calls!Next
    <2>3. CASE NginxLoads \/ OldWorkersQuit
      BY <2>3, NginxSteps DEF Calls!Next
    <2>. QED
      BY <2>1, <2>2, <2>3, OutsideOfCalls, ManagerRestarts DEF AgentNext
  <1>. QED
    BY <1>1, ManagerStarts, AgentTypesInvariant, PTL DEF AgentSpec, ImplementsManager

\* It is a reconciler as well: opening the reload up into the manager and NGINX
\* adds nothing that could lose an update of the caches.
THEOREM AgentImplementsReconciler ==
    ASSUME "relist" \notin Churn
    PROVE  AgentSpec => ImplementsReconciler
  BY AgentIsController, ReconcilerImplemented, PTL
================================================================================
