--------------------------- MODULE ReconcilerProofs ---------------------------
(***************************************************************************)
(* Proof that the controller implements the reconciler of Reconciler.tla,  *)
(* for any number of TCPServers, workers and disturbances, as long as no   *)
(* deletion is learnt from a new list.  The invariant Current of           *)
(* ControllerProofs.tla says what is needed of each step.                  *)
(***************************************************************************)
EXTENDS ControllerProofs

USE DEF api, caches, events, run, queue, worker, conf

LEMMA WantedLemma == ASSUME Basic, NEW k \in Keys PROVE Wanted(k) \subseteq Contents
  <1>1. CASE ~Served(tcpCache[k])
    BY <1>1 DEF Wanted, Contents
  <1>2. CASE Served(tcpCache[k])
    <2>. DEFINE t == tcpCache[k]
                s == ServiceKey(k, t)
    <2>1. t \in TCPServerSpecs /\ s \in ServiceKeys
      BY <1>2, ServiceKeyLemma DEF Basic, TypeOK, ObjectTypes
    <2>2. /\ PossibleServices(s) \subseteq MaybeService
          /\ PossiblePods \subseteq SUBSET Pods
          /\ eptCache[s] \in MaybeEndpoints
      BY <2>1 DEF PossibleServices, PossiblePods, Basic, TypeOK, ObjectTypes
    <2>. HIDE DEF t, s
    <2>3. \A v \in PossibleServices(s), pods \in PossiblePods :
            ConfigsFor(k, t, v, eptCache[s], pods) \subseteq AllConfigs
      BY <2>1, <2>2, ConfigsForLemma
    <2>4. Wanted(k) = UNION {ConfigsFor(k, t, v, eptCache[s], pods) :
                             v \in PossibleServices(s), pods \in PossiblePods}
      BY <1>2 DEF Wanted, t, s
    <2>. QED
      BY <2>3, <2>4 DEF Contents
  <1>. QED
    BY <1>1, <1>2

WantedType == [k \in Keys |-> Wanted(k)] \in [Keys -> SUBSET Contents]

LEMMA WantedTypeLemma == Basic => WantedType
  BY WantedLemma DEF WantedType

LEMMA WantedTypeNext == Basic' => WantedType'
  BY WantedTypeLemma, PTL

LEMMA InitImplements == Basic /\ Init => Promise!Init
  <1>. SUFFICES ASSUME Basic, Init PROVE Promise!Init
    OBVIOUS
  <1>1. \A k \in Keys : files[k] = Absent /\ Wanted(k) = {Absent}
    BY DEF Init, NoObject, Wanted, Served
  <1>2. [k \in Keys |-> Wanted(k)] \in [Keys -> SUBSET Contents]
    BY WantedTypeLemma DEF WantedType
  <1>3. files = [k \in Keys |-> Absent]
    BY DEF Init, NoObject
  <1>. QED
    BY <1>1, <1>2, <1>3 DEF Promise!Init, Promise!Right

LEMMA RestartImplements == Basic' /\ Restart => Promise!Restart
  <1>. SUFFICES ASSUME Basic', Restart PROVE Promise!Restart
    OBVIOUS
  <1>1. \A k \in Keys : files'[k] = Absent /\ Wanted(k)' = {Absent}
    BY DEF Restart, NoObject, Wanted, Served
  <1>2. [k \in Keys |-> Wanted(k)'] \in [Keys -> SUBSET Contents]
    BY WantedTypeNext DEF WantedType
  <1>3. files' = [k \in Keys |-> Absent]
    BY DEF Restart, NoObject
  <1>. QED
    BY <1>1, <1>2, <1>3 DEF Promise!Restart, Promise!Init, Promise!Right

LEMMA OutsideImplements ==
    ASSUME "relist" \notin Churn, Current, Basic', Outside
    PROVE  Promise!Change
  <1>1. Calm
    BY CalmOutside
  <1>2. \A k \in Keys : Pending(k) => Pending(k)'
    BY <1>1 DEF Calm, Pending, Settled
  <1>3. \A k \in Keys : ~Pending(k)' => Wanted(k)' = Wanted(k)
    BY <1>1 DEF Calm, Pending, Settled
  <1>4. [k \in Keys |-> Wanted(k)'] \in [Keys -> SUBSET Contents]
    BY WantedTypeNext DEF WantedType
  <1>. QED
    BY <1>1, <1>2, <1>3, <1>4 DEF Promise!Change, Calm

\* A step of a worker that changes no file and keeps its key pending.
LEMMA StutterLemma ==
    ASSUME UNCHANGED <<caches, files>>, \A k \in Keys : Pending(k)' <=> Pending(k)
    PROVE  UNCHANGED Promise!vars
  <1>1. \A k \in Keys : Wanted(k)' = Wanted(k)
    BY SameWanted
  <1>. QED
    BY <1>1 DEF Promise!vars

LEMMA GetImplements ==
    ASSUME Basic, NEW w \in Workers, Get(w) PROVE UNCHANGED Promise!vars
  <1>1. \A k \in Keys : Pending(k)' <=> Pending(k)
    BY DEF Get, Queued, Pending, Coming, NotifiedTCPServer, NotifiedEndpoints
  <1>. QED
    BY <1>1, StutterLemma DEF Get

\* A step of a worker that keeps its key.
LEMMA GoOnImplements ==
    ASSUME UNCHANGED <<caches, events, queue>>
    PROVE  /\ \A k \in Keys : Wanted(k)' = Wanted(k)
           /\ \A k \in Keys : Pending(k)' <=> Pending(k)
  BY SameWanted DEF Pending, Coming, NotifiedTCPServer, NotifiedEndpoints

LEMMA StepImplements ==
    ASSUME Basic, NEW w \in Workers,
           \/ ReadTCPServer(w) \/ ReadService(w) \/ ReadEndpoints(w)
           \/ Store(w) \/ Delete(w)
    PROVE  UNCHANGED Promise!vars
  BY GoOnImplements, StutterLemma DEF ReadTCPServer, ReadService, ReadEndpoints, Store, Delete

LEMMA FileImplements ==
    ASSUME Basic, Basic', NEW w \in Workers, Create(w) \/ Write(w) \/ Remove(w)
    PROVE  Promise!Next
  <1>1. UNCHANGED <<caches, events, queue>> /\ Busy(w)
    BY DEF Create, Write, Remove, Busy
  <1>2. key[w] \in Keys /\ Pending(key[w])
    BY <1>1, BusyKeyLemma DEF Pending
  <1>3. PICK c : files' = [files EXCEPT ![key[w]] = c]
    BY DEF Create, Write, Remove
  <1>4. c \in Contents
    BY <1>2, <1>3 DEF Basic, TypeOK, ConfTypes
  <1>5. Promise!Work(key[w])
    BY <1>1, <1>2, <1>3, <1>4, GoOnImplements DEF Promise!Work
  <1>. QED
    BY <1>2, <1>5 DEF Promise!Next

LEMMA EndOfSyncImplements ==
    ASSUME "relist" \notin Churn, Current, NEW w \in Workers, Finish(w) \/ ListerFails(w)
    PROVE  [Promise!Next]_Promise!vars
  <1>1. PICK k \in Keys : k = key[w] /\ k \in processing
    BY BusyKeyLemma DEF Current, Finish, ListerFails, Busy
  <1>2. /\ UNCHANGED <<caches, events, dirty, files>>
        /\ processing' = processing \ {k}
        /\ waiting' = waiting \/ waiting' = waiting \union {k}
        /\ Busy(w)
    BY <1>1 DEF Finish, ListerFails, Release, Done, Busy
  <1>3. \A j \in Keys \ {k} : Pending(j)' <=> Pending(j)
    BY <1>2 DEF Pending, Coming, NotifiedTCPServer, NotifiedEndpoints
  <1>4. CASE Pending(k)'
    <2>1. \A j \in Keys : Pending(j)' <=> Pending(j)
      BY <1>1, <1>3, <1>4, Zenon DEF Pending
    <2>. QED
      BY <1>2, <2>1, StutterLemma
  <1>5. CASE ~Pending(k)'
    <2>1. ~Coming(k) /\ Finish(w)
      BY <1>1, <1>2, <1>5
      DEF Pending, Coming, NotifiedTCPServer, NotifiedEndpoints, ListerFails, Finish
    <2>2. files[k] \in Wanted(k)
      BY <1>1, <2>1 DEF Finish, Current, WorkIsCurrent, HandIsCurrent, Holding, Settled
    <2>3. \A j \in Keys : Wanted(j)' = Wanted(j)
      BY <1>2, SameWanted
    <2>4. {j \in Keys : Pending(j)'} = {j \in Keys : Pending(j)} \ {k}
      BY <1>3, <1>5
    <2>5. Promise!Settle(k)
      BY <1>1, <1>2, <2>2, <2>3, <2>4 DEF Promise!Settle, Promise!Right, Pending
    <2>. QED
      BY <1>1, <2>5 DEF Promise!Next
  <1>. QED
    BY <1>4, <1>5

LEMMA NextImplements ==
    ASSUME "relist" \notin Churn, Current, Basic', [Next]_vars
    PROVE  [Promise!Next]_Promise!vars
  <1>1. CASE Restart
    BY <1>1, RestartImplements DEF Promise!Next
  <1>2. CASE Outside
    BY <1>2, OutsideImplements DEF Promise!Next
  <1>3. ASSUME NEW w \in Workers, Get(w) \/ Sync(w) \/ ListerFails(w)
        PROVE  [Promise!Next]_Promise!vars
    BY <1>3, GetImplements, StepImplements, FileImplements, EndOfSyncImplements
    DEF Current, Sync
  <1>4. CASE UNCHANGED vars
    <2>1. UNCHANGED <<caches, events, queue, files>>
      BY <1>4 DEF vars
    <2>. QED
      BY <2>1, GoOnImplements, StutterLemma
  <1>. QED
    BY <1>1, <1>2, <1>3, <1>4 DEF Next

\* The controller is a reconciler: whatever the interleaving of informers,
\* handlers, workers, errors and restarts, what a file should hold never
\* changes without its TCPServer becoming pending, no other file is touched,
\* and no TCPServer is given up before its file is right.
THEOREM ReconcilerImplemented ==
    ASSUME "relist" \notin Churn
    PROVE  Spec => ImplementsReconciler
  <1>1. Init => Promise!Init
    BY InitBasic, InitImplements
  <1>2. Current /\ Current' /\ [Next]_vars => [Promise!Next]_Promise!vars
    BY NextImplements DEF Current
  <1>3. Spec => []Current
    BY CurrentInvariant
  <1>. QED
    BY <1>1, <1>2, <1>3, PTL DEF Spec, ImplementsReconciler, Promise!Spec
==============================================================================
