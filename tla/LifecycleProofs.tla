---------------------------- MODULE LifecycleProofs ----------------------------
(***************************************************************************)
(* Proofs about the life of the process: that it stops the controller for  *)
(* a reason and before NGINX, and that what NewController is given by the  *)
(* two factories is what they run, whatever exits, signals and failures    *)
(* come in between.                                                        *)
(***************************************************************************)
EXTENDS LifecycleProps, SequenceTheorems, TLAPS

USE DEF others, built

(***************************************************************************)
(* The shared informer factory: lemmas about its two operations.           *)
(***************************************************************************)
\* A factory of these types that has made at most one informer of each, and
\* runs those it has started.
Factory(types) ==
    [informers : [types -> {0, 1}], startedInformers : SUBSET types,
     running : SUBSET [type : types, n : {1}]]

StartedRun(f) ==
    \A t \in f.startedInformers :
        f.informers[t] = 1 /\ [type |-> t, n |-> 1] \in f.running

LEMMA NewFactoryLemma ==
    ASSUME NEW types
    PROVE  LET f == NewSharedInformerFactory(types)
           IN  f \in Factory(types) /\ StartedRun(f) /\ f.startedInformers = {}
  BY DEF NewSharedInformerFactory, Factory, StartedRun

\* An informer that was asked for is there, and no other is made or lost.
LEMMA InformerForLemma ==
    ASSUME NEW types, NEW f \in Factory(types), StartedRun(f), NEW t \in types
    PROVE  LET g == InformerFor(f, t)
           IN  /\ g \in Factory(types) /\ StartedRun(g)
               /\ g.informers = [f.informers EXCEPT ![t] = 1]
               /\ g.startedInformers = f.startedInformers
  <1>1. CASE f.informers[t] # 0
    BY <1>1 DEF InformerFor, Factory
  <1>2. CASE f.informers[t] = 0
    <2>1. f.informers \in [types -> {0, 1}]
      BY DEF Factory
    <2>2. InformerFor(f, t) = [f EXCEPT !.informers[t] = 1]
      BY <1>2 DEF InformerFor, MakeAnother
    <2>3. InformerFor(f, t) = [informers |-> [f.informers EXCEPT ![t] = 1],
                               startedInformers |-> f.startedInformers,
                               running |-> f.running]
      BY <2>2 DEF Factory
    <2>. QED
      BY <2>1, <2>3 DEF Factory, StartedRun
  <1>. QED
    BY <1>1, <1>2

\* After Start every informer that was asked for runs.
LEMMA StartLemma ==
    ASSUME NEW types, NEW f \in Factory(types), StartedRun(f)
    PROVE  LET g == Start(f)
           IN  /\ g \in Factory(types) /\ StartedRun(g)
               /\ g.informers = f.informers
               /\ \A t \in types : f.informers[t] # 0 => t \in g.startedInformers
  <1>. DEFINE new == {t \in DOMAIN f.informers : /\ f.informers[t] # 0
                                                /\ t \notin f.startedInformers}
              ran == {[type |-> t, n |-> f.informers[t]] : t \in new}
  <1>1. /\ f.informers \in [types -> {0, 1}] /\ f.startedInformers \subseteq types
        /\ f.running \subseteq [type : types, n : {1}]
    BY DEF Factory
  <1>2. new \subseteq types /\ \A t \in new : f.informers[t] = 1
    BY <1>1
  <1>3. ran = {[type |-> t, n |-> 1] : t \in new}
    BY <1>2
  <1>4. Start(f) = [informers |-> f.informers,
                    startedInformers |-> f.startedInformers \union new,
                    running |-> f.running \union ran]
    <2>1. Start(f) = [f EXCEPT !.startedInformers = f.startedInformers \union new,
                               !.running = f.running \union ran]
      BY DEF Start
    <2>. HIDE DEF new, ran
    <2>. QED
      BY <2>1 DEF Factory
  <1>5. Start(f) \in Factory(types)
    BY <1>1, <1>2, <1>3, <1>4 DEF Factory
  <1>6. StartedRun(Start(f))
    <2>1. \A t \in new : f.informers[t] = 1 /\ [type |-> t, n |-> 1] \in ran
      BY <1>2, <1>3
    <2>. HIDE DEF new, ran
    <2>2. /\ Start(f).informers = f.informers
          /\ Start(f).startedInformers = f.startedInformers \union new
          /\ Start(f).running = f.running \union ran
      BY <1>4
    <2>. QED
      BY <2>1, <2>2 DEF StartedRun
  <1>7. \A t \in types : f.informers[t] # 0 => t \in f.startedInformers \union new
    BY <1>1
  <1>. HIDE DEF new, ran
  <1>. QED
    BY <1>4, <1>5, <1>6, <1>7

(***************************************************************************)
(* What is built: each request is granted by the factory of its type, and  *)
(* no request comes after that factory's start.                            *)
(***************************************************************************)
ConfTypes == {"tcpservers"}
Types     == CoreTypes \union ConfTypes
HeldBy    == [use : {"list", "await", "handle"}, informer : [type : Types, n : {1}]]

LEMMA RequestsLemma ==
    /\ Len(Requests) = 8
    /\ \A k \in 1..8 : /\ Requests[k].use \in {"list", "await", "handle"}
                       /\ Requests[k].type \in Types
  BY DEF Requests, Types, CoreTypes, ConfTypes

FactoryTypes ==
    /\ factories \in [kube : Factory(CoreTypes), conf : Factory(ConfTypes)]
    /\ StartedRun(factories["kube"]) /\ StartedRun(factories["conf"])

HeldIsMade ==
    /\ held \in Seq(HeldBy) /\ Len(held) <= 8
    /\ \A j \in DOMAIN held :
        factories[FactoryOf(held[j].informer.type)].informers[held[j].informer.type] = 1

MadeIsStarted(f) ==
    \A t \in DOMAIN factories[f].informers :
        factories[f].informers[t] # 0 => t \in factories[f].startedInformers

Started ==
    /\ main \in {"startConf", "sync", "run", "return"} => MadeIsStarted("kube")
    /\ main \in {"sync", "run", "return"} => MadeIsStarted("conf")

WellBuilt == FactoryTypes /\ HeldIsMade /\ Started

\* The informers and their starts: the other steps of main only go on.
LEMMA BuiltStutters ==
    ASSUME WellBuilt, UNCHANGED built,
           \/ main' = main \/ main' \in {"verify", "spawn", "build"}
           \/ main \in {"sync", "run"} /\ main' \in {"run", "return"}
    PROVE  WellBuilt'
  BY DEF WellBuilt, FactoryTypes, HeldIsMade, Started, MadeIsStarted

LEMMA RequestBuilds == ASSUME WellBuilt, RequestInformer PROVE WellBuilt'
  <1>. DEFINE r == Requests[Len(held) + 1]
              f == FactoryOf(r.type)
              g == InformerFor(factories[f], r.type)
              types == IF f = "kube" THEN CoreTypes ELSE ConfTypes
  <1>1. /\ Len(held) \in 0..7 /\ Len(held) + 1 \in 1..8
        /\ main = "build" /\ main' \in {"build", "startKube"}
    <2>1. Len(held) \in Nat
      BY DEF WellBuilt, HeldIsMade
    <2>2. Len(held) < 8 /\ main = "build" /\ main' \in {"build", "startKube"}
      BY RequestsLemma DEF RequestInformer, Main
    <2>3. \A n \in Nat : n < 8 => n \in 0..7 /\ n + 1 \in 1..8
      OBVIOUS
    <2>. QED
      BY <2>1, <2>2, <2>3
  <1>2. r.use \in {"list", "await", "handle"} /\ r.type \in Types
    BY <1>1, RequestsLemma
  <1>3. /\ f \in {"kube", "conf"} /\ r.type \in types
        /\ factories[f] \in Factory(types) /\ StartedRun(factories[f])
    BY <1>2 DEF FactoryOf, Types, CoreTypes, ConfTypes, WellBuilt, FactoryTypes
  <1>4. /\ factories' = [factories EXCEPT ![f] = g]
        /\ held' = Append(held, [use |-> r.use,
                                 informer |-> [type |-> r.type, n |-> g.informers[r.type]]])
    BY DEF RequestInformer
  <1>. HIDE DEF r, f, g, types
  <1>5. /\ g \in Factory(types) /\ StartedRun(g)
        /\ g.informers = [factories[f].informers EXCEPT ![r.type] = 1]
        /\ g.startedInformers = factories[f].startedInformers
    BY <1>3, InformerForLemma DEF g
  <1>6. /\ g.informers[r.type] = 1
        /\ \A t \in types : factories[f].informers[t] = 1 => g.informers[t] = 1
    BY <1>3, <1>5 DEF Factory
  <1>7. FactoryTypes'
    <2>1. CASE f = "kube"
      BY <1>4, <1>5, <2>1 DEF WellBuilt, FactoryTypes, types
    <2>2. CASE f = "conf"
      BY <1>4, <1>5, <2>2 DEF WellBuilt, FactoryTypes, types
    <2>. QED
      BY <1>3, <2>1, <2>2
  <1>8. /\ held' \in Seq(HeldBy) /\ Len(held') <= 8
        /\ \A j \in DOMAIN held' :
             held'[j].informer.type = r.type \/ (j \in DOMAIN held /\ held'[j] = held[j])
    <2>. DEFINE h == [use |-> r.use, informer |-> [type |-> r.type, n |-> g.informers[r.type]]]
    <2>1. h \in HeldBy /\ h.informer.type = r.type
      BY <1>2, <1>6 DEF HeldBy
    <2>2. held \in Seq(HeldBy) /\ held' = Append(held, h)
      BY <1>4 DEF WellBuilt, HeldIsMade
    <2>. HIDE DEF h, HeldBy
    <2>3. held' \in Seq(HeldBy) /\ Len(held') = Len(held) + 1
      BY <2>1, <2>2
    <2>4. \A j \in DOMAIN held' : held'[j] = h \/ (j \in DOMAIN held /\ held'[j] = held[j])
      <3>1. DOMAIN held = 1..Len(held) /\ DOMAIN held' = 1..(Len(held) + 1)
        BY <2>2, <2>3, LenProperties
      <3>2. /\ \A j \in 1..Len(held) : held'[j] = held[j]
            /\ held'[Len(held) + 1] = h
        BY <2>1, <2>2, AppendProperties
      <3>. QED
        BY <1>1, <3>1, <3>2
    <2>. QED
      BY <1>1, <2>1, <2>3, <2>4
  <1>9. ASSUME NEW t \in Types, factories[FactoryOf(t)].informers[t] = 1 \/ t = r.type
        PROVE  factories'[FactoryOf(t)].informers[t] = 1
    <2>1. CASE FactoryOf(t) = f
      <3>1. t \in types /\ factories'[f] = g
        BY <1>3, <1>4, <2>1
        DEF FactoryOf, Types, types, CoreTypes, ConfTypes, WellBuilt, FactoryTypes
      <3>. QED
        BY <1>6, <1>9, <2>1, <3>1
    <2>2. CASE FactoryOf(t) # f
      BY <1>4, <1>9, <2>2 DEF f, FactoryOf, WellBuilt, FactoryTypes, Types, CoreTypes, ConfTypes
    <2>. QED
      BY <2>1, <2>2
  <1>10. HeldIsMade'
    <2>1. \A j \in DOMAIN held' : held'[j].informer.type \in Types
      <3>1. \A j \in DOMAIN held' : held'[j] \in HeldBy
        BY <1>8, LenProperties
      <3>. QED
        BY <3>1 DEF HeldBy
    <2>2. \A j \in DOMAIN held :
            factories[FactoryOf(held[j].informer.type)].informers[held[j].informer.type] = 1
      BY DEF WellBuilt, HeldIsMade
    <2>. QED
      BY <1>8, <1>9, <2>1, <2>2 DEF HeldIsMade
  <1>. QED
    BY <1>1, <1>7, <1>10 DEF WellBuilt, Started

LEMMA StartBuilds == ASSUME WellBuilt, StartFactories PROVE WellBuilt'
  <1>1. ASSUME NEW f \in {"kube", "conf"}, NEW types,
               types = (IF f = "kube" THEN CoreTypes ELSE ConfTypes),
               factories' = [factories EXCEPT ![f] = Start(factories[f])], UNCHANGED held
        PROVE  FactoryTypes' /\ HeldIsMade' /\ MadeIsStarted(f)'
               /\ \A e \in {"kube", "conf"} \ {f} : factories'[e] = factories[e]
    <2>. DEFINE g == Start(factories[f])
    <2>1. factories[f] \in Factory(types) /\ StartedRun(factories[f])
      BY <1>1 DEF WellBuilt, FactoryTypes
    <2>2. /\ g \in Factory(types) /\ StartedRun(g)
          /\ g.informers = factories[f].informers
          /\ \A t \in types : factories[f].informers[t] # 0 => t \in g.startedInformers
      BY <2>1, StartLemma
    <2>. HIDE DEF g
    <2>3. factories' = [factories EXCEPT ![f] = g]
      BY <1>1 DEF g
    <2>4. /\ factories'[f] = g
          /\ \A e \in {"kube", "conf"} \ {f} : factories'[e] = factories[e]
      BY <2>3 DEF WellBuilt, FactoryTypes
    <2>5. FactoryTypes'
      <3>1. CASE f = "kube"
        BY <1>1, <2>2, <2>3, <3>1 DEF WellBuilt, FactoryTypes
      <3>2. CASE f = "conf"
        BY <1>1, <2>2, <2>3, <3>2 DEF WellBuilt, FactoryTypes
      <3>. QED
        BY <3>1, <3>2
    <2>6. HeldIsMade'
      BY <1>1, <2>2, <2>4 DEF WellBuilt, HeldIsMade, FactoryOf
    <2>7. MadeIsStarted(f)'
      BY <2>2, <2>4 DEF MadeIsStarted, Factory
    <2>. QED
      BY <2>4, <2>5, <2>6, <2>7
  <1>2. CASE StartFactory("kube", "startKube", "startConf")
    BY <1>1, <1>2 DEF StartFactory, Main, WellBuilt, Started
  <1>3. CASE StartFactory("conf", "startConf", "sync")
    BY <1>1, <1>3 DEF StartFactory, Main, WellBuilt, Started, MadeIsStarted
  <1>. QED
    BY <1>2, <1>3 DEF StartFactories

(***************************************************************************)
(* The control of main, of the signal handler and of NGINX.                *)
(***************************************************************************)
ControlTypes ==
    /\ main \in {"start", "verify", "spawn", "build", "startKube", "startConf",
                "sync", "run", "return"}
    /\ handler \in {"none", "notify", "select", "close", "quit", "await", "exit"}
    /\ nginx \in {"off", "up", "quitting", "exited"}
    /\ nginxDone \in {"empty", "ok", "error", "received"}
    /\ failed \in BOOLEAN /\ term \in BOOLEAN /\ told \in BOOLEAN /\ stopped \in BOOLEAN
    /\ exitStatus \in {0, 1}
    /\ process \in {Alive, 0, 1, Fatal, Killed}

\* Whoever has got beyond a point has the reason to be there: the handler a
\* signal or the end of NGINX, and then a closed stopCh.
Reasons ==
    /\ main = "start" => nginx = "off"
    /\ nginxDone # "empty" => nginx = "exited"
    /\ term => told
    /\ handler = "close" => told \/ nginx = "exited"
    /\ handler \in {"quit", "await", "exit"} => stopped
    /\ StopHasReason

IInv == ControlTypes /\ Reasons /\ WellBuilt

LEMMA InitIInv == Init => IInv
  <1>. SUFFICES ASSUME Init PROVE IInv
    OBVIOUS
  <1>1. ControlTypes /\ Reasons
    BY DEF Init, ControlTypes, Reasons, StopHasReason
  <1>2. FactoryTypes
    <2>1. factories = [kube |-> NewSharedInformerFactory(CoreTypes),
                       conf |-> NewSharedInformerFactory(ConfTypes)]
      BY DEF Init, ConfTypes
    <2>. QED
      BY <2>1, NewFactoryLemma DEF FactoryTypes
  <1>3. HeldIsMade /\ Started
    BY DEF Init, HeldIsMade, Started
  <1>. QED
    BY <1>1, <1>2, <1>3 DEF IInv, WellBuilt

LEMMA MainKeeps ==
    ASSUME IInv, MainStep \/ TemplateUnusable \/ CachesSynced \/ WorkerFails
    PROVE  IInv'
  <1>. USE DEF IInv, ControlTypes, Reasons, StopHasReason, Main, Exit
  <1>1. CASE StartNginx \/ NginxVerified \/ NginxNotVerified \/ SpawnHandler
    BY <1>1, BuiltStutters DEF StartNginx, NginxVerified, NginxNotVerified, SpawnHandler
  <1>2. CASE RequestInformer
    BY <1>2, RequestBuilds DEF RequestInformer
  <1>3. CASE StartFactories
    BY <1>3, StartBuilds DEF StartFactories, StartFactory
  <1>4. CASE \/ SyncStopped \/ RunReturns \/ MainReturns
             \/ TemplateUnusable \/ CachesSynced \/ WorkerFails
    BY <1>4, BuiltStutters
    DEF SyncStopped, RunReturns, MainReturns, TemplateUnusable, CachesSynced, WorkerFails
  <1>. QED
    BY <1>1, <1>2, <1>3, <1>4 DEF MainStep

LEMMA HandlerKeeps ==
    ASSUME IInv, HandlerStep \/ NginxExits \/ Wait \/ Sigterm
    PROVE  IInv'
  <1>1. UNCHANGED <<main, built>>
    BY DEF HandlerStep, Notify, SelectNginxDone, SelectSignal, CloseStop, Quit, AwaitNginx,
           OsExit, NginxExits, Wait, Sigterm, Exit
  <1>2. WellBuilt'
    BY <1>1, BuiltStutters DEF IInv
  <1>. USE DEF Handler, Exit
  <1>3. ControlTypes'
    <2>1. /\ main' \in {"start", "verify", "spawn", "build", "startKube", "startConf",
                        "sync", "run", "return"}
          /\ failed' \in BOOLEAN /\ term' \in BOOLEAN /\ told' \in BOOLEAN
          /\ stopped' \in BOOLEAN
      BY <1>1, Zenon
      DEF HandlerStep, Notify, SelectNginxDone, SelectSignal, CloseStop, Quit, AwaitNginx,
          OsExit, NginxExits, Wait, Sigterm, IInv, ControlTypes
    <2>2. /\ handler' \in {"none", "notify", "select", "close", "quit", "await", "exit"}
          /\ nginx' \in {"off", "up", "quitting", "exited"}
          /\ nginxDone' \in {"empty", "ok", "error", "received"}
          /\ exitStatus' \in {0, 1} /\ process' \in {Alive, 0, 1, Fatal, Killed}
      BY DEF HandlerStep, Notify, SelectNginxDone, SelectSignal, CloseStop, Quit, AwaitNginx,
             OsExit, NginxExits, Wait, Sigterm, IInv, ControlTypes
    <2>. QED
      BY <2>1, <2>2 DEF ControlTypes
  <1>. USE DEF IInv, Reasons, StopHasReason
  <1>4. ASSUME HandlerStep PROVE Reasons'
    BY <1>1, <1>4
    DEF HandlerStep, Notify, SelectNginxDone, SelectSignal, CloseStop, Quit, AwaitNginx, OsExit
  <1>5. ASSUME NginxExits \/ Wait \/ Sigterm PROVE Reasons'
    BY <1>1, <1>5 DEF NginxExits, Wait, Sigterm
  <1>6. Reasons'
    BY <1>4, <1>5
  <1>. QED
    BY <1>2, <1>3, <1>6

LEMMA ProcessInvariant == Spec => []IInv
  <1>1. IInv /\ UNCHANGED vars => IInv'
    BY BuiltStutters DEF vars, IInv, ControlTypes, Reasons, StopHasReason
  <1>. QED
    BY InitIInv, MainKeeps, HandlerKeeps, <1>1, PTL DEF Spec, Next

\* Every reachable state of the process is of the declared types.
THEOREM ProcessTypeCorrect == Spec => []TypeOK
  <1>1. IInv => TypeOK
    BY RequestsLemma
    DEF IInv, ControlTypes, WellBuilt, FactoryTypes, HeldIsMade, TypeOK
  <1>. QED
    BY <1>1, ProcessInvariant, PTL

\* NGINX is never told to quit while the controller may still reload it, and the
\* controller is never stopped but for SIGTERM or the end of NGINX.
THEOREM StopIsForAReason == Spec => []StopHasReason
  <1>1. IInv => StopHasReason
    BY DEF IInv, Reasons
  <1>. QED
    BY <1>1, ProcessInvariant, PTL

\* When main waits for the caches, and when the workers run, all informers that
\* the controller has been given do, and there is one for each type.
THEOREM OneRunningInformerEach == Spec => []SharedInformersRun
  <1>1. ASSUME WellBuilt, main \in {"sync", "run"}, NEW j \in DOMAIN held
        PROVE  held[j].informer \in Running
    <2>. DEFINE t == held[j].informer.type
    <2>1. held[j] \in HeldBy
      BY <1>1, LenProperties DEF WellBuilt, HeldIsMade
    <2>2. t \in Types /\ held[j].informer = [type |-> t, n |-> 1]
      BY <2>1 DEF HeldBy
    <2>3. factories[FactoryOf(t)].informers[t] = 1
      BY <1>1 DEF WellBuilt, HeldIsMade
    <2>4. MadeIsStarted(FactoryOf(t))
      BY <1>1 DEF WellBuilt, Started, FactoryOf
    <2>5. t \in factories[FactoryOf(t)].startedInformers
      BY <1>1, <2>2, <2>3, <2>4
      DEF MadeIsStarted, FactoryOf, WellBuilt, FactoryTypes, Factory, Types, ConfTypes
    <2>6. [type |-> t, n |-> 1] \in factories[FactoryOf(t)].running
      BY <1>1, <2>5 DEF StartedRun, FactoryOf, WellBuilt, FactoryTypes
    <2>. QED
      BY <2>2, <2>6 DEF Running, FactoryOf
  <1>2. ASSUME WellBuilt, NEW a \in Running, NEW b \in Running, a.type = b.type PROVE a = b
    BY <1>2 DEF Running, WellBuilt, FactoryTypes, Factory
  <1>3. IInv => SharedInformersRun
    BY <1>1, <1>2 DEF IInv, SharedInformersRun
  <1>. QED
    BY <1>3, ProcessInvariant, PTL
================================================================================
