--------------------------- MODULE ControllerProps ---------------------------
(***************************************************************************)
(* What the controller promises: that the configuration files follow the   *)
(* declared objects whatever the interleaving of informers, handlers and   *)
(* workers.                                                                *)
(***************************************************************************)
EXTENDS Controller

Holding == {w \in Workers : pc[w] # "get"}

Steps == {"get", "tcpserver", "service", "endpoints", "create", "write", "store",
          "remove", "delete", "reload"}

Contents == AllConfigs \union {Absent, Truncated}

TCPServerEvents == [key : Keys, old : MaybeTCPServer, new : MaybeTCPServer,
                    tombstone : BOOLEAN]
EndpointsEvents == [service : ServiceKeys, old : MaybeEndpoints, new : MaybeEndpoints]

ObjectTypes ==
    /\ tcpApi \in [Keys -> MaybeTCPServer] /\ tcpCache \in [Keys -> MaybeTCPServer]
    /\ svcApi \in [ServiceKeys -> MaybeService] /\ svcCache \in [ServiceKeys -> MaybeService]
    /\ eptApi \in [ServiceKeys -> MaybeEndpoints]
    /\ eptCache \in [ServiceKeys -> MaybeEndpoints]
    /\ podApi \subseteq Pods /\ podCache \subseteq Pods

EventTypes == tcpEvents \in Seq(TCPServerEvents) /\ eptEvents \in Seq(EndpointsEvents)

RunTypes ==
    synced \subseteq {"tcpservers", "services", "endpoints"} /\ started \in BOOLEAN

BoundTypes == disturbances \in 0..MaxDisturbances

QueueTypes == dirty \subseteq Keys /\ processing \subseteq Keys /\ waiting \subseteq Keys

WorkerTypes ==
    /\ pc \in [Workers -> Steps] /\ key \in [Workers -> Keys \union {Absent}]
    /\ tcps \in [Workers -> MaybeTCPServer] /\ svc \in [Workers -> MaybeService]
    /\ cfg \in [Workers -> AllConfigs \union {Absent}]

ConfTypes ==
    /\ files \in [Keys -> Contents]
    /\ tcpServersEx \subseteq {FileName(k) : k \in Keys}

\* Every variable of the controller holds a value of the kind the code keeps in it.
TypeOK ==
    /\ ObjectTypes /\ EventTypes /\ RunTypes /\ BoundTypes
    /\ QueueTypes /\ WorkerTypes /\ ConfTypes

(***************************************************************************)
(* Two workers never have the same key, so no two of them ever write or    *)
(* remove the same file at the same time, however often the key was added  *)
(* in the meantime.                                                        *)
(***************************************************************************)
OneWorkerPerKey ==
    /\ \A v, w \in Holding : v # w => key[v] # key[w]
    /\ processing = {key[w] : w \in Holding}

(***************************************************************************)
(* A truncated file is about to be written by the worker that truncated    *)
(* it: no step of another worker and no lost key leaves one behind.        *)
(***************************************************************************)
TruncatedIsOwned ==
    \A k \in Keys : files[k] = Truncated =>
        \E w \in Workers : pc[w] = "write" /\ key[w] = k

(***************************************************************************)
(* No lost update.  What a key's file should hold is a rendering of the    *)
(* cached TCPServer and the cached endpoints (and, as nothing is told to   *)
(* the controller when a service or a pod changes, of any service it may   *)
(* have had and any pods there may have been).                             *)
(* As long as the file does not hold that, the key is on its way to a      *)
(* worker: in a notification, in the queue, delayed, or with a worker.     *)
(***************************************************************************)
PossibleServices(s) == IF "service" \in Churn THEN MaybeService ELSE {svcCache[s]}
PossiblePods        == IF "pod" \in Churn THEN SUBSET Pods ELSE {podCache}

Wanted(k) ==
    LET t == tcpCache[k]
        s == ServiceKey(k, t)
    IN  IF Served(t)
        THEN UNION {ConfigsFor(k, t, v, eptCache[s], pods) :
                    v \in PossibleServices(s), pods \in PossiblePods}
        ELSE {Absent}

NotifiedTCPServer(k) ==
    \E i \in DOMAIN tcpEvents : tcpEvents[i].key = k /\ EnqueuedBy(tcpEvents[i]) # {}

NotifiedEndpoints(k) ==
    /\ Served(tcpCache[k])
    /\ \E i \in DOMAIN eptEvents : /\ eptEvents[i].service = ServiceKey(k, tcpCache[k])
                                   /\ eptEvents[i].old # eptEvents[i].new

\* The key will be given to a worker (again).
Coming(k) ==
    k \in dirty \/ k \in waiting \/ NotifiedTCPServer(k) \/ NotifiedEndpoints(k)

Pending(k) == k \in processing \/ Coming(k)

\* A TCPServer that exists, valid or not, is configured as its caches say.
ExistingIsCurrent ==
    \A k \in Keys : tcpCache[k] # Absent /\ ~Pending(k) => files[k] \in Wanted(k)

\* A TCPServer that was deleted leaves no file behind: the Removing log line
\* of the delete handler is followed by the removal.
DeletedIsRemoved ==
    \A k \in Keys : tcpCache[k] = Absent /\ ~Pending(k) => files[k] = Absent

(***************************************************************************)
(* The look-ups a worker makes one after the other are never mixed from    *)
(* two states of the caches without the key coming back: with nothing of   *)
(* its key on the way, what a worker has read is what is cached, what it   *)
(* is about to write is wanted, and what it has written still is.  (A      *)
(* deletion learnt from a list never comes to the queue at all.)           *)
(***************************************************************************)
Settled(k) == ~Coming(k) /\ (tcpCache[k] # Absent \/ "relist" \notin Churn)

HandIsCurrent(w) ==
    LET k == key[w] IN
    /\ pc[w] \in {"service", "endpoints"} => tcps[w] = tcpCache[k]
    /\ pc[w] = "endpoints" => svc[w] \in PossibleServices(ServiceKey(k, tcps[w]))
    /\ pc[w] \in {"create", "write"} => cfg[w] \in Wanted(k)
    /\ pc[w] = "remove" => Wanted(k) = {Absent}
    /\ pc[w] \in {"store", "delete", "reload"} => files[k] \in Wanted(k)

WorkIsCurrent == \A w \in Holding : Settled(key[w]) => HandIsCurrent(w)

(***************************************************************************)
(* All of that at once: the controller is a reconciler.  What is wanted    *)
(* changes with the caches, never without the key becoming pending, and    *)
(* no key is given up before its file is right.                            *)
(***************************************************************************)
Promise ==
    INSTANCE Reconciler WITH
        wanted <- [k \in Keys |-> Wanted(k)],
        pending <- {k \in Keys : Pending(k)}

ImplementsReconciler == Promise!Spec

(***************************************************************************)
(* A file only changes in the hands of a worker that took its key after    *)
(* the caches the workers depend on were synced; a restart empties all.    *)
(***************************************************************************)
FilesChangeOnlyInProcess ==
    [][\A k \in Keys : files'[k] # files[k] =>
            \/ /\ started /\ k \in processing
               /\ {"tcpservers", "endpoints"} \subseteq synced
            \/ files' = NoObject(Keys)]_vars

(***************************************************************************)
(* Convergence: the disturbances being over at some time, every file comes *)
(* to hold what the objects in the API server ask for, and stays so.       *)
(***************************************************************************)
Declared(k) ==
    LET t == tcpApi[k]
        s == ServiceKey(k, t)
    IN  IF Served(t) THEN ConfigsFor(k, t, svcApi[s], eptApi[s], podApi) ELSE {Absent}

Converges == <>[](\A k \in Keys : files[k] \in Declared(k))

==============================================================================
