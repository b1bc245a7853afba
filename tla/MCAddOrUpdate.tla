---------------------------- MODULE MCAddOrUpdate ----------------------------
(***************************************************************************)
(* Small instances of the rendering for TLC: the pods of a service and of  *)
(* another namespace, and the endpoints that the endpoints controller      *)
(* makes of those that are ready: one subset for the pods with the same    *)
(* ports, the subsets in any order.                                        *)
(***************************************************************************)
EXTENDS AddOrUpdateProps, SequencesExt

CONSTANTS ip1, ip2, ip3, ip6, lo, nothing

Pod(ns, ip, http, admin) ==
    [ns |-> ns, ip |-> ip, labels |-> {"app"},
     ports |-> << [name |-> "http", protocol |-> "TCP", containerPort |-> http],
                  [name |-> "admin", protocol |-> "TCP", containerPort |-> admin] >>]

pod1 == Pod("default", ip1, 8080, 9090)
pod2 == Pod("default", ip2, 8080, 9090)
pod3 == Pod("default", ip3, 8080, 9091)
pod4 == Pod("default", ip3, 8081, 9090)
pod6 == Pod("default", ip6, 8080, 9090)
podX == Pod("other", ip3, 7070, 9090)

IPv4Only  == {ip1, ip2, ip3}
Labels    == {"svc"}
AlikePods == {pod1, pod2, podX}
ManyPods  == {pod1, pod2, pod3, pod4, pod6, podX}

SvcPort(port, at) == [port |-> port, protocol |-> "TCP", targetPort |-> at]
Number(n)   == [type |-> "int", val |-> n]
Named(name) == [type |-> "string", val |-> name]
Svc(ports) == [ports |-> ports, selector |-> {"app"}]

IntService    == Svc(<< SvcPort(80, Number(8080)) >>)
UnsetService  == Svc(<< SvcPort(8080, Number(UnsetPort)) >>)
NamedService  == Svc(<< SvcPort(80, Named("http")) >>)
MultiService  == Svc(<< SvcPort(90, Named("admin")), SvcPort(80, Named("http")) >>)
WrongName     == Svc(<< SvcPort(80, Named("https")) >>)
AllServices   == {IntService, UnsetService, NamedService, MultiService, WrongName}

\* The ports at which a pod serves the service; a pod without them is left out.
PodPorts(svc, pod) ==
    LET portOf(p) == CHOOSE port \in TargetPorts(p, {}, {pod}) : TRUE
        ports == [n \in DOMAIN svc.ports |-> portOf(svc.ports[n])]
        found(port) == port # NoPort
    IN  SelectSeq(ports, found)

EndpointsOf(svc, ready) ==
    LET ports    == {PodPorts(svc, pod) : pod \in ready} \ {<<>>}
        with(ps) == SetToSeq({pod.ip : pod \in {p \in ready : PodPorts(svc, p) = ps}})
        up(ps)   == [addresses |-> with(ps), ports |-> ps]
        down(ps) == [addresses |-> Reverse(with(ps)), ports |-> ps]
    IN  SetToSeqs({up(ps) : ps \in ports}) \union SetToSeqs({down(ps) : ps \in ports})

TCPServer(port) == [listenPort |-> 8888, serviceName |-> "svc", servicePort |-> port]

Input(svc, ept, pods, port) ==
    [name |-> "coffee", tcps |-> TCPServer(port), svc |-> svc, ept |-> ept, pods |-> pods]

\* The service with its endpoints, as made of some of the pods there are.
InputsOver(services, pods) ==
    UNION {UNION {{Input(svc, ept, some, port) : ept \in EndpointsOf(svc, ready)} :
            ready \in SUBSET {pod \in some : pod.ns = "default"}} :
        svc \in services, some \in SUBSET pods, port \in {80, 8080}}

\* No service, or no endpoints yet.
Missing ==
    {Input(svc, EmptyEndpoints, AlikePods, 80) : svc \in {EmptyService, IntService}}

AllInputs   == InputsOver(AllServices, ManyPods) \union Missing
NamedInputs == InputsOver({NamedService}, AlikePods)
==============================================================================
