------------------------------ MODULE Rendering ------------------------------
(***************************************************************************)
(* From a TCPServer and the Kubernetes objects it refers to, to the NGINX  *)
(* configuration that serves it: the validation of package                 *)
(* pkg/apis/k8snginx/validation, the port and address resolution of        *)
(* internal/k8s and the configuration generation of internal/configuration.*)
(* Only pure operators: the steps that call them are in AddOrUpdate.tla    *)
(* and Controller.tla.                                                     *)
(*                                                                         *)
(* Objects:                                                                *)
(*   TCPServer  [listenPort, serviceName, servicePort]  (its spec)         *)
(*   Service    [ports : Seq([port, targetPort, protocol]), selector]      *)
(*              targetPort is an IntOrString [type, val], a selector is a  *)
(*              set of labels                                              *)
(*   Endpoints  Seq([addresses : Seq(ip), ports : Seq(port)]), its subsets *)
(*   Pod        [labels, ports : Seq([name, protocol, containerPort])], the*)
(*              ports of all its containers in order                       *)
(***************************************************************************)
EXTENDS Integers, Sequences

CONSTANTS
    DNS1035Labels,  \* the service names that IsDNS1035Label accepts
    ResolvableIPs,  \* the IPs for which "ip:port" resolves: IPv4, not IPv6
    Loopback        \* 127.0.0.1

(***************************************************************************)
(* Validation                                                              *)
(***************************************************************************)
TimePort == 37

ValidPort(port) == port # TimePort /\ port \in 1..65535

ValidTCPServer(tcps) ==
    /\ ValidPort(tcps.listenPort)
    /\ tcps.serviceName \in DNS1035Labels
    /\ ValidPort(tcps.servicePort)

(***************************************************************************)
(* Target ports.  A failed look-up is port 0: the caller treats an error   *)
(* and a zero port alike, both mean that there is no address.              *)
(***************************************************************************)
NoPort == 0

UnsetPort == 0

\* The index at which a loop that looks for one of S stops.
First(S) == CHOOSE n \in S : \A m \in S : n <= m

\* The port of the first element that passes, or NoPort.
FindPort(pod, svcPort) ==
    LET found == {n \in DOMAIN pod.ports : /\ pod.ports[n].name = svcPort.targetPort.val
                                           /\ pod.ports[n].protocol = svcPort.protocol}
    IN  IF found = {} THEN NoPort ELSE pod.ports[First(found)].containerPort

\* The lister returns the selected pods of every namespace in the order of
\* a Go map, so the pod the code picks (pods[0]) is any of them.
TargetPorts(svcPort, selector, pods) ==
    LET selected == {pod \in pods : selector \subseteq pod.labels}
    IN  IF svcPort.targetPort.type = "int"
        THEN {IF svcPort.targetPort.val = UnsetPort THEN svcPort.port
              ELSE svcPort.targetPort.val}
        ELSE IF selected = {} THEN {NoPort}
        ELSE {FindPort(pod, svcPort) : pod \in selected}

(***************************************************************************)
(* Addresses: those of the first subset that has the target port.          *)
(***************************************************************************)
HasPort(subset, port) == \E i \in DOMAIN subset.ports : subset.ports[i] = port

AddressesOn(ept, port) ==
    LET onPort == {n \in DOMAIN ept : HasPort(ept[n], port)}
        subset == ept[First(onPort)]
    IN  IF port = NoPort \/ onPort = {} THEN <<>>
        ELSE [i \in DOMAIN subset.addresses |->
                [ip |-> subset.addresses[i], port |-> port]]

EndpointsForServiceAndPort(servicePort, svc, ept, pods) ==
    LET onPort  == {n \in DOMAIN svc.ports : svc.ports[n].port = servicePort}
        targets == IF onPort = {} THEN {NoPort}
                   ELSE TargetPorts(svc.ports[First(onPort)], svc.selector, pods)
    IN  {AddressesOn(ept, port) : port \in targets}

(***************************************************************************)
(* The generated configuration.                                            *)
(***************************************************************************)
\* NewTCPServerEx: addresses that do not resolve are reported and dropped; what
\* is left of the first n addresses, for each n.
Resolved(addresses) ==
    LET left[n \in 0..Len(addresses)] ==
            IF n = 0 THEN <<>>
            ELSE IF addresses[n].ip \in ResolvableIPs THEN Append(left[n - 1], addresses[n])
            ELSE left[n - 1]
    IN  left

ServiceAddresses(addresses) == Resolved(addresses)[Len(addresses)]

DefaultServers == << [ip |-> Loopback, port |-> TimePort] >>

GenerateCfg(name, tcps, addresses) ==
    [name       |-> name,
     listenPort |-> tcps.listenPort,
     servers    |-> IF addresses # <<>> THEN addresses ELSE DefaultServers]

\* Every configuration addOrUpdateTCPServerSync may generate.
Configs(name, tcps, svc, ept, pods) ==
    {GenerateCfg(name, tcps, ServiceAddresses(addresses)) :
        addresses \in EndpointsForServiceAndPort(tcps.servicePort, svc, ept, pods)}

\* What the controller passes for a service or endpoints it does not find.
EmptyService   == [ports |-> <<>>, selector |-> {}]
EmptyEndpoints == <<>>
==============================================================================
