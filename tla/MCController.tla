----------------------------- MODULE MCController -----------------------------
(***************************************************************************)
(* Small instances of the controller for TLC: two TCPServers of one        *)
(* namespace that name the same service, so that one change of endpoints   *)
(* concerns both.                                                          *)
(***************************************************************************)
EXTENDS ControllerProps, TLC

CONSTANTS ip1, ip2, lo, w1, w2

k1 == [ns |-> "default", name |-> "coffee"]
k2 == [ns |-> "default", name |-> "tea"]
s1 == [ns |-> "default", name |-> "svc"]

OneKey      == {k1}
TwoKeys     == {k1, k2}
OneService  == {s1}
Names       == {"svc"}
TwoIPs      == {ip1, ip2}
NoPods      == {}

Valid8888 == [listenPort |-> 8888, serviceName |-> "svc", servicePort |-> 80]
Valid9999 == [listenPort |-> 9999, serviceName |-> "svc", servicePort |-> 80]
Invalid   == [listenPort |-> 37, serviceName |-> "svc", servicePort |-> 80]

OneSpec        == {Valid8888}
ValidSpecs     == {Valid8888, Valid9999}
ValidOrInvalid == {Valid8888, Invalid}

Port80(target) == [ports |-> << [port |-> 80, protocol |-> "TCP",
                                 targetPort |-> [type |-> "int", val |-> target]] >>,
                   selector |-> {}]
OnePortService == {Port80(8080)}

\* A named target port, and the pod that has it.
NamedPortService ==
    {[ports |-> << [port |-> 80, protocol |-> "TCP",
                    targetPort |-> [type |-> "string", val |-> "http"]] >>,
      selector |-> {"app"}]}
OnePod ==
    {[ns |-> "default", ip |-> ip1, labels |-> {"app"},
      ports |-> << [name |-> "http", protocol |-> "TCP", containerPort |-> 8080] >>]}

Subset(ip)   == << [addresses |-> <<ip>>, ports |-> <<8080>>] >>
OneEndpoint  == {Subset(ip1)}
TwoEndpoints == {Subset(ip1), Subset(ip2)}

WorkerSymmetry == Permutations(Workers)
==============================================================================
