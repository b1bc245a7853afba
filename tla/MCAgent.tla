-------------------------------- MODULE MCAgent --------------------------------
(***************************************************************************)
(* Small instances of the agent for TLC: two TCPServers that may ask for   *)
(* one port, of a service that is not there, so that a configuration is    *)
(* its port with the time server; or one TCPServer of a service whose      *)
(* endpoints come and go.                                                  *)
(***************************************************************************)
EXTENDS AgentProps, TLC

CONSTANTS ip1, lo, w1, w2

k1 == [ns |-> "default", name |-> "coffee"]
k2 == [ns |-> "default", name |-> "tea"]
s1 == [ns |-> "default", name |-> "svc"]

OneKey     == {k1}
TwoKeys    == {k1, k2}
OneService == {s1}
SvcNames   == {"svc"}
OneIP      == {ip1}
NoneOf     == {}

Port(p) == [listenPort |-> p, serviceName |-> "svc", servicePort |-> 80]
OneSpec == {Port(8888)}

OnePortService ==
    {[ports |-> << [port |-> 80, protocol |-> "TCP",
                    targetPort |-> [type |-> "int", val |-> 8080]] >>,
      selector |-> {}]}

OneEndpoint == {<< [addresses |-> <<ip1>>, ports |-> <<8080>>] >>}
==============================================================================
