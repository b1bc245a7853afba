--------------------------- MODULE AddOrUpdateProps ---------------------------
(***************************************************************************)
(* What the rendering of a TCPServer promises about the upstream it gives  *)
(* to NGINX.                                                               *)
(***************************************************************************)
EXTENDS AddOrUpdate, FiniteSets

Done == pc = "done"

Servers == {cfg.servers[n] : n \in DOMAIN cfg.servers}

(***************************************************************************)
(* The loops compute what the controller's model takes them to compute.    *)
(***************************************************************************)
AgreesWithRendering ==
    Done => cfg \in Configs(in.name, in.tcps, in.svc, in.ept, in.pods)

(***************************************************************************)
(* No upstream is without a server: NGINX rejects such a file, and with it *)
(* every later reload for any TCPServer.                                   *)
(***************************************************************************)
NeverEmptyUpstream == Done => cfg.servers # <<>>

(***************************************************************************)
(* Nothing but the service is served: each server is an address of the     *)
(* endpoints, at a port it is listed for, or the time server stands alone. *)
(***************************************************************************)
Listed(server) ==
    \E n \in DOMAIN in.ept :
        /\ HasPort(in.ept[n], server.port)
        /\ \E m \in DOMAIN in.ept[n].addresses : in.ept[n].addresses[m] = server.ip

ServersAreListed ==
    Done => cfg.servers = DefaultServers \/ \A server \in Servers : Listed(server)

(***************************************************************************)
(* With a single subset for the target port, every address of it that      *)
(* resolves is served, once, whatever other addresses it has.              *)
(***************************************************************************)
OnTarget == {n \in DOMAIN in.ept : target # NoPort /\ HasPort(in.ept[n], target)}

Resolvable(subset) == {m \in DOMAIN subset.addresses : subset.addresses[m] \in ResolvableIPs}

WholeSubsetServed ==
    Done => \A n \in OnTarget :
        LET subset == in.ept[n] IN
        OnTarget = {n} /\ Resolvable(subset) # {} =>
            /\ Servers = {[ip |-> subset.addresses[m], port |-> target] :
                             m \in Resolvable(subset)}
            /\ Len(cfg.servers) = Cardinality(Resolvable(subset))

(***************************************************************************)
(* "We use it for services that have no endpoints"                         *)
(* (NewDefaultTCPServerUpstreamServers): the time server is not served for *)
(* a service that has the port and, for its only port, endpoints.          *)
(***************************************************************************)
HasEndpoints ==
    /\ Len(in.svc.ports) = 1 /\ in.svc.ports[1].port = in.tcps.servicePort
    /\ \E n \in DOMAIN in.ept : in.ept[n].ports # <<>> /\ Resolvable(in.ept[n]) # {}

TimeOnlyWithoutEndpoints ==
    Done /\ HasEndpoints => cfg.servers # DefaultServers
==============================================================================
