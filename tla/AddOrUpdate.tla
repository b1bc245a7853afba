----------------------------- MODULE AddOrUpdate -----------------------------
(***************************************************************************)
(* addOrUpdateTCPServerSync, loop by loop: the service's ports are scanned *)
(* for the TCPServer's port, the subsets of the endpoints for the target   *)
(* port, each address found is resolved, and the configuration is          *)
(* generated.  Controller.tla takes all of this as the one operator        *)
(* Configs of Rendering.tla; this module is where that operator is         *)
(* compared with the code's loops, and where what is rendered is compared  *)
(* with what the service offers.                                           *)
(*                                                                         *)
(* An input is what a worker has when it comes here: a valid TCPServer,    *)
(* the service and the endpoints (empty ones if they were not found), and  *)
(* the pods in the informer's cache.                                       *)
(***************************************************************************)
EXTENDS Rendering

CONSTANTS
    Inputs,  \* what may be rendered, [name, tcps, svc, ept, pods]
    Nothing  \* the configuration that is not generated yet

IsList(s) == s \in Seq({s[n] : n \in DOMAIN s})

ASSUME InputsAssumption ==
    \A in \in Inputs :
        /\ ValidTCPServer(in.tcps)
        /\ IsList(in.svc.ports) /\ IsList(in.ept)
        /\ \A n \in DOMAIN in.ept : IsList(in.ept[n].addresses)

VARIABLES
    in,         \* the input
    pc, i,      \* the loop and its index
    target,     \* targetPort, NoPort until it is found
    adrs,       \* the addresses found in the endpoints
    resolved,   \* those that resolved, ServiceAddresses
    altered,    \* an address did not: the Altered event is recorded
    cfg         \* the configuration

vars == <<in, pc, i, target, adrs, resolved, altered, cfg>>

Init ==
    /\ in \in Inputs
    /\ pc = "ports" /\ i = 1
    /\ target = NoPort
    /\ adrs = <<>> /\ resolved = <<>> /\ altered = FALSE
    /\ cfg = Nothing

Goto(loop) == pc' = loop /\ i' = 1

(***************************************************************************)
(* The first service port with the TCPServer's number decides.  No such    *)
(* port, and no target port for it, both leave the addresses empty.        *)
(***************************************************************************)
FoundTarget(svcPort) ==
    \E port \in TargetPorts(svcPort, in.svc.selector, in.pods) :
        /\ target' = port
        /\ Goto(IF port = NoPort THEN "resolve" ELSE "subsets")

TargetIsServicePort ==
    /\ pc = "ports"
    /\ IF i > Len(in.svc.ports) THEN Goto("resolve") /\ UNCHANGED target
       ELSE IF in.svc.ports[i].port = in.tcps.servicePort
       THEN target' = in.svc.ports[i].port /\ Goto("subsets")
       ELSE i' = i + 1 /\ UNCHANGED <<pc, target>>
    /\ UNCHANGED <<in, adrs, resolved, altered, cfg>>

ScanPort ==
    /\ pc = "ports"
    /\ IF i > Len(in.svc.ports) THEN Goto("resolve") /\ UNCHANGED target
       ELSE IF in.svc.ports[i].port = in.tcps.servicePort
       THEN FoundTarget(in.svc.ports[i])
       ELSE i' = i + 1 /\ UNCHANGED <<pc, target>>
    /\ UNCHANGED <<in, adrs, resolved, altered, cfg>>

(***************************************************************************)
(* The first subset with the target port gives all the addresses.          *)
(***************************************************************************)
AddressesOf(subset) ==
    [n \in DOMAIN subset.addresses |-> [ip |-> subset.addresses[n], port |-> target]]

TakeAnySubset ==
    /\ pc = "subsets"
    /\ adrs' = IF in.ept = <<>> THEN <<>> ELSE AddressesOf(in.ept[1])
    /\ Goto("resolve")
    /\ UNCHANGED <<in, target, resolved, altered, cfg>>

ScanSubset ==
    /\ pc = "subsets"
    /\ IF i > Len(in.ept) THEN Goto("resolve") /\ UNCHANGED adrs
       ELSE IF HasPort(in.ept[i], target)
       THEN adrs' = AddressesOf(in.ept[i]) /\ Goto("resolve")
       ELSE i' = i + 1 /\ UNCHANGED <<pc, adrs>>
    /\ UNCHANGED <<in, target, resolved, altered, cfg>>

(***************************************************************************)
(* NewTCPServerEx: an address that does not resolve is skipped and         *)
(* reported, the others are kept in their order.                           *)
(***************************************************************************)
StopAtBadAddress ==
    /\ pc = "resolve"
    /\ IF i > Len(adrs) \/ altered
       THEN Goto("generate") /\ UNCHANGED <<resolved, altered>>
       ELSE /\ i' = i + 1 /\ UNCHANGED pc
            /\ IF adrs[i].ip \in ResolvableIPs
               THEN resolved' = Append(resolved, adrs[i]) /\ UNCHANGED altered
               ELSE altered' = TRUE /\ UNCHANGED resolved
    /\ UNCHANGED <<in, target, adrs, cfg>>

ResolveAddress ==
    /\ pc = "resolve"
    /\ IF i > Len(adrs)
       THEN Goto("generate") /\ UNCHANGED <<resolved, altered>>
       ELSE /\ i' = i + 1 /\ UNCHANGED pc
            /\ IF adrs[i].ip \in ResolvableIPs
               THEN resolved' = Append(resolved, adrs[i]) /\ UNCHANGED altered
               ELSE altered' = TRUE /\ UNCHANGED resolved
    /\ UNCHANGED <<in, target, adrs, cfg>>

GenerateFromFound ==
    /\ pc = "generate"
    /\ cfg' = [GenerateCfg(in.name, in.tcps, resolved) EXCEPT
                    !.servers = IF adrs # <<>> THEN resolved ELSE DefaultServers]
    /\ Goto("done")
    /\ UNCHANGED <<in, target, adrs, resolved, altered>>

Generate ==
    /\ pc = "generate"
    /\ cfg' = GenerateCfg(in.name, in.tcps, resolved)
    /\ Goto("done")
    /\ UNCHANGED <<in, target, adrs, resolved, altered>>

Next == ScanPort \/ ScanSubset \/ ResolveAddress \/ Generate

Spec == Init /\ [][Next]_vars
==============================================================================
