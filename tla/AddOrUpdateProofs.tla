--------------------------- MODULE AddOrUpdateProofs ---------------------------
(***************************************************************************)
(* Proofs that NGINX is given nothing but the service, all of it, and what *)
(* Rendering.tla says, whatever ports, subsets, addresses and pods there   *)
(* are.  IInv follows an address from the endpoints through the loops to   *)
(* the configuration, LoopInv says what each loop has passed and found.    *)
(***************************************************************************)
EXTENDS AddOrUpdateProps, RenderingProofs, FiniteSetTheorems, TLAPS

Loops == {"ports", "subsets", "resolve", "generate", "done"}

\* The addresses of the endpoints at the target port, wherever it is listed.
TargetAddresses ==
    UNION {{[ip |-> in.ept[n].addresses[m], port |-> target] :
                m \in DOMAIN in.ept[n].addresses} :
            n \in {k \in DOMAIN in.ept : HasPort(in.ept[k], target)}}

LoopTypes == in \in Inputs /\ pc \in Loops /\ i \in Nat \ {0}

NothingYet == pc \in {"ports", "subsets"} => adrs = <<>> /\ resolved = <<>>

AddressesAreListed == adrs \in Seq(TargetAddresses) /\ resolved \in Seq(TargetAddresses)

CfgIsListed ==
    pc = "done" => /\ cfg.servers # <<>>
                   /\ cfg.servers = DefaultServers \/ cfg.servers \in Seq(TargetAddresses)

IInv == LoopTypes /\ NothingYet /\ AddressesAreListed /\ CfgIsListed

LEMMA InitIInv == Init => IInv
  BY DEF Init, IInv, LoopTypes, Loops, NothingYet, AddressesAreListed, CfgIsListed

LEMMA ScanPortKeeps == ASSUME IInv, ScanPort PROVE IInv'
  <1>1. LoopTypes' /\ pc' # "done" /\ UNCHANGED <<in, adrs, resolved>>
    BY DEF ScanPort, FoundTarget, Goto, IInv, LoopTypes, Loops
  <1>2. adrs = <<>> /\ resolved = <<>>
    BY DEF ScanPort, IInv, NothingYet
  <1>. QED
    BY <1>1, <1>2 DEF IInv, NothingYet, AddressesAreListed, CfgIsListed

\* The addresses of the subset that is taken.
LEMMA AddressesOfLemma ==
    ASSUME IInv, NEW n \in DOMAIN in.ept, HasPort(in.ept[n], target)
    PROVE  AddressesOf(in.ept[n]) \in Seq(TargetAddresses)
  <1>. DEFINE adr == in.ept[n].addresses
              S == {adr[m] : m \in DOMAIN adr}
              a == [m \in DOMAIN adr |-> [ip |-> adr[m], port |-> target]]
  <1>1. adr \in Seq(S)
    BY InputsAssumption DEF IInv, LoopTypes, IsList
  <1>. HIDE DEF adr, S
  <1>2. Len(adr) \in Nat /\ DOMAIN adr = 1..Len(adr)
    BY <1>1
  <1>3. \A m \in DOMAIN adr : [ip |-> adr[m], port |-> target] \in TargetAddresses
    BY DEF TargetAddresses, adr
  <1>4. a \in Seq(TargetAddresses)
    BY <1>2, <1>3
  <1>. QED
    BY <1>4 DEF AddressesOf, a, adr

LEMMA ScanSubsetKeeps == ASSUME IInv, ScanSubset PROVE IInv'
  <1>1. LoopTypes' /\ pc' \in {"subsets", "resolve"} /\ UNCHANGED <<in, target, resolved>>
    BY DEF ScanSubset, Goto, IInv, LoopTypes, Loops
  <1>2. adrs = <<>> /\ resolved = <<>> /\ (pc' = "subsets" => UNCHANGED adrs)
    BY DEF ScanSubset, Goto, IInv, NothingYet
  <1>3. TargetAddresses' = TargetAddresses
    BY <1>1 DEF TargetAddresses
  <1>4. adrs' \in Seq(TargetAddresses)
    <2>1. CASE UNCHANGED adrs
      BY <2>1 DEF IInv, AddressesAreListed
    <2>2. CASE i <= Len(in.ept) /\ HasPort(in.ept[i], target)
      <3>1. i \in DOMAIN in.ept
        BY <2>2, InputsAssumption DEF IInv, LoopTypes, IsList
      <3>. QED
        BY <2>2, <3>1, AddressesOfLemma DEF ScanSubset
    <2>. QED
      BY <2>1, <2>2, InputsAssumption DEF ScanSubset, IInv, LoopTypes, IsList
  <1>. QED
    BY <1>1, <1>2, <1>3, <1>4 DEF IInv, NothingYet, AddressesAreListed, CfgIsListed

LEMMA ResolveAddressKeeps == ASSUME IInv, ResolveAddress PROVE IInv'
  <1>1. LoopTypes' /\ pc' \notin {"ports", "subsets", "done"}
        /\ UNCHANGED <<in, target, adrs>>
    BY DEF ResolveAddress, Goto, IInv, LoopTypes, Loops
  <1>2. TargetAddresses' = TargetAddresses
    BY <1>1 DEF TargetAddresses
  <1>. HIDE DEF TargetAddresses
  <1>3. resolved' \in Seq(TargetAddresses)
    <2>1. CASE UNCHANGED resolved
      BY <2>1 DEF IInv, AddressesAreListed
    <2>2. CASE i <= Len(adrs) /\ resolved' = Append(resolved, adrs[i])
      BY <2>2 DEF IInv, LoopTypes, AddressesAreListed
    <2>. QED
      BY <2>1, <2>2 DEF ResolveAddress, IInv, LoopTypes, AddressesAreListed
  <1>. QED
    BY <1>1, <1>2, <1>3 DEF IInv, NothingYet, AddressesAreListed, CfgIsListed

LEMMA GenerateKeeps == ASSUME IInv, Generate PROVE IInv'
  <1>1. LoopTypes' /\ pc' = "done" /\ UNCHANGED <<in, target, adrs, resolved>>
    BY DEF Generate, Goto, IInv, LoopTypes, Loops
  <1>2. TargetAddresses' = TargetAddresses
    BY <1>1 DEF TargetAddresses
  <1>3. cfg'.servers = IF resolved # <<>> THEN resolved ELSE DefaultServers
    BY DEF Generate, GenerateCfg
  <1>4. DefaultServers # <<>>
    BY DEF DefaultServers
  <1>. QED
    BY <1>1, <1>2, <1>3, <1>4 DEF IInv, NothingYet, AddressesAreListed, CfgIsListed

LEMMA RenderingInvariant == Spec => []IInv
  <1>1. IInv /\ UNCHANGED vars => IInv'
    BY DEF vars, IInv, LoopTypes, NothingYet, AddressesAreListed, CfgIsListed,
           TargetAddresses
  <1>. QED
    BY InitIInv, ScanPortKeeps, ScanSubsetKeeps, ResolveAddressKeeps, GenerateKeeps,
       <1>1, PTL
    DEF Spec, Next

\* No upstream is without a server, of any TCPServer, service and endpoints.
THEOREM NoEmptyUpstream == Spec => []NeverEmptyUpstream
  <1>1. IInv => NeverEmptyUpstream
    BY DEF IInv, CfgIsListed, NeverEmptyUpstream, Done
  <1>. QED
    BY <1>1, RenderingInvariant, PTL

\* Every server but the time server is an address of the endpoints at a port it
\* is listed for, whichever pod decides about the port.
THEOREM OnlyTheServiceIsServed == Spec => []ServersAreListed
  <1>1. ASSUME IInv, cfg.servers \in Seq(TargetAddresses), NEW server \in Servers
        PROVE  Listed(server)
    <2>1. server \in TargetAddresses
      <3>. HIDE DEF TargetAddresses
      <3>. QED
        BY <1>1 DEF Servers
    <2>. QED
      BY <2>1 DEF TargetAddresses, Listed
  <1>2. IInv => ServersAreListed
    BY <1>1 DEF IInv, CfgIsListed, ServersAreListed, Done
  <1>. QED
    BY <1>2, RenderingInvariant, PTL

(***************************************************************************)
(* Where the loops are: what they have passed, and what they have found.   *)
(***************************************************************************)
SvcPortNumber == {n \in DOMAIN in.svc.ports : in.svc.ports[n].port = in.tcps.servicePort}

\* The target ports that the service may have, as Rendering.tla gives them.
Targets ==
    IF SvcPortNumber = {} THEN {NoPort}
    ELSE TargetPorts(in.svc.ports[First(SvcPortNumber)], in.svc.selector, in.pods)

PortLoop ==
    pc = "ports" => /\ target = NoPort
                    /\ \A n \in SvcPortNumber : n >= i

SubsetLoop ==
    pc = "subsets" => /\ target # NoPort /\ target \in Targets
                      /\ \A n \in OnTarget : n >= i

\* The addresses are those of the first subset on the target port.
AddressesFound ==
    pc \in {"resolve", "generate", "done"} =>
        /\ target \in Targets
        /\ OnTarget = {} => adrs = <<>>
        /\ OnTarget # {} => \E n \in OnTarget : /\ \A m \in OnTarget : n <= m
                                                /\ adrs = AddressesOf(in.ept[n])

ResolvedPositions(n) == {m \in 1..n : adrs[m].ip \in ResolvableIPs}

ResolvedUpTo(n) ==
    /\ {resolved[m] : m \in DOMAIN resolved} = {adrs[m] : m \in ResolvedPositions(n)}
    /\ Len(resolved) = Cardinality(ResolvedPositions(n))

ResolveLoop ==
    /\ pc = "resolve" => i - 1 \in 0..Len(adrs) /\ ResolvedUpTo(i - 1)
    /\ pc \in {"generate", "done"} => ResolvedUpTo(Len(adrs))

CfgIsGenerated == pc = "done" => cfg = GenerateCfg(in.name, in.tcps, resolved)

LoopInv == PortLoop /\ SubsetLoop /\ AddressesFound /\ ResolveLoop /\ CfgIsGenerated

LEMMA ListsLemma ==
    ASSUME in \in Inputs
    PROVE  /\ DOMAIN in.svc.ports = 1..Len(in.svc.ports) /\ Len(in.svc.ports) \in Nat
           /\ DOMAIN in.ept = 1..Len(in.ept) /\ Len(in.ept) \in Nat
  <1>1. in.svc.ports \in Seq({in.svc.ports[n] : n \in DOMAIN in.svc.ports})
        /\ in.ept \in Seq({in.ept[n] : n \in DOMAIN in.ept})
    BY InputsAssumption DEF IsList
  <1>. QED
    BY <1>1, LenProperties

LEMMA InitLoopInv == Init => LoopInv
  <1>. SUFFICES ASSUME Init PROVE LoopInv
    OBVIOUS
  <1>1. \A n \in SvcPortNumber : n >= 1
    BY ListsLemma DEF Init, SvcPortNumber
  <1>. QED
    BY <1>1
    DEF Init, LoopInv, PortLoop, SubsetLoop, AddressesFound, ResolveLoop, CfgIsGenerated

\* Nothing is resolved of nothing.
LEMMA ResolvedNothing ==
    ASSUME resolved = <<>>
    PROVE  ResolvedUpTo(0)
  <1>1. ResolvedPositions(0) = {}
    BY DEF ResolvedPositions
  <1>. QED
    BY <1>1, FS_EmptySet DEF ResolvedUpTo

LEMMA ScanPortLoops == ASSUME IInv, LoopInv, ScanPort PROVE LoopInv'
  <1>1. pc = "ports" /\ target = NoPort /\ adrs = <<>> /\ resolved = <<>> /\ i \in Nat \ {0}
    BY DEF ScanPort, IInv, NothingYet, LoopTypes, LoopInv, PortLoop
  <1>2. UNCHANGED <<in, adrs, resolved, cfg>> /\ SvcPortNumber' = SvcPortNumber
        /\ Targets' = Targets
    BY DEF ScanPort, SvcPortNumber, Targets
  <1>4. /\ DOMAIN in.svc.ports = 1..Len(in.svc.ports) /\ Len(in.svc.ports) \in Nat
        /\ DOMAIN in.ept = 1..Len(in.ept) /\ Len(in.ept) \in Nat
    BY ListsLemma DEF IInv, LoopTypes
  <1>5. \A n \in SvcPortNumber : n >= i
    BY <1>1 DEF LoopInv, PortLoop
  <1>6. ResolveLoop' /\ CfgIsGenerated'
    <2>1. pc' # "generate" /\ pc' # "done" /\ (pc' = "resolve" => i' = 1)
      BY DEF ScanPort, FoundTarget, Goto
    <2>2. ResolvedUpTo(0)'
      BY <1>1, <1>2, ResolvedNothing DEF ResolvedUpTo, ResolvedPositions
    <2>. QED
      BY <1>1, <1>2, <2>1, <2>2 DEF ResolveLoop, CfgIsGenerated
  <1>7. CASE i > Len(in.svc.ports)
    <2>1. SvcPortNumber = {}
      BY <1>1, <1>4, <1>5, <1>7 DEF SvcPortNumber
    <2>2. pc' = "resolve" /\ target' = NoPort
      BY <1>1, <1>7 DEF ScanPort, Goto
    <2>3. NoPort \in Targets /\ OnTarget' = {}
      BY <2>1, <2>2 DEF Targets, OnTarget
    <2>4. AddressesFound'
      BY <1>1, <1>2, <2>2, <2>3 DEF AddressesFound
    <2>. QED
      BY <1>6, <2>2, <2>4 DEF LoopInv, PortLoop, SubsetLoop
  <1>8. CASE i <= Len(in.svc.ports) /\ in.svc.ports[i].port = in.tcps.servicePort
    <2>1. i \in SvcPortNumber
      BY <1>1, <1>4, <1>8 DEF SvcPortNumber
    <2>2. First(SvcPortNumber) = i
      <3>1. SvcPortNumber \in SUBSET Int
        BY <1>4 DEF SvcPortNumber
      <3>2. \A n \in SvcPortNumber : i <= n
        BY <1>1, <1>5, <3>1
      <3>. QED
        BY <2>1, <3>1, <3>2, FirstLemma
    <2>3. FoundTarget(in.svc.ports[i])
      BY <1>1, <1>4, <1>8 DEF ScanPort
    <2>4. PICK port \in Targets :
            target' = port /\ pc' = (IF port = NoPort THEN "resolve" ELSE "subsets") /\ i' = 1
      BY <2>1, <2>2, <2>3 DEF FoundTarget, Goto, Targets
    <2>5. CASE port = NoPort
      <3>1. OnTarget' = {}
        BY <2>4, <2>5 DEF OnTarget
      <3>. QED
        BY <1>1, <1>2, <1>6, <2>4, <2>5, <3>1
        DEF LoopInv, PortLoop, SubsetLoop, AddressesFound
    <2>6. CASE port # NoPort
      <3>1. \A n \in OnTarget' : n >= 1
        BY <1>2, <1>4 DEF OnTarget
      <3>. QED
        BY <1>2, <1>6, <2>4, <2>6, <3>1
        DEF LoopInv, PortLoop, SubsetLoop, AddressesFound
    <2>. QED
      BY <2>5, <2>6
  <1>9. CASE i <= Len(in.svc.ports) /\ in.svc.ports[i].port # in.tcps.servicePort
    <2>1. i' = i + 1 /\ UNCHANGED <<pc, target>>
      BY <1>1, <1>4, <1>9 DEF ScanPort
    <2>2. \A n \in SvcPortNumber : n >= i + 1
      BY <1>1, <1>4, <1>5, <1>9 DEF SvcPortNumber
    <2>. QED
      BY <1>1, <1>2, <1>6, <2>1, <2>2 DEF LoopInv, PortLoop, SubsetLoop, AddressesFound
  <1>. QED
    BY <1>1, <1>4, <1>7, <1>8, <1>9

LEMMA ScanSubsetLoops == ASSUME IInv, LoopInv, ScanSubset PROVE LoopInv'
  <1>1. /\ pc = "subsets" /\ target # NoPort /\ target \in Targets
        /\ adrs = <<>> /\ resolved = <<>> /\ i \in Nat \ {0}
        /\ DOMAIN in.ept = 1..Len(in.ept) /\ Len(in.ept) \in Nat
        /\ \A n \in OnTarget : n >= i
    BY ListsLemma DEF ScanSubset, IInv, NothingYet, LoopTypes, LoopInv, SubsetLoop
  <1>2. /\ UNCHANGED <<in, target, resolved, cfg>>
        /\ Targets' = Targets /\ OnTarget' = OnTarget
    BY DEF ScanSubset, Targets, SvcPortNumber, OnTarget
  <1>3. /\ pc' \in {"subsets", "resolve"} /\ (pc' = "resolve" => i' = 1)
        /\ (pc' = "subsets" => UNCHANGED adrs)
    BY DEF ScanSubset, Goto
  <1>4. PortLoop' /\ CfgIsGenerated'
    BY <1>3 DEF PortLoop, CfgIsGenerated
  <1>5. ResolveLoop'
    <2>1. pc' = "resolve" => Len(adrs') \in Nat
      BY <1>3, ScanSubsetKeeps, LenProperties DEF IInv, AddressesAreListed
    <2>2. ResolvedUpTo(0)'
      <3>1. resolved' = <<>>
        BY <1>1, <1>2
      <3>2. ResolvedPositions(0)' = {}
        BY DEF ResolvedPositions
      <3>. QED
        BY <3>1, <3>2, FS_EmptySet DEF ResolvedUpTo, ResolvedPositions
    <2>. QED
      BY <1>3, <2>1, <2>2 DEF ResolveLoop
  <1>6. CASE i > Len(in.ept)
    <2>1. OnTarget = {}
      BY <1>1, <1>6 DEF OnTarget
    <2>2. pc' = "resolve" /\ adrs' = <<>>
      BY <1>1, <1>6 DEF ScanSubset, Goto
    <2>. QED
      BY <1>1, <1>2, <1>4, <1>5, <2>1, <2>2 DEF LoopInv, SubsetLoop, AddressesFound
  <1>7. CASE i <= Len(in.ept) /\ HasPort(in.ept[i], target)
    <2>1. i \in OnTarget /\ \A n \in OnTarget : i <= n
      BY <1>1, <1>7 DEF OnTarget
    <2>2. pc' = "resolve" /\ adrs' = AddressesOf(in.ept[i])
      BY <1>1, <1>7 DEF ScanSubset, Goto
    <2>3. PICK n \in OnTarget : n = i
      BY <2>1
    <2>4. adrs' = AddressesOf(in.ept[n])' /\ n \in OnTarget' /\ \A m \in OnTarget' : n <= m
      BY <1>2, <2>1, <2>2, <2>3 DEF AddressesOf
    <2>5. AddressesFound'
      BY <1>1, <1>2, <2>4 DEF AddressesFound
    <2>. QED
      BY <1>4, <1>5, <2>2, <2>5 DEF LoopInv, SubsetLoop
  <1>8. CASE i <= Len(in.ept) /\ ~HasPort(in.ept[i], target)
    <2>1. pc' = "subsets" /\ i' = i + 1
      BY <1>1, <1>8 DEF ScanSubset
    <2>2. \A n \in OnTarget : n >= i + 1
      BY <1>1, <1>8 DEF OnTarget
    <2>. QED
      BY <1>1, <1>2, <1>4, <1>5, <2>1, <2>2 DEF LoopInv, SubsetLoop, AddressesFound
  <1>. QED
    BY <1>1, <1>6, <1>7, <1>8

LEMMA ResolveAddressLoops == ASSUME IInv, LoopInv, ResolveAddress PROVE LoopInv'
  <1>1. /\ pc = "resolve" /\ i \in Nat \ {0} /\ i - 1 \in 0..Len(adrs) /\ ResolvedUpTo(i - 1)
        /\ Len(adrs) \in Nat /\ adrs \in Seq(TargetAddresses) /\ resolved \in Seq(TargetAddresses)
    BY LenProperties
    DEF ResolveAddress, IInv, LoopTypes, AddressesAreListed, LoopInv, ResolveLoop
  <1>2. /\ UNCHANGED <<in, target, adrs, cfg>> /\ pc' \in {"resolve", "generate"}
        /\ Targets' = Targets /\ OnTarget' = OnTarget
    BY DEF ResolveAddress, Goto, Targets, SvcPortNumber, OnTarget
  <1>3. PortLoop' /\ SubsetLoop' /\ CfgIsGenerated' /\ AddressesFound'
    BY <1>1, <1>2
    DEF LoopInv, PortLoop, SubsetLoop, CfgIsGenerated, AddressesFound, AddressesOf
  <1>4. CASE i > Len(adrs)
    <2>1. i - 1 = Len(adrs) /\ pc' = "generate" /\ UNCHANGED resolved
      BY <1>1, <1>4 DEF ResolveAddress, Goto
    <2>2. ResolvedUpTo(Len(adrs))'
      BY <1>1, <1>2, <2>1 DEF ResolvedUpTo, ResolvedPositions
    <2>. QED
      BY <1>2, <1>3, <2>1, <2>2 DEF LoopInv, ResolveLoop
  <1>5. CASE i <= Len(adrs)
    <2>1. /\ i' = i + 1 /\ pc' = "resolve"
          /\ IF adrs[i].ip \in ResolvableIPs THEN resolved' = Append(resolved, adrs[i])
             ELSE UNCHANGED resolved
      BY <1>1, <1>5 DEF ResolveAddress
    <2>2. ASSUME NEW n, n = i PROVE ResolvedUpTo(n)'
      <3>1. ResolvedPositions(n)' = ResolvedPositions(n) /\ n \in Nat \ {0} /\ n <= Len(adrs)
            /\ ResolvedUpTo(n - 1)
        BY <1>1, <1>2, <1>5, <2>2 DEF ResolvedPositions
      <3>2. CASE adrs[n].ip \notin ResolvableIPs
        <4>1. ResolvedPositions(n) = ResolvedPositions(n - 1)
          BY <3>1, <3>2 DEF ResolvedPositions
        <4>2. UNCHANGED <<resolved, adrs>>
          BY <1>2, <2>1, <2>2, <3>2
        <4>. QED
          BY <3>1, <4>1, <4>2 DEF ResolvedUpTo
      <3>3. CASE adrs[n].ip \in ResolvableIPs
        <4>1. ResolvedPositions(n) = ResolvedPositions(n - 1) \union {n}
              /\ n \notin ResolvedPositions(n - 1)
          BY <3>1, <3>3 DEF ResolvedPositions
        <4>2. IsFiniteSet(ResolvedPositions(n - 1))
          <5>1. IsFiniteSet(1..(n - 1))
            BY <3>1, FS_Interval
          <5>2. ResolvedPositions(n - 1) \subseteq 1..(n - 1)
            BY DEF ResolvedPositions
          <5>. QED
            BY <5>1, <5>2, FS_Subset
        <4>3. Cardinality(ResolvedPositions(n)) = Cardinality(ResolvedPositions(n - 1)) + 1
          BY <4>1, <4>2, FS_AddElement
        <4>4. adrs[n] \in TargetAddresses /\ resolved' = Append(resolved, adrs[n])
          BY <1>1, <1>5, <2>1, <2>2, <3>3, ElementOfSeq
        <4>5. Len(resolved') = Len(resolved) + 1
              /\ {resolved'[m] : m \in DOMAIN resolved'}
                   = {resolved[m] : m \in DOMAIN resolved} \union {adrs[n]}
          BY <1>1, <4>4, AppendedElements
        <4>6. {adrs[m] : m \in ResolvedPositions(n)}
                = {adrs[m] : m \in ResolvedPositions(n - 1)} \union {adrs[n]}
          BY <4>1
        <4>7. {adrs'[m] : m \in ResolvedPositions(n)'} = {adrs[m] : m \in ResolvedPositions(n)}
          BY <1>2, <3>1
        <4>. QED
          BY <3>1, <4>3, <4>5, <4>6, <4>7 DEF ResolvedUpTo
      <3>. QED
        BY <3>2, <3>3
    <2>3. (i - 1)' = i /\ (i - 1)' \in 0..Len(adrs')
      BY <1>1, <1>2, <1>5, <2>1
    <2>4. ResolvedUpTo(i - 1)'
      BY <2>2, <2>3 DEF ResolvedUpTo, ResolvedPositions
    <2>. QED
      BY <1>3, <2>1, <2>3, <2>4 DEF LoopInv, ResolveLoop
  <1>. QED
    BY <1>1, <1>4, <1>5

LEMMA GenerateLoops == ASSUME IInv, LoopInv, Generate PROVE LoopInv'
  <1>1. pc = "generate" /\ pc' = "done" /\ UNCHANGED <<in, target, adrs, resolved>>
        /\ cfg' = GenerateCfg(in.name, in.tcps, resolved)
    BY DEF Generate, Goto
  <1>2. Targets' = Targets /\ OnTarget' = OnTarget
    BY <1>1 DEF Targets, SvcPortNumber, OnTarget
  <1>3. AddressesFound'
    BY <1>1, <1>2 DEF LoopInv, AddressesFound, AddressesOf
  <1>4. ResolveLoop'
    <2>1. ResolvedUpTo(Len(adrs))
      BY <1>1 DEF LoopInv, ResolveLoop
    <2>2. ResolvedUpTo(Len(adrs))'
      BY <1>1, <2>1 DEF ResolvedUpTo, ResolvedPositions
    <2>. QED
      BY <1>1, <2>2 DEF ResolveLoop
  <1>. QED
    BY <1>1, <1>3, <1>4 DEF LoopInv, PortLoop, SubsetLoop, CfgIsGenerated

LEMMA LoopInvariant == Spec => [](IInv /\ LoopInv)
  <1>1. IInv /\ LoopInv /\ UNCHANGED vars => LoopInv'
    <2>. SUFFICES ASSUME LoopInv, UNCHANGED vars PROVE LoopInv'
      OBVIOUS
    <2>1. /\ Targets' = Targets /\ OnTarget' = OnTarget /\ SvcPortNumber' = SvcPortNumber
          /\ UNCHANGED <<in, pc, i, target, adrs, resolved, cfg>>
      BY DEF vars, Targets, OnTarget, SvcPortNumber
    <2>2. PortLoop' /\ SubsetLoop' /\ CfgIsGenerated'
      BY <2>1 DEF LoopInv, PortLoop, SubsetLoop, CfgIsGenerated
    <2>3. AddressesFound'
      BY <2>1 DEF LoopInv, AddressesFound, AddressesOf
    <2>4. ResolveLoop'
      BY <2>1 DEF LoopInv, ResolveLoop, ResolvedUpTo, ResolvedPositions
    <2>. QED
      BY <2>2, <2>3, <2>4 DEF LoopInv
  <1>2. IInv /\ LoopInv /\ Next => LoopInv'
    BY ScanPortLoops, ScanSubsetLoops, ResolveAddressLoops, GenerateLoops DEF Next
  <1>. QED
    BY InitLoopInv, RenderingInvariant, <1>1, <1>2, PTL DEF Spec

\* Every address of the only subset on the target port that resolves is served,
\* once, whatever other addresses the subset has: an address that does not
\* resolve costs no other its place.
THEOREM TheWholeSubsetIsServed == Spec => []WholeSubsetServed
  <1>1. ASSUME IInv, LoopInv, Done, NEW n \in OnTarget, OnTarget = {n}, Resolvable(in.ept[n]) # {}
        PROVE  /\ Servers = {[ip |-> in.ept[n].addresses[m], port |-> target] :
                                m \in Resolvable(in.ept[n])}
               /\ Len(cfg.servers) = Cardinality(Resolvable(in.ept[n]))
    <2>. DEFINE list == in.ept[n].addresses
                positions == ResolvedPositions(Len(adrs))
    <2>1. adrs = AddressesOf(in.ept[n])
      BY <1>1 DEF LoopInv, AddressesFound, Done
    <2>2. ResolvedUpTo(Len(adrs)) /\ cfg = GenerateCfg(in.name, in.tcps, resolved)
      BY <1>1 DEF LoopInv, ResolveLoop, CfgIsGenerated, Done
    <2>3. DOMAIN adrs = 1..Len(adrs) /\ DOMAIN adrs = DOMAIN list
      <3>1. adrs \in Seq(TargetAddresses)
        BY <1>1 DEF IInv, AddressesAreListed
      <3>. QED
        BY <2>1, <3>1, LenProperties DEF AddressesOf
    <2>4. \A m \in DOMAIN adrs : adrs[m] = [ip |-> list[m], port |-> target]
      BY <2>1 DEF AddressesOf
    <2>5. positions = Resolvable(in.ept[n])
      BY <2>3, <2>4 DEF ResolvedPositions, Resolvable
    <2>6. {resolved[m] : m \in DOMAIN resolved} = {adrs[m] : m \in positions}
          /\ Len(resolved) = Cardinality(positions)
      BY <2>2 DEF ResolvedUpTo
    <2>7. {adrs[m] : m \in positions} = {[ip |-> list[m], port |-> target] : m \in positions}
          /\ positions # {}
      BY <1>1, <2>3, <2>4, <2>5 DEF ResolvedPositions
    <2>8. resolved # <<>>
      <3>. HIDE DEF positions
      <3>1. {resolved[m] : m \in DOMAIN resolved} # {}
        BY <2>6, <2>7
      <3>. QED
        BY <3>1
    <2>9. cfg.servers = resolved
      BY <2>2, <2>8 DEF GenerateCfg
    <2>. QED
      <3>. HIDE DEF list, positions
      <3>1. Servers = {[ip |-> list[m], port |-> target] : m \in positions}
        BY <2>6, <2>7, <2>9 DEF Servers
      <3>. QED
        BY <2>5, <2>6, <2>9, <3>1 DEF list
  <1>2. IInv /\ LoopInv => WholeSubsetServed
    BY <1>1 DEF WholeSubsetServed
  <1>. QED
    BY <1>2, LoopInvariant, PTL

(***************************************************************************)
(* The loops and the operators of Rendering.tla: what is resolved at an    *)
(* index is what is left of the addresses before it.                       *)
(***************************************************************************)
ResolvedAgrees ==
    /\ pc = "resolve" => resolved = Resolved(adrs)[i - 1]
    /\ pc \in {"generate", "done"} => resolved = ServiceAddresses(adrs)

LEMMA AddressesAreList ==
    ASSUME IInv
    PROVE  Len(adrs) \in Nat /\ resolved \in Seq(TargetAddresses)
  BY LenProperties DEF IInv, AddressesAreListed

LEMMA LeftOf ==
    ASSUME NEW a, Len(a) \in Nat
    PROVE  /\ Resolved(a)[0] = <<>>
           /\ \A n \in 1..Len(a) : Resolved(a)[n] =
                  IF a[n].ip \in ResolvableIPs THEN Append(Resolved(a)[n - 1], a[n])
                  ELSE Resolved(a)[n - 1]
  BY ResolvedLemma DEF LeavesUpTo, Left

LEMMA NextResolvedAgrees ==
    ASSUME IInv, IInv', LoopInv, ResolvedAgrees, [Next]_vars
    PROVE  ResolvedAgrees'
  <1>1. ASSUME ScanPort \/ ScanSubset PROVE ResolvedAgrees'
    <2>1. /\ pc' \in {"ports", "subsets", "resolve"} /\ (pc' = "resolve" => i' = 1)
          /\ resolved' = <<>>
      BY <1>1 DEF ScanPort, FoundTarget, ScanSubset, Goto, IInv, NothingYet
    <2>2. Resolved(adrs')[0] = <<>>
      <3>1. Len(adrs') \in Nat
        BY LenProperties DEF IInv, AddressesAreListed
      <3>. QED
        BY <3>1, LeftOf
    <2>. QED
      BY <2>1, <2>2 DEF ResolvedAgrees
  <1>2. ASSUME ResolveAddress PROVE ResolvedAgrees'
    <2>1. /\ pc = "resolve" /\ i \in Nat \ {0} /\ i - 1 \in 0..Len(adrs) /\ Len(adrs) \in Nat
          /\ resolved = Resolved(adrs)[i - 1] /\ adrs' = adrs
      BY <1>2, AddressesAreList
      DEF ResolveAddress, IInv, LoopTypes, LoopInv, ResolveLoop, ResolvedAgrees
    <2>2. CASE i > Len(adrs)
      <3>1. i - 1 = Len(adrs) /\ pc' = "generate" /\ UNCHANGED resolved
        BY <1>2, <2>1, <2>2 DEF ResolveAddress, Goto
      <3>. QED
        BY <2>1, <3>1 DEF ResolvedAgrees, ServiceAddresses
    <2>3. CASE i <= Len(adrs)
      <3>1. /\ i' = i + 1 /\ pc' = "resolve"
            /\ IF adrs[i].ip \in ResolvableIPs THEN resolved' = Append(resolved, adrs[i])
               ELSE UNCHANGED resolved
        BY <1>2, <2>1, <2>3 DEF ResolveAddress
      <3>2. i \in 1..Len(adrs) /\ i' - 1 = i
        BY <2>1, <2>3, <3>1
      <3>3. resolved' = Resolved(adrs)[i]
        BY <2>1, <3>1, <3>2, LeftOf
      <3>. QED
        BY <2>1, <3>1, <3>2, <3>3 DEF ResolvedAgrees
    <2>. QED
      BY <2>1, <2>2, <2>3
  <1>3. ASSUME Generate PROVE ResolvedAgrees'
    BY <1>3 DEF Generate, Goto, ResolvedAgrees
  <1>4. ASSUME UNCHANGED vars PROVE ResolvedAgrees'
    BY <1>4 DEF vars, ResolvedAgrees
  <1>. QED
    BY <1>1, <1>2, <1>3, <1>4 DEF Next

\* The addresses found are those that Rendering.tla finds for the target port.
LEMMA FoundAddressesAgree ==
    ASSUME IInv, LoopInv, Done
    PROVE  adrs = AddressesOn(in.ept, target)
  <1>1. /\ OnTarget = {} => adrs = <<>>
        /\ OnTarget # {} => \E n \in OnTarget : /\ \A m \in OnTarget : n <= m
                                                /\ adrs = AddressesOf(in.ept[n])
    BY DEF LoopInv, AddressesFound, Done
  <1>2. DOMAIN in.ept = 1..Len(in.ept)
    BY ListsLemma DEF IInv, LoopTypes
  <1>3. CASE target = NoPort
    <2>1. OnTarget = {}
      BY <1>3 DEF OnTarget
    <2>. QED
      BY <1>1, <1>3, <2>1 DEF AddressesOn
  <1>4. CASE target # NoPort
    <2>1. OnTarget = {n \in DOMAIN in.ept : HasPort(in.ept[n], target)} /\ OnTarget \in SUBSET Int
      BY <1>2, <1>4 DEF OnTarget
    <2>2. CASE OnTarget = {}
      BY <1>1, <2>1, <2>2 DEF AddressesOn
    <2>3. CASE OnTarget # {}
      <3>1. PICK n \in OnTarget : (\A m \in OnTarget : n <= m) /\ adrs = AddressesOf(in.ept[n])
        BY <1>1, <2>3
      <3>2. First(OnTarget) = n
        BY <2>1, <3>1, FirstLemma
      <3>. QED
        BY <1>4, <2>1, <2>3, <3>1, <3>2 DEF AddressesOn, AddressesOf
    <2>. QED
      BY <2>2, <2>3
  <1>. QED
    BY <1>3, <1>4

\* What the loops generate is a configuration that Rendering.tla, and with it the
\* controller's model, allows.
THEOREM LoopsAgreeWithRendering == Spec => []AgreesWithRendering
  <1>1. Init => ResolvedAgrees
    BY DEF Init, ResolvedAgrees
  <1>2. IInv /\ LoopInv /\ ResolvedAgrees => AgreesWithRendering
    <2>. SUFFICES ASSUME IInv, LoopInv, ResolvedAgrees, Done
                  PROVE  cfg \in Configs(in.name, in.tcps, in.svc, in.ept, in.pods)
      BY DEF AgreesWithRendering
    <2>1. adrs = AddressesOn(in.ept, target) /\ target \in Targets
      BY FoundAddressesAgree DEF LoopInv, AddressesFound, Done
    <2>2. adrs \in EndpointsForServiceAndPort(in.tcps.servicePort, in.svc, in.ept, in.pods)
      BY <2>1 DEF EndpointsForServiceAndPort, Targets, SvcPortNumber
    <2>3. cfg = GenerateCfg(in.name, in.tcps, ServiceAddresses(adrs))
      BY DEF LoopInv, CfgIsGenerated, ResolvedAgrees, Done
    <2>. QED
      BY <2>2, <2>3 DEF Configs
  <1>. QED
    BY <1>1, <1>2, LoopInvariant, NextResolvedAgrees, PTL DEF Spec
================================================================================
