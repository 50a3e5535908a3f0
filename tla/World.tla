------------------------------- MODULE World -------------------------------
(***************************************************************************)
(* The ports of a parallel test run.  Every ginkgo process (numbered from  *)
(* 1, GinkgoParallelProcess()) starts its own copy of Diego on one host:   *)
(* most components listen at an address computed from the process number   *)
(* (world.ComponentAddresses, filled in by the three suite files), the     *)
(* others at ports claimed from the process's own allocator.  A spec       *)
(* starts its components in the order of its BeforeEach blocks; its        *)
(* AfterEach blocks stop them all.                                         *)
(***************************************************************************)
EXTENDS PortAllocator, Sequences, FiniteSets

CONSTANTS Procs,       \* numbers of the parallel processes
          PortRange,   \* portRange in the suites, 950
          Scenarios,   \* the start sequences of the specs
          MaxSpecs     \* bound on the specs each process runs

\* A component, or a group that a test configures with the ports of one claim:
\* "evac-cells" are the two reps of evacuation_test.go, "local-cells" those of
\* local_route_emitter_test.go.
Claimants == {"garden", "routing-api", "local-driver", "evac-cells", "local-cells"}
Reps == {"rep-0", "rep-1"}
Kinds == Claimants \cup Reps \cup
  {"nats", "locket", "bbs", "router", "file-server", "auctioneer", "ssh-proxy"}

\* ginkgo numbers its processes from 1; a scenario is what a spec starts.
ASSUME WorldAssumption ==
  /\ Procs \subseteq Nat \ {0}
  /\ PortRange \in Nat
  /\ Scenarios \subseteq Seq(Kinds)
  /\ MaxSpecs \in [Procs -> Nat]

VARIABLES allocator,   \* each process's portAllocator
          running,     \* each process's live components: their kind, and the
                       \* first port of their claim (0 for the others)
          plan,        \* what the current spec still has to start
          specs,       \* how many specs the process has begun
          refused      \* has the current spec met "insufficient ports"?

vars == <<allocator, running, plan, specs, refused>>

-----------------------------------------------------------------------------
\* The suites: startPort := 1000 * node, endPort := startPort + portRange.
StartPort(p) == 1000 * p
EndPort(p) == StartPort(p) + PortRange

\* Mutant: the offset without its factor 10.
OffsetPortByOne(base, n) == base + n

\* offsetPort returns basePort + (10 * offset).
OffsetPort(base, n) == base + 10 * n

\* The ports of world.ComponentAddresses, as the suites fill it in.
Addresses ==
  [p \in Procs |->
    [Garden |-> 10000 + p, NATS |-> 11000 + p, Rep |-> 14000 + p,
     FileServer |-> 17000 + p, Router |-> 18000 + p, RouterStatus |-> 18100 + p,
     RouterRoutes |-> 18200 + p, RouterRouteServices |-> 18300 + p,
     BBS |-> 20500 + p * 2, Health |-> 20500 + p * 2 + 1,
     Auctioneer |-> 23000 + p, SSHProxy |-> 23500 + p, SSHProxyHealthCheck |-> 24500 + p,
     FakeVolmanDriver |-> 25500 + p, Locket |-> 26500 + p]]

\* What the component makers listen on.
NATSPorts(p) == {Addresses[p].NATS}
LocketPorts(p) == {Addresses[p].Locket}
BBSPorts(p) == {Addresses[p].BBS, Addresses[p].Health}
FileServerPorts(p) == {Addresses[p].FileServer}
RouterPorts(p) ==
  {Addresses[p].Router, Addresses[p].RouterStatus, Addresses[p].RouterRoutes,
   Addresses[p].RouterRouteServices}
SSHProxyPorts(p) == {Addresses[p].SSHProxy, Addresses[p].SSHProxyHealthCheck}
AuctioneerPorts(p) == {Addresses[p].Auctioneer}
RepSecuredPort(p, n) == OffsetPort(Addresses[p].Rep + 100, n)
RepNPorts(p, n) == {OffsetPort(Addresses[p].Rep, n), RepSecuredPort(p, n)}

\* Garden binds its address and gives its containers a pool of 10 claimed ports.
GardenPoolSize == 10
GardenPorts(p, first) == {Addresses[p].Garden} \cup Block(first, GardenPoolSize)

\* The local volume driver claims one port, for its debug server.
VolmanDriverPorts(p, first) == {Addresses[p].FakeVolmanDriver, first}

\* RoutingAPI claims two ports and listens on port, port + 1 (its admin port)
\* and port + 2 (MTLSListenPort).
RoutingAPIPorts(first) == {first, first + 1, first + 2}

\* cell-a and cell-b of evacuation_test.go: both addresses of both reps claimed
EvacuationCellsPorts(first) == {first, first + 1, first + 2, first + 3}

\* rep-a and rep-b of local_route_emitter_test.go override ListenAddr only:
\* RepN(1) and RepN(2) still serve their secured ports
LocalCellsPorts(p, first) ==
  {first, first + 1, RepSecuredPort(p, 1), RepSecuredPort(p, 2)}

\* The number of ports claimed for a component.
ClaimSize(kind) ==
  CASE kind = "garden" -> GardenPoolSize
    [] kind = "routing-api" -> 2
    [] kind = "local-driver" -> 1
    [] kind = "evac-cells" -> 4
    [] kind = "local-cells" -> 2
    [] OTHER -> 0

PortsUsed(p, c) ==
  CASE c.kind = "garden" -> GardenPorts(p, c.first)
    [] c.kind = "nats" -> NATSPorts(p)
    [] c.kind = "locket" -> LocketPorts(p)
    [] c.kind = "bbs" -> BBSPorts(p)
    [] c.kind = "file-server" -> FileServerPorts(p)
    [] c.kind = "router" -> RouterPorts(p)
    [] c.kind = "auctioneer" -> AuctioneerPorts(p)
    [] c.kind = "ssh-proxy" -> SSHProxyPorts(p)
    [] c.kind = "rep-0" -> RepNPorts(p, 0)
    [] c.kind = "rep-1" -> RepNPorts(p, 1)
    [] c.kind = "local-driver" -> VolmanDriverPorts(p, c.first)
    [] c.kind = "routing-api" -> RoutingAPIPorts(c.first)
    [] c.kind = "evac-cells" -> EvacuationCellsPorts(c.first)
    [] c.kind = "local-cells" -> LocalCellsPorts(p, c.first)

-----------------------------------------------------------------------------
Init ==
  /\ allocator = [p \in Procs |-> New(StartPort(p), EndPort(p))]
  /\ running = [p \in Procs |-> {}]
  /\ plan = [p \in Procs |-> << >>]
  /\ specs = [p \in Procs |-> 0]
  /\ refused = [p \in Procs |-> FALSE]

BeginSpec(p, scenario) ==
  /\ plan[p] = << >>
  /\ running[p] = {}
  /\ ~refused[p]
  /\ specs[p] < MaxSpecs[p]
  /\ plan' = [plan EXCEPT ![p] = scenario]
  /\ specs' = [specs EXCEPT ![p] = @ + 1]
  /\ UNCHANGED <<allocator, running, refused>>

\* The next component of the plan comes up, replacing one of its kind (the
\* tests interrupt the bbs or garden they restart).
Starts(p, kind, first) ==
  /\ running' = [running EXCEPT ![p] =
       {c \in @ : c.kind # kind} \cup {[kind |-> kind, first |-> first]}]
  /\ plan' = [plan EXCEPT ![p] = Tail(@)]

StartAtAddress(p) ==
  /\ plan[p] # << >>
  /\ Head(plan[p]) \notin Claimants
  /\ Starts(p, Head(plan[p]), 0)
  /\ UNCHANGED <<allocator, specs, refused>>

StartClaiming(p) ==
  /\ plan[p] # << >>
  /\ Head(plan[p]) \in Claimants
  /\ ~Insufficient(allocator[p], ClaimSize(Head(plan[p])))
  /\ Starts(p, Head(plan[p]), allocator[p].nextPort)
  /\ allocator' = [allocator EXCEPT ![p] = Claimed(@, ClaimSize(Head(plan[p])))]
  /\ UNCHANGED <<specs, refused>>

\* ClaimPorts returns an error: the Expect after it fails the spec.
ClaimRefused(p) ==
  /\ plan[p] # << >>
  /\ Head(plan[p]) \in Claimants
  /\ Insufficient(allocator[p], ClaimSize(Head(plan[p])))
  /\ plan' = [plan EXCEPT ![p] = << >>]
  /\ refused' = [refused EXCEPT ![p] = TRUE]
  /\ UNCHANGED <<allocator, running, specs>>

\* The body has run, or a claim was refused: the AfterEach blocks stop every
\* component.  (Suite models the teardowns that do not manage to.)
EndSpec(p) ==
  /\ plan[p] = << >>
  /\ running[p] # {} \/ refused[p]
  /\ running' = [running EXCEPT ![p] = {}]
  /\ refused' = [refused EXCEPT ![p] = FALSE]
  /\ UNCHANGED <<allocator, plan, specs>>

Next ==
  \E p \in Procs :
    \/ \E scenario \in Scenarios : BeginSpec(p, scenario)
    \/ StartAtAddress(p)
    \/ StartClaiming(p)
    \/ ClaimRefused(p)
    \/ EndSpec(p)

Spec == Init /\ [][Next]_vars

-----------------------------------------------------------------------------
Component == [kind : Kinds, first : Nat]

\* The types, and each cursor in its own process's range.
TypeOK ==
  /\ allocator \in [Procs -> Allocator]
  /\ \A p \in Procs : allocator[p].nextPort \in StartPort(p) .. (EndPort(p) + 1)
  /\ running \in [Procs -> SUBSET Component]
  /\ plan \in [Procs -> Seq(Kinds)]
  /\ specs \in [Procs -> Nat]
  /\ refused \in [Procs -> BOOLEAN]

ProcessPorts(p) == UNION {PortsUsed(p, c) : c \in running[p]}

\* Components of two parallel processes never contend for a port: the address
\* table and the allocator ranges keep the processes apart whatever specs they
\* happen to run at the same time.
ProcessesIsolated ==
  \A p, q \in Procs : p # q => ProcessPorts(p) \cap ProcessPorts(q) = {}

\* The components of one spec never contend for a port.  For RoutingAPI, which
\* listens on a port it did not claim, this rests on the order of the specs:
\* nothing claims after it while it runs.
SpecPortsDistinct ==
  \A p \in Procs : \A c \in running[p] :
    LET used == PortsUsed(p, c) IN
    \A d \in running[p] \ {c} : used \cap PortsUsed(p, d) = {}

\* components.go: Expect(err).NotTo(HaveOccurred()) after each ClaimPorts.
ClaimsAreServed == \A p \in Procs : ~refused[p]

-----------------------------------------------------------------------------
\* The runs for which the port plan works: at most nine parallel processes
\* (so that the ranges end below the first address, 10001), and ranges that do
\* not reach the next process's.
SupportedRun ==
  /\ Procs \subseteq 1 .. 9
  /\ PortRange <= 998
  /\ MaxPort >= 10009

\* What SpecPortsDistinct asks of the specs: nothing claims ports after a
\* RoutingAPI, which listens on the port after its claim, and RepN(1) does not
\* run beside the reps of local_route_emitter_test.go, which serve its secured
\* port.
Compatible(scenario) ==
  \A i, j \in DOMAIN scenario :
    /\ i < j /\ scenario[i] = "routing-api" => scenario[j] \notin Claimants
    /\ scenario[i] = "rep-1" => scenario[j] # "local-cells"

CompatibleScenarios == \A scenario \in Scenarios : Compatible(scenario)

\* The inductive invariant behind ProcessesIsolated: what a component claimed
\* lies in its own process's range.
ClaimsInOwnRange ==
  \A p \in Procs :
    /\ allocator[p].endingPort = EndPort(p)
    /\ \A c \in running[p] :
         c.kind \in Claimants =>
           /\ StartPort(p) <= c.first
           /\ c.first + ClaimSize(c.kind) - 1 <= EndPort(p)

IInv == TypeOK /\ ClaimsInOwnRange

\* Every port a component of process p can use: the process's range and the
\* port after it, and the addresses computed from p.
Zone(p) ==
  (StartPort(p) .. (EndPort(p) + 1))
    \cup {base + p : base \in {10000, 11000, 17000, 18000, 18100, 18200, 18300,
                               23000, 23500, 24500, 25500, 26500}}
    \cup {20500 + p * 2, 20500 + p * 2 + 1}
    \cup {14000 + p + 10 * n : n \in 0 .. 12}
=============================================================================
