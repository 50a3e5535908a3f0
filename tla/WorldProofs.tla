---------------------------- MODULE WorldProofs ----------------------------
(***************************************************************************)
(* Parallel test processes never contend for a port: proved for every set  *)
(* of at most nine processes, every set of scenarios, any number of specs  *)
(* and every range size that fits.                                         *)
(***************************************************************************)
EXTENDS World, TLAPS

\* The conversion to uint16 keeps a number that is already a port.
LEMMA PortKept ==
  ASSUME NEW x \in Port
  PROVE  U16(x) = x
  BY MaxPortAssumption DEF U16, Port

\* A claimant asks for between one and ten ports.
LEMMA ClaimSizes ==
  ASSUME NEW k \in Claimants
  PROVE  ClaimSize(k) \in 1 .. 10
  BY DEF ClaimSize, Claimants, GardenPoolSize

\* In a supported run the uint16 sums of ClaimPorts do not wrap.
LEMMA ClaimArithmetic ==
  ASSUME SupportedRun, IInv, NEW p \in Procs, NEW k \in Claimants,
         ~Insufficient(allocator[p], ClaimSize(k))
  PROVE  /\ p \in 1 .. 9
         /\ allocator[p].nextPort \in StartPort(p) .. (EndPort(p) + 1)
         /\ allocator[p].nextPort + ClaimSize(k) - 1 <= EndPort(p)
         /\ Claimed(allocator[p], ClaimSize(k))
              = [nextPort |-> allocator[p].nextPort + ClaimSize(k),
                 endingPort |-> EndPort(p)]
         /\ Claimed(allocator[p], ClaimSize(k)) \in Allocator
  <1> DEFINE n == ClaimSize(k)
             next == allocator[p].nextPort
  <1>1. n \in 1 .. 10
    BY ClaimSizes
  <1>2. /\ p \in 1 .. 9 /\ PortRange \in Nat /\ PortRange <= 998
        /\ MaxPort \in Nat /\ MaxPort >= 10009
    BY WorldAssumption, MaxPortAssumption DEF SupportedRun
  <1>3. /\ allocator[p] \in Allocator
        /\ next \in Port
        /\ next \in StartPort(p) .. (EndPort(p) + 1)
        /\ allocator[p].endingPort = EndPort(p)
    BY DEF IInv, TypeOK, ClaimsInOwnRange, Allocator
  <1> HIDE DEF n, next
  <1>4. next \in Nat /\ next + n <= 10009 /\ StartPort(p) \in Nat /\ EndPort(p) \in Nat
        /\ EndPort(p) <= 9998
    BY <1>1, <1>2, <1>3 DEF StartPort, EndPort
  <1>5. n - 1 \in Port /\ n \in Port /\ next + n \in Port /\ next + (n - 1) \in Port
    BY <1>1, <1>2, <1>4 DEF Port
  <1>6. U16(n - 1) = n - 1 /\ U16(n) = n /\ U16(next + n) = next + n
        /\ U16(next + (n - 1)) = next + (n - 1)
    BY <1>5, PortKept
  <1>7. ~(EndPort(p) < next + (n - 1))
    BY <1>3, <1>6 DEF Insufficient, n, next
  <1>8. Claimed(allocator[p], n) = [nextPort |-> next + n, endingPort |-> EndPort(p)]
    BY <1>3, <1>6 DEF Claimed, Allocator, next
  <1>9. [nextPort |-> next + n, endingPort |-> EndPort(p)] \in Allocator
    BY <1>2, <1>4, <1>5 DEF Allocator, Port
  <1> QED BY <1>1, <1>2, <1>3, <1>4, <1>7, <1>8, <1>9 DEF n, next

\* The zones of two processes numbered 1..9 have no port in common.
LEMMA ZonesDisjoint ==
  ASSUME SupportedRun, NEW p \in Procs, NEW q \in Procs, p # q
  PROVE  Zone(p) \cap Zone(q) = {}
  <1>1. /\ p \in 1 .. 9 /\ q \in 1 .. 9 /\ PortRange \in Nat /\ PortRange <= 998
    BY WorldAssumption DEF SupportedRun
  <1> QED BY <1>1 DEF Zone, StartPort, EndPort

\* Whatever a component listens on lies in the zone of its process.
LEMMA PortsInZone ==
  ASSUME SupportedRun, IInv, NEW p \in Procs, NEW c \in running[p]
  PROVE  PortsUsed(p, c) \subseteq Zone(p)
  <1>1. /\ p \in 1 .. 9 /\ PortRange \in Nat /\ PortRange <= 998
    BY WorldAssumption DEF SupportedRun
  <1>2. c \in Component
    BY DEF IInv, TypeOK
  <1>3. c.kind \in Kinds /\ c.first \in Nat
    BY <1>2 DEF Component
  <1> DEFINE own == StartPort(p) .. (EndPort(p) + 1)
  <1>4. c.kind \in Claimants => Block(c.first, ClaimSize(c.kind)) \subseteq own
    BY <1>1, <1>3, ClaimSizes DEF IInv, ClaimsInOwnRange, Block, StartPort, EndPort
  <1>5. CASE c.kind = "garden"
    <2>1. Block(c.first, GardenPoolSize) \subseteq own
      BY <1>4, <1>5 DEF Claimants, ClaimSize
    <2> QED BY <1>1, <1>5, <2>1 DEF PortsUsed, GardenPorts, Addresses, Zone
  <1>6. CASE c.kind \in Claimants \ {"garden"}
    <2>1. /\ StartPort(p) <= c.first
          /\ c.first + ClaimSize(c.kind) - 1 <= EndPort(p)
      BY <1>6 DEF IInv, ClaimsInOwnRange
    <2>2. CASE c.kind = "routing-api"
      BY <1>1, <1>3, <2>1, <2>2
      DEF PortsUsed, RoutingAPIPorts, ClaimSize, Zone, StartPort, EndPort
    <2>3. CASE c.kind = "local-driver"
      BY <1>1, <1>3, <2>1, <2>3
      DEF PortsUsed, VolmanDriverPorts, Addresses, ClaimSize, Zone, StartPort, EndPort
    <2>4. CASE c.kind = "evac-cells"
      BY <1>1, <1>3, <2>1, <2>4
      DEF PortsUsed, EvacuationCellsPorts, ClaimSize, Zone, StartPort, EndPort
    <2>5. CASE c.kind = "local-cells"
      BY <1>1, <1>3, <2>1, <2>5
      DEF PortsUsed, LocalCellsPorts, RepSecuredPort, OffsetPort, Addresses, ClaimSize,
          Zone, StartPort, EndPort
    <2> QED BY <1>6, <2>2, <2>3, <2>4, <2>5 DEF Claimants
  <1>7. CASE c.kind \in Reps
    BY <1>1, <1>7 DEF PortsUsed, Reps, RepNPorts, RepSecuredPort, OffsetPort, Addresses, Zone
  <1>8. CASE c.kind \in Kinds \ (Claimants \cup Reps)
    BY <1>1, <1>8
    DEF PortsUsed, Kinds, Claimants, Reps, NATSPorts, LocketPorts, BBSPorts,
        FileServerPorts, RouterPorts, AuctioneerPorts, SSHProxyPorts, Addresses, Zone
  <1> QED BY <1>3, <1>5, <1>6, <1>7, <1>8

\* IInv is inductive in a supported run.
THEOREM WorldInductive == SupportedRun => (Spec => []IInv)
  <1> SUFFICES ASSUME SupportedRun PROVE Spec => []IInv
    OBVIOUS
  <1>1. Init => IInv
    <2> SUFFICES ASSUME Init PROVE IInv
      OBVIOUS
    <2>1. ASSUME NEW p \in Procs
          PROVE  /\ New(StartPort(p), EndPort(p)) \in Allocator
                 /\ New(StartPort(p), EndPort(p))
                      = [nextPort |-> StartPort(p), endingPort |-> EndPort(p)]
                 /\ StartPort(p) \in StartPort(p) .. (EndPort(p) + 1)
      <3>1. /\ p \in 1 .. 9 /\ PortRange \in Nat /\ PortRange <= 998
            /\ MaxPort \in Nat /\ MaxPort >= 10009
        BY WorldAssumption, MaxPortAssumption DEF SupportedRun
      <3>2. StartPort(p) \in Port /\ EndPort(p) \in Port
        BY <3>1 DEF StartPort, EndPort, Port
      <3>3. U16(StartPort(p)) = StartPort(p) /\ U16(EndPort(p)) = EndPort(p)
        BY <3>2, PortKept
      <3>4. StartPort(p) \in StartPort(p) .. (EndPort(p) + 1)
        BY <3>1 DEF StartPort, EndPort
      <3> QED BY <3>2, <3>3, <3>4 DEF New, Allocator
    <2>2. TypeOK
      BY <2>1 DEF Init, TypeOK
    <2>3. ClaimsInOwnRange
      BY <2>1 DEF Init, ClaimsInOwnRange
    <2> QED BY <2>2, <2>3 DEF IInv
  <1>2. IInv /\ [Next]_vars => IInv'
    <2> SUFFICES ASSUME IInv, [Next]_vars PROVE IInv'
      OBVIOUS
    <2>1. ASSUME NEW p \in Procs, NEW scenario \in Scenarios, BeginSpec(p, scenario)
          PROVE  IInv'
      <3>1. scenario \in Seq(Kinds)
        BY WorldAssumption
      <3>2. plan' \in [Procs -> Seq(Kinds)] /\ specs' \in [Procs -> Nat]
        BY <2>1, <3>1 DEF BeginSpec, IInv, TypeOK
      <3> QED BY <2>1, <3>2 DEF BeginSpec, IInv, TypeOK, ClaimsInOwnRange
    <2>2. ASSUME NEW p \in Procs, StartAtAddress(p)
          PROVE  IInv'
      <3> DEFINE k == Head(plan[p])
      <3>1. k \in Kinds /\ k \notin Claimants /\ Tail(plan[p]) \in Seq(Kinds)
        BY <2>2 DEF StartAtAddress, IInv, TypeOK
      <3>2. running' = [running EXCEPT ![p] =
              {c \in running[p] : c.kind # k} \cup {[kind |-> k, first |-> 0]}]
        BY <2>2 DEF StartAtAddress, Starts, IInv, TypeOK
      <3>3. plan' \in [Procs -> Seq(Kinds)]
        BY <2>2, <3>1 DEF StartAtAddress, Starts, IInv, TypeOK
      <3>4. UNCHANGED <<allocator, specs, refused>>
        BY <2>2 DEF StartAtAddress
      <3> HIDE DEF k
      <3>5. [kind |-> k, first |-> 0] \in Component
        BY <3>1 DEF Component
      <3>6. running' \in [Procs -> SUBSET Component]
        BY <3>2, <3>5 DEF IInv, TypeOK
      <3>7. ClaimsInOwnRange'
        BY <3>1, <3>2, <3>4 DEF IInv, TypeOK, ClaimsInOwnRange
      <3> QED BY <3>3, <3>4, <3>6, <3>7 DEF IInv, TypeOK
    <2>3. ASSUME NEW p \in Procs, StartClaiming(p)
          PROVE  IInv'
      <3> DEFINE k == Head(plan[p])
                 first == allocator[p].nextPort
      <3>1. /\ k \in Kinds /\ k \in Claimants /\ Tail(plan[p]) \in Seq(Kinds)
            /\ ~Insufficient(allocator[p], ClaimSize(k))
        BY <2>3 DEF StartClaiming, IInv, TypeOK
      <3>2. running' = [running EXCEPT ![p] =
              {c \in running[p] : c.kind # k} \cup {[kind |-> k, first |-> first]}]
        BY <2>3 DEF StartClaiming, Starts, IInv, TypeOK
      <3>3. plan' \in [Procs -> Seq(Kinds)]
        BY <2>3, <3>1 DEF StartClaiming, Starts, IInv, TypeOK
      <3>4. /\ UNCHANGED <<specs, refused>>
            /\ allocator' = [allocator EXCEPT ![p] = Claimed(allocator[p], ClaimSize(k))]
        BY <2>3 DEF StartClaiming, IInv, TypeOK
      <3>5. /\ p \in 1 .. 9
            /\ first \in StartPort(p) .. (EndPort(p) + 1)
            /\ first + ClaimSize(k) - 1 <= EndPort(p)
            /\ Claimed(allocator[p], ClaimSize(k))
                 = [nextPort |-> first + ClaimSize(k), endingPort |-> EndPort(p)]
            /\ Claimed(allocator[p], ClaimSize(k)) \in Allocator
        BY <3>1, ClaimArithmetic
      <3> HIDE DEF k, first
      <3>6. /\ ClaimSize(k) \in 1 .. 10
            /\ PortRange \in Nat /\ StartPort(p) \in Nat /\ EndPort(p) \in Nat
            /\ first \in Nat
        BY <3>1, <3>5, ClaimSizes, WorldAssumption DEF StartPort, EndPort
      <3>7. /\ allocator' \in [Procs -> Allocator]
            /\ \A q \in Procs :
                 /\ allocator'[q].nextPort \in StartPort(q) .. (EndPort(q) + 1)
                 /\ allocator'[q].endingPort = EndPort(q)
        <4>1. /\ Claimed(allocator[p], ClaimSize(k)).nextPort \in StartPort(p) .. (EndPort(p) + 1)
              /\ Claimed(allocator[p], ClaimSize(k)).endingPort = EndPort(p)
          BY <3>5, <3>6
        <4> QED BY <4>1, <3>4, <3>5 DEF IInv, TypeOK, ClaimsInOwnRange
      <3>8. [kind |-> k, first |-> first] \in Component
        BY <3>1, <3>6 DEF Component
      <3>9. running' \in [Procs -> SUBSET Component]
        BY <3>2, <3>8 DEF IInv, TypeOK
      <3>10. ASSUME NEW q \in Procs, NEW c \in running'[q], c.kind \in Claimants
             PROVE  /\ StartPort(q) <= c.first
                    /\ c.first + ClaimSize(c.kind) - 1 <= EndPort(q)
        <4>1. CASE c \in running[q]
          BY <3>10, <4>1 DEF IInv, ClaimsInOwnRange
        <4>2. CASE c \notin running[q]
          <5>1. q = p /\ c.kind = k /\ c.first = first
            BY <3>2, <3>10, <4>2 DEF IInv, TypeOK
          <5> QED BY <5>1, <3>5, <3>6
        <4> QED BY <4>1, <4>2
      <3>11. ClaimsInOwnRange'
        BY <3>7, <3>10 DEF ClaimsInOwnRange
      <3> QED BY <3>3, <3>4, <3>7, <3>9, <3>11 DEF IInv, TypeOK
    <2>4. ASSUME NEW p \in Procs, ClaimRefused(p)
          PROVE  IInv'
      <3>1. plan' \in [Procs -> Seq(Kinds)] /\ refused' \in [Procs -> BOOLEAN]
        BY <2>4 DEF ClaimRefused, IInv, TypeOK
      <3> QED BY <2>4, <3>1 DEF ClaimRefused, IInv, TypeOK, ClaimsInOwnRange
    <2>5. ASSUME NEW p \in Procs, EndSpec(p)
          PROVE  IInv'
      <3>1. running' \in [Procs -> SUBSET Component] /\ refused' \in [Procs -> BOOLEAN]
        BY <2>5 DEF EndSpec, IInv, TypeOK
      <3>2. \A q \in Procs : running'[q] \subseteq running[q]
        BY <2>5 DEF EndSpec, IInv, TypeOK
      <3> QED BY <2>5, <3>1, <3>2 DEF EndSpec, IInv, TypeOK, ClaimsInOwnRange
    <2>6. CASE UNCHANGED vars
      BY <2>6 DEF vars, IInv, TypeOK, ClaimsInOwnRange
    <2> QED BY <2>1, <2>2, <2>3, <2>4, <2>5, <2>6 DEF Next
  <1> QED BY <1>1, <1>2, PTL DEF Spec

\* Components of different parallel processes never contend for a port, with
\* at most nine processes: the address table of the suites and the allocator
\* ranges keep them apart in every interleaving of every choice of specs.
THEOREM Isolation == SupportedRun => (Spec => []ProcessesIsolated)
  <1> SUFFICES ASSUME SupportedRun PROVE Spec => []ProcessesIsolated
    OBVIOUS
  <1>1. IInv => ProcessesIsolated
    <2> SUFFICES ASSUME IInv, NEW p \in Procs, NEW q \in Procs, p # q
                 PROVE  ProcessPorts(p) \cap ProcessPorts(q) = {}
      BY DEF ProcessesIsolated
    <2>1. ProcessPorts(p) \subseteq Zone(p) /\ ProcessPorts(q) \subseteq Zone(q)
      BY PortsInZone DEF ProcessPorts
    <2>2. Zone(p) \cap Zone(q) = {}
      BY ZonesDisjoint
    <2> QED BY <2>1, <2>2
  <1> QED BY <1>1, WorldInductive, PTL

-----------------------------------------------------------------------------
(***************************************************************************)
(* Within a process.  The claims of its live components follow each other  *)
(* below the cursor, a routing API's is the latest of them, and what the   *)
(* current spec has left to start does not change that.                    *)
(***************************************************************************)
ClaimsApart(p) ==
  /\ \A c, d \in running[p] : c.kind = d.kind => c = d
  /\ \A c \in running[p] :
       c.kind \in Claimants => c.first + ClaimSize(c.kind) <= allocator[p].nextPort
  /\ \A c, d \in running[p] :
       c.kind \in Claimants /\ d.kind \in Claimants /\ c # d =>
         \/ c.first + ClaimSize(c.kind) <= d.first
         \/ d.first + ClaimSize(d.kind) <= c.first
  /\ \A c \in running[p] :
       c.kind = "routing-api" => allocator[p].nextPort = c.first + 2

PlanFits(p) ==
  /\ Compatible(plan[p])
  /\ \A c \in running[p] : \A i \in DOMAIN plan[p] :
       /\ c.kind = "routing-api" => plan[p][i] \notin Claimants
       /\ c.kind = "rep-1" => plan[p][i] # "local-cells"
       /\ c.kind = "local-cells" => plan[p][i] # "rep-1"
  /\ \A c, d \in running[p] : c.kind = "rep-1" => d.kind # "local-cells"

SpecsInv == \A p \in Procs : ClaimsApart(p) /\ PlanFits(p)

\* A component listens at the addresses of its kind, all above the ranges, and
\* on the ports it claimed; the routing API also on the port after those.
LEMMA PortsByKind ==
  ASSUME SupportedRun, IInv, NEW p \in Procs, NEW c \in running[p], NEW x \in PortsUsed(p, c)
  PROVE  /\ p \in 1 .. 9 /\ x \in Nat
         /\ \/ /\ x < 10000
               /\ c.kind \in Claimants
               /\ c.first <= x
               /\ \/ x < c.first + ClaimSize(c.kind)
                  \/ c.kind = "routing-api" /\ x = c.first + 2
            \/ c.kind = "garden" /\ x = 10000 + p
            \/ c.kind = "nats" /\ x = 11000 + p
            \/ c.kind = "locket" /\ x = 26500 + p
            \/ c.kind = "bbs" /\ x \in {20500 + p * 2, 20500 + p * 2 + 1}
            \/ c.kind = "file-server" /\ x = 17000 + p
            \/ c.kind = "router" /\ x \in {18000 + p, 18100 + p, 18200 + p, 18300 + p}
            \/ c.kind = "auctioneer" /\ x = 23000 + p
            \/ c.kind = "ssh-proxy" /\ x \in {23500 + p, 24500 + p}
            \/ c.kind = "rep-0" /\ x \in {14000 + p, 14100 + p}
            \/ c.kind = "rep-1" /\ x \in {14010 + p, 14110 + p}
            \/ c.kind = "local-driver" /\ x = 25500 + p
            \/ c.kind = "local-cells" /\ x \in {14110 + p, 14120 + p}
  <1>1. /\ p \in 1 .. 9 /\ PortRange \in Nat /\ PortRange <= 998
    BY WorldAssumption DEF SupportedRun
  <1>2. c.kind \in Kinds /\ c.first \in Nat
    BY DEF IInv, TypeOK, Component
  <1>3. c.kind \in Claimants => c.first + ClaimSize(c.kind) <= 9999
    <2> HAVE c.kind \in Claimants
    <2>1. c.first + ClaimSize(c.kind) - 1 <= EndPort(p) /\ ClaimSize(c.kind) \in 1 .. 10
      BY ClaimSizes DEF IInv, ClaimsInOwnRange
    <2> QED BY <1>1, <1>2, <2>1 DEF StartPort, EndPort
  <1>4. CASE c.kind = "garden"
    <2>1. ClaimSize(c.kind) = 10 /\ c.kind \in Claimants
      BY <1>4 DEF ClaimSize, GardenPoolSize, Claimants
    <2>2. x \in {10000 + p} \cup (c.first .. (c.first + 10 - 1))
      BY <1>4 DEF PortsUsed, GardenPorts, Block, GardenPoolSize, Addresses
    <2> QED BY <1>1, <1>2, <1>3, <1>4, <2>1, <2>2
  <1>5. CASE c.kind = "routing-api"
    BY <1>1, <1>2, <1>3, <1>5 DEF PortsUsed, RoutingAPIPorts, ClaimSize, Claimants
  <1>6. CASE c.kind = "local-driver"
    BY <1>1, <1>2, <1>3, <1>6 DEF PortsUsed, VolmanDriverPorts, Addresses, ClaimSize, Claimants
  <1>7. CASE c.kind = "evac-cells"
    BY <1>1, <1>2, <1>3, <1>7 DEF PortsUsed, EvacuationCellsPorts, ClaimSize, Claimants
  <1>8. CASE c.kind = "local-cells"
    BY <1>1, <1>2, <1>3, <1>8
    DEF PortsUsed, LocalCellsPorts, RepSecuredPort, OffsetPort, Addresses, ClaimSize, Claimants
  <1>9. CASE c.kind \in Reps
    BY <1>1, <1>9 DEF PortsUsed, Reps, RepNPorts, RepSecuredPort, OffsetPort, Addresses
  <1>10. CASE c.kind \in Kinds \ (Claimants \cup Reps)
    BY <1>1, <1>10
    DEF PortsUsed, Kinds, Claimants, Reps, NATSPorts, LocketPorts, BBSPorts,
        FileServerPorts, RouterPorts, AuctioneerPorts, SSHProxyPorts, Addresses
  <1> QED BY <1>2, <1>4, <1>5, <1>6, <1>7, <1>8, <1>9, <1>10 DEF Claimants

\* Two live components of one process have no port in common.
LEMMA ApartMeansDistinct ==
  ASSUME SupportedRun, IInv, SpecsInv
  PROVE  SpecPortsDistinct
  <1> SUFFICES ASSUME NEW p \in Procs, NEW c \in running[p], NEW d \in running[p], c # d,
                      NEW x \in PortsUsed(p, c), x \in PortsUsed(p, d)
               PROVE  FALSE
    BY DEF SpecPortsDistinct
  <1>1. ClaimsApart(p) /\ PlanFits(p) /\ c.kind # d.kind
    BY DEF SpecsInv, ClaimsApart
  <1>2. c.first \in Nat /\ d.first \in Nat
    BY DEF IInv, TypeOK, Component
  <1>3. ~(c.kind = "rep-1" /\ d.kind = "local-cells") /\ ~(d.kind = "rep-1" /\ c.kind = "local-cells")
    BY <1>1 DEF PlanFits
  <1>4. CASE x < 10000
    <2>1. /\ c.kind \in Claimants /\ c.first <= x
          /\ x < c.first + ClaimSize(c.kind) \/ (c.kind = "routing-api" /\ x = c.first + 2)
      BY <1>4, PortsByKind
    <2>2. /\ d.kind \in Claimants /\ d.first <= x
          /\ x < d.first + ClaimSize(d.kind) \/ (d.kind = "routing-api" /\ x = d.first + 2)
      BY <1>4, PortsByKind
    <2>3. ClaimSize(c.kind) \in 1 .. 10 /\ ClaimSize(d.kind) \in 1 .. 10 /\ x \in Nat
      BY <2>1, <2>2, ClaimSizes, PortsByKind
    <2>4. \/ c.first + ClaimSize(c.kind) <= d.first
          \/ d.first + ClaimSize(d.kind) <= c.first
      BY <1>1, <2>1, <2>2 DEF ClaimsApart
    <2>5. c.kind = "routing-api" => d.first + ClaimSize(d.kind) <= c.first + 2
      BY <1>1, <2>2 DEF ClaimsApart
    <2>6. d.kind = "routing-api" => c.first + ClaimSize(c.kind) <= d.first + 2
      BY <1>1, <2>1 DEF ClaimsApart
    <2> QED BY <1>1, <1>2, <2>1, <2>2, <2>3, <2>4, <2>5, <2>6
  <1>5. CASE ~(x < 10000)
    BY <1>1, <1>3, <1>5, PortsByKind
  <1> QED BY <1>4, <1>5

\* What a spec has left to start stays compatible as it starts it.
LEMMA TailFits ==
  ASSUME NEW s \in Seq(Kinds), s # << >>, Compatible(s)
  PROVE  /\ Tail(s) \in Seq(Kinds) /\ Compatible(Tail(s))
         /\ \A i \in DOMAIN Tail(s) :
              /\ i + 1 \in DOMAIN s /\ Tail(s)[i] = s[i + 1]
              /\ Head(s) = "routing-api" => Tail(s)[i] \notin Claimants
              /\ Head(s) = "rep-1" => Tail(s)[i] # "local-cells"
              /\ Head(s) = "local-cells" => Tail(s)[i] # "rep-1"
         /\ 1 \in DOMAIN s /\ Head(s) = s[1] /\ Head(s) \in Kinds
  <1>1. /\ Tail(s) \in Seq(Kinds) /\ Len(s) \in Nat /\ Len(s) > 0
        /\ DOMAIN s = 1 .. Len(s) /\ DOMAIN Tail(s) = 1 .. (Len(s) - 1)
        /\ \A i \in 1 .. (Len(s) - 1) : Tail(s)[i] = s[i + 1]
        /\ Head(s) = s[1] /\ Head(s) \in Kinds
    OBVIOUS
  <1>2. /\ 1 \in DOMAIN s
        /\ \A i \in DOMAIN Tail(s) : i + 1 \in DOMAIN s /\ 1 < i + 1 /\ Tail(s)[i] = s[i + 1]
    BY <1>1
  <1>3. Compatible(Tail(s))
    <2> SUFFICES ASSUME NEW i \in DOMAIN Tail(s), NEW j \in DOMAIN Tail(s)
                 PROVE  /\ i < j /\ Tail(s)[i] = "routing-api" => Tail(s)[j] \notin Claimants
                        /\ Tail(s)[i] = "rep-1" => Tail(s)[j] # "local-cells"
      BY DEF Compatible
    <2>1. i < j => i + 1 < j + 1
      BY <1>1
    <2> QED BY <1>2, <2>1 DEF Compatible
  <1> QED BY <1>1, <1>2, <1>3 DEF Compatible

\* A component comes up below a cursor that only grows: the claims stay apart.
LEMMA StartsApart ==
  ASSUME IInv, SpecsInv, NEW p \in Procs, plan[p] # << >>, NEW first \in Nat,
         Starts(p, Head(plan[p]), first), NEW next \in Nat,
         Head(plan[p]) \in Claimants =>
           /\ first = allocator[p].nextPort
           /\ next = first + ClaimSize(Head(plan[p])),
         Head(plan[p]) \notin Claimants => next = allocator[p].nextPort,
         allocator'[p].nextPort = next,
         \A q \in Procs \ {p} : allocator'[q] = allocator[q]
  PROVE  SpecsInv'
  <1> DEFINE k == Head(plan[p])
             new == [kind |-> k, first |-> first]
  <1>1. /\ running' = [running EXCEPT ![p] = {c \in running[p] : c.kind # k} \cup {new}]
        /\ plan' = [plan EXCEPT ![p] = Tail(plan[p])]
        /\ running \in [Procs -> SUBSET Component] /\ plan \in [Procs -> Seq(Kinds)]
    BY DEF Starts, IInv, TypeOK
  <1>2. /\ \A q \in Procs \ {p} : running'[q] = running[q] /\ plan'[q] = plan[q]
        /\ running'[p] = {c \in running[p] : c.kind # k} \cup {new} /\ plan'[p] = Tail(plan[p])
    BY <1>1
  <1>3. ASSUME NEW q \in Procs \ {p} PROVE ClaimsApart(q)' /\ PlanFits(q)'
    BY <1>2, <1>3 DEF SpecsInv, ClaimsApart, PlanFits
  <1>4. /\ ClaimsApart(p) /\ PlanFits(p) /\ Compatible(plan[p])
        /\ allocator[p].nextPort \in Nat /\ running[p] \subseteq Component /\ plan[p] \in Seq(Kinds)
    BY <1>1 DEF SpecsInv, PlanFits, IInv, TypeOK, Allocator, Port
  <1>5. /\ Compatible(Tail(plan[p])) /\ k \in Kinds
        /\ \A i \in DOMAIN Tail(plan[p]) :
             /\ i + 1 \in DOMAIN plan[p] /\ Tail(plan[p])[i] = plan[p][i + 1]
             /\ k = "routing-api" => Tail(plan[p])[i] \notin Claimants
             /\ k = "rep-1" => Tail(plan[p])[i] # "local-cells"
             /\ k = "local-cells" => Tail(plan[p])[i] # "rep-1"
        /\ 1 \in DOMAIN plan[p] /\ k = plan[p][1]
    BY <1>4, TailFits
  <1> HIDE DEF k
  <1>6. \A c \in running'[p] : (c \in running[p] /\ c.kind # k) \/ c = new
    BY <1>2
  <1>7. new.kind = k /\ new.first = first /\ new \in Component
    BY <1>5 DEF Component
  <1> HIDE DEF new
  <1>8. /\ \A c \in running[p] : c.first \in Nat
        /\ \A c \in running[p] \cup {new} : c.kind \in Claimants => ClaimSize(c.kind) \in 1 .. 10
    BY <1>4, ClaimSizes DEF Component
  <1>9. ClaimsApart(p)'
    <2>1. \A c, d \in running'[p] : c.kind = d.kind => c = d
      BY <1>4, <1>6, <1>7 DEF ClaimsApart
    <2>2. allocator[p].nextPort <= next
      BY <1>4, <1>7, <1>8, SMTT(30) DEF k
    <2>3. ASSUME NEW c \in running'[p], c.kind \in Claimants
          PROVE  c.first + ClaimSize(c.kind) <= next
      <3>1. CASE c \in running[p]
        <4>1. c.first + ClaimSize(c.kind) <= allocator[p].nextPort
          BY <1>4, <2>3, <3>1 DEF ClaimsApart
        <4>2. c.first \in Nat /\ ClaimSize(c.kind) \in 1 .. 10 /\ allocator[p].nextPort \in Nat
          BY <1>4, <1>8, <2>3, <3>1
        <4> QED BY <2>2, <4>1, <4>2, SMTT(30)
      <3>2. CASE c = new
        BY <1>7, <1>8, <2>3, <3>2 DEF k
      <3> QED BY <1>6, <3>1, <3>2
    <2>4. ASSUME NEW c \in running'[p], NEW d \in running'[p],
                 c.kind \in Claimants, d.kind \in Claimants, c # d
          PROVE  \/ c.first + ClaimSize(c.kind) <= d.first
                 \/ d.first + ClaimSize(d.kind) <= c.first
      <3>1. CASE c \in running[p] /\ d \in running[p]
        BY <1>4, <2>4, <3>1 DEF ClaimsApart
      <3>2. CASE c = new /\ d \in running[p]
        BY <1>4, <1>7, <2>4, <3>2 DEF ClaimsApart, k
      <3>3. CASE d = new /\ c \in running[p]
        BY <1>4, <1>7, <2>4, <3>3 DEF ClaimsApart, k
      <3> QED BY <1>6, <2>4, <3>1, <3>2, <3>3
    <2>5. ASSUME NEW c \in running'[p], c.kind = "routing-api"
          PROVE  next = c.first + 2
      <3>1. CASE c \in running[p]
        <4>1. k \notin Claimants
          BY <1>4, <1>5, <2>5, <3>1 DEF PlanFits
        <4> QED BY <1>4, <2>5, <3>1, <4>1 DEF ClaimsApart, k
      <3>2. CASE c = new
        <4>1. k \in Claimants /\ ClaimSize(k) = 2
          BY <1>7, <2>5, <3>2 DEF Claimants, ClaimSize
        <4> QED BY <1>7, <3>2, <4>1 DEF k
      <3> QED BY <1>6, <3>1, <3>2
    <2> QED BY <2>1, <2>3, <2>4, <2>5 DEF ClaimsApart
  <1>10. PlanFits(p)'
    <2>1. Compatible(plan'[p])
      BY <1>2, <1>5
    <2>2. ASSUME NEW c \in running'[p], NEW i \in DOMAIN plan'[p]
          PROVE  /\ c.kind = "routing-api" => plan'[p][i] \notin Claimants
                 /\ c.kind = "rep-1" => plan'[p][i] # "local-cells"
                 /\ c.kind = "local-cells" => plan'[p][i] # "rep-1"
      BY <1>2, <1>4, <1>5, <1>6, <1>7, <2>2 DEF PlanFits
    <2>3. ASSUME NEW c \in running'[p], NEW d \in running'[p], c.kind = "rep-1"
          PROVE  d.kind # "local-cells"
      BY <1>4, <1>5, <1>6, <1>7, <2>3 DEF PlanFits
    <2> QED BY <2>1, <2>2, <2>3 DEF PlanFits, Compatible
  <1> QED BY <1>3, <1>9, <1>10 DEF SpecsInv

\* In a supported run with compatible specs, SpecsInv is preserved.
THEOREM SpecsInductive == SupportedRun /\ CompatibleScenarios => (Spec => []SpecsInv)
  <1> SUFFICES ASSUME SupportedRun, CompatibleScenarios PROVE Spec => []SpecsInv
    OBVIOUS
  <1>1. Init => SpecsInv
    BY DEF Init, SpecsInv, ClaimsApart, PlanFits, Compatible
  <1>2. IInv /\ IInv' /\ SpecsInv /\ [Next]_vars => SpecsInv'
    <2> SUFFICES ASSUME IInv, IInv', SpecsInv, [Next]_vars PROVE SpecsInv'
      OBVIOUS
    <2>1. ASSUME NEW p \in Procs, NEW scenario \in Scenarios, BeginSpec(p, scenario)
          PROVE  SpecsInv'
      <3>1. /\ running' = running /\ allocator' = allocator /\ running[p] = {}
            /\ plan'[p] = scenario /\ \A q \in Procs \ {p} : plan'[q] = plan[q]
        BY <2>1 DEF BeginSpec, IInv, TypeOK
      <3>2. Compatible(scenario)
        BY DEF CompatibleScenarios
      <3>3. \A q \in Procs : ClaimsApart(q)'
        BY <3>1 DEF SpecsInv, ClaimsApart
      <3>4. PlanFits(p)'
        BY <3>1, <3>2 DEF PlanFits, Compatible
      <3>5. \A q \in Procs \ {p} : PlanFits(q)'
        BY <3>1 DEF SpecsInv, PlanFits
      <3> QED BY <3>3, <3>4, <3>5 DEF SpecsInv
    <2>2. ASSUME NEW p \in Procs, StartAtAddress(p)
          PROVE  SpecsInv'
      <3>1. allocator[p].nextPort \in Nat /\ 0 \in Nat
        BY DEF IInv, TypeOK, Allocator, Port
      <3>2. /\ plan[p] # << >> /\ Head(plan[p]) \notin Claimants
            /\ Starts(p, Head(plan[p]), 0) /\ allocator' = allocator
        BY <2>2 DEF StartAtAddress
      <3> QED BY <3>1, <3>2, StartsApart
    <2>3. ASSUME NEW p \in Procs, StartClaiming(p)
          PROVE  SpecsInv'
      <3> DEFINE k == Head(plan[p])
                 first == allocator[p].nextPort
      <3>1. /\ plan[p] # << >> /\ k \in Claimants
            /\ ~Insufficient(allocator[p], ClaimSize(k))
            /\ Starts(p, k, first)
            /\ allocator' = [allocator EXCEPT ![p] = Claimed(allocator[p], ClaimSize(k))]
            /\ allocator \in [Procs -> Allocator]
        BY <2>3 DEF StartClaiming, IInv, TypeOK
      <3>2. Claimed(allocator[p], ClaimSize(k)).nextPort = first + ClaimSize(k)
        BY <3>1, ClaimArithmetic
      <3>3. first \in Nat /\ ClaimSize(k) \in 1 .. 10
        BY <3>1, ClaimSizes DEF Allocator, Port
      <3>4. first + ClaimSize(k) \in Nat
        BY <3>3
      <3>5. /\ allocator'[p].nextPort = first + ClaimSize(k)
            /\ \A q \in Procs \ {p} : allocator'[q] = allocator[q]
        BY <3>1, <3>2
      <3> QED BY <3>1, <3>3, <3>4, <3>5, StartsApart
    <2>4. ASSUME NEW p \in Procs, ClaimRefused(p)
          PROVE  SpecsInv'
      <3>1. /\ running' = running /\ allocator' = allocator
            /\ plan'[p] = << >> /\ \A q \in Procs \ {p} : plan'[q] = plan[q]
        BY <2>4 DEF ClaimRefused, IInv, TypeOK
      <3>2. \A q \in Procs : ClaimsApart(q)'
        BY <3>1 DEF SpecsInv, ClaimsApart
      <3>3. PlanFits(p)'
        BY <3>1 DEF SpecsInv, PlanFits, Compatible
      <3>4. \A q \in Procs \ {p} : PlanFits(q)'
        BY <3>1 DEF SpecsInv, PlanFits
      <3> QED BY <3>2, <3>3, <3>4 DEF SpecsInv
    <2>5. ASSUME NEW p \in Procs, EndSpec(p)
          PROVE  SpecsInv'
      <3>1. /\ plan' = plan /\ allocator' = allocator
            /\ \A q \in Procs : running'[q] \subseteq running[q]
        BY <2>5 DEF EndSpec, IInv, TypeOK
      <3> QED BY <3>1 DEF SpecsInv, ClaimsApart, PlanFits
    <2>6. CASE UNCHANGED vars
      BY <2>6 DEF vars, SpecsInv, ClaimsApart, PlanFits
    <2> QED BY <2>1, <2>2, <2>3, <2>4, <2>5, <2>6 DEF Next
  <1> QED BY <1>1, <1>2, WorldInductive, PTL DEF Spec

\* The components of one spec never contend for a port, whatever specs the
\* processes run and in whatever order, so long as no spec claims ports after
\* it has started a routing API.
THEOREM DistinctPorts == SupportedRun /\ CompatibleScenarios => (Spec => []SpecPortsDistinct)
  <1> SUFFICES ASSUME SupportedRun, CompatibleScenarios PROVE Spec => []SpecPortsDistinct
    OBVIOUS
  <1>1. IInv /\ SpecsInv => SpecPortsDistinct
    BY ApartMeansDistinct
  <1> QED BY <1>1, WorldInductive, SpecsInductive, PTL
=============================================================================
