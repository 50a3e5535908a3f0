------------------------------- MODULE Wiring -------------------------------
(***************************************************************************)
(* Who talks to whom.  The component makers write into the configuration   *)
(* of each component the addresses of the others of its process; the specs *)
(* of local_route_emitter_test.go configure their route emitters with      *)
(* functions kept in a slice that lives as long as the test process.       *)
(* World's actions are extended by what they do to that slice.             *)
(***************************************************************************)
EXTENDS World

CONSTANT Versions    \* of "v0" and "v1": MakeV0ComponentMaker, MakeComponentMaker

\* There are two component makers.
ASSUME WiringAssumption == Versions \subseteq {"v0", "v1"}

VARIABLES version,     \* the component maker the suite uses
          configs,     \* routeEmitterConfigs: its length and capacity
          spare,       \* the array element behind its last one: whose function
          routingAPI,  \* the closure variable: ListenPort of the latest RoutingAPI
          emitters,    \* the route emitters of the current spec
          position     \* in EmitterSteps

emitterVars == <<configs, spare, routingAPI, emitters, position>>
wvars == <<vars, version, emitterVars>>

Nobody == "nobody"

-----------------------------------------------------------------------------
\* The configurations: what a component of process p connects to.

Dial(kind, port, tls) == [kind |-> kind, port |-> port, tls |-> tls]

BBSURL(p) == Dial("bbs", Addresses[p].BBS, TRUE)
LocketClientConfig(p) == Dial("locket", Addresses[p].Locket, TRUE)
GardenAddr(p) == Dial("garden", Addresses[p].Garden, FALSE)
NATSAddresses(p) == Dial("nats", Addresses[p].NATS, FALSE)

BBSDials(p) ==
  {Dial("auctioneer", Addresses[p].Auctioneer, TRUE), LocketClientConfig(p)}
AuctioneerDials(p) == {BBSURL(p), LocketClientConfig(p)}
RepDials(p) == {BBSURL(p), GardenAddr(p), LocketClientConfig(p)}
RouterDials(p) == {NATSAddresses(p)}
SSHProxyDials(p) == {BBSURL(p)}
RoutingAPIDials(p) == {LocketClientConfig(p)}

\* The v0 maker: no locket, and an auctioneer without TLS
V0BBSDials(p) == {Dial("auctioneer", Addresses[p].Auctioneer, FALSE)}
V0AuctioneerDials(p) == {BBSURL(p)}
V0RepDials(p) == {BBSURL(p), GardenAddr(p)}

\* The clients in the tests: GardenClient, BBSClient, BBSServiceClient, the
\* client of the volume driver
ClientDials(p) ==
  {GardenAddr(p), BBSURL(p), LocketClientConfig(p),
   Dial("local-driver", Addresses[p].FakeVolmanDriver, FALSE)}

\* Mutant: the emitters use the port that RoutingAPI has not claimed.
TCPDialsMTLS(e) == {Dial("routing-api", e.tcp + 2, FALSE)}

TCPDials(e) == {Dial("routing-api", e.tcp, FALSE)}

\* RouteEmitterN; with EnableTCPEmitter also the routing API
EmitterDials(p, e) ==
  {NATSAddresses(p), BBSURL(p), LocketClientConfig(p)}
    \cup (IF e.tcp # 0 THEN TCPDials(e) ELSE {})

Dials(p, kind) ==
  CASE kind = "bbs" -> IF version = "v0" THEN V0BBSDials(p) ELSE BBSDials(p)
    [] kind = "auctioneer" -> IF version = "v0" THEN V0AuctioneerDials(p) ELSE AuctioneerDials(p)
    [] kind \in Reps \cup {"evac-cells", "local-cells"} ->
         IF version = "v0" THEN V0RepDials(p) ELSE RepDials(p)
    [] kind = "router" -> RouterDials(p)
    [] kind = "ssh-proxy" -> SSHProxyDials(p)
    [] kind = "routing-api" -> RoutingAPIDials(p)
    [] OTHER -> {}

\* Which components serve TLS
ServesTLS(kind) == kind \in {"bbs", "locket"} \/ (kind = "auctioneer" /\ version = "v1")

-----------------------------------------------------------------------------
WInit ==
  /\ Init
  /\ version \in Versions
  /\ configs = [p \in Procs |-> [len |-> 0, cap |-> 0]]
  /\ spare = [p \in Procs |-> Nobody]
  /\ routingAPI = [p \in Procs |-> 0]
  /\ emitters = [p \in Procs |-> {}]
  /\ position = [p \in Procs |-> 1]

\* routeEmitterConfigs = append(routeEmitterConfigs, ...): in place while there
\* is room, else to a new array of twice the size
Appended(c) ==
  IF c.len < c.cap THEN [c EXCEPT !.len = @ + 1]
  ELSE [len |-> c.len + 1, cap |-> IF c.cap = 0 THEN 1 ELSE 2 * c.cap]

HasRoom(p) == configs[p].len < configs[p].cap

\* "when tcp route emitting is enabled": RoutingAPI() claims its ports, then
\* the function that reads the variable routingAPI is appended.
WStartClaiming(p) ==
  /\ StartClaiming(p)
  /\ IF Head(plan[p]) = "routing-api"
     THEN /\ routingAPI' = [routingAPI EXCEPT ![p] = allocator[p].nextPort]
          /\ configs' = [configs EXCEPT ![p] = Appended(@)]
          /\ spare' = [spare EXCEPT ![p] = Nobody]
     ELSE UNCHANGED <<routingAPI, configs, spare>>
  /\ UNCHANGED <<version, emitters, position>>

\* Mutant: both slices are built before an emitter is made from either.
BothAppendsFirst ==
  <<<<"append", "cell-a">>, <<"append", "cell-b">>, <<"emit", "cell-a">>, <<"emit", "cell-b">>>>

\* JustBeforeEach: routeEmitterAConfigs := append(routeEmitterConfigs, ...),
\* RouteEmitterN(1, routeEmitterAConfigs...), and the same for cell B
EmitterSteps ==
  <<<<"append", "cell-a">>, <<"emit", "cell-a">>, <<"append", "cell-b">>, <<"emit", "cell-b">>>>

AtEmitterStep(p, op) ==
  /\ plan[p] = << >>
  /\ \E c \in running[p] : c.kind = "local-cells"
  /\ position[p] <= Len(EmitterSteps)
  /\ EmitterSteps[position[p]][1] = op
  /\ position' = [position EXCEPT ![p] = @ + 1]
  /\ UNCHANGED <<vars, version, configs, routingAPI>>

\* With room in the array, both slices end in the same element.
AppendCellConfig(p) ==
  /\ AtEmitterStep(p, "append")
  /\ spare' = IF HasRoom(p) THEN [spare EXCEPT ![p] = EmitterSteps[position[p]][2]] ELSE spare
  /\ UNCHANGED emitters

\* The functions are applied in order: those with TCP read the variable
\* routingAPI as it is now, the last one sets the cell's ID.
RouteEmitterN(p) ==
  /\ AtEmitterStep(p, "emit")
  /\ LET cell == EmitterSteps[position[p]][2] IN
     emitters' = [emitters EXCEPT ![p] = @ \cup
       {[cell |-> cell,
         CellID |-> IF HasRoom(p) THEN spare[p] ELSE cell,
         tcp |-> IF configs[p].len > 0 THEN routingAPI[p] ELSE 0]}]
  /\ UNCHANGED spare

WEndSpec(p) ==
  /\ EndSpec(p)
  /\ emitters' = [emitters EXCEPT ![p] = {}]
  /\ position' = [position EXCEPT ![p] = 1]
  /\ UNCHANGED <<version, configs, spare, routingAPI>>

WNext ==
  \E p \in Procs :
    \/ /\ \/ \E scenario \in Scenarios : BeginSpec(p, scenario)
          \/ StartAtAddress(p)
          \/ ClaimRefused(p)
       /\ UNCHANGED <<version, emitterVars>>
    \/ WStartClaiming(p)
    \/ AppendCellConfig(p)
    \/ RouteEmitterN(p)
    \/ WEndSpec(p)

WSpec == WInit /\ [][WNext]_wvars

-----------------------------------------------------------------------------
\* The types, and World's.
WTypeOK ==
  /\ TypeOK
  /\ version \in Versions
  /\ \A p \in Procs : configs[p].len \in 0 .. configs[p].cap
  /\ spare \in [Procs -> {Nobody, "cell-a", "cell-b"}]
  /\ routingAPI \in [Procs -> Nat]
  /\ \A p \in Procs : \A e \in emitters[p] : e.cell \in {"cell-a", "cell-b"} /\ e.tcp \in Nat
  /\ position \in [Procs -> 1 .. Len(EmitterSteps) + 1]

DialsOf(p) ==
  ClientDials(p) \cup (UNION {Dials(p, c.kind) : c \in running[p]})
    \cup (UNION {EmitterDials(p, e) : e \in emitters[p]})

\* Whatever answers at an address that a component was given is the component
\* meant, of the same process, and speaks the protocol expected.  That includes
\* the route emitters of specs without TCP routes, which are still given the
\* port of a routing API that an earlier spec has stopped.
DialsReachTheirOwn ==
  LET dials == [p \in Procs |-> DialsOf(p)] IN
  \A q \in Procs : \A c \in running[q] :
    LET served == PortsUsed(q, c) IN
    \A p \in Procs : \A d \in dials[p] :
      d.port \in served => q = p /\ c.kind = d.kind /\ ServesTLS(c.kind) = d.tls

\* Each route emitter watches its own cell, although the slices its
\* configuration comes from may share an array with the other emitter's.
EmittersWatchOwnCell ==
  \A p \in Procs : \A e \in emitters[p] : e.CellID = e.cell
=============================================================================
