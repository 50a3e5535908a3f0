--------------------------- MODULE WiringProofs ---------------------------
(***************************************************************************)
(* The wiring of the components: each route emitter watches its own cell,  *)
(* and an address that a component was given is answered by the component  *)
(* meant or by nobody.  World's theorems carry over, since the actions of  *)
(* Wiring only add to World's.                                             *)
(***************************************************************************)
EXTENDS Wiring, WorldProofs

\* A step of Wiring is a step of World, or leaves World's variables alone.
LEMMA WiringRefinesWorld == WSpec => Spec
  <1>1. WInit => Init
    BY DEF WInit
  <1>2. [WNext]_wvars => [Next]_vars
    BY DEF WNext, Next, wvars, WStartClaiming, AppendCellConfig, RouteEmitterN, AtEmitterStep,
           WEndSpec
  <1> QED BY <1>1, <1>2, PTL DEF WSpec, Spec

-----------------------------------------------------------------------------
\* The slice holds its elements, and its fields are numbers.
SliceInv(p) ==
  /\ configs[p] \in [len : Nat, cap : Nat]
  /\ configs[p].len <= configs[p].cap

\* The emitters of a spec are made when everything else of it is up, and until
\* it ends nothing is appended to the slice they are configured from: between
\* the append for a cell and its RouteEmitterN, the element behind the slice is
\* that cell's.
EmitterInv(p) ==
  /\ position[p] > 1 => plan[p] = << >> /\ running[p] # {}
  /\ emitters[p] # {} => position[p] > 1
  /\ HasRoom(p) => /\ position[p] = 2 => spare[p] = "cell-a"
                   /\ position[p] = 4 => spare[p] = "cell-b"
  /\ \A e \in emitters[p] :
       /\ e.cell \in {"cell-a", "cell-b"}
       /\ e.CellID = e.cell
       /\ e.tcp \in {0, routingAPI[p]}

WShape ==
  /\ DOMAIN running = Procs /\ DOMAIN plan = Procs
  /\ DOMAIN configs = Procs /\ DOMAIN routingAPI = Procs /\ DOMAIN emitters = Procs
  /\ spare \in [Procs -> {Nobody, "cell-a", "cell-b"}]
  /\ position \in [Procs -> 1 .. 5]
  /\ version \in Versions

\* The inductive invariant of the emitters.
WIInv == WShape /\ \A p \in Procs : SliceInv(p) /\ EmitterInv(p)

\* What append makes of a slice is a slice again.
LEMMA AppendedSlice ==
  ASSUME NEW c \in [len : Nat, cap : Nat], c.len <= c.cap
  PROVE  Appended(c) \in [len : Nat, cap : Nat] /\ Appended(c).len <= Appended(c).cap
  <1>1. CASE c.len < c.cap
    <2>1. Appended(c) = [len |-> c.len + 1, cap |-> c.cap]
      BY <1>1 DEF Appended
    <2> QED BY <1>1, <2>1
  <1>2. CASE ~(c.len < c.cap)
    <2>1. c.len \in Nat /\ c.cap \in Nat /\ c.len = c.cap
      BY <1>2
    <2>2. Appended(c) = [len |-> c.len + 1, cap |-> IF c.cap = 0 THEN 1 ELSE 2 * c.cap]
      BY <1>2 DEF Appended
    <2> QED BY <2>1, <2>2
  <1> QED BY <1>1, <1>2

\* The steps of JustBeforeEach, by position.
LEMMA Steps ==
  /\ Len(EmitterSteps) = 4
  /\ EmitterSteps[1] = <<"append", "cell-a">> /\ EmitterSteps[2] = <<"emit", "cell-a">>
  /\ EmitterSteps[3] = <<"append", "cell-b">> /\ EmitterSteps[4] = <<"emit", "cell-b">>
  BY DEF EmitterSteps

\* WIInv is inductive, whatever the ranges and the scenarios.
LEMMA EmittersInductive == WSpec => []WIInv
  <1>1. WInit => WIInv
    BY DEF WInit, Init, WIInv, WShape, SliceInv, EmitterInv, HasRoom
  <1>2. WIInv /\ [WNext]_wvars => WIInv'
    <2> SUFFICES ASSUME WIInv, [WNext]_wvars PROVE WIInv'
      OBVIOUS
    <2>1. ASSUME NEW p \in Procs, NEW scenario \in Scenarios, BeginSpec(p, scenario),
                 UNCHANGED <<version, emitterVars>>
          PROVE  WIInv'
      <3>1. /\ running' = running /\ DOMAIN plan' = Procs /\ running[p] = {}
            /\ \A q \in Procs \ {p} : plan'[q] = plan[q]
            /\ UNCHANGED <<version, configs, spare, routingAPI, emitters, position>>
        BY <2>1 DEF BeginSpec, WIInv, WShape, emitterVars
      <3> QED BY <3>1 DEF WIInv, WShape, SliceInv, EmitterInv, HasRoom
    <2>2. ASSUME NEW p \in Procs, NEW kind, NEW first, plan[p] # << >>, Starts(p, kind, first),
                 UNCHANGED <<version, emitterVars>>
          PROVE  WIInv'
      <3>1. /\ DOMAIN running' = Procs /\ DOMAIN plan' = Procs
            /\ \A q \in Procs \ {p} : plan'[q] = plan[q] /\ running'[q] = running[q]
            /\ UNCHANGED <<version, configs, spare, routingAPI, emitters, position>>
        BY <2>2 DEF Starts, WIInv, WShape, emitterVars
      <3>2. position[p] = 1
        BY <2>2 DEF WIInv, WShape, EmitterInv
      <3> QED BY <3>1, <3>2 DEF WIInv, WShape, SliceInv, EmitterInv, HasRoom
    <2>3. ASSUME NEW p \in Procs, ClaimRefused(p), UNCHANGED <<version, emitterVars>>
          PROVE  WIInv'
      <3>1. /\ running' = running /\ DOMAIN plan' = Procs /\ plan[p] # << >>
            /\ \A q \in Procs \ {p} : plan'[q] = plan[q]
            /\ UNCHANGED <<version, configs, spare, routingAPI, emitters, position>>
        BY <2>3 DEF ClaimRefused, WIInv, WShape, emitterVars
      <3>2. position[p] = 1
        BY <3>1 DEF WIInv, WShape, EmitterInv
      <3> QED BY <3>1, <3>2 DEF WIInv, WShape, SliceInv, EmitterInv, HasRoom
    <2>4. ASSUME NEW p \in Procs, WStartClaiming(p), Head(plan[p]) = "routing-api"
          PROVE  WIInv'
      <3>1. /\ DOMAIN running' = Procs /\ DOMAIN plan' = Procs /\ plan[p] # << >>
            /\ \A q \in Procs \ {p} : plan'[q] = plan[q] /\ running'[q] = running[q]
            /\ UNCHANGED <<version, emitters, position>>
            /\ DOMAIN routingAPI' = Procs /\ DOMAIN configs' = Procs
            /\ spare' \in [Procs -> {Nobody, "cell-a", "cell-b"}]
            /\ \A q \in Procs \ {p} :
                 routingAPI'[q] = routingAPI[q] /\ configs'[q] = configs[q] /\ spare'[q] = spare[q]
            /\ spare'[p] = Nobody /\ configs'[p] = Appended(configs[p])
        BY <2>4 DEF WStartClaiming, StartClaiming, Starts, WIInv, WShape
      <3>2. position[p] = 1 /\ emitters[p] = {} /\ SliceInv(p)
        BY <3>1 DEF WIInv, WShape, EmitterInv
      <3>3. SliceInv(p)'
        BY <3>1, <3>2, AppendedSlice DEF SliceInv
      <3>4. EmitterInv(p)'
        BY <3>1, <3>2 DEF EmitterInv
      <3>5. \A q \in Procs \ {p} : SliceInv(q)' /\ EmitterInv(q)'
        BY <3>1 DEF WIInv, SliceInv, EmitterInv, HasRoom
      <3> QED BY <3>1, <3>3, <3>4, <3>5 DEF WIInv, WShape
    <2>5. ASSUME NEW p \in Procs, AppendCellConfig(p)
          PROVE  WIInv'
      <3>1. /\ UNCHANGED <<running, plan, version, configs, routingAPI, emitters>>
            /\ plan[p] = << >> /\ running[p] # {}
            /\ position' = [position EXCEPT ![p] = position[p] + 1]
            /\ position \in [Procs -> 1 .. 5] /\ position'[p] = position[p] + 1
            /\ \A q \in Procs \ {p} : position'[q] = position[q]
            /\ EmitterSteps[position[p]][1] = "append" /\ position[p] <= 4
        BY <2>5, Steps DEF AppendCellConfig, AtEmitterStep, WIInv, WShape, vars
      <3>2. /\ DOMAIN spare' = Procs /\ spare[p] \in {Nobody, "cell-a", "cell-b"}
            /\ \A q \in Procs \ {p} : spare'[q] = spare[q]
            /\ spare'[p] = IF HasRoom(p) THEN EmitterSteps[position[p]][2] ELSE spare[p]
            /\ spare' = [spare EXCEPT ![p] = spare'[p]]
        BY <2>5 DEF AppendCellConfig, WIInv, WShape
      <3>3. position[p] \in {1, 3}
        BY <3>1, Steps DEF WIInv, WShape, EmitterInv
      <3>4. EmitterSteps[position[p]][2] = IF position[p] = 1 THEN "cell-a" ELSE "cell-b"
        BY <3>3, Steps
      <3>5. EmitterInv(p)'
        <4>1. EmitterInv(p) /\ (HasRoom(p)' <=> HasRoom(p))
          BY <3>1 DEF WIInv, HasRoom
        <4>2. HasRoom(p) => /\ position'[p] = 2 => spare'[p] = "cell-a"
                            /\ position'[p] = 4 => spare'[p] = "cell-b"
          BY <3>1, <3>2, <3>3, <3>4, <4>1 DEF EmitterInv
        <4> HIDE DEF HasRoom
        <4> QED BY <3>1, <3>3, <4>1, <4>2 DEF EmitterInv
      <3>6. \A q \in Procs \ {p} : EmitterInv(q)'
        BY <3>1, <3>2 DEF WIInv, EmitterInv, HasRoom
      <3>7. position' \in [Procs -> 1 .. 5] /\ spare' \in [Procs -> {Nobody, "cell-a", "cell-b"}]
        BY <3>1, <3>2, <3>3, <3>4 DEF WIInv, WShape
      <3> QED BY <3>1, <3>5, <3>6, <3>7 DEF WIInv, WShape, SliceInv
    <2>6. ASSUME NEW p \in Procs, RouteEmitterN(p)
          PROVE  WIInv'
      <3> DEFINE cell == EmitterSteps[position[p]][2]
                 new == [cell |-> cell, CellID |-> IF HasRoom(p) THEN spare[p] ELSE cell,
                         tcp |-> IF configs[p].len > 0 THEN routingAPI[p] ELSE 0]
      <3>1. /\ UNCHANGED <<running, plan, version, configs, routingAPI, spare>>
            /\ plan[p] = << >> /\ running[p] # {}
            /\ position' = [position EXCEPT ![p] = position[p] + 1]
            /\ position \in [Procs -> 1 .. 5] /\ position'[p] = position[p] + 1
            /\ \A q \in Procs \ {p} : position'[q] = position[q]
            /\ EmitterSteps[position[p]][1] = "emit" /\ position[p] <= 4
        BY <2>6, Steps DEF RouteEmitterN, AtEmitterStep, WIInv, WShape, vars
      <3>2. /\ DOMAIN emitters' = Procs /\ \A q \in Procs \ {p} : emitters'[q] = emitters[q]
            /\ emitters'[p] = emitters[p] \cup {new}
        BY <2>6 DEF RouteEmitterN, WIInv, WShape
      <3>3. position[p] \in {2, 4} /\ EmitterInv(p)
        BY <3>1, Steps DEF WIInv, WShape, EmitterInv
      <3>4. cell = IF position[p] = 2 THEN "cell-a" ELSE "cell-b"
        BY <3>3, Steps
      <3> HIDE DEF cell
      <3>5. /\ new.cell \in {"cell-a", "cell-b"} /\ new.CellID = new.cell
            /\ new.tcp \in {0, routingAPI[p]}
        BY <3>3, <3>4 DEF EmitterInv
      <3> HIDE DEF new
      <3>6. EmitterInv(p)'
        <4>1. HasRoom(p)' <=> HasRoom(p)
          BY <3>1 DEF HasRoom
        <4> QED BY <3>1, <3>2, <3>3, <3>5, <4>1 DEF EmitterInv
      <3>7. \A q \in Procs \ {p} : EmitterInv(q)'
        BY <3>1, <3>2 DEF WIInv, EmitterInv, HasRoom
      <3>8. position' \in [Procs -> 1 .. 5]
        BY <3>1, <3>3
      <3> QED BY <3>1, <3>2, <3>6, <3>7, <3>8 DEF WIInv, WShape, SliceInv
    <2>7. ASSUME NEW p \in Procs, WEndSpec(p)
          PROVE  WIInv'
      <3>1. /\ DOMAIN running' = Procs /\ plan' = plan
            /\ \A q \in Procs \ {p} : running'[q] = running[q]
            /\ UNCHANGED <<version, configs, spare, routingAPI>>
            /\ DOMAIN emitters' = Procs /\ position' \in [Procs -> 1 .. 5]
            /\ emitters'[p] = {} /\ position'[p] = 1
            /\ \A q \in Procs \ {p} : emitters'[q] = emitters[q] /\ position'[q] = position[q]
        BY <2>7 DEF WEndSpec, EndSpec, WIInv, WShape
      <3> QED BY <3>1 DEF WIInv, WShape, SliceInv, EmitterInv, HasRoom
    <2>8. CASE UNCHANGED wvars
      BY <2>8 DEF wvars, vars, emitterVars, WIInv, WShape, SliceInv, EmitterInv, HasRoom
    <2>9. ASSUME NEW p \in Procs, StartAtAddress(p), UNCHANGED <<version, emitterVars>>
          PROVE  WIInv'
      BY <2>2, <2>9 DEF StartAtAddress
    <2>10. ASSUME NEW p \in Procs, WStartClaiming(p), Head(plan[p]) # "routing-api"
           PROVE  WIInv'
      BY <2>2, <2>10 DEF WStartClaiming, StartClaiming, emitterVars
    <2> QED BY <2>1, <2>3, <2>4, <2>5, <2>6, <2>7, <2>8, <2>9, <2>10 DEF WNext
  <1> QED BY <1>1, <1>2, PTL DEF WSpec

\* Each route emitter watches its own cell, in every run: the slices of the two
\* cells may share their last element, but neither is appended to between the
\* other's append and the emitter made from it.
THEOREM OwnCells == WSpec => []EmittersWatchOwnCell
  <1>1. WIInv => EmittersWatchOwnCell
    BY DEF WIInv, EmitterInv, EmittersWatchOwnCell
  <1> QED BY <1>1, EmittersInductive, PTL

-----------------------------------------------------------------------------
\* The variable routingAPI keeps the port of the latest routing API, running or
\* long stopped.  The cursor has passed it, so nothing but a routing API has
\* that port now.
LatestRoutingAPI(p) ==
  /\ routingAPI[p] # 0 =>
       StartPort(p) <= routingAPI[p] /\ routingAPI[p] < allocator[p].nextPort
  /\ \A c \in running[p] :
       c.kind \in Claimants \ {"routing-api"} =>
         routingAPI[p] < c.first \/ c.first + ClaimSize(c.kind) <= routingAPI[p]

RoutingInv ==
  /\ routingAPI \in [Procs -> Nat]
  /\ \A p \in Procs : LatestRoutingAPI(p)

\* A claimant's first port lies at or above the start of its process's range.
LEMMA ClaimsPositive ==
  ASSUME SupportedRun, IInv, NEW p \in Procs
  PROVE  /\ p \in 1 .. 9 /\ StartPort(p) \in Nat /\ StartPort(p) > 0
         /\ allocator[p].nextPort \in Nat /\ StartPort(p) <= allocator[p].nextPort
         /\ \A c \in running[p] :
              c.kind \in Claimants =>
                /\ c.first \in Nat /\ StartPort(p) <= c.first
                /\ ClaimSize(c.kind) \in 1 .. 10
  <1>1. p \in 1 .. 9 /\ PortRange \in Nat
    BY WorldAssumption DEF SupportedRun
  <1>2. StartPort(p) \in Nat /\ StartPort(p) > 0 /\ EndPort(p) \in Nat
    BY <1>1 DEF StartPort, EndPort
  <1>3. allocator[p].nextPort \in Nat /\ StartPort(p) <= allocator[p].nextPort
    BY <1>2 DEF IInv, TypeOK
  <1>4. \A c \in running[p] : c.first \in Nat
    BY DEF IInv, TypeOK, Component
  <1> QED BY <1>1, <1>2, <1>3, <1>4, ClaimSizes DEF IInv, ClaimsInOwnRange

\* RoutingInv holds in every state of a run whose scenarios are compatible.
LEMMA RoutingInductive == SupportedRun /\ CompatibleScenarios => (WSpec => []RoutingInv)
  <1> SUFFICES ASSUME SupportedRun, CompatibleScenarios PROVE WSpec => []RoutingInv
    OBVIOUS
  <1>1. WInit => RoutingInv
    BY DEF WInit, Init, RoutingInv, LatestRoutingAPI
  <1>2. IInv /\ SpecsInv /\ RoutingInv /\ [WNext]_wvars => RoutingInv'
    <2> SUFFICES ASSUME IInv, SpecsInv, RoutingInv, [WNext]_wvars PROVE RoutingInv'
      OBVIOUS
    <2>1. ASSUME UNCHANGED <<allocator, routingAPI>>,
                 \A q \in Procs : running'[q] \subseteq running[q]
          PROVE  RoutingInv'
      BY <2>1 DEF RoutingInv, LatestRoutingAPI
    <2>2. ASSUME NEW p \in Procs, StartAtAddress(p), UNCHANGED <<version, emitterVars>>
          PROVE  RoutingInv'
      <3>1. /\ UNCHANGED <<allocator, routingAPI>> /\ Head(plan[p]) \notin Claimants
            /\ \A q \in Procs : \A c \in running'[q] : c \in running[q] \/ c.kind \notin Claimants
        BY <2>2 DEF StartAtAddress, Starts, emitterVars, IInv, TypeOK
      <3> QED BY <3>1 DEF RoutingInv, LatestRoutingAPI
    <2>3. ASSUME NEW p \in Procs, WStartClaiming(p)
          PROVE  RoutingInv'
      <3> DEFINE k == Head(plan[p])
                 first == allocator[p].nextPort
      <3>1. /\ k \in Claimants /\ ~Insufficient(allocator[p], ClaimSize(k))
            /\ allocator' = [allocator EXCEPT ![p] = Claimed(allocator[p], ClaimSize(k))]
            /\ running' = [running EXCEPT ![p] =
                 {c \in running[p] : c.kind # k} \cup {[kind |-> k, first |-> first]}]
            /\ allocator \in [Procs -> Allocator] /\ running \in [Procs -> SUBSET Component]
        BY <2>3 DEF WStartClaiming, StartClaiming, Starts, IInv, TypeOK
      <3>2. Claimed(allocator[p], ClaimSize(k)).nextPort = first + ClaimSize(k)
        BY <3>1, ClaimArithmetic
      <3>3. /\ routingAPI'
                 = IF k = "routing-api" THEN [routingAPI EXCEPT ![p] = first] ELSE routingAPI
            /\ routingAPI \in [Procs -> Nat]
        BY <2>3 DEF WStartClaiming, RoutingInv
      <3>4. /\ StartPort(p) \in Nat /\ StartPort(p) > 0 /\ first \in Nat /\ StartPort(p) <= first
            /\ ClaimSize(k) \in 1 .. 10
            /\ \A c \in running[p] : c.kind \in Claimants =>
                 c.first \in Nat /\ ClaimSize(c.kind) \in 1 .. 10
        BY <3>1, ClaimsPositive, ClaimSizes
      <3> HIDE DEF k, first
      <3>5. /\ routingAPI' \in [Procs -> Nat]
            /\ allocator'[p].nextPort = first + ClaimSize(k)
            /\ \A c \in running'[p] : c \in running[p] \/ (c.kind = k /\ c.first = first)
            /\ \A q \in Procs \ {p} : /\ allocator'[q] = allocator[q] /\ running'[q] = running[q]
                                      /\ routingAPI'[q] = routingAPI[q]
            /\ routingAPI'[p] = IF k = "routing-api" THEN first ELSE routingAPI[p]
        <4>1. /\ routingAPI' \in [Procs -> Nat]
              /\ \A q \in Procs \ {p} : routingAPI'[q] = routingAPI[q]
              /\ routingAPI'[p] = IF k = "routing-api" THEN first ELSE routingAPI[p]
          BY <3>3, <3>4
        <4>2. /\ allocator'[p].nextPort = first + ClaimSize(k)
              /\ \A q \in Procs \ {p} : allocator'[q] = allocator[q]
          BY <3>1, <3>2
        <4>3. /\ \A c \in running'[p] : c \in running[p] \/ (c.kind = k /\ c.first = first)
              /\ \A q \in Procs \ {p} : running'[q] = running[q]
          BY <3>1
        <4> QED BY <4>1, <4>2, <4>3
      <3>6. LatestRoutingAPI(p)'
        <4>1. LatestRoutingAPI(p) /\ routingAPI[p] \in Nat
          BY DEF RoutingInv
        <4>2. \A c \in running[p] : c.kind \in Claimants => c.first + ClaimSize(c.kind) <= first
          BY DEF SpecsInv, ClaimsApart, first
        <4>3. routingAPI[p] # 0 => StartPort(p) <= routingAPI[p] /\ routingAPI[p] < first
          BY <4>1 DEF LatestRoutingAPI, first
        <4>4. routingAPI'[p] # 0 =>
                StartPort(p) <= routingAPI'[p] /\ routingAPI'[p] < allocator'[p].nextPort
          BY <3>4, <3>5, <4>1, <4>3
        <4>5. ASSUME NEW c \in running'[p], c.kind \in Claimants \ {"routing-api"}
              PROVE  routingAPI'[p] < c.first \/ c.first + ClaimSize(c.kind) <= routingAPI'[p]
          <5>1. CASE c \in running[p] /\ k = "routing-api"
            BY <3>5, <4>2, <4>5, <5>1
          <5>2. CASE c \in running[p] /\ k # "routing-api"
            BY <3>5, <4>1, <4>5, <5>2 DEF LatestRoutingAPI
          <5>3. CASE c.kind = k /\ c.first = first
            BY <3>4, <3>5, <4>1, <4>3, <4>5, <5>3
          <5> QED BY <3>5, <5>1, <5>2, <5>3
        <4> QED BY <4>4, <4>5 DEF LatestRoutingAPI
      <3>7. \A q \in Procs \ {p} : LatestRoutingAPI(q)'
        BY <3>5 DEF RoutingInv, LatestRoutingAPI
      <3> QED BY <3>5, <3>6, <3>7 DEF RoutingInv
    <2>4. ASSUME NEW p \in Procs, NEW scenario \in Scenarios, BeginSpec(p, scenario),
                 UNCHANGED <<version, emitterVars>>
          PROVE  RoutingInv'
      BY <2>1, <2>4 DEF BeginSpec, emitterVars
    <2>5. ASSUME NEW p \in Procs, ClaimRefused(p), UNCHANGED <<version, emitterVars>>
          PROVE  RoutingInv'
      BY <2>1, <2>5 DEF ClaimRefused, emitterVars
    <2>6. ASSUME NEW p \in Procs, AppendCellConfig(p) \/ RouteEmitterN(p)
          PROVE  RoutingInv'
      BY <2>1, <2>6 DEF AppendCellConfig, RouteEmitterN, AtEmitterStep, vars
    <2>7. ASSUME NEW p \in Procs, WEndSpec(p)
          PROVE  RoutingInv'
      BY <2>1, <2>7 DEF WEndSpec, EndSpec, IInv, TypeOK
    <2>8. CASE UNCHANGED wvars
      BY <2>1, <2>8 DEF wvars, vars, emitterVars
    <2> QED BY <2>2, <2>3, <2>4, <2>5, <2>6, <2>7, <2>8 DEF WNext
  <1> QED BY <1>1, <1>2, WiringRefinesWorld, WorldInductive, SpecsInductive, PTL DEF WSpec

\* The types of Wiring, and World's, in a supported run.
THEOREM WiringTypeCorrect == SupportedRun /\ CompatibleScenarios => (WSpec => []WTypeOK)
  <1> SUFFICES ASSUME SupportedRun, CompatibleScenarios PROVE WSpec => []WTypeOK
    OBVIOUS
  <1>1. IInv /\ WIInv /\ RoutingInv => WTypeOK
    <2> SUFFICES ASSUME IInv, WIInv, RoutingInv PROVE WTypeOK
      OBVIOUS
    <2>1. TypeOK /\ version \in Versions /\ routingAPI \in [Procs -> Nat]
      BY DEF IInv, WIInv, WShape, RoutingInv
    <2>2. \A p \in Procs : configs[p].len \in 0 .. configs[p].cap
      BY DEF WIInv, SliceInv
    <2>3. /\ spare \in [Procs -> {Nobody, "cell-a", "cell-b"}] /\ position \in [Procs -> 1 .. 5]
          /\ \A p \in Procs : \A e \in emitters[p] :
               e.cell \in {"cell-a", "cell-b"} /\ e.tcp \in {0, routingAPI[p]}
      BY DEF WIInv, WShape, EmitterInv
    <2>4. Len(EmitterSteps) + 1 = 5
      BY Steps
    <2> QED BY <2>1, <2>2, <2>3, <2>4, SMTT(30) DEF WTypeOK
  <1> QED BY <1>1, WiringRefinesWorld, WorldInductive, EmittersInductive, RoutingInductive, PTL

-----------------------------------------------------------------------------
\* Each address of process p that is given out belongs to one kind, and goes
\* with the protocol that kind speaks.
LEMMA DialFields ==
  ASSUME WIInv, NEW p \in Procs
  PROVE  /\ BBSURL(p).kind = "bbs" /\ BBSURL(p).port = 20500 + p * 2
         /\ LocketClientConfig(p).kind = "locket" /\ LocketClientConfig(p).port = 26500 + p
         /\ GardenAddr(p).kind = "garden" /\ GardenAddr(p).port = 10000 + p
         /\ NATSAddresses(p).kind = "nats" /\ NATSAddresses(p).port = 11000 + p
         /\ \A d \in {BBSURL(p), LocketClientConfig(p), GardenAddr(p), NATSAddresses(p)} :
              d.tls = ServesTLS(d.kind)
  <1>1. /\ Addresses[p].BBS = 20500 + p * 2 /\ Addresses[p].Locket = 26500 + p
        /\ Addresses[p].Garden = 10000 + p /\ Addresses[p].NATS = 11000 + p
    BY DEF Addresses
  <1>2. /\ BBSURL(p).kind = "bbs" /\ BBSURL(p).port = Addresses[p].BBS
        /\ LocketClientConfig(p).kind = "locket"
        /\ LocketClientConfig(p).port = Addresses[p].Locket
        /\ GardenAddr(p).kind = "garden" /\ GardenAddr(p).port = Addresses[p].Garden
        /\ NATSAddresses(p).kind = "nats" /\ NATSAddresses(p).port = Addresses[p].NATS
    BY DEF BBSURL, LocketClientConfig, GardenAddr, NATSAddresses, Dial
  <1>3. /\ BBSURL(p).tls = TRUE /\ LocketClientConfig(p).tls = TRUE
        /\ GardenAddr(p).tls = FALSE /\ NATSAddresses(p).tls = FALSE
    BY DEF BBSURL, LocketClientConfig, GardenAddr, NATSAddresses, Dial
  <1>4. /\ ServesTLS(BBSURL(p).kind) = TRUE /\ ServesTLS(LocketClientConfig(p).kind) = TRUE
        /\ ServesTLS(GardenAddr(p).kind) = FALSE /\ ServesTLS(NATSAddresses(p).kind) = FALSE
    BY <1>2 DEF ServesTLS
  <1>5. /\ BBSURL(p).tls = ServesTLS(BBSURL(p).kind)
        /\ LocketClientConfig(p).tls = ServesTLS(LocketClientConfig(p).kind)
        /\ GardenAddr(p).tls = ServesTLS(GardenAddr(p).kind)
        /\ NATSAddresses(p).tls = ServesTLS(NATSAddresses(p).kind)
    BY <1>3, <1>4
  <1> QED BY <1>1, <1>2, <1>5

\* What the components and the clients of process p are given to dial: an
\* address of p with the protocol spoken there, or the latest routing API.
LEMMA DialsByKind ==
  ASSUME WIInv, NEW p \in Procs, NEW d \in DialsOf(p)
  PROVE  /\ d.tls = ServesTLS(d.kind)
         /\ \/ d.kind = "bbs" /\ d.port = 20500 + p * 2
            \/ d.kind = "locket" /\ d.port = 26500 + p
            \/ d.kind = "garden" /\ d.port = 10000 + p
            \/ d.kind = "nats" /\ d.port = 11000 + p
            \/ d.kind = "auctioneer" /\ d.port = 23000 + p
            \/ d.kind = "local-driver" /\ d.port = 25500 + p
            \/ d.kind = "routing-api" /\ d.port = routingAPI[p] /\ routingAPI[p] # 0
  <1> DEFINE common == {BBSURL(p), LocketClientConfig(p), GardenAddr(p), NATSAddresses(p)}
             driver == Dial("local-driver", Addresses[p].FakeVolmanDriver, FALSE)
             plain == Dial("auctioneer", Addresses[p].Auctioneer, FALSE)
             secured == Dial("auctioneer", Addresses[p].Auctioneer, TRUE)
             routing == Dial("routing-api", routingAPI[p], FALSE)
  <1>1. version \in {"v0", "v1"}
    BY WiringAssumption DEF WIInv, WShape
  <1>2. d \in ClientDials(p) => d \in common \/ d = driver
    BY DEF ClientDials
  <1>3. ASSUME NEW c \in running[p], d \in Dials(p, c.kind)
        PROVE  d \in common \/ (d = plain /\ version # "v1") \/ (d = secured /\ version = "v1")
    <2>1. CASE version = "v0"
      BY <1>3, <2>1
      DEF Dials, V0BBSDials, V0AuctioneerDials, V0RepDials, RouterDials, SSHProxyDials,
          RoutingAPIDials
    <2>2. CASE version = "v1"
      BY <1>3, <2>2
      DEF Dials, BBSDials, AuctioneerDials, RepDials, RouterDials, SSHProxyDials, RoutingAPIDials
    <2> QED BY <1>1, <2>1, <2>2
  <1>4. ASSUME NEW e \in emitters[p], d \in EmitterDials(p, e)
        PROVE  d \in common \/ (d = routing /\ routingAPI[p] # 0)
    BY <1>4 DEF EmitterDials, TCPDials, WIInv, EmitterInv
  <1>5. CASE d \in common
    BY <1>5, DialFields
  <1>6. CASE d = driver
    <2>1. d.kind = "local-driver" /\ d.port = 25500 + p
      BY <1>6 DEF Dial, Addresses
    <2>2. d.tls = FALSE
      BY <1>6 DEF Dial
    <2>3. ServesTLS(d.kind) = FALSE
      BY <2>1 DEF ServesTLS
    <2>4. d.tls = ServesTLS(d.kind)
      BY <2>2, <2>3
    <2> QED BY <2>1, <2>4
  <1>7. CASE d = routing /\ routingAPI[p] # 0
    <2>1. d.kind = "routing-api" /\ d.port = routingAPI[p]
      BY <1>7 DEF Dial
    <2>2. d.tls = FALSE
      BY <1>7 DEF Dial
    <2>3. ServesTLS(d.kind) = FALSE
      BY <2>1 DEF ServesTLS
    <2>4. d.tls = ServesTLS(d.kind)
      BY <2>2, <2>3
    <2>5. routingAPI[p] # 0
      BY <1>7
    <2> QED BY <2>1, <2>4, <2>5
  <1>8. CASE d = plain /\ version # "v1"
    <2>1. d.kind = "auctioneer" /\ d.port = 23000 + p
      BY <1>8 DEF Dial, Addresses
    <2>2. d.tls = FALSE
      BY <1>8 DEF Dial
    <2>3. ServesTLS(d.kind) = FALSE
      <3>1. version # "v1"
        BY <1>8
      <3> QED BY <2>1, <3>1 DEF ServesTLS
    <2>4. d.tls = ServesTLS(d.kind)
      BY <2>2, <2>3
    <2> QED BY <2>1, <2>4
  <1>9. CASE d = secured /\ version = "v1"
    <2>1. d.kind = "auctioneer" /\ d.port = 23000 + p
      BY <1>9 DEF Dial, Addresses
    <2>2. d.tls = TRUE
      BY <1>9 DEF Dial
    <2>3. ServesTLS(d.kind) = TRUE
      <3>1. version = "v1"
        BY <1>9
      <3> QED BY <2>1, <3>1 DEF ServesTLS
    <2>4. d.tls = ServesTLS(d.kind)
      BY <2>2, <2>3
    <2> QED BY <2>1, <2>4
  <1> HIDE DEF common, driver, plain, secured, routing
  <1>10. \/ d \in common \/ d = driver \/ (d = routing /\ routingAPI[p] # 0)
        \/ (d = plain /\ version # "v1") \/ (d = secured /\ version = "v1")
    <2>1. \/ d \in ClientDials(p)
          \/ \E c \in running[p] : d \in Dials(p, c.kind)
          \/ \E e \in emitters[p] : d \in EmitterDials(p, e)
      BY DEF DialsOf
    <2> QED BY <1>2, <1>3, <1>4, <2>1
  <1> QED BY <1>5, <1>6, <1>7, <1>8, <1>9, <1>10

\* Whatever answers at an address that a component was given is the component
\* meant, of the same process, and speaks the protocol expected.
THEOREM DialsAreSafe == SupportedRun /\ CompatibleScenarios => (WSpec => []DialsReachTheirOwn)
  <1> SUFFICES ASSUME SupportedRun, CompatibleScenarios PROVE WSpec => []DialsReachTheirOwn
    OBVIOUS
  <1>1. IInv /\ SpecsInv /\ WIInv /\ RoutingInv => DialsReachTheirOwn
    <2> SUFFICES ASSUME IInv, SpecsInv, WIInv, RoutingInv,
                        NEW q \in Procs, NEW c \in running[q],
                        NEW p \in Procs, NEW d \in DialsOf(p), d.port \in PortsUsed(q, c)
                 PROVE  q = p /\ c.kind = d.kind /\ ServesTLS(c.kind) = d.tls
      BY DEF DialsReachTheirOwn
    <2>1. /\ p \in 1 .. 9 /\ PortRange \in Nat /\ PortRange <= 998
      BY WorldAssumption DEF SupportedRun
    <2>2. /\ routingAPI[p] \in Nat /\ LatestRoutingAPI(p)
          /\ allocator[p].nextPort \in StartPort(p) .. (EndPort(p) + 1)
      BY DEF RoutingInv, IInv, TypeOK
    <2>3. routingAPI[p] # 0 =>
            routingAPI[p] \in StartPort(p) .. (EndPort(p) + 1) /\ routingAPI[p] < 10000
      BY <2>1, <2>2 DEF LatestRoutingAPI, StartPort, EndPort
    <2>4. d.port \in Zone(p)
      <3>1. \/ d.port \in {20500 + p * 2, 26500 + p, 10000 + p, 11000 + p, 23000 + p, 25500 + p}
            \/ d.port = routingAPI[p] /\ routingAPI[p] # 0
        BY DialsByKind
      <3> QED BY <2>3, <3>1 DEF Zone
    <2>5. q = p
      BY <2>4, PortsInZone, ZonesDisjoint
    <2>6. c.kind = d.kind
      <3>1. CASE d.port = routingAPI[p] /\ routingAPI[p] # 0 /\ d.kind = "routing-api"
        <4>1. /\ c.kind \in Claimants
              /\ c.first <= routingAPI[p]
              /\ \/ routingAPI[p] < c.first + ClaimSize(c.kind)
                 \/ c.kind = "routing-api"
          BY <2>1, <2>3, <2>5, <3>1, PortsByKind
        <4>2. c.first \in Nat /\ ClaimSize(c.kind) \in 1 .. 10
          BY <4>1, ClaimsPositive
        <4>3. c.kind # "routing-api" =>
                routingAPI[p] < c.first \/ c.first + ClaimSize(c.kind) <= routingAPI[p]
          BY <2>2, <2>5, <4>1 DEF LatestRoutingAPI
        <4> QED BY <2>2, <3>1, <4>1, <4>2, <4>3
      <3>2. CASE \/ d.kind = "bbs" /\ d.port = 20500 + p * 2
                 \/ d.kind = "locket" /\ d.port = 26500 + p
                 \/ d.kind = "garden" /\ d.port = 10000 + p
                 \/ d.kind = "nats" /\ d.port = 11000 + p
                 \/ d.kind = "auctioneer" /\ d.port = 23000 + p
                 \/ d.kind = "local-driver" /\ d.port = 25500 + p
        <4> DEFINE x == d.port
        <4>1. x \in PortsUsed(p, c) /\ c \in running[p]
          BY <2>5
        <4>2. x >= 10000
          BY <2>1, <3>2
        <4> HIDE DEF x
        <4>3. \/ c.kind = "garden" /\ x = 10000 + p
              \/ c.kind = "nats" /\ x = 11000 + p
              \/ c.kind = "locket" /\ x = 26500 + p
              \/ c.kind = "bbs" /\ x \in {20500 + p * 2, 20500 + p * 2 + 1}
              \/ c.kind = "auctioneer" /\ x = 23000 + p
              \/ c.kind = "local-driver" /\ x = 25500 + p
              \/ x \in {17000 + p, 18000 + p, 18100 + p, 18200 + p, 18300 + p, 23500 + p,
                        24500 + p, 14000 + p, 14100 + p, 14010 + p, 14110 + p, 14120 + p}
          BY <2>1, <4>1, <4>2, PortsByKind
        <4> QED BY <2>1, <3>2, <4>3 DEF x
      <3> QED BY <3>1, <3>2, DialsByKind
    <2>7. ServesTLS(c.kind) = d.tls
      BY <2>6, DialsByKind
    <2> QED BY <2>5, <2>6, <2>7
  <1> QED BY <1>1, WiringRefinesWorld, WorldInductive, SpecsInductive, EmittersInductive,
             RoutingInductive, PTL
=============================================================================
