------------------------ MODULE PortAuthorityProofs ------------------------
(***************************************************************************)
(* Proofs about PortAuthority for every width of the port numbers, every   *)
(* set of arguments that satisfies SafeArguments and any number of claims. *)
(***************************************************************************)
EXTENDS PortAuthority, FiniteSetTheorems, TLAPS

\* The conversion to uint16 keeps a number that is already a port.
LEMMA U16Port ==
  ASSUME NEW x \in Port
  PROVE  U16(x) = x
  BY MaxPortAssumption DEF U16, Port

\* The conversion to uint16 yields a port whatever its argument.
LEMMA U16Type ==
  ASSUME NEW x \in Int
  PROVE  U16(x) \in Port
  BY MaxPortAssumption DEF U16, Port

\* With safe arguments the uint16 sums of ClaimPorts are the sums of the
\* integers: neither the check nor the new cursor wraps.
LEMMA NoWrap ==
  ASSUME SafeArguments, IInv, range.set, NEW n \in ClaimSizes
  PROVE  /\ n \in Nat /\ n >= 1
         /\ allocator.nextPort \in Port
         /\ allocator.endingPort = range.ending
         /\ range.ending \in Nat
         /\ range.starting \in Nat
         /\ Insufficient(allocator, n) <=> range.ending < allocator.nextPort + n - 1
         /\ Claimed(allocator, n)
              = [nextPort |-> U16(allocator.nextPort + n), endingPort |-> range.ending]
         /\ ~Insufficient(allocator, n) => U16(allocator.nextPort + n) = allocator.nextPort + n
  <1>1. /\ n \in Nat /\ n >= 1
        /\ range.ending + n <= MaxPort
        /\ range.starting <= range.ending + 1
    BY ArgumentsAssumption DEF SafeArguments, IInv, CursorInRange
  <1>2. /\ allocator \in Allocator
        /\ allocator.nextPort \in Port
        /\ allocator.endingPort = range.ending
        /\ allocator.nextPort <= range.ending + 1
        /\ range.ending \in Nat /\ range.starting \in Nat
    BY DEF IInv, TypeOK, CursorInRange, Allocator
  <1>3. n - 1 \in Port /\ n \in Port /\ allocator.nextPort + n - 1 \in Port
    BY <1>1, <1>2, MaxPortAssumption DEF Port
  <1>4. U16(n - 1) = n - 1 /\ U16(n) = n
    BY <1>3, U16Port
  <1>5. U16(allocator.nextPort + (n - 1)) = allocator.nextPort + n - 1
    <2>1. allocator.nextPort + (n - 1) = allocator.nextPort + n - 1
      BY <1>1, <1>2 DEF Port
    <2> QED BY <2>1, <1>3, U16Port
  <1>6. ASSUME ~(range.ending < allocator.nextPort + n - 1)
        PROVE  U16(allocator.nextPort + n) = allocator.nextPort + n
    <2>1. allocator.nextPort + n \in Port
      BY <1>1, <1>2, <1>6, MaxPortAssumption DEF Port
    <2> QED BY <2>1, U16Port
  <1>7. Claimed(allocator, n)
          = [nextPort |-> U16(allocator.nextPort + n), endingPort |-> range.ending]
    BY <1>2, <1>4 DEF Claimed, Allocator
  <1> QED BY <1>1, <1>2, <1>4, <1>5, <1>6, <1>7 DEF Insufficient

\* The fields of a portAllocator stay uint16 values whatever the arguments,
\* even those for which the sums wrap.
THEOREM TypeCorrect == Spec => []TypeOK
  <1>1. Init => TypeOK
    BY MaxPortAssumption DEF Init, TypeOK, Nil, NoRange, Allocator, Port, Claim
  <1>2. TypeOK /\ [Next]_vars => TypeOK'
    <2> SUFFICES ASSUME TypeOK, [Next]_vars PROVE TypeOK'
      OBVIOUS
    <2>1. ASSUME NEW s \in StartingPorts, NEW e \in EndingPorts, NewAllocator(s, e)
          PROVE  TypeOK'
      <3>1. s \in Nat /\ e \in Nat
        BY ArgumentsAssumption
      <3>2. New(s, e) \in Allocator
        BY <3>1, U16Type DEF New, Allocator
      <3> QED BY <2>1, <3>1, <3>2 DEF NewAllocator, TypeOK
    <2>2. ASSUME NEW n \in ClaimSizes, ClaimPorts(n)
          PROVE  TypeOK'
      <3>1. n \in Nat
        BY ArgumentsAssumption
      <3>2. allocator.nextPort \in Int
        BY DEF TypeOK, Allocator, Port
      <3>3. U16(n) \in Int
        BY <3>1, U16Type DEF Port
      <3>4. Claimed(allocator, n) \in Allocator
        BY <3>2, <3>3, U16Type DEF Claimed, TypeOK, Allocator
      <3>5. [first |-> allocator.nextPort, num |-> n] \in Claim
        BY <3>1 DEF TypeOK, Allocator, Claim
      <3> QED BY <2>2, <3>1, <3>4, <3>5, SMTT(30) DEF ClaimPorts, TypeOK
    <2>3. CASE UNCHANGED vars
      BY <2>3 DEF vars, TypeOK
    <2> QED BY <2>1, <2>2, <2>3 DEF Next
  <1> QED BY <1>1, <1>2, PTL DEF Spec

\* IInv is inductive: claims are appended at the cursor, which then moves just
\* past them.
THEOREM Inductive == SafeArguments => (Spec => []IInv)
  <1> SUFFICES ASSUME SafeArguments PROVE Spec => []IInv
    OBVIOUS
  <1>1. Init => IInv
    <2> SUFFICES ASSUME Init PROVE IInv
      OBVIOUS
    <2>1. TypeOK
      BY MaxPortAssumption DEF Init, TypeOK, Nil, NoRange, Allocator, Port, Claim
    <2> QED BY <2>1 DEF Init, IInv, CursorInRange, ClaimsBehindCursor,
                        ClaimsInOrder, ClaimsTile, NoRange
  <1>2. IInv /\ TypeOK' /\ [Next]_vars => IInv'
    <2> SUFFICES ASSUME IInv, TypeOK', [Next]_vars PROVE IInv'
      OBVIOUS
    <2>1. ASSUME NEW s \in StartingPorts, NEW e \in EndingPorts, NewAllocator(s, e)
          PROVE  IInv'
      <3>1. s \in Nat /\ e \in Nat /\ e < MaxPort /\ s <= e + 1
        BY <2>1, ArgumentsAssumption, MaxPortAssumption
        DEF NewAllocator, NewRefuses, SafeArguments
      <3>2. claims = << >>
        <4>1. claims \in Seq(Claim) /\ ~range.set
          BY <2>1 DEF NewAllocator, IInv, TypeOK
        <4>2. Len(claims) = 0
          <5>1. 1 \notin 1 .. Len(claims)
            BY <4>1 DEF IInv, ClaimsBehindCursor
          <5> QED BY <4>1, <5>1
        <4> QED BY <4>1, <4>2
      <3>3. CASE s <= MaxPort
        <4>1. New(s, e) = [nextPort |-> s, endingPort |-> e]
          BY <3>1, <3>3, U16Port, MaxPortAssumption DEF New, Port
        <4>2. CursorInRange'
          BY <2>1, <3>1, <4>1 DEF NewAllocator, CursorInRange
        <4>3. ClaimsBehindCursor' /\ ClaimsInOrder'
          BY <2>1, <3>2 DEF NewAllocator, ClaimsBehindCursor, ClaimsInOrder
        <4>4. ClaimsTile'
          BY <2>1, <3>1, <3>2, <4>1
          DEF NewAllocator, ClaimsTile, ClaimedPorts
        <4> QED BY <4>2, <4>3, <4>4 DEF IInv
      <3>4. s <= MaxPort
        BY <3>1, MaxPortAssumption
      <3> QED BY <3>3, <3>4
    <2>2. ASSUME NEW n \in ClaimSizes, ClaimPorts(n)
          PROVE  IInv'
      <3>1. CASE Insufficient(allocator, n)
        BY <2>2, <3>1
        DEF ClaimPorts, IInv, CursorInRange, ClaimsBehindCursor, ClaimsInOrder,
            ClaimsTile, ClaimedPorts
      <3>2. CASE ~Insufficient(allocator, n)
        <4> DEFINE c == [first |-> allocator.nextPort, num |-> n]
        <4>1. /\ range.set /\ range' = range
              /\ claims \in Seq(Claim)
              /\ claims' = Append(claims, c)
              /\ allocator' = Claimed(allocator, n)
          BY <2>2, <3>2 DEF ClaimPorts, IInv, TypeOK
        <4>2. /\ n \in Nat /\ n >= 1
              /\ allocator.nextPort \in Nat
              /\ range.starting \in Nat /\ range.ending \in Nat
              /\ allocator.nextPort + n - 1 <= range.ending
              /\ range.starting <= allocator.nextPort
              /\ allocator' = [nextPort |-> allocator.nextPort + n,
                               endingPort |-> range.ending]
          BY <4>1, <3>2, NoWrap DEF Port, IInv, CursorInRange
        <4>3. CursorInRange'
          BY <4>1, <4>2 DEF IInv, CursorInRange
        <4>4. /\ Len(claims') = Len(claims) + 1
              /\ claims'[Len(claims) + 1] = c
              /\ \A i \in 1 .. Len(claims) : claims'[i] = claims[i]
              /\ Len(claims) \in Nat
          BY <4>1
        <4>5. \A i \in 1 .. Len(claims) : claims[i] \in Claim
          BY <4>1
        <4>6. ClaimsBehindCursor'
          <5> SUFFICES ASSUME NEW i \in 1 .. (Len(claims) + 1)
                       PROVE  /\ claims'[i].num \in ClaimSizes
                              /\ range.starting <= claims'[i].first
                              /\ claims'[i].first + claims'[i].num <= allocator.nextPort + n
            BY <4>1, <4>2, <4>4 DEF ClaimsBehindCursor
          <5>1. CASE i = Len(claims) + 1
            <6>1. claims'[i].first = allocator.nextPort /\ claims'[i].num = n
              BY <5>1, <4>4
            <6> QED BY <6>1, <4>2
          <5>2. CASE i \in 1 .. Len(claims)
            <6>1. /\ claims'[i] = claims[i]
                  /\ claims[i].first \in Nat /\ claims[i].num \in Nat
              BY <4>4, <4>5, <5>2 DEF Claim, Port
            <6>2. /\ claims[i].num \in ClaimSizes
                  /\ range.starting <= claims[i].first
                  /\ claims[i].first + claims[i].num <= allocator.nextPort
              BY <5>2 DEF IInv, ClaimsBehindCursor
            <6> QED BY <4>2, <6>1, <6>2, SMTT(30)
          <5> QED BY <5>1, <5>2, <4>4
        <4>7. ClaimsInOrder'
          <5> SUFFICES ASSUME NEW i \in 1 .. (Len(claims) + 1),
                              NEW j \in 1 .. (Len(claims) + 1), i < j
                       PROVE  claims'[i].first + claims'[i].num <= claims'[j].first
            BY <4>4 DEF ClaimsInOrder
          <5>1. i \in 1 .. Len(claims) /\ claims'[i] = claims[i]
            BY <4>4
          <5>2. CASE j = Len(claims) + 1
            BY <5>1, <5>2, <4>2, <4>4 DEF IInv, ClaimsBehindCursor
          <5>3. CASE j \in 1 .. Len(claims)
            BY <5>1, <5>3, <4>4 DEF IInv, ClaimsInOrder
          <5> QED BY <5>2, <5>3, <4>4
        <4>8. ClaimsTile'
          <5>1. ClaimedPorts' = ClaimedPorts \cup Block(allocator.nextPort, n)
            BY <4>4 DEF ClaimedPorts, PortsOf
          <5>2. ClaimedPorts = range.starting .. (allocator.nextPort - 1)
            BY <4>1 DEF IInv, ClaimsTile
          <5> QED BY <4>1, <4>2, <5>1, <5>2 DEF ClaimsTile, Block
        <4> QED BY <4>3, <4>6, <4>7, <4>8 DEF IInv
      <3> QED BY <3>1, <3>2
    <2>3. CASE UNCHANGED vars
      BY <2>3 DEF vars, IInv, TypeOK, CursorInRange, ClaimsBehindCursor,
                  ClaimsInOrder, ClaimsTile, ClaimedPorts
    <2> QED BY <2>1, <2>2, <2>3 DEF Next
  <1> QED BY <1>1, <1>2, TypeCorrect, PTL DEF Spec

\* No port is handed out twice ("the next numPorts-1 ports ... are yours to
\* use"), however many claims are made.
THEOREM Disjointness == SafeArguments => (Spec => []ClaimsDisjoint)
  <1> SUFFICES ASSUME SafeArguments PROVE Spec => []ClaimsDisjoint
    OBVIOUS
  <1>1. IInv => ClaimsDisjoint
    <2> SUFFICES ASSUME IInv, NEW i \in 1 .. Len(claims), NEW j \in 1 .. Len(claims), i < j
                 PROVE  PortsOf(claims[i]) \cap PortsOf(claims[j]) = {}
      BY DEF ClaimsDisjoint
    <2>1. claims[i].first + claims[i].num <= claims[j].first
      BY DEF IInv, ClaimsInOrder
    <2>2. claims[i] \in Claim /\ claims[j] \in Claim
      BY DEF IInv, TypeOK
    <2> QED BY <2>1, <2>2 DEF PortsOf, Block, Claim, Port
  <1> QED BY <1>1, Inductive, PTL

\* Every claimed port lies between startingPort and endingPort ("endingPort
\* indicates the maximum port number that this allocator may assign").
THEOREM Containment == SafeArguments => (Spec => []ClaimsInRange)
  <1> SUFFICES ASSUME SafeArguments PROVE Spec => []ClaimsInRange
    OBVIOUS
  <1>1. IInv => ClaimsInRange
    <2> SUFFICES ASSUME IInv, NEW i \in 1 .. Len(claims)
                 PROVE  PortsOf(claims[i]) \subseteq range.starting .. range.ending
      BY DEF ClaimsInRange
    <2>1. /\ range.set
          /\ range.starting <= claims[i].first
          /\ claims[i].first + claims[i].num <= allocator.nextPort
      BY DEF IInv, ClaimsBehindCursor
    <2>2. /\ allocator.nextPort <= range.ending + 1
          /\ allocator.nextPort \in Nat
          /\ range.starting \in Nat /\ range.ending \in Nat
      BY <2>1 DEF IInv, TypeOK, CursorInRange, Allocator, Port
    <2>3. claims[i] \in Claim
      BY DEF IInv, TypeOK
    <2>4. claims[i].first \in Nat /\ claims[i].num \in Nat
      BY <2>3 DEF Claim, Port
    <2>5. PortsOf(claims[i]) = claims[i].first .. (claims[i].first + claims[i].num - 1)
      BY DEF PortsOf, Block
    <2>6. ASSUME NEW p \in PortsOf(claims[i])
          PROVE  p \in range.starting .. range.ending
      <3>1. p \in Int /\ claims[i].first <= p /\ p < claims[i].first + claims[i].num
        BY <2>4, <2>5, <2>6
      <3>2. p < allocator.nextPort
        BY <2>1, <2>2, <2>4, <3>1
      <3> QED BY <2>1, <2>2, <2>4, <3>1, <3>2
    <2> QED BY <2>6
  <1> QED BY <1>1, Inductive, PTL

\* No port of the range is lost: it has been claimed or can still be.
THEOREM Conservation == SafeArguments => (Spec => []NothingLost)
  <1> SUFFICES ASSUME SafeArguments PROVE Spec => []NothingLost
    OBVIOUS
  <1>1. IInv => NothingLost
    <2> SUFFICES ASSUME IInv, range.set
                 PROVE  (range.starting .. range.ending)
                          = ClaimedPorts \cup (allocator.nextPort .. allocator.endingPort)
      BY DEF NothingLost
    <2>1. ClaimedPorts = range.starting .. (allocator.nextPort - 1)
      BY DEF IInv, ClaimsTile
    <2>2. /\ range.starting <= allocator.nextPort
          /\ allocator.nextPort <= range.ending + 1
          /\ allocator.endingPort = range.ending
          /\ allocator.nextPort \in Nat
          /\ range.starting \in Nat /\ range.ending \in Nat
      BY DEF IInv, TypeOK, CursorInRange, Allocator, Port
    <2> QED BY <2>1, <2>2
  <1> QED BY <1>1, Inductive, PTL

\* ClaimPorts "returns a non-nil error if there are not enough ports in the
\* range compared to the number requested", and only then.
THEOREM Refusal == SafeArguments => (Spec => ErrorIffShort)
  <1> SUFFICES ASSUME SafeArguments PROVE Spec => ErrorIffShort
    OBVIOUS
  <1> DEFINE Rest == (range.starting .. range.ending) \ ClaimedPorts
  <1>1. ASSUME IInv, NEW n \in ClaimSizes, ClaimPorts(n)
        PROVE  (refused' # 0) <=> Cardinality(Rest) < n
    <2>1. range.set
      BY <1>1 DEF ClaimPorts
    <2>2. /\ n \in Nat /\ n >= 1
          /\ allocator.nextPort \in Nat
          /\ range.starting \in Nat /\ range.ending \in Nat
          /\ Insufficient(allocator, n) <=> range.ending < allocator.nextPort + n - 1
      BY <1>1, <2>1, NoWrap DEF Port
    <2>3. /\ range.starting <= allocator.nextPort
          /\ allocator.nextPort <= range.ending + 1
          /\ ClaimedPorts = range.starting .. (allocator.nextPort - 1)
      BY <1>1, <2>1 DEF IInv, CursorInRange, ClaimsTile
    <2>4. Rest = allocator.nextPort .. range.ending
      BY <2>2, <2>3
    <2>5. Cardinality(allocator.nextPort .. range.ending)
            = IF allocator.nextPort > range.ending THEN 0
              ELSE range.ending - allocator.nextPort + 1
      <3>1. allocator.nextPort \in Int /\ range.ending \in Int
        BY <2>2
      <3> QED BY <3>1, FS_Interval
    <2>6. Insufficient(allocator, n) <=> Cardinality(Rest) < n
      <3> HIDE DEF Rest
      <3> QED BY <2>2, <2>3, <2>4, <2>5
    <2>7. (refused' # 0) <=> Insufficient(allocator, n)
      BY <1>1, <2>2 DEF ClaimPorts
    <2> QED BY <2>6, <2>7
  <1>2. IInv /\ [Next]_vars
          => [\A n \in ClaimSizes :
                ClaimPorts(n) => ((refused' # 0) <=> Cardinality(Rest) < n)]_vars
    BY <1>1
  <1> QED BY <1>2, Inductive, PTL DEF Spec, ErrorIffShort

\* The allocator implements the pool its comments describe: New opens it, a
\* successful ClaimPorts takes a block of consecutive free ports, and nothing
\* is ever put back.
THEOREM Refinement == SafeArguments => (Spec => ImplementsPool)
  <1> SUFFICES ASSUME SafeArguments PROVE Spec => ImplementsPool
    OBVIOUS
  <1> DEFINE Free == IF range.set THEN allocator.nextPort .. allocator.endingPort ELSE {}
             Granted == {PortsOf(claims[i]) : i \in 1 .. Len(claims)}
  <1>1. Init => Pool!Init
    BY DEF Init, NoRange, Pool!Init
  <1>2. IInv /\ IInv' /\ [Next]_vars => [Pool!Next]_(Pool!poolVars)
    <2> SUFFICES ASSUME IInv, IInv', [Next]_vars
                 PROVE  [Pool!Next]_(Pool!poolVars)
      OBVIOUS
    <2>1. ASSUME NEW s \in StartingPorts, NEW e \in EndingPorts, NewAllocator(s, e)
          PROVE  Pool!Open
      <3>1. ~range.set /\ range'.set /\ claims' = claims
        BY <2>1 DEF NewAllocator
      <3>2. allocator'.nextPort \in Port /\ allocator'.endingPort \in Port
        BY DEF IInv, TypeOK, Allocator
      <3>3. range.set = FALSE /\ range'.set = TRUE
        BY <3>1 DEF IInv, TypeOK
      <3> QED BY <3>1, <3>2, <3>3 DEF Pool!Open
    <2>2. ASSUME NEW n \in ClaimSizes, ClaimPorts(n)
          PROVE  Pool!Grant(n) \/ UNCHANGED Pool!poolVars
      <3>1. CASE Insufficient(allocator, n)
        BY <2>2, <3>1 DEF ClaimPorts, Pool!poolVars
      <3>2. CASE ~Insufficient(allocator, n)
        <4> DEFINE a == allocator.nextPort
                   block == a .. (a + n - 1)
        <4>1. /\ range.set /\ range' = range
              /\ claims \in Seq(Claim)
              /\ claims' = Append(claims, [first |-> a, num |-> n])
          BY <2>2, <3>2 DEF ClaimPorts, IInv, TypeOK
        <4>2. /\ n \in Nat /\ n >= 1
              /\ a \in Nat
              /\ range.ending \in Nat
              /\ allocator.endingPort = range.ending
              /\ a + n - 1 <= range.ending
              /\ allocator'.nextPort = a + n
              /\ allocator'.endingPort = range.ending
          BY <2>2, <4>1, <3>2, NoWrap DEF Port, ClaimPorts
        <4>3. Free = a .. range.ending /\ Free' = (a + n) .. range.ending
          BY <4>1, <4>2
        <4>4. a \in Free /\ block \subseteq Free /\ Free' = Free \ block
          <5> HIDE DEF Free
          <5> QED BY <4>2, <4>3
        <4>5. Granted' = Granted \cup {block}
          <5>1. /\ Len(claims') = Len(claims) + 1
                /\ claims'[Len(claims) + 1] = [first |-> a, num |-> n]
                /\ \A i \in 1 .. Len(claims) : claims'[i] = claims[i]
                /\ Len(claims) \in Nat
            BY <4>1
          <5>2. PortsOf(claims'[Len(claims) + 1]) = block
            BY <5>1 DEF PortsOf, Block
          <5>3. 1 .. (Len(claims) + 1) = (1 .. Len(claims)) \cup {Len(claims) + 1}
            BY <5>1
          <5> QED BY <5>1, <5>2, <5>3
        <4>6. UNCHANGED range.set
          BY <4>1
        <4> QED BY <4>1, <4>4, <4>5, <4>6 DEF Pool!Grant
      <3> QED BY <3>1, <3>2
    <2>3. CASE UNCHANGED vars
      BY <2>3 DEF vars, Pool!poolVars
    <2> QED BY <2>1, <2>2, <2>3 DEF Next, Pool!Next
  <1> QED BY <1>1, <1>2, Inductive, PTL DEF Spec, ImplementsPool, Pool!Spec
=============================================================================
