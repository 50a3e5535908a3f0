--------------------------- MODULE PortAuthority ---------------------------
(***************************************************************************)
(* One port allocator of helpers/portauthority and the test process that   *)
(* owns it: New once, then any sequence of ClaimPorts.  The allocator has  *)
(* no lock and no release; its callers run one after another.              *)
(***************************************************************************)
EXTENDS PortAllocator, Sequences, FiniteSets

CONSTANTS StartingPorts,   \* arguments New may be called with
          EndingPorts,
          ClaimSizes,      \* arguments ClaimPorts may be called with
          MaxClaims        \* bound on the successful claims of a behaviour

\* The arguments of New and ClaimPorts are never negative in the repository.
ASSUME ArgumentsAssumption ==
  /\ StartingPorts \subseteq Nat
  /\ EndingPorts \subseteq Nat
  /\ ClaimSizes \subseteq Nat
  /\ MaxClaims \in Nat

VARIABLES allocator,   \* the *portAllocator, or Nil before New succeeds
          range,       \* history: the range New was asked for
          claims,      \* history: the claims granted, in order
          refused      \* the outcome of the last ClaimPorts: the number of
                       \* ports it refused, or 0 when it granted them

vars == <<allocator, range, claims, refused>>

Nil == [nextPort |-> 0, endingPort |-> 0]
NoRange == [set |-> FALSE, starting |-> 0, ending |-> 0]

Claim == [first : Port, num : Nat]

Init ==
  /\ allocator = Nil
  /\ range = NoRange
  /\ claims = << >>
  /\ refused = 0

\* New returned an allocator.  (When it returns an error the caller's Expect
\* stops the suite, so nothing follows.)
NewAllocator(starting, ending) ==
  /\ ~range.set
  /\ ~NewRefuses(ending)
  /\ allocator' = New(starting, ending)
  /\ range' = [set |-> TRUE, starting |-> starting, ending |-> ending]
  /\ UNCHANGED <<claims, refused>>

ClaimPorts(numPorts) ==
  /\ range.set
  /\ Len(claims) < MaxClaims
  /\ IF Insufficient(allocator, numPorts)
     THEN /\ refused' = numPorts
          /\ UNCHANGED <<allocator, claims>>
     ELSE /\ claims' = Append(claims, [first |-> allocator.nextPort, num |-> numPorts])
          /\ allocator' = Claimed(allocator, numPorts)
          /\ refused' = 0
  /\ UNCHANGED range

Next ==
  \/ \E s \in StartingPorts, e \in EndingPorts : NewAllocator(s, e)
  \/ \E n \in ClaimSizes : ClaimPorts(n)

Spec == Init /\ [][Next]_vars

-----------------------------------------------------------------------------
\* Arguments for which no uint16 sum of New or ClaimPorts wraps: a range that
\* is not inverted, and MaxPort at least one claim above it.  Every call in
\* the repository is of this kind while its test process is numbered 1..64.
SafeArguments ==
  /\ \A n \in ClaimSizes : n >= 1
  /\ \A s \in StartingPorts, e \in EndingPorts :
       ~NewRefuses(e) =>
         /\ s <= e + 1
         /\ e < MaxPort
         /\ \A n \in ClaimSizes : e + n <= MaxPort

\* The types of the struct's fields and of the history.
TypeOK ==
  /\ allocator \in Allocator
  /\ range \in [set : BOOLEAN, starting : Nat, ending : Nat]
  /\ claims \in Seq(Claim)
  /\ refused \in Nat

PortsOf(c) == Block(c.first, c.num)

ClaimedPorts == UNION {PortsOf(claims[i]) : i \in 1 .. Len(claims)}

\* "ports sequentially after that are yours to use": no port is ever handed
\* to two claims of the same allocator.
ClaimsDisjoint ==
  \A i, j \in 1 .. Len(claims) :
    i < j => PortsOf(claims[i]) \cap PortsOf(claims[j]) = {}

\* "endingPort indicates the maximum port number that this allocator may
\* assign", and startingPort the first: claims stay inside the range.
ClaimsInRange ==
  \A i \in 1 .. Len(claims) :
    PortsOf(claims[i]) \subseteq range.starting .. range.ending

\* No port of the range is skipped: what has not been claimed is exactly what
\* the cursor still has in front of it.
NothingLost ==
  range.set =>
    (range.starting .. range.ending)
      = ClaimedPorts \cup (allocator.nextPort .. allocator.endingPort)

\* "returns a non-nil error if there are not enough ports in the range
\* compared to the number requested": the claim is refused when too few ports
\* remain, and (the refusal being the only other outcome) only then.
ErrorIffShort ==
  [][\A n \in ClaimSizes :
       ClaimPorts(n) =>
         ((refused' # 0) <=>
            Cardinality((range.starting .. range.ending) \ ClaimedPorts) < n)]_vars

\* The allocator is a pool from which blocks are only ever taken.
Pool == INSTANCE PortPool WITH
  Ports <- Port,
  Sizes <- ClaimSizes,
  open <- range.set,
  free <- IF range.set THEN allocator.nextPort .. allocator.endingPort ELSE {},
  granted <- {PortsOf(claims[i]) : i \in 1 .. Len(claims)}

ImplementsPool == Pool!Spec

-----------------------------------------------------------------------------
\* The inductive invariant behind the properties: the cursor lies inside the
\* range or just past its end, and the claims tile what lies behind it.
CursorInRange ==
  range.set =>
    /\ range.starting \in StartingPorts
    /\ range.ending \in EndingPorts
    /\ ~NewRefuses(range.ending)
    /\ allocator.endingPort = range.ending
    /\ range.starting <= allocator.nextPort
    /\ allocator.nextPort <= range.ending + 1

ClaimsBehindCursor ==
  \A i \in 1 .. Len(claims) :
    /\ range.set
    /\ claims[i].num \in ClaimSizes
    /\ range.starting <= claims[i].first
    /\ claims[i].first + claims[i].num <= allocator.nextPort

ClaimsInOrder ==
  \A i, j \in 1 .. Len(claims) :
    i < j => claims[i].first + claims[i].num <= claims[j].first

ClaimsTile ==
  range.set => ClaimedPorts = range.starting .. (allocator.nextPort - 1)

IInv ==
  /\ TypeOK
  /\ CursorInRange
  /\ ClaimsBehindCursor
  /\ ClaimsInOrder
  /\ ClaimsTile
=============================================================================
