--------------------------- MODULE PortAllocator ---------------------------
(***************************************************************************)
(* The arithmetic of helpers/portauthority/portauthority.go: a port        *)
(* allocator is a pair of uint16 cursors, and both of its operations       *)
(* compute in uint16, so every sum wraps at MaxPort + 1.  The operators    *)
(* here are pure; PortAuthority makes a state machine of one allocator and *)
(* World composes one allocator per test process.                          *)
(***************************************************************************)
EXTENDS Integers

CONSTANT MaxPort      \* the largest uint16, 65535 in the code

\* 65535 in the code.
ASSUME MaxPortAssumption == MaxPort \in Nat

Port == 0 .. MaxPort

\* Mutant: int16 instead of uint16.
U16Signed(x) == IF x > MaxPort \div 2 THEN x - (MaxPort + 1) ELSE x

\* Go's conversion uint16(x): the value modulo 2^16, negative values included.
U16(x) == x % (MaxPort + 1)

\* type portAllocator struct
Allocator == [nextPort : Port, endingPort : Port]

\* New refuses an ending port above the maximum and checks nothing else.
NewRefuses(endingPort) == endingPort > MaxPort

New(startingPort, endingPort) ==
  [nextPort |-> U16(startingPort), endingPort |-> U16(endingPort)]

\* Mutants: the check looks at the first port only; the last port is refused.
InsufficientFirstOnly(p, numPorts) == p.endingPort < p.nextPort
InsufficientEarly(p, numPorts) ==
  p.endingPort <= U16(p.nextPort + U16(numPorts - 1))

\* The check of ClaimPorts, in uint16: are there numPorts ports left?
Insufficient(p, numPorts) ==
  p.endingPort < U16(p.nextPort + U16(numPorts - 1))

\* Mutants: the cursor moves one port too little, or too much.
ClaimedShort(p, numPorts) ==
  [p EXCEPT !.nextPort = U16(p.nextPort + U16(numPorts - 1))]
ClaimedLong(p, numPorts) ==
  [p EXCEPT !.nextPort = U16(p.nextPort + U16(numPorts + 1))]

\* The allocator after a ClaimPorts that returned p.nextPort and no error.
Claimed(p, numPorts) ==
  [p EXCEPT !.nextPort = U16(p.nextPort + U16(numPorts))]

\* "The first claimed port is returned, and the next numPorts-1 ports
\* sequentially after that are yours to use."
Block(first, numPorts) == first .. (first + numPorts - 1)
=============================================================================
