------------------------------ MODULE PortPool ------------------------------
(***************************************************************************)
(* What a port allocator promises its callers, as the comments of          *)
(* portauthority.go state it: a pool of ports from which each claim takes  *)
(* a block of consecutive ports, and which refuses a claim only when it no *)
(* longer holds that many.  There is no operation that gives ports back.   *)
(***************************************************************************)
EXTENDS Integers, FiniteSets

CONSTANT Ports,       \* the ports a pool may be created with are subsets of it
         Sizes        \* the numbers of ports a claim may ask for

VARIABLES open,       \* has the pool been created?
          free,       \* the ports nobody has been given
          granted     \* the blocks handed out, a set of sets

poolVars == <<open, free, granted>>

Init ==
  /\ open = FALSE
  /\ free = {}
  /\ granted = {}

Open ==
  /\ ~open
  /\ open' = TRUE
  /\ free' \in {a .. b : a, b \in Ports}
  /\ UNCHANGED granted

Grant(n) ==
  /\ open
  /\ \E a \in free :
       LET block == a .. (a + n - 1)
       IN  /\ block \subseteq free
           /\ free' = free \ block
           /\ granted' = granted \cup {block}
  /\ UNCHANGED open

\* A refusal changes nothing; that it happens only when the pool is short is
\* the caller's business (PortAuthority!ErrorIffShort).
Next ==
  \/ Open
  \/ \E n \in Sizes : Grant(n)

Spec == Init /\ [][Next]_poolVars
=============================================================================
