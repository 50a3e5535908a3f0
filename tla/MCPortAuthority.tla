-------------------------- MODULE MCPortAuthority --------------------------
(***************************************************************************)
(* PortAuthority with uint4 ports (MaxPort = 15): every wrap of the uint16 *)
(* arithmetic has its uint4 counterpart, and TLC can enumerate the ranges. *)
(***************************************************************************)
EXTENDS PortAuthority

SomePorts == 0 .. 5
\* 16 is the ending port New refuses.
SomeEndings == {5, 8, 11, 16}
Sizes == {1, 2, 4}

TopRange == {15}
=============================================================================
