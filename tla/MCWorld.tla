------------------------------ MODULE MCWorld ------------------------------
(***************************************************************************)
(* World for TLC: one process that runs the whole cell suite, of which     *)
(* every spec starts garden.                                               *)
(***************************************************************************)
EXTENDS World

GardenSpec == {<<"garden">>}

OnlyOne == {1}
WholeSuite == [p \in OnlyOne |-> 147]
=============================================================================
