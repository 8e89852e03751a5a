-------------------------------- MODULE PartsMC --------------------------------
(* Parts on small instances: two connections whose numbers wrap, two streams. *)
EXTENDS Parts, TLC

CONSTANTS c1, c2

IsnDef == (c1 :> 15) @@ (c2 :> 6)
Symmetry == Permutations(Stream) \cup Permutations(Frame)
=============================================================================
