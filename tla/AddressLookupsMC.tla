--------------------------- MODULE AddressLookupsMC ---------------------------
(* AddressLookups on a small instance: one public address and a special one. *)
EXTENDS AddressLookups, TLC

CONSTANTS a1, a2, c1, c2

RemoteDef == (c1 :> a1) @@ (c2 :> a2)
Symmetry == Permutations(Name)
=============================================================================
