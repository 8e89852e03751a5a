----------------------------- MODULE NameCacheMC -----------------------------
(* NameCache on a small instance: two runs of the program, two names. *)
EXTENDS NameCache, TLC

Symmetry == Permutations(Instance) \cup Permutations(Name)
=============================================================================
