--------------------------- MODULE DumpLifecycleMC ---------------------------
(* DumpLifecycle on a small instance: two requests, two dumps. *)
EXTENDS DumpLifecycle, TLC

Symmetry == Permutations(Request) \cup Permutations(File)
=============================================================================
