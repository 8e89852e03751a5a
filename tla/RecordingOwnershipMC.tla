------------------------- MODULE RecordingOwnershipMC -------------------------
(* RecordingOwnership on a small instance: one pid that can be reused. *)
EXTENDS RecordingOwnership, TLC

Symmetry == Permutations(Pid)
=============================================================================
