-------------------------- MODULE SocketOwnershipMC --------------------------
(* SocketOwnership on a small instance; process ids are interchangeable. *)
EXTENDS SocketOwnership, TLC

Symmetry == Permutations(Pid)
=============================================================================
