--------------------------- MODULE MCKeyRotation ---------------------------
(* Three rotations of one Workspace's key, requested side by side. *)
EXTENDS KeyRotation, TLC

Symmetric == Permutations(Caller)
=============================================================================
