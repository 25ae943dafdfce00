------------------------- MODULE MCWorkspaceLaunch -------------------------
(***************************************************************************)
(* Instances of WorkspaceLaunch for TLC.                                   *)
(***************************************************************************)
EXTENDS WorkspaceLaunch, TLC

\* Processes are interchangeable.
ProcessSymmetry == Permutations(Process)
=============================================================================
