---------------------------- MODULE MCFabricJobs ----------------------------
(* One job, runners and keys as model values. *)
EXTENDS FabricJobs, TLC

RunnersAndKeys == Permutations(Runner) \cup Permutations(Key)
=============================================================================
