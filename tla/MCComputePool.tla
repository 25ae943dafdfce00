--------------------------- MODULE MCComputePool ---------------------------
(* The allocator over a few allocations and machines. *)
EXTENDS ComputePool
=============================================================================
