------------------------- MODULE MCWorkspaceRenewal -------------------------
(* TLC instances of WorkspaceRenewal.                                      *)
EXTENDS WorkspaceRenewal, TLC

CONSTANT MaxWork  \* bound on what a behaviour combines, Work

\* Processes are interchangeable.
ProcessSymmetry == Permutations(Process)

\* Failures, outside changes, cancellations, a second period and a second worker
\* that overtakes the first: each by itself and any few of them together.  A second
\* failure is counted with the period: a write at the expiry and the read after it.
Work ==
  faults + external + requests + (IF now < 2 \/ faults > 1 THEN 0 ELSE 1)
    + Cardinality({p \in Process : handler[p].pc # "idle"})

\* Spec as far as the bound.
BoundedNext == Next /\ Work' <= MaxWork
BoundedSpec == Init /\ [][BoundedNext]_vars
=============================================================================
