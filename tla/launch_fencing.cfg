\* Two control-plane processes and one launch: no lock joins them, so the lease
\* and the compare-and-swap protect the operation by themselves.
SPECIFICATION Spec
CONSTANTS
  Launch = {l1}
  Process = {p1, p2}
  NoLaunch = NoLaunch
  NoProcess = NoProcess
  Price = 2
  InitialBalance = 5
  MaxBalance = 6
  MaxFaults = 2
  MaxExternal = 1
SYMMETRY ProcessSymmetry
INVARIANTS SagaInv
PROPERTIES EvidenceIsDurable TerminalIsFinal
CHECK_DEADLOCK FALSE
