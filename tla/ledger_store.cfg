CONSTANTS
  Client = {c1, c2}
  Request <- AllRequests
  Id = {1, 2}
  MaxTime = 2
SPECIFICATION Spec
INVARIANTS ToldIsKept OneAnswerPerKey OneActivePolicy
PROPERTIES RetentionHolds ActsAsMemory
SYMMETRY Symmetric
CONSTRAINT OneKind
