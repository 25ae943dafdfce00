SPECIFICATION Spec
CONSTANTS
  Resource = {1, 2}
  Machine = {1, 2}
  Destroyable = {}
  Repeated = {1}
  Synced = {1}
  Attempts = 1
  MaxFaults = 1
INVARIANTS OwnersAreTrue SeenIsKept
PROPERTIES FailedLeavesNoDemand
CHECK_DEADLOCK FALSE
