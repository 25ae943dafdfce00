SPECIFICATION FairSpec
CONSTANTS
  Resource = {1}
  Machine = {1, 2}
  Destroyable = {1}
  Repeated = {1}
  Synced = {}
  Attempts = 1
  MaxFaults = 1
INVARIANTS DestroyedIsSettled
PROPERTIES CreationSettles
CHECK_DEADLOCK FALSE
