SPECIFICATION LiveSpec
CONSTANTS
  Caller = {c1,c2}
  Action = {create,destroy}
  Destroy = {destroy}
  Hash = {h1,h2}
  Result = {v1}
  Stale = 1
  MaxTime = 2
INVARIANTS WorkIsSpaced ToldIsKept
PROPERTIES RecordedByOwner ClaimsSettle
CHECK_DEADLOCK FALSE
