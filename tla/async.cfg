SPECIFICATION FairSpec
CONSTANTS
  Flushes = {}
  Detaches = {d1}
  Closes = {c1}
  Restarts = {r1}
  Free = Free
  BatchSize = 2
  MaxInFlight = 2
  MaxAppends = 3
  MaxFaults = 1
INVARIANT AsyncTypeOK
INVARIANT LogInCallOrder
INVARIANT CallsAreHarmless
PROPERTY FlushLeavesNothing
PROPERTY AsyncCallsReturn
CHECK_DEADLOCK FALSE
