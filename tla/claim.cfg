SPECIFICATION Spec
CONSTANTS
  Free = Free
  Timer = Timer
  Appends = {a1, a2, a3}
  Sinks = {}
  Flushes = {}
  Detaches = {d1}
  Restarts = {r1, r2}
  Closes = {}
  SinkLength = 2
  Interruptible = {}
  MaxEntries = 3
  MaxBatchBytes = 1
  MaxInFlight = 2
  AutoClaim = TRUE
  MaxSafe = 4
  MaxFaults = 1
  MaxForeign = 0
  CanStop = FALSE
  ServerEpoch = 3
INVARIANT TupleNamesOneBody
INVARIANT LogIsPrefix
INVARIANT NeverStuck
