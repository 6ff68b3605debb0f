SPECIFICATION Spec
CONSTANTS
  Free = Free
  Timer = Timer
  Appends = {a1, a2}
  Sinks = {}
  Flushes = {f1}
  Detaches = {}
  Restarts = {}
  Closes = {}
  SinkLength = 2
  Interruptible = {}
  MaxEntries = 2
  MaxBatchBytes = 2
  MaxInFlight = 2
  AutoClaim = FALSE
  MaxSafe = 5
  MaxFaults = 0
  MaxForeign = 0
  CanStop = TRUE
  ServerEpoch <- Unknown
INVARIANT FlushComplete
