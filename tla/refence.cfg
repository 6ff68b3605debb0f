SPECIFICATION Spec
CONSTANTS
  Free = Free
  Timer = Timer
  Appends = {a1, a2, a3}
  Sinks = {}
  Flushes = {}
  Detaches = {}
  Restarts = {}
  Closes = {}
  SinkLength = 2
  Interruptible = {}
  MaxEntries = 3
  MaxBatchBytes = 1
  MaxInFlight = 2
  AutoClaim = TRUE
  MaxSafe = 5
  MaxFaults = 0
  MaxForeign = 1
  CanStop = FALSE
  ServerEpoch <- Unknown
INVARIANT ExactlyOnce
