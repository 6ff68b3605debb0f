SPECIFICATION Spec
CONSTANTS
  Free = Free
  Timer = Timer
  Appends = {a1}
  Sinks = {s1}
  Flushes = {f1}
  Detaches = {}
  Restarts = {}
  Closes = {}
  SinkLength = 2
  Interruptible = {}
  MaxEntries = 3
  MaxBatchBytes = 2
  MaxInFlight = 2
  AutoClaim = FALSE
  MaxSafe = 5
  MaxFaults = 1
  MaxForeign = 1
  CanStop = FALSE
  ServerEpoch <- Unknown
INVARIANT TypeOK
INVARIANT ExactlyOnce
INVARIANT FlushComplete
INVARIANT ReorderingIsHarmless
PROPERTY ImplementsAppendLog
