SPECIFICATION FairSpec
CONSTANTS
  Free = Free
  Timer = Timer
  Appends = {a1}
  Sinks = {s1}
  Flushes = {}
  Detaches = {}
  Restarts = {}
  Closes = {c1, c2}
  SinkLength = 1
  Interruptible = {c1}
  MaxEntries = 2
  MaxBatchBytes = 2
  MaxInFlight = 1
  AutoClaim = TRUE
  MaxSafe = 5
  MaxFaults = 1
  MaxForeign = 0
  CanStop = TRUE
  ServerEpoch = 3
INVARIANT TupleNamesOneBody
INVARIANT CloseIsLast
PROPERTY AdmissionStaysShut
PROPERTY CallsReturn
