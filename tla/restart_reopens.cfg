SPECIFICATION Spec
CONSTANTS
  Free = Free
  Timer = Timer
  Appends = {a1, a2}
  Sinks = {}
  Flushes = {}
  Detaches = {}
  Restarts = {r1}
  Closes = {c1}
  SinkLength = 2
  Interruptible = {}
  MaxEntries = 2
  MaxBatchBytes = 1
  MaxInFlight = 2
  AutoClaim = FALSE
  MaxSafe = 5
  MaxFaults = 0
  MaxForeign = 0
  CanStop = FALSE
  ServerEpoch <- Unknown
PROPERTY AdmissionStaysShut
