SPECIFICATION Spec
CONSTANTS
  Free = Free
  Timer = Timer
  Appends = {a1, a2, a3, a4}
  Sinks = {}
  Flushes = {}
  Detaches = {}
  Restarts = {}
  Closes = {}
  SinkLength = 2
  Interruptible = {a1}
  MaxEntries = 4
  MaxBatchBytes = 2
  MaxInFlight = 1
  AutoClaim = FALSE
  MaxSafe = 5
  MaxFaults = 0
  MaxForeign = 0
  CanStop = FALSE
  ServerEpoch <- Unknown
INVARIANT DeliveryOwnedByProducer
