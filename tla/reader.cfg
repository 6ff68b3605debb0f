SPECIFICATION FairSpec
CONSTANTS
  Modes <- ReaderModes
  Widths = {1, 2}
  MaxRetries = 1
  MaxShort = 2
  MaxLog = 3
  MaxSessions = 2
  MaxLongDrops = 1
CHECK_DEADLOCK FALSE
INVARIANT ReadTypeOK
INVARIANT DeliveredInOrder
INVARIANT CheckpointIsDelivered
INVARIANT TextIsNeverGarbled
INVARIANT EndIsExact
PROPERTY EverythingArrives
PROPERTY ImplementsReader
