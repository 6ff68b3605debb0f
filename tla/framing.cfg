SPECIFICATION Spec
CONSTANTS
  Words <- FieldWords
  MaxText = 7
  MaxChunk = 2
  MaxConnections = 2
CHECK_DEADLOCK FALSE
INVARIANT EventsAreFramed
