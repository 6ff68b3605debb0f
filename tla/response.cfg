SPECIFICATION FairSpec
CONSTANTS
  Views <- AllViews
  MaxBatches = 3
  MaxUnits = 2
CHECK_DEADLOCK FALSE
INVARIANT ResponseTypeOK
INVARIANT MetadataIsDelivered
INVARIANT ClosedJoinsCleanup
INVARIANT ClosedTellsFailures
PROPERTY NothingAfterCancel
PROPERTY EndSettlesAll
