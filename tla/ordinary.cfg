SPECIFICATION FairSpec
CONSTANTS
  MaxAppends = 3
  Groups <- TwoContexts
  Interruptible = {2, 3}
  MaxRetries = 1
  MaxFaults = 1
INVARIANT OrdinaryTypeOK
INVARIANT AckedInOrder
INVARIANT BurstIsPrefix
INVARIANT OneRequestAtATime
INVARIANT OneContextPerRequest
INVARIANT NothingOutlivesItsCall
INVARIANT OverlapIsHarmless
INVARIANT NobodyIsForgotten
PROPERTY EveryAppendReturns
