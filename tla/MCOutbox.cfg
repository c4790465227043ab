CONSTANTS
  e1 = e1
  e2 = e2
  d1 = d1
  d2 = d2
  None = None
  Event <- OneEvent
  Dispatcher <- TwoDispatchers
  RetryAttempts = 2
  BatchSize = 2
  MaxSlow = 2
  MaxErrors = 2
SPECIFICATION FairSpec
INVARIANTS TypeOK ClaimsBounded PostsBounded ReceivedBounded NoOrphans DeliveredWasReceived
PROPERTIES EventuallyFinal
