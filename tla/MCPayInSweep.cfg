CONSTANTS
  r1 = r1
  t1 = t1
  t2 = t2
  h1 = h1
  h2 = h2
  None = None
  Req <- OneReq
  Tick <- TwoTicks
  Hash <- TwoHashes
  Payment = 2
  Modes <- BothModes
  PartAmounts <- OnePart
  WaitForReceipt = TRUE
  AutoSweep = TRUE
  MaxPending = 1
  MaxGas = 2
  MaxRequests = 1
  MaxErrors = 1
CHECK_DEADLOCK FALSE
SPECIFICATION FairSpec
INVARIANTS RecordedSweepReal RetriesAccounted
PROPERTIES PaidReachesTreasury
