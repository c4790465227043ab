CONSTANTS
  r1 = r1
  r2 = r2
  t1 = t1
  t2 = t2
  Req <- OneReq
  Tx <- TwoTxs
  Amount <- OneEach
  Expected = 2
  LogIndex <- TwoIndexes
  MinConfirmations = 1
  Overlap = 2
  Expires = FALSE
  AutoSweep = FALSE
  MaxLag = 0
  ReorgDepth = 1
  MaxBlock = 4
  MaxReorgs = 1
  MaxErrors = 0
SPECIFICATION Spec
INVARIANTS CountedOnce
CHECK_DEADLOCK FALSE
