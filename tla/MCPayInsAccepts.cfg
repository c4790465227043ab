CONSTANTS
  r1 = r1
  r2 = r2
  t1 = t1
  t2 = t2
  Req <- TwoReqs
  Tx <- TwoTxs
  Amount <- OneEach
  Expected = 1
  LogIndex <- OneIndex
  MinConfirmations = 1
  Overlap = 1
  Expires = FALSE
  AutoSweep = FALSE
  MaxLag = 0
  ReorgDepth = 0
  MaxBlock = 3
  MaxReorgs = 0
  MaxErrors = 0
SPECIFICATION Spec
INVARIANTS AcceptedIsConfirmed
CHECK_DEADLOCK FALSE
