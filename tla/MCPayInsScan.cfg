CONSTANTS
  r1 = r1
  r2 = r2
  t1 = t1
  t2 = t2
  Req <- TwoReqs
  Tx <- TwoTxs
  Amount <- NoneAndTwo
  Expected = 1
  LogIndex <- OneIndex
  MinConfirmations = 1
  Overlap = 1
  Expires = TRUE
  AutoSweep = TRUE
  MaxLag = 1
  ReorgDepth = 1
  MaxBlock = 3
  MaxReorgs = 1
  MaxErrors = 1
SPECIFICATION Spec
SYMMETRY Symmetry
INVARIANTS TypeOK NoTransferMissed
CHECK_DEADLOCK FALSE
