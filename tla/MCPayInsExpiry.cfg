CONSTANTS
  r1 = r1
  r2 = r2
  t1 = t1
  t2 = t2
  Req <- OneReq
  Tx <- TwoTxs
  Amount <- OneEach
  Expected = 2
  LogIndex <- OneIndex
  MinConfirmations = 1
  Overlap = 1
  Expires = TRUE
  AutoSweep = FALSE
  MaxLag = 0
  ReorgDepth = 0
  MaxBlock = 4
  MaxReorgs = 0
  MaxErrors = 0
SPECIFICATION FairSpec
PROPERTIES PaymentNoticed
CHECK_DEADLOCK FALSE
