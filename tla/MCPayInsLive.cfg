CONSTANTS
  r1 = r1
  r2 = r2
  t1 = t1
  t2 = t2
  Req <- TwoReqs
  Tx <- TwoTxs
  Amount <- OneEach
  Expected = 2
  LogIndex <- OneIndex
  MinConfirmations = 1
  Overlap = 1
  Expires = FALSE
  AutoSweep = FALSE
  MaxLag = 0
  ReorgDepth = 0
  MaxBlock = 5
  MaxReorgs = 0
  MaxErrors = 0
SPECIFICATION FairSpec
INVARIANTS ConfirmedIsPaid
PROPERTIES EventuallyConfirmed ConfirmedIsAnnounced
CHECK_DEADLOCK FALSE
