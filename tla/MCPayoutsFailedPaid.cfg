CONSTANTS
  p1 = p1
  p2 = p2
  r1 = r1
  r2 = r2
  h1 = h1
  h2 = h2
  h3 = h3
  None = None
  Payout <- TwoPayouts
  Req <- OneReq
  Hash <- ThreeHashes
  MinConfirmations = 1
  WaitForReceipt = TRUE
  VaultConfigured = TRUE
  MaxFaults = 1
  MaxCrashes = 0
SPECIFICATION Spec
INVARIANTS FailedBatchUnpaid
