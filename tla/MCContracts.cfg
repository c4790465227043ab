CONSTANTS
  p1 = p1
  t1 = t1
  t2 = t2
  o1 = o1
  router = router
  vault = vault
  r1 = r1
  b1 = b1
  None = None
  NoBatch = NoBatch
  Account <- Accounts
  Router = router
  Vault = vault
  Treasury <- Treasuries
  Funder <- Treasuries
  Operator <- OneOperator
  Ref <- OneRef
  PayoutRef <- OneBatch
  Amount <- Amounts
  Deadline <- Deadlines
  Legs <- Batches
  MaxBatch = 2
  Payer <- OnePayer
  Recipient <- ToPayer
  Allowances <- FunderAllowances
  Funds <- OneFunds
  MaxTime = 2
  MaxGrants = 2
  MaxChanges = 2
SPECIFICATION Spec
INVARIANTS LogsAccountForFunds EachOnce BatchAllOrNothing
CHECK_DEADLOCK FALSE
