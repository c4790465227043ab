CONSTANTS
  payer = payer
  treasuryAccount = treasuryAccount
  router = router
  s1 = s1
  tab1 = tab1
  tab2 = tab2
  None = None
  Account <- Accounts
  Router = router
  Treasury <- OneTreasury
  Ref <- OneSession
  Amount <- Amounts
  Deadline <- NoDeadline
  Customer = payer
  Tab <- TwoTabs
  Session <- OneSession
  Price = 1
  Purse = 2
  PermitTTL = 0
  HasPermit = TRUE
  DemoEnabled = TRUE
  MinConfirmations = 1
  MaxPolls = 2
  MaxBoots = 2
  MaxMishaps = 1
  MaxClock = 2
SPECIFICATION FairSpec
INVARIANTS ChargedOnce ShownIsSettled
PROPERTIES RevertsExplained ButtonComesBack
CHECK_DEADLOCK FALSE
